---------------------------- MODULE MCCheckpoints ----------------------------
(* Finite instances of Checkpoints.                                        *)
EXTENDS Checkpoints, TLC

Apart == {{"git"}}
Overlapping == {{"index"}}
Same == Permutations(Contents) \cup Permutations(Paths) \cup Permutations(Procs)
=============================================================================
