---------------------------- MODULE MCRateBucket ----------------------------
(* A small instance of RateBucket.                                         *)
EXTENDS RateBucket, TLC

Same == Permutations(Callers)
=============================================================================
