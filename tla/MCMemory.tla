------------------------------ MODULE MCMemory ------------------------------
\* Two processes, one file, entries of up to two words; a third word is refused.
EXTENDS Memory
CONSTANTS p1, p2, f1, one, two, key
MCSymmetry == Permutations(Procs) \cup Permutations(Words \ Flagged) 
=============================================================================
