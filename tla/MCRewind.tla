------------------------------ MODULE MCRewind -------------------------------
(* Finite instances of Rewind. *)
EXTENDS Rewind
=============================================================================
