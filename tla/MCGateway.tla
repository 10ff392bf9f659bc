----------------------------- MODULE MCGateway -----------------------------
(* Small instances of Gateway.                                             *)
EXTENDS Gateway, TLC

\* Requests are interchangeable, and so are stamps; not used where liveness
\* is checked.
Same == Permutations(Requests) \cup Permutations(Stamps)
=============================================================================
