-------------------------------- MODULE Lease --------------------------------
(***************************************************************************)
(* What a row with a time stamp is meant to be: a lock that is not lost    *)
(* with its holder.  One party at a time works under it; it can be taken   *)
(* when it is free or has lapsed, and it does not lapse, nor is it given   *)
(* back, while somebody works under it.  The claim of Provisioning and the *)
(* slot of Gateway are such leases; tokens, time stamps, ages and the      *)
(* calls made under them are theirs.                                       *)
(***************************************************************************)
CONSTANTS Parties, Grants, NoGrant

VARIABLES
    working,    \* the parties at work under the lease
    grant,      \* the grant that is out, if any
    lapsed      \* it may be granted anew

vars == <<working, grant, lapsed>>

Init == working = {} /\ grant = NoGrant /\ lapsed = FALSE

\* A grant unlike the one that is out.
Renewed ==
    /\ working = {}
    /\ grant = NoGrant \/ lapsed
    /\ grant' \in Grants \ {grant}
    /\ lapsed' = FALSE

Take(p) == Renewed /\ working' = {p}

\* Granted to one that never learns of it.
TakeUnheard == Renewed /\ UNCHANGED working

\* Done, given up or dead; the grant is still out.
Stop(p) ==
    /\ p \in working /\ working' = working \ {p}
    /\ UNCHANGED <<grant, lapsed>>

GiveBack ==
    /\ working = {} /\ grant # NoGrant
    /\ grant' = NoGrant /\ lapsed' = FALSE
    /\ UNCHANGED working

Lapse ==
    /\ working = {} /\ grant # NoGrant
    /\ lapsed' = TRUE
    /\ UNCHANGED <<working, grant>>

Next ==
    \/ \E p \in Parties : Take(p) \/ Stop(p)
    \/ TakeUnheard \/ GiveBack \/ Lapse

Spec == Init /\ [][Next]_vars
=============================================================================
