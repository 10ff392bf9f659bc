---------------------------- MODULE Provisioning ----------------------------
(***************************************************************************)
(* Creating the Free subscription of one account, once.  Two programs do   *)
(* it, the gateway (apps/server/lib/entitlement.ts) and the portal         *)
(* (apps/portal/lib/provisioning.ts), in any number of concurrent requests;*)
(* they share the claim row of packages/provisioning.  Polar, the billing  *)
(* provider, is external: it keeps the customer and its subscriptions, has *)
(* no idempotency key and creates a second subscription when asked twice.  *)
(*                                                                         *)
(* A request is one caller.  One action is what it does between two awaits;*)
(* `awaited' names the call it awaits.  Time is counted in ticks: a call   *)
(* with a timeoutMs settles within its limit, one without may take for     *)
(* ever.  The gateway makes one of those while it holds a claim, its       *)
(* lookup of the user's email; `late' keeps who spent more on it than the  *)
(* stale window has room for.                                              *)
(***************************************************************************)
EXTENDS Integers, FiniteSets

CONSTANTS
    Servers,        \* requests of the gateway: resolveEntitlement
    Portals,        \* renders of the portal: ensureProvisioned
    Tokens,         \* claim tokens (UUIDs)
    NoToken,        \* no token
    StaleAfter,     \* STALE_CLAIM_MS
    CallTimeout     \* POLAR_CALL_TIMEOUT_MS

VARIABLES
    awaited,        \* the call each request awaits
    existing,       \* whether its first read found the customer
    token,          \* the claim token it was given
    left,           \* ticks before its bounded call has settled, or before
                    \* its lookup under a claim is late
    late,           \* history: the creators whose lookup was late
    claim,          \* the account's row of provisioning_claims, if any
    customer,       \* Polar has the customer
    free,           \* how many Free subscriptions it holds there
    other           \* it holds a subscription to something else

claimVars ==
    <<awaited, existing, token, left, late, claim, customer, free, other>>

Callers == Servers \cup Portals
NoClaim == [token |-> NoToken, age |-> 0]
States == {"idle", "reading", "lookup", "customer", "rereading", "claiming",
           "creating", "completing", "releasing"}

\* What the stale window leaves for fetchUserEmail, which has no time limit:
\* all of it but the three calls a winner may make as well, to create the
\* customer, to read it again when that fails, to create the subscription.
LookupRoom == StaleAfter - 3 * CallTimeout
MaxLeft == CallTimeout + LookupRoom

ASSUME CallerKinds == Servers \cap Portals = {}
ASSUME TokenKinds == NoToken \notin Tokens
ASSUME Times ==
    /\ StaleAfter \in Nat /\ CallTimeout \in Nat \ {0}
    /\ 3 * CallTimeout <= StaleAfter

ClaimInit ==
    /\ awaited = [c \in Callers |-> "idle"]
    /\ existing = [c \in Callers |-> FALSE]
    /\ token = [c \in Callers |-> NoToken]
    /\ left = [c \in Callers |-> 0]
    /\ late = {}
    /\ claim = NoClaim
    /\ customer \in BOOLEAN
    /\ other \in BOOLEAN /\ (other => customer)
    /\ free = 0

AtPolar == <<customer, free, other>>

Await(c, call) == awaited' = [awaited EXCEPT ![c] = call] /\ UNCHANGED late
AwaitBounded(c, call, limit) ==
    Await(c, call) /\ left' = [left EXCEPT ![c] = limit]
\* c has created what it could and deletes its claim.
Finish(c, call) ==
    /\ awaited' = [awaited EXCEPT ![c] = call]
    /\ left' = [left EXCEPT ![c] = 0] /\ late' = late \ {c}
Return(c) ==
    /\ awaited' = [awaited EXCEPT ![c] = "idle"] /\ late' = late \ {c}
    /\ existing' = [existing EXCEPT ![c] = FALSE]
    /\ token' = [token EXCEPT ![c] = NoToken]
    /\ left' = [left EXCEPT ![c] = 0]

\* c holds a claim and awaits a call that it makes to create something.
Creator(c) ==
    /\ token[c] # NoToken
    /\ awaited[c] \in {"lookup", "customer", "rereading", "creating"}

\* ...and its lookup, if it made one, left the stale window room for the rest.
Punctual(c) == Creator(c) /\ c \notin late

----------------------------------------------------------------------------
(* Reading the account.                                                    *)

\* No stored active plan answers the request: it asks Polar.
Start(c) ==
    /\ awaited[c] = "idle"
    /\ Await(c, "reading")
    /\ UNCHANGED <<existing, token, left, claim, AtPolar>>

\* An active subscription of any kind is reported, never added to.
Subscribed == other \/ free > 0

ReadSubscribed(c) ==
    /\ awaited[c] = "reading" /\ Subscribed
    /\ Return(c)
    /\ UNCHANGED <<claim, AtPolar>>

\* Nothing is held.  The portal first sees to the customer, without a claim;
\* a load that follows a change of plan (`fresh') stops here instead.
ReadNothing(c) ==
    /\ awaited[c] = "reading" /\ ~Subscribed
    /\ \/ /\ Await(c, IF c \in Portals /\ ~customer
                      THEN "customer" ELSE "claiming")
          /\ existing' = [existing EXCEPT ![c] = customer]
          /\ UNCHANGED <<token, left>>
       \/ c \in Portals /\ customer /\ Return(c)
    /\ UNCHANGED <<claim, AtPolar>>

----------------------------------------------------------------------------
(* The claim.                                                              *)

InUse == {claim.token} \cup {token[c] : c \in Callers}

Expired_Never == FALSE      \* variant: a claim is honoured for ever
Expired == claim.age > StaleAfter

\* insert ... on conflict do nothing, then the conditional update of a stale
\* row: each statement is atomic, and the update's condition includes what
\* the insert's conflict found.
CanClaim == claim = NoClaim \/ Expired

\* The gateway's winner goes on to the customer when its own earlier read
\* found none, though it may have appeared since; then the create fails and
\* is read again.  Every other winner creates the subscription.
WinClaim(c) ==
    /\ awaited[c] = "claiming" /\ CanClaim
    /\ \E t \in Tokens \ InUse :
          /\ claim' = [token |-> t, age |-> 0]
          /\ token' = [token EXCEPT ![c] = t]
    /\ IF c \in Servers /\ ~existing[c]
       THEN AwaitBounded(c, "lookup", LookupRoom)
       ELSE AwaitBounded(c, "creating", CallTimeout)
    /\ UNCHANGED <<existing, AtPolar>>

\* Another caller holds it: Free is reported and nothing is created.
LoseClaim(c) ==
    /\ awaited[c] = "claiming" /\ ~CanClaim
    /\ Return(c)
    /\ UNCHANGED <<claim, AtPolar>>

----------------------------------------------------------------------------
(* The customer.                                                           *)

EmailArrives(c) ==
    /\ awaited[c] = "lookup"
    /\ AwaitBounded(c, "customer", CallTimeout)
    /\ UNCHANGED <<existing, token, claim, AtPolar>>

\* With the customer seen to, the gateway holds its claim and creates the
\* subscription; the portal goes for the claim.
AfterCustomer(c) ==
    IF token[c] = NoToken
    THEN Await(c, "claiming") /\ UNCHANGED left
    ELSE AwaitBounded(c, "creating", CallTimeout)

CustomerCreated(c) ==
    /\ awaited[c] = "customer" /\ ~customer
    /\ customer' = TRUE
    /\ AfterCustomer(c)
    /\ UNCHANGED <<existing, token, claim, free, other>>

\* customers.create is rejected, because another request was first or for
\* any other reason, or times out with the customer created or not.
CustomerFails(c) ==
    /\ awaited[c] = "customer"
    /\ customer' \in {customer, TRUE}
    /\ AwaitBounded(c, "rereading",
                    IF token[c] = NoToken THEN 0 ELSE CallTimeout)
    /\ UNCHANGED <<existing, token, claim, free, other>>

\* The customer is there: the failure was a lost race.  The portal goes on
\* with the state it has just read, and stops if that holds a subscription.
CustomerIsThere(c) ==
    /\ awaited[c] = "rereading" /\ customer
    /\ IF token[c] = NoToken /\ Subscribed
       THEN Return(c)
       ELSE AfterCustomer(c) /\ UNCHANGED <<existing, token>>
    /\ UNCHANGED <<claim, AtPolar>>

\* It is not, or the read fails too.  A claim is handed back.
CustomerMissing(c) ==
    /\ awaited[c] = "rereading"
    /\ IF token[c] = NoToken
       THEN Return(c)
       ELSE Finish(c, "releasing") /\ UNCHANGED <<existing, token>>
    /\ UNCHANGED <<claim, AtPolar>>

----------------------------------------------------------------------------
(* The subscription, and the end of the claim.                             *)

SubscriptionCreated(c) ==
    /\ awaited[c] = "creating"
    /\ free' = free + 1
    /\ Finish(c, "completing")
    /\ UNCHANGED <<existing, token, claim, customer, other>>

\* Rejected, or timed out with the subscription created or not.
SubscriptionFails(c) ==
    /\ awaited[c] = "creating"
    /\ free' \in {free, free + 1}
    /\ Finish(c, "releasing")
    /\ UNCHANGED <<existing, token, claim, customer, other>>

Owns_Anyones(c) == TRUE     \* variant: the row is deleted by account alone
Owns(c) == claim.token = token[c]

\* completeProvisioning and releaseProvisioning: delete the row if it still
\* carries this caller's token.  The statement may also fail, which leaves
\* the row to go stale; it has no time limit of its own.
DeleteClaim(c) ==
    /\ awaited[c] \in {"completing", "releasing"}
    /\ claim' \in {claim, IF Owns(c) THEN NoClaim ELSE claim}
    /\ Return(c)
    /\ UNCHANGED AtPolar

----------------------------------------------------------------------------
(* The environment.                                                        *)

\* The platform ends the invocation, wherever it is.
Die(c) ==
    /\ awaited[c] # "idle"
    /\ Return(c)
    /\ UNCHANGED <<claim, AtPolar>>

\* A paid subscription ends and leaves nothing underneath.
Lapse ==
    /\ other /\ other' = FALSE
    /\ UNCHANGED <<awaited, existing, token, left, late, claim, customer, free>>

\* Time passes, unless a bounded call has to settle first.
CallsInTime ==
    \A c \in Callers : Creator(c) /\ awaited[c] # "lookup" => left[c] > 0

Tick ==
    /\ CallsInTime
    /\ left' = [c \in Callers |-> IF Creator(c) /\ left[c] > 0
                                 THEN left[c] - 1 ELSE left[c]]
    /\ late' = late \cup {c \in Callers : awaited[c] = "lookup" /\ left[c] = 0}
    /\ claim' = IF claim # NoClaim /\ claim.age <= StaleAfter
                THEN [claim EXCEPT !.age = @ + 1] ELSE claim
    /\ UNCHANGED <<awaited, existing, token, AtPolar>>

Settle(c) ==
    \/ ReadSubscribed(c) \/ ReadNothing(c)
    \/ WinClaim(c) \/ LoseClaim(c)
    \/ EmailArrives(c)
    \/ CustomerCreated(c) \/ CustomerFails(c)
    \/ CustomerIsThere(c) \/ CustomerMissing(c)
    \/ SubscriptionCreated(c) \/ SubscriptionFails(c)
    \/ DeleteClaim(c)

ClaimNext ==
    \/ \E c \in Callers : Start(c) \/ Settle(c) \/ Die(c)
    \/ Lapse \/ Tick

\* A request's calls settle or the platform ends it; time goes on.
ClaimSpec == ClaimInit /\ [][ClaimNext]_claimVars
FairSpec ==
    /\ ClaimSpec /\ WF_claimVars(Tick)
    /\ \A c \in Callers : WF_claimVars(Settle(c) \/ Die(c))

----------------------------------------------------------------------------
(* Properties.                                                             *)

ClaimTypeOK ==
    /\ awaited \in [Callers -> States]
    /\ existing \in [Callers -> BOOLEAN]
    /\ token \in [Callers -> Tokens \cup {NoToken}]
    /\ left \in [Callers -> 0..MaxLeft] /\ late \subseteq Callers
    /\ claim \in [token : Tokens \cup {NoToken}, age : Nat]
    /\ customer \in BOOLEAN /\ free \in Nat /\ other \in BOOLEAN

\* At no time are two requests creating under a claim: a claim is not taken
\* over from a caller whose call may still land.  This is what the comments of
\* the stale window say, and not so of a caller whose lookup is late (violated).
AtMostOneCreator ==
    \A c, d \in Callers : Creator(c) /\ Creator(d) => c = d

\* It is so of all the others, whatever the late ones do.
OnePunctualCreator ==
    \A c, d \in Callers : Punctual(c) /\ Punctual(d) => c = d

\* The claim is a lease for the calls that create the customer and the
\* subscription: it neither goes stale nor is deleted while a winner whose
\* lookup was not late creates, and one left by the dead, or by a winner that
\* was late, goes to the next, whose claim those do not end when they wake up.
Claim == INSTANCE Lease WITH Parties <- Callers, Grants <- Tokens, NoGrant <- NoToken,
            working <- {c \in Callers : Punctual(c)}, grant <- claim.token,
            lapsed <- Expired
ClaimIsALease == Claim!Spec

\* An account without a subscription is not locked out by a caller that died
\* or could not delete its row: requests that keep asking do not lose the
\* claim for ever with nobody creating anything.
NoLockOut ==
    []<><<\E c \in Callers : LoseClaim(c)>>_claimVars
        => []<>(\E c \in Callers : Creator(c))

\* The account never holds two Free subscriptions.  The comments of the claim
\* promise it; a request that read "nothing" before a whole claim came and
\* went takes the next one (violated).
OneFreeSubscription == free <= 1
=============================================================================
