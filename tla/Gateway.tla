------------------------------ MODULE Gateway ------------------------------
(***************************************************************************)
(* The gateway's requests of one account, handlePost of                    *)
(* apps/server/app/api/gateway/chat/completions/route.ts: the daily count  *)
(* (lib/quota.ts), the buckets and the Free plan's one slot                *)
(* (lib/rateLimit.ts, claim_concurrency_slot), the provisional usage row   *)
(* (lib/usageLedger.ts), the call to OpenRouter and the release.           *)
(*                                                                         *)
(* One action is what a request does between two awaits; `pc' names the    *)
(* call it awaits.  Requests share nothing but the database: the account's *)
(* rows of today and its slot, the row of active_requests.  Time is        *)
(* counted in ticks.                                                       *)
(***************************************************************************)
EXTENDS Integers, FiniteSets

CONSTANTS
    Requests,       \* the requests there can be at once
    Stamps,         \* started_at: the clock, never the same twice
    NoStamp,
    Free,           \* the plan is Free; else it is a paid one
    Cap,            \* FREE_DAILY_REQUEST_CAP or PAID_DAILY_REQUEST_CAP
    StaleAfter,     \* CONCURRENCY_STALE_SECONDS
    HoldLimit,      \* longest a request serves before it is done or killed
    Faults          \* what may go wrong

ASSUME Kinds ==
    /\ IsFiniteSet(Requests) /\ Requests # {}
    /\ NoStamp \notin Stamps /\ Free \in BOOLEAN
ASSUME Numbers == Cap \in Nat /\ StaleAfter \in Nat /\ HoldLimit \in Nat
ASSUME FaultKinds == Faults \subseteq {"claim errors", "release fails", "die"}

\* What the migration's comment asks for: the window "must sit comfortably
\* above realistic max stream duration".
MarginHolds == HoldLimit <= StaleAfter

VARIABLES
    pc,             \* the call each request awaits
    stamp,          \* the started_at its release captured
    left,           \* ticks before it is done or killed, once it has a slot
    slot,           \* the account's row of active_requests, if any
    recorded,       \* its rows of usage_events of today
    forwarded       \* the calls to OpenRouter made for them

vars == <<pc, stamp, left, slot, recorded, forwarded>>
usage == <<recorded, forwarded>>

NoSlot == [stamp |-> NoStamp, age |-> 0]
States == {"idle", "counting", "passed", "claiming", "inserting", "upstream",
           "generating", "releasing"}

Init ==
    /\ pc = [r \in Requests |-> "idle"]
    /\ stamp = [r \in Requests |-> NoStamp]
    /\ left = [r \in Requests |-> 0]
    /\ slot = NoSlot
    /\ recorded = 0 /\ forwarded = 0

Await(r, call) == pc' = [pc EXCEPT ![r] = call]
Leave(r) ==
    /\ Await(r, "idle")
    /\ stamp' = [stamp EXCEPT ![r] = NoStamp]
    /\ left' = [left EXCEPT ![r] = 0]

\* r has claimed the slot and is not done.
Holds(r) ==
    /\ stamp[r] # NoStamp
    /\ pc[r] \in {"inserting", "upstream", "generating"}

----------------------------------------------------------------------------
(* The gates.                                                              *)

\* Identity, body, plan and catalog are settled; the usage is queried.
Start(r) ==
    /\ pc[r] = "idle"
    /\ Await(r, "counting")
    /\ UNCHANGED <<stamp, left, slot, usage>>

UnderCap_OffByOne == recorded <= Cap        \* variant
UnderCap == recorded < Cap

\* countRequestsToday and decidePreflight.
Count(r) ==
    /\ pc[r] = "counting" /\ UnderCap
    /\ Await(r, "passed")
    /\ UNCHANGED <<stamp, left, slot, usage>>

\* The query fails, the count, the model or the spend is refused; or, once
\* these have passed, a bucket is empty.
Refuse(r) ==
    /\ pc[r] \in {"counting", "passed"}
    /\ Leave(r)
    /\ UNCHANGED <<slot, usage>>

\* The buckets let it through, or cannot be asked.
Admit(r) ==
    /\ pc[r] = "passed"
    /\ Await(r, IF Free THEN "claiming" ELSE "inserting")
    /\ UNCHANGED <<stamp, left, slot, usage>>

----------------------------------------------------------------------------
(* The slot.                                                               *)

InUse == {slot.stamp} \cup {stamp[r] : r \in Requests}
Fresh(t) == [stamp |-> t, age |-> 0]

Stale_Never == FALSE        \* variant: a slot is honoured for ever
Stale == slot.age > StaleAfter

CanClaim == slot = NoSlot \/ Stale

WinClaim(r) ==
    /\ pc[r] = "claiming" /\ CanClaim
    /\ \E t \in Stamps \ InUse :
          slot' = Fresh(t) /\ stamp' = [stamp EXCEPT ![r] = t]
    /\ left' = [left EXCEPT ![r] = HoldLimit]
    /\ Await(r, "inserting")
    /\ UNCHANGED usage

LoseClaim(r) ==
    /\ pc[r] = "claiming" /\ ~CanClaim
    /\ Leave(r)
    /\ UNCHANGED <<slot, usage>>

\* callRpcFailOpen: a claim that errors lets the request through without a
\* release.  The statement may have been carried out all the same.
ClaimErrors(r) ==
    /\ pc[r] = "claiming" /\ "claim errors" \in Faults
    /\ \/ UNCHANGED slot
       \/ CanClaim /\ \E t \in Stamps \ InUse : slot' = Fresh(t)
    /\ Await(r, "inserting")
    /\ UNCHANGED <<stamp, left, usage>>

\* The outer finally, and the end of a streamed body: whoever holds a release
\* runs it.
Finish(r) ==
    IF stamp[r] = NoStamp THEN Leave(r)
    ELSE Await(r, "releasing") /\ UNCHANGED <<stamp, left>>

SlotWithout_Any(t) == NoSlot        \* variant: DELETE by the user alone
SlotWithout(t) == IF slot.stamp = t THEN NoSlot ELSE slot

Release(r) ==
    /\ pc[r] = "releasing"
    /\ slot' = SlotWithout(stamp[r])
    /\ Leave(r)
    /\ UNCHANGED usage

\* The DELETE fails.  A cancelled stream may try once more, which is this
\* step not taken.
ReleaseFails(r) ==
    /\ pc[r] = "releasing" /\ "release fails" \in Faults
    /\ Leave(r)
    /\ UNCHANGED <<slot, usage>>

----------------------------------------------------------------------------
(* The call.                                                               *)

\* insertUsageEvent returns true and fetch is called.
Forward(r) ==
    /\ pc[r] = "inserting"
    /\ recorded' = recorded + 1 /\ forwarded' = forwarded + 1
    /\ Await(r, "upstream")
    /\ UNCHANGED <<stamp, left, slot>>

\* It returns false; the row may be there.  The request is refused.
InsertFails(r) ==
    /\ pc[r] = "inserting"
    /\ recorded' \in {recorded, recorded + 1}
    /\ Finish(r)
    /\ UNCHANGED <<slot, forwarded>>

\* Variant: the slot is given back with the response's first byte.
UpstreamAnswers_FirstByte(r) ==
    /\ pc[r] = "upstream"
    /\ Await(r, "generating")
    /\ slot' = SlotWithout(stamp[r])
    /\ UNCHANGED <<stamp, left, usage>>

\* An OK answer: its body is read here or, in a stream, by the client.
UpstreamAnswers(r) ==
    /\ pc[r] = "upstream"
    /\ Await(r, "generating")
    /\ UNCHANGED <<stamp, left, slot, usage>>

\* fetch rejects or the answer is not OK; or the body has been read, was
\* cancelled or broke off.
Done(r) ==
    /\ pc[r] \in {"upstream", "generating"}
    /\ Finish(r)
    /\ UNCHANGED <<slot, usage>>

\* The platform kills the invocation.
Die(r) ==
    /\ pc[r] # "idle" /\ "die" \in Faults
    /\ Leave(r)
    /\ UNCHANGED <<slot, usage>>

----------------------------------------------------------------------------
Least(a, b) == IF a <= b THEN a ELSE b

\* A slot that is stale is not told apart by how long it has been.
Tick ==
    /\ \A r \in Requests : Holds(r) => left[r] > 0
    /\ left' = [r \in Requests |-> IF left[r] > 0 THEN left[r] - 1 ELSE 0]
    /\ slot' = IF slot = NoSlot THEN NoSlot
               ELSE [slot EXCEPT !.age = Least(@ + 1, StaleAfter + 1)]
    /\ UNCHANGED <<pc, stamp, usage>>

\* startOfUtcDay moves on.
NewDay ==
    /\ recorded > 0
    /\ recorded' = 0 /\ forwarded' = 0
    /\ UNCHANGED <<pc, stamp, left, slot>>

Settle(r) ==
    \/ Count(r) \/ Refuse(r) \/ Admit(r)
    \/ WinClaim(r) \/ LoseClaim(r) \/ ClaimErrors(r)
    \/ Forward(r) \/ InsertFails(r) \/ UpstreamAnswers(r) \/ Done(r)
    \/ Release(r) \/ ReleaseFails(r)

Next ==
    \/ \E r \in Requests : Start(r) \/ Settle(r) \/ Die(r)
    \/ Tick \/ NewDay

Fairness ==
    /\ WF_vars(Tick)
    /\ \A r \in Requests : WF_vars(Settle(r) \/ Die(r))

Spec == Init /\ [][Next]_vars
FairSpec == Spec /\ Fairness

----------------------------------------------------------------------------
(* Properties.                                                             *)

TypeOK ==
    /\ pc \in [Requests -> States]
    /\ stamp \in [Requests -> Stamps \cup {NoStamp}]
    /\ left \in [Requests -> 0..HoldLimit]
    /\ slot \in [stamp : Stamps \cup {NoStamp}, age : 0..StaleAfter + 1]
    /\ recorded \in Nat /\ forwarded \in 0..recorded

\* The check of the daily cap and the row that counts are two statements with
\* the buckets and the slot in between.  The burst over the cap that route.ts
\* admits to (lines 158-164) is bounded all the same: of N requests at once,
\* at most N - 1 reach OpenRouter on rows beyond the cap, whatever fails.
BoundedBurst == forwarded <= Cap + Cardinality(Requests) - 1

\* max_parallel_requests = 1: with the margin, no two requests that hold a
\* claim generate at once, whoever dies, whatever release fails and however
\* late the DELETE of a slot long stolen arrives.
OneStream ==
    \A q, r \in Requests : Holds(q) /\ Holds(r) => q = r

\* Without the margin too, a slot is only ever lost to its holder's own
\* release or by going stale: the late release of one that was robbed leaves
\* the thief's slot alone.
LostOnlyWhenStale ==
    [][\A r \in Requests :
          stamp[r] # NoStamp /\ slot.stamp = stamp[r] /\ ~Stale
             => slot'.stamp = stamp[r] \/ pc[r] = "releasing"]_vars

\* With the margin, the slot is a lease for the Free plan's streams: nobody
\* takes it from a request that works, be it by a late DELETE or because it
\* went stale, and one whose request died or whose claim's answer was lost
\* goes to the next.
Slot == INSTANCE Lease WITH Parties <- Requests, Grants <- Stamps, NoGrant <- NoStamp,
            working <- {r \in Requests : Holds(r)}, grant <- slot.stamp, lapsed <- Stale
SlotIsALease == Slot!Spec

\* An account whose requests find the slot taken again and again is let
\* through again and again, though requests die and releases fail.
SlotComesBack ==
    []<><<\E r \in Requests : LoseClaim(r)>>_vars
        => []<><<\E r \in Requests : WinClaim(r) \/ ClaimErrors(r)>>_vars

\* "in the error case nothing was actually claimed, so there is nothing to
\* release" (rateLimit.ts, 192): when no request dies and no release fails,
\* every slot is some request's to release.
SlotsAreHeld == slot # NoSlot => \E r \in Requests : stamp[r] = slot.stamp
=============================================================================
