--------------------------- MODULE GatewayProofs ---------------------------
(***************************************************************************)
(* The gateway's limits.  Three facts about any number of requests of one  *)
(* account:                                                                *)
(*   - the burst over the daily cap is bounded, with every fault;          *)
(*   - a slot is lost to its holder's release or by going stale alone;     *)
(*   - with the margin, one request that claimed the slot generates at a   *)
(*     time.                                                               *)
(*                                                                         *)
(* The burst is bounded because a request adds to it only when it passes   *)
(* the count: then fewer rows than Cap are there, and no more requests     *)
(* than there are can be between the count and their row.  The other two   *)
(* rest on stamps being distinct, and the last on the slot of a request    *)
(* being its own and young: its age and the time left add up to HoldLimit. *)
(***************************************************************************)
EXTENDS Gateway, RateBucket, FiniteSetTheorems, TLAPS

\* The requests between the count and their row.
Pending == {r \in Requests : pc[r] \in {"passed", "claiming", "inserting"}}

Counted ==
    recorded + Cardinality(Pending) <= Cap + Cardinality(Requests) - 1

Distinct ==
    \A q, r \in Requests :
        stamp[q] # NoStamp /\ stamp[q] = stamp[r] => q = r

\* A slot is won at the claim and not before.
Unclaimed ==
    \A r \in Requests :
        pc[r] \in {"idle", "counting", "passed", "claiming"}
            => stamp[r] = NoStamp

IInv == TypeOK /\ Distinct /\ Unclaimed /\ Counted

\* The slot of a request that generates.
Young ==
    \A r \in Requests : Holds(r) =>
        /\ slot.stamp = stamp[r]
        /\ slot.age + left[r] <= HoldLimit

----------------------------------------------------------------------------
(* Types.                                                                  *)

LEMMA TypeInit == Init => TypeOK
  BY Kinds, Numbers DEF Init, TypeOK, States, NoSlot

LEMMA LeaveType ==
  ASSUME TypeOK, NEW r \in Requests, Leave(r)
  PROVE  /\ pc' \in [Requests -> States]
         /\ stamp' \in [Requests -> Stamps \cup {NoStamp}]
         /\ left' \in [Requests -> 0..HoldLimit]
  BY Numbers DEF TypeOK, Leave, Await, States

LEMMA FinishType ==
  ASSUME TypeOK, NEW r \in Requests, Finish(r)
  PROVE  /\ pc' \in [Requests -> States]
         /\ stamp' \in [Requests -> Stamps \cup {NoStamp}]
         /\ left' \in [Requests -> 0..HoldLimit]
  <1>1. CASE stamp[r] = NoStamp
    BY <1>1, LeaveType DEF Finish
  <1>2. CASE stamp[r] # NoStamp
    BY <1>2 DEF Finish, Await, TypeOK, States
  <1> QED
    BY <1>1, <1>2

LEMMA SlotType ==
  /\ NoSlot \in [stamp : Stamps \cup {NoStamp}, age : 0..StaleAfter + 1]
  /\ \A t \in Stamps :
        Fresh(t) \in [stamp : Stamps \cup {NoStamp}, age : 0..StaleAfter + 1]
  BY Numbers DEF NoSlot, Fresh

LEMMA TypeStep ==
  ASSUME TypeOK, [Next]_vars
  PROVE  TypeOK'
  <1>1. ASSUME NEW r \in Requests, Start(r) \/ Count(r) \/ Admit(r) \/ UpstreamAnswers(r)
        PROVE  TypeOK'
    BY <1>1 DEF Start, Count, Admit, UpstreamAnswers, Await, TypeOK, States, usage
  <1>2. ASSUME NEW r \in Requests, Refuse(r) \/ LoseClaim(r) \/ ReleaseFails(r) \/ Die(r)
        PROVE  TypeOK'
    BY <1>2, LeaveType DEF Refuse, LoseClaim, ReleaseFails, Die, TypeOK, usage
  <1>3. ASSUME NEW r \in Requests, WinClaim(r)
        PROVE  TypeOK'
    BY <1>3, SlotType, Numbers DEF WinClaim, Await, TypeOK, States, usage
  <1>4. ASSUME NEW r \in Requests, ClaimErrors(r)
        PROVE  TypeOK'
    BY <1>4, SlotType DEF ClaimErrors, Await, TypeOK, States, usage
  <1>5. ASSUME NEW r \in Requests, Forward(r)
        PROVE  TypeOK'
    BY <1>5 DEF Forward, Await, TypeOK, States
  <1>6. ASSUME NEW r \in Requests, InsertFails(r)
        PROVE  TypeOK'
    BY <1>6, FinishType DEF InsertFails, TypeOK
  <1>7. ASSUME NEW r \in Requests, Done(r)
        PROVE  TypeOK'
    BY <1>7, FinishType DEF Done, TypeOK, usage
  <1>8. ASSUME NEW r \in Requests, Release(r)
        PROVE  TypeOK'
    BY <1>8, LeaveType, SlotType DEF Release, SlotWithout, TypeOK, usage
  <1>9. CASE Tick
    <2>1. left' \in [Requests -> 0..HoldLimit]
      BY <1>9, Numbers DEF Tick, TypeOK
    <2>2. slot' \in [stamp : Stamps \cup {NoStamp}, age : 0..StaleAfter + 1]
      BY <1>9, SlotType, Numbers DEF Tick, TypeOK, Least
    <2> QED
      BY <1>9, <2>1, <2>2 DEF Tick, TypeOK, usage
  <1>10. CASE NewDay
    BY <1>10 DEF NewDay, TypeOK
  <1>11. CASE UNCHANGED vars
    BY <1>11 DEF vars, TypeOK
  <1> QED
    BY <1>1, <1>2, <1>3, <1>4, <1>5, <1>6, <1>7, <1>8, <1>9, <1>10, <1>11
       DEF Next, Settle

----------------------------------------------------------------------------
(* Stamps.                                                                 *)

\* No step but a claim that is won gives a request a stamp.
LEMMA StampsFade ==
  ASSUME IInv, NEW r \in Requests, Settle(r) \/ Die(r) \/ Start(r), ~WinClaim(r)
  PROVE  \A q \in Requests : stamp'[q] \in {stamp[q], NoStamp}
  <1>1. Leave(r) \/ Finish(r) \/ UNCHANGED stamp
    BY DEF Settle, Die, Start, Count, Refuse, Admit, WinClaim, LoseClaim,
           ClaimErrors, Forward, InsertFails, UpstreamAnswers, Done, Release,
           ReleaseFails
  <1> QED
    BY <1>1 DEF Leave, Finish, IInv, TypeOK

LEMMA DistinctStep ==
  ASSUME IInv, [Next]_vars
  PROVE  Distinct'
  <1>1. ASSUME NEW r \in Requests, WinClaim(r)
        PROVE  Distinct'
    BY <1>1 DEF WinClaim, InUse, IInv, TypeOK, Distinct
  <1>2. ASSUME NEW r \in Requests, Settle(r) \/ Die(r) \/ Start(r), ~WinClaim(r)
        PROVE  Distinct'
    BY <1>2, StampsFade DEF IInv, Distinct
  <1>3. CASE UNCHANGED stamp
    BY <1>3 DEF IInv, Distinct
  <1> QED
    BY <1>1, <1>2, <1>3 DEF Next, Tick, NewDay, vars

LEMMA UnclaimedStep ==
  ASSUME IInv, [Next]_vars
  PROVE  Unclaimed'
  <1>1. ASSUME NEW r \in Requests, WinClaim(r)
        PROVE  Unclaimed'
    BY <1>1 DEF WinClaim, Await, IInv, TypeOK, Unclaimed
  <1>2. ASSUME NEW r \in Requests, Leave(r)
        PROVE  Unclaimed'
    BY <1>2 DEF Leave, Await, IInv, TypeOK, Unclaimed
  <1>3. ASSUME NEW r \in Requests, Finish(r)
        PROVE  Unclaimed'
    BY <1>2, <1>3 DEF Finish, Await, IInv, TypeOK, Unclaimed
  <1>4. ASSUME NEW r \in Requests,
               Start(r) \/ Count(r) \/ Admit(r) \/ ClaimErrors(r)
               \/ Forward(r) \/ UpstreamAnswers(r)
        PROVE  Unclaimed'
    BY <1>4 DEF Start, Count, Admit, ClaimErrors, Forward, UpstreamAnswers,
                Await, IInv, TypeOK, Unclaimed
  <1>5. CASE UNCHANGED <<pc, stamp>>
    BY <1>5 DEF IInv, Unclaimed
  <1> QED
    BY <1>1, <1>2, <1>3, <1>4, <1>5
       DEF Next, Settle, Die, Refuse, LoseClaim, InsertFails, Done, Release,
           ReleaseFails, Tick, NewDay, vars

----------------------------------------------------------------------------
(* The count.                                                              *)

LEMMA Cardinalities ==
  /\ Cardinality(Requests) \in Nat /\ Cardinality(Requests) > 0
  /\ \A S \in SUBSET Requests :
        IsFiniteSet(S) /\ Cardinality(S) \in Nat /\ Cardinality(S) <= Cardinality(Requests)
  BY Kinds, FS_CardinalityType, FS_Subset, FS_EmptySet

\* A step after which no more requests are pending and no more rows there.
LEMMA CountedFewer ==
  ASSUME IInv, Pending' \subseteq Pending, recorded' \in Nat, recorded' <= recorded
  PROVE  Counted'
  <1>1. Pending \in SUBSET Requests /\ IsFiniteSet(Pending) /\ recorded \in Nat
    BY Cardinalities DEF Pending, IInv, TypeOK
  <1>2. Cardinality(Pending') <= Cardinality(Pending)
    BY <1>1, FS_Subset
  <1>3. Pending' \in SUBSET Requests
    BY <1>1
  <1>4. Cardinality(Pending') \in Nat /\ Cardinality(Pending) \in Nat
    BY <1>1, <1>3, Cardinalities
  <1> QED
    BY <1>1, <1>2, <1>4, Cardinalities, Numbers DEF IInv, Counted

LEMMA CountCounted ==
  ASSUME IInv, NEW r \in Requests, Count(r)
  PROVE  Counted'
  <1>1. Pending' \in SUBSET Requests
    BY DEF Pending
  <1>2. Cardinality(Pending') \in Nat /\ Cardinality(Pending') <= Cardinality(Requests)
    BY <1>1, Cardinalities
  <1>3. recorded \in Nat /\ recorded' = recorded /\ recorded < Cap
    BY DEF IInv, TypeOK, Count, UnderCap, usage
  <1> QED
    BY <1>2, <1>3, Cardinalities, Numbers DEF Counted

\* A pending request leaves at most one row behind.
LEMMA InsertCounted ==
  ASSUME IInv, NEW r \in Requests, r \in Pending, Pending' = Pending \ {r},
         recorded' \in {recorded, recorded + 1}
  PROVE  Counted'
  <1>1. Pending \in SUBSET Requests
    BY DEF Pending
  <1>2. IsFiniteSet(Pending) /\ Cardinality(Pending) \in Nat
    BY <1>1, Cardinalities
  <1>3. Cardinality(Pending') = Cardinality(Pending) - 1
    BY <1>2, FS_RemoveElement
  <1>4. recorded \in Nat
    BY DEF IInv, TypeOK
  <1> QED
    BY <1>2, <1>3, <1>4, Cardinalities, Numbers DEF IInv, Counted

LEMMA CountedStep ==
  ASSUME IInv, [Next]_vars
  PROVE  Counted'
  <1>0. recorded \in Nat
    BY DEF IInv, TypeOK
  <1>1. ASSUME NEW r \in Requests, Count(r)
        PROVE  Counted'
    BY <1>1, CountCounted
  <1>2. ASSUME NEW r \in Requests, Forward(r)
        PROVE  Counted'
    <2>1. r \in Pending /\ Pending' = Pending \ {r}
      BY <1>2 DEF Forward, Await, Pending, IInv, TypeOK
    <2> QED
      BY <1>2, <2>1, InsertCounted DEF Forward
  <1>3. ASSUME NEW r \in Requests, InsertFails(r)
        PROVE  Counted'
    <2>1. r \in Pending /\ Pending' = Pending \ {r}
      BY <1>3 DEF InsertFails, Finish, Leave, Await, Pending, IInv, TypeOK
    <2> QED
      BY <1>3, <2>1, InsertCounted DEF InsertFails
  <1>4. ASSUME NEW r \in Requests,
               Refuse(r) \/ LoseClaim(r) \/ Release(r) \/ ReleaseFails(r) \/ Die(r)
        PROVE  Counted'
    <2>1. Pending' \subseteq Pending
      BY <1>4 DEF Refuse, LoseClaim, Release, ReleaseFails, Die, Leave, Await,
                  Pending, IInv, TypeOK
    <2>2. recorded' = recorded
      BY <1>4 DEF Refuse, LoseClaim, Release, ReleaseFails, Die, usage
    <2> QED
      BY <1>0, <2>1, <2>2, CountedFewer
  <1>5. ASSUME NEW r \in Requests,
               Start(r) \/ Admit(r) \/ WinClaim(r) \/ ClaimErrors(r)
               \/ UpstreamAnswers(r) \/ Done(r)
        PROVE  Counted'
    <2>1. Pending' \subseteq Pending
      BY <1>5 DEF Start, Admit, WinClaim, ClaimErrors, UpstreamAnswers, Done,
                  Finish, Leave, Await, Pending, IInv, TypeOK
    <2>2. recorded' = recorded
      BY <1>5 DEF Start, Admit, WinClaim, ClaimErrors, UpstreamAnswers, Done, usage
    <2> QED
      BY <1>0, <2>1, <2>2, CountedFewer
  <1>6. CASE Tick \/ NewDay \/ UNCHANGED vars
    <2>1. Pending' \subseteq Pending /\ recorded' \in {0, recorded}
      BY <1>6 DEF Tick, NewDay, vars, usage, Pending
    <2> QED
      BY <1>0, <2>1, CountedFewer
  <1> QED
    BY <1>1, <1>2, <1>3, <1>4, <1>5, <1>6 DEF Next, Settle

----------------------------------------------------------------------------
LEMMA InitIInv == Init => IInv
  <1> SUFFICES ASSUME Init PROVE IInv
    OBVIOUS
  <1>1. Distinct /\ Unclaimed
    BY DEF Init, Distinct, Unclaimed
  <1>2. Pending = {} /\ recorded = 0
    BY DEF Init, Pending
  <1>3. Counted
    BY <1>2, Cardinalities, FS_EmptySet, Numbers DEF Counted
  <1> QED
    BY <1>1, <1>3, TypeInit DEF IInv

LEMMA StepIInv == IInv /\ [Next]_vars => IInv'
  BY TypeStep, DistinctStep, UnclaimedStep, CountedStep DEF IInv

THEOREM Invariance == Spec => []IInv
  BY InitIInv, StepIInv, PTL DEF Spec

\* Every variable keeps its type; in particular no call is forwarded that has
\* no row.
THEOREM TypeCorrect == Spec => []TypeOK
  <1>1. IInv => TypeOK
    BY DEF IInv
  <1> QED
    BY <1>1, Invariance, PTL

\* However many requests race and whatever fails, an account's calls of a day
\* exceed its cap by fewer than there are requests at once.
THEOREM BurstIsBounded == Spec => []BoundedBurst
  <1>1. ASSUME IInv PROVE BoundedBurst
    <2>1. Pending \in SUBSET Requests
      BY DEF Pending
    <2>2. Cardinality(Pending) \in Nat
      BY <2>1, Cardinalities
    <2> QED
      BY <1>1, <2>2, Cardinalities, Numbers DEF IInv, TypeOK, Counted, BoundedBurst
  <1> QED
    BY <1>1, Invariance, PTL

----------------------------------------------------------------------------
(* The slot.                                                               *)

\* What a step does to the slot: a claim replaces one that can be claimed, a
\* release removes the releaser's, time leaves its stamp.
LEMMA SlotSteps ==
  ASSUME IInv, [Next]_vars
  PROVE  \/ slot'.stamp = slot.stamp
         \/ CanClaim
         \/ \E q \in Requests : Release(q) /\ slot.stamp = stamp[q]
  <1>1. ASSUME NEW q \in Requests, Release(q)
        PROVE  slot'.stamp = slot.stamp \/ slot.stamp = stamp[q]
    BY <1>1 DEF Release, SlotWithout
  <1>2. ASSUME NEW q \in Requests, Start(q) \/ Settle(q) \/ Die(q), ~Release(q)
        PROVE  slot' = slot \/ CanClaim
    BY <1>2 DEF Settle, Start, Die, Count, Refuse, Admit, WinClaim, LoseClaim,
                ClaimErrors, Forward, InsertFails, UpstreamAnswers, Done, ReleaseFails
  <1>3. CASE Tick
    BY <1>3 DEF Tick, IInv, TypeOK, NoSlot
  <1>4. CASE NewDay \/ UNCHANGED vars
    BY <1>4 DEF NewDay, vars
  <1> QED
    BY <1>1, <1>2, <1>3, <1>4 DEF Next

\* A late release of a robbed request leaves the thief's slot alone: only
\* its own holder, or its age, ends a slot.
THEOREM SlotsAreKept == Spec => LostOnlyWhenStale
  <1>1. ASSUME IInv, [Next]_vars, NEW r \in Requests,
               stamp[r] # NoStamp, slot.stamp = stamp[r], ~Stale
        PROVE  slot'.stamp = stamp[r] \/ pc[r] = "releasing"
    <2>1. ~CanClaim
      BY <1>1 DEF CanClaim, NoSlot
    <2>2. CASE slot'.stamp = slot.stamp
      BY <1>1, <2>2
    <2>3. ASSUME NEW q \in Requests, Release(q), slot.stamp = stamp[q]
          PROVE  pc[r] = "releasing"
      BY <1>1, <2>3 DEF IInv, Distinct, Release
    <2> QED
      BY <1>1, <2>1, <2>2, <2>3, SlotSteps
  <1>2. IInv /\ [Next]_vars =>
          [\A r \in Requests :
              stamp[r] # NoStamp /\ slot.stamp = stamp[r] /\ ~Stale
                 => slot'.stamp = stamp[r] \/ pc[r] = "releasing"]_vars
    BY <1>1
  <1> QED
    BY <1>2, Invariance, PTL DEF Spec, LostOnlyWhenStale

----------------------------------------------------------------------------
(* One stream.                                                             *)

\* A holder's slot cannot be claimed.
LEMMA HolderBars ==
  ASSUME MarginHolds, IInv, Young, NEW q \in Requests, Holds(q)
  PROVE  ~CanClaim
  <1>1. /\ stamp[q] # NoStamp /\ slot.stamp = stamp[q]
        /\ slot.age + left[q] <= HoldLimit
    BY DEF Young, Holds
  <1>2. slot.age \in Nat /\ left[q] \in Nat
    BY Numbers DEF IInv, TypeOK
  <1>3. slot.age <= StaleAfter
    BY <1>1, <1>2, Numbers DEF MarginHolds
  <1> QED
    BY <1>1, <1>2, <1>3, Numbers DEF CanClaim, NoSlot, Stale

\* A step that makes no holder and leaves the slot.
LEMMA YoungKept ==
  ASSUME Young, slot' = slot,
         \A q \in Requests : Holds(q)' =>
             Holds(q) /\ stamp'[q] = stamp[q] /\ left'[q] = left[q]
  PROVE  Young'
  BY DEF Young

LEMMA YoungStep ==
  ASSUME MarginHolds, IInv, Young, [Next]_vars
  PROVE  Young'
  <1>1. ASSUME NEW r \in Requests, WinClaim(r)
        PROVE  Young'
    <2>1. \A q \in Requests : ~Holds(q)
      BY <1>1, HolderBars DEF WinClaim
    <2>2. \A q \in Requests : Holds(q)' => q = r
      BY <1>1, <2>1 DEF WinClaim, Await, Holds, IInv, TypeOK
    <2>3. PICK t \in Stamps \ InUse :
             slot' = Fresh(t) /\ stamp' = [stamp EXCEPT ![r] = t]
      BY <1>1 DEF WinClaim
    <2>4. slot'.stamp = stamp'[r] /\ slot'.age = 0 /\ left'[r] = HoldLimit
      BY <1>1, <2>3 DEF WinClaim, Fresh, IInv, TypeOK
    <2> QED
      BY <2>2, <2>4, Numbers DEF Young
  <1>2. ASSUME NEW r \in Requests, ClaimErrors(r)
        PROVE  Young'
    <2>1. \A q \in Requests : Holds(q)' =>
             Holds(q) /\ stamp'[q] = stamp[q] /\ left'[q] = left[q]
      BY <1>2 DEF ClaimErrors, Await, Holds, IInv, TypeOK, Unclaimed
    <2>2. CASE slot' = slot
      BY <2>1, <2>2, YoungKept
    <2>3. CASE CanClaim
      BY <2>1, <2>3, HolderBars DEF Young
    <2> QED
      BY <1>2, <2>2, <2>3 DEF ClaimErrors
  <1>3. ASSUME NEW r \in Requests, Release(r)
        PROVE  Young'
    <2>1. SUFFICES ASSUME NEW q \in Requests, Holds(q)'
                   PROVE  /\ slot'.stamp = stamp'[q]
                          /\ slot'.age + left'[q] <= HoldLimit
      BY DEF Young
    <2>2. q # r /\ Holds(q) /\ stamp'[q] = stamp[q] /\ left'[q] = left[q]
      BY <1>3, <2>1 DEF Release, Leave, Await, Holds, IInv, TypeOK
    <2>3. slot.stamp # stamp[r]
      BY <2>2 DEF Young, Holds, IInv, Distinct
    <2>4. slot' = slot
      BY <1>3, <2>3 DEF Release, SlotWithout
    <2> QED
      BY <2>2, <2>4 DEF Young
  <1>4. ASSUME NEW r \in Requests,
               \/ Start(r) \/ Count(r) \/ Admit(r) \/ Forward(r) \/ UpstreamAnswers(r)
               \/ Refuse(r) \/ LoseClaim(r) \/ ReleaseFails(r) \/ Die(r)
               \/ InsertFails(r) \/ Done(r)
        PROVE  Young'
    <2>1. slot' = slot
      BY <1>4 DEF Start, Count, Admit, Forward, UpstreamAnswers, Refuse,
                  LoseClaim, ReleaseFails, Die, InsertFails, Done
    <2>2. \A q \in Requests : Holds(q)' =>
             Holds(q) /\ stamp'[q] = stamp[q] /\ left'[q] = left[q]
      <3>1. CASE Leave(r)
        BY <3>1 DEF Leave, Await, Holds, IInv, TypeOK
      <3>2. CASE Await(r, "releasing") /\ UNCHANGED <<stamp, left>>
        BY <3>2 DEF Await, Holds, IInv, TypeOK
      <3>3. CASE Start(r) \/ Count(r) \/ Admit(r) \/ Forward(r) \/ UpstreamAnswers(r)
        BY <3>3 DEF Start, Count, Admit, Forward, UpstreamAnswers, Await,
                    Holds, IInv, TypeOK, Unclaimed
      <3> QED
        BY <1>4, <3>1, <3>2, <3>3
           DEF Refuse, LoseClaim, ReleaseFails, Die, InsertFails, Done, Finish
    <2> QED
      BY <2>1, <2>2, YoungKept
  <1>5. CASE Tick
    <2>1. SUFFICES ASSUME NEW q \in Requests, Holds(q)'
                   PROVE  /\ slot'.stamp = stamp'[q]
                          /\ slot'.age + left'[q] <= HoldLimit
      BY DEF Young
    <2>2. Holds(q) /\ stamp'[q] = stamp[q]
      BY <1>5, <2>1 DEF Tick, Holds
    <2>3. /\ stamp[q] # NoStamp /\ slot.stamp = stamp[q]
          /\ slot.age + left[q] <= HoldLimit
      BY <2>2 DEF Young, Holds
    <2>4. left[q] > 0 /\ left'[q] = left[q] - 1 /\ left[q] \in Nat /\ slot.age \in Nat
      BY <1>5, <2>2, Numbers DEF Tick, IInv, TypeOK
    <2>5. slot # NoSlot
      BY <2>3 DEF NoSlot
    <2>6. slot'.stamp = slot.stamp /\ slot'.age <= slot.age + 1 /\ slot'.age \in Nat
      BY <1>5, <2>4, <2>5, Numbers DEF Tick, Least, IInv, TypeOK
    <2> QED
      BY <2>2, <2>3, <2>4, <2>6, Numbers
  <1>6. CASE NewDay \/ UNCHANGED vars
    BY <1>6, YoungKept DEF NewDay, vars, Holds
  <1> QED
    BY <1>1, <1>2, <1>3, <1>4, <1>5, <1>6 DEF Next, Settle

\* Within the margin one request that claimed the slot generates at a time,
\* however many race, die, fail to release or lose their claim's answer.
THEOREM SlotBars ==
  ASSUME MarginHolds
  PROVE  Spec => []OneStream
  <1>1. Init => Young
    BY DEF Init, Young, Holds
  <1>2. IInv /\ Young /\ [Next]_vars => Young'
    BY YoungStep
  <1>3. IInv /\ Young => OneStream
    BY DEF IInv, Distinct, Young, OneStream, Holds
  <1> QED
    BY <1>1, <1>2, <1>3, Invariance, PTL DEF Spec

----------------------------------------------------------------------------
(* The slot is a lease.                                                    *)

Working == {r \in Requests : Holds(r)}

\* Without a row there is no age.
Empty == slot.stamp = NoStamp => slot = NoSlot

LEMMA EmptyStep == IInv /\ Empty /\ [Next]_vars => Empty'
  <1> SUFFICES ASSUME IInv, Empty, [Next]_vars PROVE Empty'
    OBVIOUS
  <1>1. CASE slot' = slot \/ slot' = NoSlot
    BY <1>1 DEF Empty
  <1>2. ASSUME NEW t \in Stamps, slot' = Fresh(t)
        PROVE  Empty'
    BY <1>2, Kinds DEF Empty, Fresh
  <1>3. CASE Tick
    BY <1>3 DEF Tick, Empty, IInv, TypeOK, NoSlot
  <1>4. CASE NewDay \/ UNCHANGED vars
    BY <1>1, <1>4 DEF NewDay, vars
  <1>5. ASSUME NEW r \in Requests, Start(r) \/ Settle(r) \/ Die(r)
        PROVE  \/ slot' = slot \/ slot' = NoSlot
               \/ \E t \in Stamps : slot' = Fresh(t)
    BY <1>5 DEF Settle, Start, Die, Count, Refuse, Admit, WinClaim, LoseClaim,
                ClaimErrors, Forward, InsertFails, UpstreamAnswers, Done,
                Release, SlotWithout, ReleaseFails
  <1> QED
    BY <1>1, <1>2, <1>3, <1>4, <1>5 DEF Next

\* A step that leaves the slot and after which nobody works who did not
\* before, and all others do, is a stop or hidden.
LEMMA WorkerStops ==
  ASSUME NEW r \in Requests, slot' = slot,
         \A q \in Requests \ {r} : Holds(q)' <=> Holds(q),
         Holds(r)' => Holds(r)
  PROVE  [Slot!Next]_(Slot!vars)
  <1>1. Working' = IF Holds(r)' = Holds(r) THEN Working ELSE Working \ {r}
    BY DEF Working
  <1>2. Stale' = Stale
    BY DEF Stale
  <1>3. CASE Working' = Working
    BY <1>2, <1>3 DEF Slot!vars, Working
  <1>4. CASE r \in Working /\ Working' = Working \ {r}
    <2>1. Slot!Stop(r)
      BY <1>2, <1>4 DEF Slot!Stop, Working
    <2> QED
      BY <2>1 DEF Slot!Next
  <1>5. Holds(r) /\ ~Holds(r)' => r \in Working
    BY DEF Working
  <1> QED
    BY <1>1, <1>3, <1>4, <1>5 DEF Working

\* A request's claim is granted when nobody works.
LEMMA ClaimTakes ==
  ASSUME MarginHolds, IInv, Young, NEW r \in Requests, WinClaim(r)
  PROVE  Slot!Take(r)
  <1>1. PICK t \in Stamps \ InUse :
           slot' = Fresh(t) /\ stamp' = [stamp EXCEPT ![r] = t]
    BY DEF WinClaim
  <1>2. Working = {}
    BY HolderBars DEF Working, WinClaim
  <1>3. Working' = {r}
    <2>1. \A q \in Requests : Holds(q)' => q = r
      BY <1>2 DEF WinClaim, Await, Holds, Working, IInv, TypeOK
    <2>2. Holds(r)'
      BY <1>1, Kinds DEF WinClaim, Await, Holds, IInv, TypeOK
    <2> QED
      BY <2>1, <2>2 DEF Working
  <1>4. slot'.stamp \in Stamps \ {slot.stamp} /\ ~Stale'
    BY <1>1, Numbers DEF Fresh, InUse, Stale
  <1>5. slot.stamp = NoStamp \/ Stale
    BY DEF WinClaim, CanClaim, NoSlot
  <1> QED
    BY <1>2, <1>3, <1>4, <1>5 DEF Slot!Take, Slot!Renewed, Working

\* A claim that errors: granted unheard, or nothing.
LEMMA ErrorTakes ==
  ASSUME MarginHolds, IInv, Young, NEW r \in Requests, ClaimErrors(r)
  PROVE  [Slot!Next]_(Slot!vars)
  <1>1. \A q \in Requests : Holds(q)' <=> Holds(q)
    BY DEF ClaimErrors, Await, Holds, IInv, TypeOK, Unclaimed
  <1>2. CASE slot' = slot
    BY <1>1, <1>2, WorkerStops
  <1>3. CASE CanClaim /\ \E t \in Stamps \ InUse : slot' = Fresh(t)
    <2>1. Working = {} /\ Working' = {}
      BY <1>1, <1>3, HolderBars DEF Working
    <2>2. slot'.stamp \in Stamps \ {slot.stamp} /\ ~Stale'
      BY <1>3, Numbers DEF Fresh, InUse, Stale
    <2>3. slot.stamp = NoStamp \/ Stale
      BY <1>3 DEF CanClaim, NoSlot
    <2>4. Slot!TakeUnheard
      BY <2>1, <2>2, <2>3 DEF Slot!TakeUnheard, Slot!Renewed, Working
    <2> QED
      BY <2>4 DEF Slot!Next
  <1> QED
    BY <1>2, <1>3 DEF ClaimErrors

\* A release that removes the slot finds nobody at work: who works has
\* another stamp, and it is the slot's.
LEMMA ReleaseGivesBack ==
  ASSUME IInv, Young, Empty, NEW r \in Requests, Release(r)
  PROVE  [Slot!Next]_(Slot!vars)
  <1>1. \A q \in Requests : Holds(q)' <=> Holds(q)
    BY DEF Release, Leave, Await, Holds, IInv, TypeOK
  <1>2. CASE slot' = slot
    BY <1>1, <1>2, WorkerStops
  <1>3. CASE slot' # slot
    <2>1. slot.stamp = stamp[r] /\ slot' = NoSlot
      BY <1>3 DEF Release, SlotWithout
    <2>2. ~Holds(r)
      BY DEF Release, Holds
    <2>3. Working = {} /\ Working' = {}
      BY <1>1, <2>1, <2>2 DEF Working, Young, Holds, IInv, Distinct
    <2>4. CASE slot.stamp = NoStamp
      BY <1>3, <2>1, <2>4 DEF Empty
    <2>5. CASE slot.stamp # NoStamp
      <3>1. slot'.stamp = NoStamp /\ ~Stale'
        BY <2>1, Numbers DEF NoSlot, Stale
      <3>2. Slot!GiveBack
        BY <2>3, <2>5, <3>1 DEF Slot!GiveBack, Working
      <3> QED
        BY <3>2 DEF Slot!Next
    <2> QED
      BY <2>4, <2>5
  <1> QED
    BY <1>2, <1>3

\* Time goes no further than the end of those at work: when the slot goes
\* stale there are none.
LEMMA TickLapses ==
  ASSUME MarginHolds, IInv, Young, Empty, Tick
  PROVE  [Slot!Next]_(Slot!vars)
  <1>1. Working' = Working
    BY DEF Tick, Working, Holds
  <1>2. slot'.stamp = slot.stamp /\ slot.age \in Nat
    BY DEF Tick, IInv, TypeOK, NoSlot
  <1>3. CASE Stale' = Stale
    BY <1>1, <1>2, <1>3 DEF Slot!vars, Working
  <1>4. CASE Stale' # Stale
    <2>1. slot # NoSlot /\ slot' = [slot EXCEPT !.age = Least(@ + 1, StaleAfter + 1)]
      BY <1>4 DEF Tick, Stale
    <2>2. slot.stamp # NoStamp
      BY <2>1 DEF Empty
    <2>3. slot'.age = Least(slot.age + 1, StaleAfter + 1)
      BY <2>1 DEF IInv, TypeOK
    <2>4. slot.age = StaleAfter /\ Stale'
      BY <1>2, <1>4, <2>3, Numbers DEF Stale, Least
    <2>5. ASSUME NEW q \in Requests, Holds(q)
          PROVE  FALSE
      <3>1. slot.age + left[q] <= HoldLimit /\ left[q] > 0 /\ left[q] \in Nat
        BY <2>5, Numbers DEF Young, Tick, IInv, TypeOK
      <3> QED
        BY <2>4, <3>1, Numbers DEF MarginHolds
    <2>6. Working = {}
      BY <2>5 DEF Working
    <2>7. Slot!Lapse
      BY <1>1, <1>2, <2>2, <2>4, <2>6 DEF Slot!Lapse, Working
    <2> QED
      BY <2>7 DEF Slot!Next
  <1> QED
    BY <1>3, <1>4

LEMMA LeaseStep ==
  ASSUME MarginHolds, IInv, Young, Empty, [Next]_vars
  PROVE  [Slot!Next]_(Slot!vars)
  <1>1. ASSUME NEW r \in Requests, WinClaim(r)
        PROVE  Slot!Next
    BY <1>1, ClaimTakes DEF Slot!Next
  <1>2. ASSUME NEW r \in Requests, ClaimErrors(r)
        PROVE  [Slot!Next]_(Slot!vars)
    BY <1>2, ErrorTakes
  <1>3. ASSUME NEW r \in Requests, Release(r)
        PROVE  [Slot!Next]_(Slot!vars)
    BY <1>3, ReleaseGivesBack
  <1>4. ASSUME NEW r \in Requests,
               \/ Start(r) \/ Count(r) \/ Admit(r) \/ Forward(r) \/ UpstreamAnswers(r)
               \/ Refuse(r) \/ LoseClaim(r) \/ ReleaseFails(r) \/ Die(r)
               \/ InsertFails(r) \/ Done(r)
        PROVE  [Slot!Next]_(Slot!vars)
    <2>1. slot' = slot
      BY <1>4 DEF Start, Count, Admit, Forward, UpstreamAnswers, Refuse,
                  LoseClaim, ReleaseFails, Die, InsertFails, Done
    <2>2. /\ \A q \in Requests \ {r} : Holds(q)' <=> Holds(q)
          /\ Holds(r)' => Holds(r)
      <3>1. CASE Leave(r)
        BY <3>1 DEF Leave, Await, Holds, IInv, TypeOK
      <3>2. CASE Await(r, "releasing") /\ UNCHANGED <<stamp, left>>
        BY <3>2 DEF Await, Holds, IInv, TypeOK
      <3>3. CASE Start(r) \/ Count(r) \/ Admit(r) \/ Forward(r) \/ UpstreamAnswers(r)
        BY <3>3 DEF Start, Count, Admit, Forward, UpstreamAnswers, Await,
                    Holds, IInv, TypeOK, Unclaimed
      <3> QED
        BY <1>4, <3>1, <3>2, <3>3
           DEF Refuse, LoseClaim, ReleaseFails, Die, InsertFails, Done, Finish
    <2> QED
      BY <2>1, <2>2, WorkerStops
  <1>5. CASE Tick
    BY <1>5, TickLapses
  <1>6. CASE NewDay \/ UNCHANGED vars
    BY <1>6 DEF NewDay, vars, Slot!vars, Holds, Stale
  <1> QED
    BY <1>1, <1>2, <1>3, <1>4, <1>5, <1>6 DEF Next, Settle

\* For any number of requests and every fault: within the margin the slot is
\* a lease, lost to nobody who works under it and to the dead only for a while.
THEOREM SlotLeases ==
  ASSUME MarginHolds
  PROVE  Spec => SlotIsALease
  <1>1. Init => Slot!Init /\ Young /\ Empty
    BY Numbers DEF Init, Young, Empty, Holds, NoSlot, Stale, Slot!Init
  <1>2. IInv /\ Young /\ Empty /\ [Next]_vars => Young' /\ Empty'
    BY YoungStep, EmptyStep
  <1>3. IInv /\ Young /\ Empty /\ [Next]_vars => [Slot!Next]_(Slot!vars)
    BY LeaseStep
  <1> QED
    BY <1>1, <1>2, <1>3, Invariance, PTL DEF Spec, SlotIsALease, Slot!Spec

----------------------------------------------------------------------------
(* The buckets: no window of time admits more than a full bucket and its   *)
(* refill, for any number of callers, any capacity, rate and cost.         *)
(*                                                                         *)
(* What is admitted in a window is paid for out of what the bucket is      *)
(* worth: what a caller would read in it now.  It is worth no more than    *)
(* Capacity when the window opens, Rate more with every tick, and Cost     *)
(* less with every debit, because the caller that holds the lock found in  *)
(* it what is still there when it writes.                                  *)

Worth == IF exists THEN Refilled(tokens, updatedAt) ELSE Capacity

\* The history lies in the past.
Past ==
    /\ updatedAt <= now /\ mark.time <= now
    /\ mark.admitted <= admitted

\* A transaction in progress holds the lock, and has read what the row holds.
Holding ==
    \A c \in Callers : at[c] # "idle" =>
        /\ lock = c
        /\ seen[c].updatedAt <= now
        /\ exists => seen[c] = [tokens |-> tokens, updatedAt |-> updatedAt]

\* What it has found is still there.
Covered ==
    \A c \in Callers : at[c] = "refilled" => available[c] <= Worth

Paid == Worth + Cost * (admitted - mark.admitted)
            <= Capacity + Rate * (now - mark.time)

BucketInv == BucketTypeOK /\ Past /\ Holding /\ Covered /\ Paid

----------------------------------------------------------------------------
(* Arithmetic.                                                             *)

LEMMA Product ==
  ASSUME NEW a \in Nat, NEW b \in Nat
  PROVE  a * b \in Nat /\ a * (b + 1) = a * b + a
  BY SMT

LEMMA Shift ==
  ASSUME NEW a \in Nat, NEW b \in Nat, NEW c \in Nat, NEW d \in Nat,
         NEW s \in Nat, NEW r \in Nat, a + s <= c + d, b <= a + r
  PROVE  b + s <= c + (d + r)
  OBVIOUS

LEMMA ProductNat ==
  ASSUME NEW a \in Nat, NEW b \in Nat, NEW c \in Nat, c <= b
  PROVE  a * (b - c) \in Nat /\ a * ((b + 1) - c) = a * (b - c) + a
  <1>1. (b - c) \in Nat /\ (b + 1) - c = (b - c) + 1
    OBVIOUS
  <1> DEFINE d == b - c
  <1>2. d \in Nat /\ a * d \in Nat /\ a * (d + 1) = a * d + a
    BY <1>1, Product
  <1> QED
    BY <1>1, <1>2

\* A refill is never more than the capacity nor less than what was there,
\* costs nothing at once, and grows by Rate a tick at most.
LEMMA RefillBounds ==
  ASSUME NEW t \in 0..Capacity, NEW since \in Nat, now \in Nat, since <= now
  PROVE  /\ Refilled(t, since) \in 0..Capacity
         /\ t <= Refilled(t, since)
         /\ since = now => Refilled(t, since) = t
  <1>1. Rate * (now - since) \in Nat
    BY ProductNat, BucketNumbers
  <1>2. since = now => Rate * (now - since) = 0
    BY BucketNumbers
  <1> QED
    BY <1>1, <1>2, BucketNumbers DEF Refilled, Lesser

LEMMA WorthBounds ==
  ASSUME BucketTypeOK, Past
  PROVE  Worth \in 0..Capacity
  <1>1. CASE exists
    BY <1>1, RefillBounds DEF BucketTypeOK, Past, Worth, Times
  <1>2. CASE ~exists
    BY <1>2, BucketNumbers DEF Worth
  <1> QED
    BY <1>1, <1>2 DEF BucketTypeOK

----------------------------------------------------------------------------
(* The steps.                                                              *)

LEMMA InitBucketInv == BucketInit => BucketInv
  <1> SUFFICES ASSUME BucketInit PROVE BucketInv
    OBVIOUS
  <1>1. BucketTypeOK
    <2>1. 0 \in Times /\ Capacity \in 0..Capacity /\ 0 \in 0..Capacity
      BY BucketNumbers DEF Times
    <2> QED
      BY <2>1 DEF BucketInit, BucketTypeOK
  <1>2. Past /\ Holding /\ Covered
    BY DEF BucketInit, Past, Holding, Covered
  <1>3. Cost * (admitted - mark.admitted) = 0 /\ Rate * (now - mark.time) = 0
    BY BucketNumbers DEF BucketInit
  <1>4. Worth = Capacity
    BY DEF BucketInit, Worth
  <1>5. Paid
    BY <1>3, <1>4, BucketNumbers DEF Paid
  <1> QED
    BY <1>1, <1>2, <1>5 DEF BucketInv

\* A step that leaves the clock, the row and the debits alone.
LEMMA QuietStep ==
  ASSUME BucketInv, BucketTypeOK', Holding', Covered', UNCHANGED <<now, row, admitted, mark>>
  PROVE  BucketInv'
  <1>1. Worth' = Worth
    BY DEF Worth, Refilled, row
  <1> QED
    BY <1>1 DEF BucketInv, Past, Paid, row

LEMMA ReadPreserves ==
  ASSUME BucketInv, NEW c \in Callers, Read(c)
  PROVE  BucketInv'
  <1> USE DEF BucketInv, Read, row
  <1>1. BucketTypeOK'
    BY BucketNumbers DEF BucketTypeOK, Times
  <1>2. \A d \in Callers : at[d] = "idle"
    BY NoCallerIsNone DEF Unlocked, Holding
  <1>3. Holding'
    BY <1>2 DEF Holding, BucketTypeOK, Past, Times
  <1>4. Covered'
    BY <1>2 DEF Covered, BucketTypeOK
  <1> QED
    BY <1>1, <1>3, <1>4, QuietStep

LEMMA RefillPreserves ==
  ASSUME BucketInv, NEW c \in Callers, Refill(c)
  PROVE  BucketInv'
  <1> DEFINE found == Refilled(seen[c].tokens, seen[c].updatedAt)
  <1>1. /\ seen[c].tokens \in 0..Capacity /\ seen[c].updatedAt \in Nat
        /\ seen[c].updatedAt <= now /\ now \in Nat
    BY DEF BucketInv, Refill, BucketTypeOK, Holding, Times
  <1>2. found \in 0..Capacity
    BY <1>1, RefillBounds
  <1>3. found <= Worth
    <2>1. CASE exists
      BY <2>1, <1>2, BucketNumbers DEF BucketInv, Refill, Holding, Worth
    <2>2. CASE ~exists
      BY <2>2, <1>2 DEF Worth
    <2> QED
      BY <2>1, <2>2
  <1>4. available' = [available EXCEPT ![c] = found] /\ Worth' = Worth
    BY DEF Refill, Worth, Refilled, row
  <1> HIDE DEF found
  <1>5. BucketTypeOK'
    BY <1>2, <1>4 DEF BucketInv, Refill, BucketTypeOK, row
  <1>6. Holding'
    BY DEF BucketInv, Refill, BucketTypeOK, Holding, row
  <1>7. Covered'
    BY <1>3, <1>4 DEF BucketInv, Refill, BucketTypeOK, Covered, row
  <1> QED
    BY <1>5, <1>6, <1>7, QuietStep DEF Refill

LEMMA WritePreserves ==
  ASSUME BucketInv, NEW c \in Callers, Write(c)
  PROVE  BucketInv'
  <1>1. /\ available[c] \in 0..Capacity /\ available[c] <= Worth
        /\ at[c] = "refilled" /\ Worth \in 0..Capacity
    BY WorthBounds DEF BucketInv, Write, BucketTypeOK, Covered
  <1>2. Left(c) \in 0..Capacity
    BY <1>1, BucketNumbers DEF Left, Allowed
  <1>3. BucketTypeOK'
    BY <1>2 DEF BucketInv, Write, BucketTypeOK
  <1>4. Past'
    BY DEF BucketInv, Write, BucketTypeOK, Past, Times
  <1>5. \A d \in Callers : at'[d] = "idle"
    BY <1>1 DEF BucketInv, Write, BucketTypeOK, Holding
  <1>6. Holding' /\ Covered'
    BY <1>5 DEF Holding, Covered
  <1>7. Worth' = Left(c)
    <2>1. exists' = TRUE /\ tokens' = Left(c) /\ updatedAt' = now /\ now' = now
      BY DEF Write
    <2>2. now \in Nat
      BY DEF BucketInv, BucketTypeOK, Times
    <2>3. Refilled(Left(c), now) = Left(c)
      BY <1>2, <2>2, RefillBounds
    <2> QED
      BY <2>1, <2>3 DEF Worth, Refilled
  <1>8. /\ admitted \in Nat /\ mark.admitted \in Nat /\ mark.admitted <= admitted
        /\ now \in Nat /\ mark.time \in Nat /\ mark.time <= now
    BY DEF BucketInv, BucketTypeOK, Past, Times
  <1>9. Paid'
    <2> DEFINE spent == Cost * (admitted - mark.admitted)
               income == Rate * (now - mark.time)
    <2>1. spent \in Nat /\ Cost * ((admitted + 1) - mark.admitted) = spent + Cost
      BY <1>8, ProductNat, BucketNumbers
    <2>2. income \in Nat
      BY <1>8, ProductNat, BucketNumbers
    <2>3. Worth + spent <= Capacity + income
      BY DEF BucketInv, Paid
    <2>4. now' = now /\ mark' = mark
      BY DEF Write
    <2> HIDE DEF spent, income
    <2>5. CASE Allowed(c)
      <3>1. admitted' = admitted + 1 /\ Left(c) = available[c] - Cost
        BY <2>5 DEF Write, Left
      <3>2. (Worth + Cost * (admitted - mark.admitted))' = Left(c) + (spent + Cost)
        BY <1>7, <2>1, <2>4, <3>1
      <3>3. Left(c) + (spent + Cost) <= Capacity + income
        BY <1>1, <2>1, <2>2, <2>3, <3>1, BucketNumbers
      <3> QED
        BY <2>4, <3>2, <3>3 DEF Paid, income
    <2>6. CASE ~Allowed(c)
      <3>1. admitted' = admitted /\ Left(c) = available[c]
        BY <2>6 DEF Write, Left
      <3>2. (Worth + Cost * (admitted - mark.admitted))' = available[c] + spent
        BY <1>7, <2>4, <3>1 DEF spent
      <3>3. available[c] + spent <= Capacity + income
        BY <1>1, <2>1, <2>2, <2>3, BucketNumbers
      <3> QED
        BY <2>4, <3>2, <3>3 DEF Paid, income
    <2> QED
      BY <2>5, <2>6
  <1> QED
    BY <1>3, <1>4, <1>6, <1>9 DEF BucketInv

LEMMA RollBackPreserves ==
  ASSUME BucketInv, NEW c \in Callers, RollBack(c)
  PROVE  BucketInv'
  <1>1. BucketTypeOK'
    BY DEF BucketInv, RollBack, BucketTypeOK, row
  <1>2. \A d \in Callers : at'[d] = "idle"
    BY DEF BucketInv, RollBack, BucketTypeOK, Holding
  <1>3. Holding' /\ Covered'
    BY <1>2 DEF Holding, Covered
  <1> QED
    BY <1>1, <1>3, QuietStep DEF RollBack

\* The bucket is worth no less after a tick, and at most Rate more.
LEMMA TickPreserves ==
  ASSUME BucketInv, BucketTick
  PROVE  BucketInv'
  <1>1. BucketTypeOK'
    BY BucketNumbers DEF BucketInv, BucketTick, BucketTypeOK, Times, row
  <1>2. Past'
    BY BucketNumbers DEF BucketInv, BucketTick, BucketTypeOK, Past, Times, row
  <1>3. Holding'
    BY BucketNumbers DEF BucketInv, BucketTick, BucketTypeOK, Holding, Times, row
  <1>4. Worth <= Worth' /\ Worth' <= Worth + Rate /\ Worth \in Nat /\ Worth' \in Nat
    <2>1. CASE exists
      <3> DEFINE gain == Rate * (now - updatedAt)
      <3>1. gain \in Nat /\ Rate * ((now + 1) - updatedAt) = gain + Rate
        BY ProductNat, BucketNumbers DEF BucketInv, BucketTypeOK, Past, Times
      <3>2. Worth = Lesser(Capacity, tokens + gain)
        BY <2>1 DEF Worth, Refilled
      <3>3. Worth' = Lesser(Capacity, tokens + (gain + Rate))
        BY <2>1, <3>1 DEF BucketTick, Worth, Refilled, row
      <3> HIDE DEF gain
      <3>4. tokens \in Nat
        BY BucketNumbers DEF BucketInv, BucketTypeOK
      <3> QED
        BY <3>1, <3>2, <3>3, <3>4, BucketNumbers DEF Lesser
    <2>2. CASE ~exists
      BY <2>2, BucketNumbers DEF BucketTick, Worth, row
    <2> QED
      BY <2>1, <2>2
  <1>5. Covered'
    BY <1>4 DEF BucketInv, BucketTick, BucketTypeOK, Covered, row
  <1>6. Paid'
    <2> DEFINE spent == Cost * (admitted - mark.admitted)
               income == Rate * (now - mark.time)
    <2>1. spent \in Nat
      BY ProductNat, BucketNumbers DEF BucketInv, BucketTypeOK, Past
    <2>2. income \in Nat /\ Rate * ((now + 1) - mark.time) = income + Rate
      BY ProductNat, BucketNumbers DEF BucketInv, BucketTypeOK, Past, Times
    <2>3. Worth + spent <= Capacity + income
      BY DEF BucketInv, Paid
    <2>4. (Cost * (admitted - mark.admitted))' = spent
      BY DEF BucketTick
    <2>5. (Rate * (now - mark.time))' = income + Rate
      BY <2>2 DEF BucketTick
    <2> HIDE DEF spent, income
    <2>6. Worth' + spent <= Capacity + (income + Rate)
      BY <1>4, <2>1, <2>2, <2>3, BucketNumbers, Shift
    <2> QED
      BY <2>4, <2>5, <2>6 DEF Paid
  <1> QED
    BY <1>1, <1>2, <1>3, <1>5, <1>6 DEF BucketInv

LEMMA MarkPreserves ==
  ASSUME BucketInv, Mark
  PROVE  BucketInv'
  <1>1. BucketTypeOK'
    BY DEF BucketInv, Mark, BucketTypeOK, row
  <1>2. Past'
    BY DEF BucketInv, Mark, BucketTypeOK, Past, Times, row
  <1>3. Worth' = Worth
    BY DEF Mark, Worth, Refilled, row
  <1>4. Holding' /\ Covered'
    BY <1>3 DEF BucketInv, Mark, Holding, Covered, row
  <1>5. (Cost * (admitted - mark.admitted))' = 0 /\ (Rate * (now - mark.time))' = 0
    BY BucketNumbers DEF BucketInv, Mark, BucketTypeOK, Times
  <1>6. Worth \in 0..Capacity
    BY WorthBounds DEF BucketInv
  <1>7. Paid'
    BY <1>3, <1>5, <1>6, BucketNumbers DEF Paid
  <1> QED
    BY <1>1, <1>2, <1>4, <1>7 DEF BucketInv

LEMMA StepBucketInv == BucketInv /\ [BucketNext]_bucketVars => BucketInv'
  <1> SUFFICES ASSUME BucketInv, [BucketNext]_bucketVars PROVE BucketInv'
    OBVIOUS
  <1>1. ASSUME NEW c \in Callers, Read(c) PROVE BucketInv'
    BY <1>1, ReadPreserves
  <1>2. ASSUME NEW c \in Callers, Refill(c) PROVE BucketInv'
    BY <1>2, RefillPreserves
  <1>3. ASSUME NEW c \in Callers, Write(c) PROVE BucketInv'
    BY <1>3, WritePreserves
  <1>4. ASSUME NEW c \in Callers, RollBack(c) PROVE BucketInv'
    BY <1>4, RollBackPreserves
  <1>5. CASE BucketTick
    BY <1>5, TickPreserves
  <1>6. CASE Mark
    BY <1>6, MarkPreserves
  <1>7. CASE UNCHANGED bucketVars
    <2>1. BucketTypeOK'
      BY <1>7 DEF BucketInv, BucketTypeOK, bucketVars, row
    <2>2. Worth' = Worth
      BY <1>7 DEF Worth, Refilled, bucketVars, row
    <2>3. Holding' /\ Covered'
      BY <1>7, <2>2 DEF BucketInv, Holding, Covered, bucketVars, row
    <2> QED
      BY <1>7, <2>1, <2>3, QuietStep DEF bucketVars, row
  <1> QED
    BY <1>1, <1>2, <1>3, <1>4, <1>5, <1>6, <1>7 DEF BucketNext

----------------------------------------------------------------------------
\* The strengthened invariant of every behaviour.
THEOREM BucketInvariance == BucketSpec => []BucketInv
  BY InitBucketInv, StepBucketInv, PTL DEF BucketSpec

\* The row's columns and what callers make of them keep their types: a bucket
\* never holds more than its capacity nor less than nothing.
THEOREM BucketTypeCorrect == BucketSpec => []BucketTypeOK
  <1>1. BucketInv => BucketTypeOK
    BY DEF BucketInv
  <1> QED
    BY <1>1, BucketInvariance, PTL

\* No window of time admits more than a full bucket and what it refilled.
THEOREM WindowsAreBounded == BucketSpec => []WindowBound
  <1>1. ASSUME BucketInv PROVE WindowBound
    <2>1. Worth \in 0..Capacity
      BY <1>1, WorthBounds DEF BucketInv
    <2>2. Cost * (admitted - mark.admitted) \in Nat
      BY <1>1, ProductNat, BucketNumbers DEF BucketInv, BucketTypeOK, Past
    <2>3. Rate * (now - mark.time) \in Nat
      BY <1>1, ProductNat, BucketNumbers DEF BucketInv, BucketTypeOK, Past, Times
    <2> QED
      BY <1>1, <2>1, <2>2, <2>3, BucketNumbers DEF BucketInv, Paid, WindowBound
  <1> QED
    BY <1>1, BucketInvariance, PTL
===========================================================================
