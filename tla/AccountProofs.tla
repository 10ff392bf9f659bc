---------------------------- MODULE AccountProofs ----------------------------
(***************************************************************************)
(* The account's subscription and its row and, in the second part, the     *)
(* claim under which its Free subscription is created (Provisioning).      *)
(*                                                                         *)
(* For any number of form posts, products, deployments and changes:        *)
(*   - a row written from Polar's newest change tells whether the          *)
(*     subscription runs on;                                               *)
(*   - an active paid row gives way only to an event of a paid             *)
(*     subscription;                                                       *)
(*   - where paid plans cost what the ladder says (LadderHolds), what was  *)
(*     paid for is kept until its period is over.                          *)
(*                                                                         *)
(* The last needs most: the form that clears the way for a checkout acts   *)
(* on an amount it read earlier.  A subscription of no cost is as it was   *)
(* created (Untouched), so while that form is under way no other can have  *)
(* taken it for a paid one (StillFree): both would have read one product   *)
(* under one deployment.                                                   *)
(***************************************************************************)
EXTENDS Account, Provisioning, TLAPS

\* It goes on, paid for and with no end booked.
Runs(s) == s # NoSub /\ s.status = "active" /\ ~s.cancel

\* Nothing is from later than now.
Dated ==
    /\ sub # NoSub => sub.id <= clock
    /\ \A r \in Requests : saw[r] # NoSub => saw[r].id <= clock
    /\ \A e \in events : e.at <= clock
    /\ \A w \in writing : w.from <= clock

\* What Polar's newest change left to be told, being written or in the row.
Agreed ==
    /\ \A e \in events :
          e.at = clock /\ Status(e) # Unset => (Status(e) = "active" <=> Runs(sub))
    /\ \A w \in writing : w.from = clock => (w.status = "active" <=> Runs(sub))
    /\ fresh => (row.status = "active" <=> Runs(sub))

\* What a request wants, where it goes for it.
Asks ==
    \A r \in Requests :
        /\ pc[r] \in {"change", "changing"} => want[r] \in Plans
        /\ pc[r] \in {"checkout", "buying", "opening"} => want[r] \in PaidPlans
        /\ pc[r] = "opening" => env[want[r]] # Unset

IInv == TypeOK /\ Dated /\ Agreed /\ Asks

\* A subscription costs its product's price, or a discount made it free.
Charges(s) ==
    /\ s.amount \in {0, Price[s.product]}
    /\ s.over => s.amount > 0
    /\ s.pending # Unset => Price[s.pending] > 0

Charged == sub # NoSub => Charges(sub)

\* A subscription of no cost has the product it always had.
Untouched ==
    \A r \in Requests :
        Current(saw[r]) /\ sub.amount = 0 => saw[r].product = sub.product

\* What a checkout found to be free is free.
StillFree ==
    \A r \in Requests :
        pc[r] = "buying" /\ Current(saw[r]) /\ saw[r].amount = 0 /\ SawPlan(r) = "free"
            => sub.amount = 0

Kept == Charged /\ Untouched /\ StillFree

-----------------------------------------------------------------------------
(* The ladder and the events.                                              *)

LEMMA PlanOfProduct ==
  ASSUME TypeOK, NEW product
  PROVE  /\ PlanForProduct(product) \in Plans \cup {Unset}
         /\ ToPlan(product) \in Plans \cup {Unset}
         /\ PlanForProduct(product) \in Plans => env[PlanForProduct(product)] = product
         /\ ToPlan(product) \in PaidPlans => PlanForProduct(product) \in PaidPlans
  BY AccountAssumption DEF PlanForProduct, ToPlan, Plans, PaidPlans

LEMMA EnvType ==
  ASSUME TypeOK, NEW plan \in Plans
  PROVE  env[plan] \in Products \cup {Unset}
  BY AccountAssumption DEF TypeOK

LEMMA SubsAreSubs ==
  ASSUME NEW s \in Subs
  PROVE  /\ s # NoSub /\ s.id \in Nat /\ s.product \in Products /\ s.amount \in Nat
         /\ s.cancel \in BOOLEAN /\ s.status \in {"active", "past_due"}
         /\ s.pending \in Products \cup {Unset} /\ s.over \in BOOLEAN
         /\ Seen(s) \in Seens /\ Seen(s) # NoSub
         /\ Seen(s).id = s.id /\ Seen(s).product = s.product /\ Seen(s).amount = s.amount
  BY AccountAssumption DEF Subs, Seens, Seen

\* An event of the next change that tells of s, when it is one seri handles.
Tells(e, s) ==
    /\ e \in Events /\ e.at = clock + 1
    /\ Status(e) # Unset => (Status(e) = "active" <=> Runs(s))

LEMMA EventType ==
  ASSUME TypeOK, NEW s \in Subs, NEW kind \in {"sync", "canceled", "revoked"},
         NEW status \in {"active", "past_due", "canceled", "incomplete"}
  PROVE  LET e == Event(s, kind, status) IN
         /\ e \in Events /\ e.at = clock + 1
         /\ e.kind = kind /\ e.status = status /\ e.cancel = s.cancel
  BY SubsAreSubs DEF Event, Events, TypeOK

\* A sync of an active subscription reads its cancellation from the payload.
LEMMA UpdatedTells ==
  ASSUME TypeOK, NEW s \in Subs
  PROVE  Tells(Updated(s), s)
  <1> DEFINE e == Updated(s)
  <1>1. /\ s # NoSub /\ s.status \in {"active", "past_due"} /\ s.cancel \in BOOLEAN
    BY SubsAreSubs
  <1>2. /\ e \in Events /\ e.at = clock + 1
        /\ e.kind = "sync" /\ e.status = s.status /\ e.cancel = s.cancel
    BY <1>1, EventType DEF Updated
  <1> HIDE DEF e
  <1>3. Status(e) = IF s.status = "active" THEN IF s.cancel THEN "canceled" ELSE "active"
                    ELSE "past_due"
    BY <1>1, <1>2 DEF Status, SyncStatus
  <1>4. Status(e) = "active" <=> Runs(s)
    BY <1>1, <1>3 DEF Runs
  <1> QED
    BY <1>2, <1>4 DEF Tells, e

\* An event whose status is not "active" tells of what does not run on.
LEMMA EndTells ==
  ASSUME TypeOK, NEW s \in Subs, NEW t, ~Runs(t)
  PROVE  /\ \A e \in Ended(s) : Tells(e, t)
         /\ Tells(Event(s, "canceled", s.status), t)
  <1>1. /\ "revoked" \in {"sync", "canceled", "revoked"}
        /\ s.status \in {"active", "past_due", "canceled", "incomplete"}
    BY SubsAreSubs
  <1>2. LET e == Event(s, "revoked", "canceled") IN
        e \in Events /\ e.at = clock + 1 /\ e.kind = "revoked"
    BY EventType
  <1>3. LET e == Event(s, "sync", "canceled") IN
        e \in Events /\ e.at = clock + 1 /\ e.kind = "sync" /\ e.status = "canceled"
    BY EventType
  <1>4. LET e == Event(s, "canceled", s.status) IN
        e \in Events /\ e.at = clock + 1 /\ e.kind = "canceled"
    BY <1>1, EventType
  <1>5. \A e \in {Event(s, "revoked", "canceled"), Event(s, "canceled", s.status)} :
          Status(e) \in {"revoked", "canceled"}
    BY <1>2, <1>4 DEF Status
  <1>6. Status(Event(s, "sync", "canceled")) = "canceled"
    BY <1>3 DEF Status, SyncStatus
  <1> QED
    BY <1>2, <1>3, <1>4, <1>5, <1>6 DEF Tells, Ended

LEMMA IncompleteTells ==
  ASSUME TypeOK, NEW s \in Subs
  PROVE  Tells(Event(s, "sync", "incomplete"), s)
  <1> DEFINE e == Event(s, "sync", "incomplete")
  <1>1. e \in Events /\ e.at = clock + 1 /\ e.kind = "sync" /\ e.status = "incomplete"
    BY EventType
  <1> HIDE DEF e
  <1>2. Status(e) = Unset
    BY <1>1 DEF Status, SyncStatus
  <1> QED
    BY <1>1, <1>2 DEF Tells, e

\* What the webhook writes of an event.
LEMMA WriteType ==
  ASSUME TypeOK, NEW e \in events, Status(e) # Unset
  PROVE  /\ Write(e) \in Writes
         /\ Write(e).plan = ToPlan(e.product) /\ Write(e).status = Status(e)
         /\ Write(e).from = e.at
  <1>1. e \in Events /\ e.at \in Nat /\ e.kind \in {"sync", "canceled", "revoked"}
    BY DEF TypeOK, Events
  <1>2. Status(e) \in Statuses
    BY <1>1 DEF Status, SyncStatus, Statuses
  <1>3. ToPlan(e.product) \in Plans \cup {Unset}
    BY PlanOfProduct
  <1> QED
    BY <1>1, <1>2, <1>3 DEF Write, Writes

-----------------------------------------------------------------------------
(* What the changes make of a subscription.                                *)

LEMMA NewSubType ==
  ASSUME TypeOK, NEW product \in Products, NEW amount \in Nat
  PROVE  LET s == NewSub(product, amount) IN
         /\ s \in Subs /\ s.id = clock + 1 /\ s.product = product /\ s.amount = amount
         /\ s.pending = Unset /\ ~s.over
  BY DEF NewSub, Subs, TypeOK

LEMMA OverEdit ==
  ASSUME NEW s \in Subs
  PROVE  LET t == [s EXCEPT !.over = TRUE] IN
         /\ t \in Subs /\ t.id = s.id /\ t.product = s.product /\ t.amount = s.amount
         /\ t.pending = s.pending /\ t.status = s.status /\ t.cancel = s.cancel
  BY DEF Subs

LEMMA FailEdit ==
  ASSUME NEW s \in Subs
  PROVE  LET t == [s EXCEPT !.status = "past_due"] IN
         /\ t \in Subs /\ t.id = s.id /\ t.product = s.product /\ t.amount = s.amount
         /\ t.pending = s.pending /\ t.over = s.over
  BY DEF Subs

LEMMA RenewEdit ==
  ASSUME NEW s \in Subs, NEW next \in Products
  PROVE  LET t == [s EXCEPT !.over = FALSE, !.status = "active", !.product = next,
                            !.amount = Price[next], !.pending = Unset] IN
         /\ t \in Subs /\ t.id = s.id /\ t.product = next /\ t.amount = Price[next]
         /\ t.pending = Unset /\ ~t.over
  <1>1. Price[next] \in Nat
    BY AccountAssumption
  <1> QED
    BY <1>1 DEF Subs

LEMMA CancelEdit ==
  ASSUME NEW s \in Subs, NEW b \in BOOLEAN
  PROVE  LET t == [s EXCEPT !.cancel = b] IN
         /\ t \in Subs /\ t.id = s.id /\ t.product = s.product /\ t.amount = s.amount
         /\ t.pending = s.pending /\ t.over = s.over /\ t.cancel = b
  BY DEF Subs

LEMMA SwitchEdit ==
  ASSUME NEW s \in Subs, NEW product \in Products
  PROVE  LET t == [s EXCEPT !.product = product, !.amount = Price[product],
                            !.pending = Unset] IN
         /\ t \in Subs /\ t.id = s.id /\ t.product = product
         /\ t.amount = Price[product] /\ t.pending = Unset
  <1>1. Price[product] \in Nat
    BY AccountAssumption
  <1> QED
    BY <1>1 DEF Subs

LEMMA BookEdit ==
  ASSUME NEW s \in Subs, NEW product \in Products
  PROVE  LET t == [s EXCEPT !.pending = product] IN
         /\ t \in Subs /\ t.id = s.id /\ t.product = s.product /\ t.amount = s.amount
         /\ t.pending = product /\ t.over = s.over
  BY DEF Subs

-----------------------------------------------------------------------------
(* The parts of a step.                                                    *)

\* A request has its answer and lets go of what it read.
LEMMA AnsweredEffect ==
  ASSUME IInv, NEW r \in Requests, Answered(r), UNCHANGED env
  PROVE  /\ pc' \in [Requests -> Places]
         /\ want' \in [Requests -> Plans \cup {"none", "resume", "cancel"}]
         /\ saw' \in [Requests -> Seens \cup {NoSub}]
         /\ \A q \in Requests : saw'[q] # NoSub => saw'[q] = saw[q]
         /\ \A q \in Requests : pc'[q] = "buying" => pc[q] = "buying"
         /\ pc'[r] = "idle"
         /\ Asks'
  <1>1. /\ pc' = [pc EXCEPT ![r] = "idle"] /\ want' = [want EXCEPT ![r] = "none"]
        /\ saw' = [saw EXCEPT ![r] = NoSub]
    BY DEF Answered, Goto
  <1>2. /\ pc' \in [Requests -> Places]
        /\ \A q \in Requests : pc'[q] = IF q = r THEN "idle" ELSE pc[q]
    BY <1>1 DEF IInv, TypeOK, Places
  <1>3. /\ want' \in [Requests -> Plans \cup {"none", "resume", "cancel"}]
        /\ \A q \in Requests \ {r} : want'[q] = want[q]
    BY <1>1 DEF IInv, TypeOK
  <1>4. /\ saw' \in [Requests -> Seens \cup {NoSub}]
        /\ \A q \in Requests : saw'[q] = IF q = r THEN NoSub ELSE saw[q]
    BY <1>1 DEF IInv, TypeOK
  <1>5. Asks'
    BY <1>2, <1>3 DEF IInv, Asks
  <1> QED
    BY <1>2, <1>3, <1>4, <1>5

\* A request goes on.
LEMMA GotoEffect ==
  ASSUME IInv, NEW r \in Requests, NEW place \in Places, Goto(r, place)
  PROVE  /\ pc' \in [Requests -> Places]
         /\ \A q \in Requests : pc'[q] = IF q = r THEN place ELSE pc[q]
  BY DEF Goto, IInv, TypeOK

\* Polar's change, whoever asked for it: all that was there to be told is
\* older, and what is told now agrees with what the subscription became.
LEMMA ChangesEffect ==
  ASSUME IInv, NEW next \in Subs \cup {NoSub}, NEW told, Changes(next, told),
         \A e \in told : Tells(e, next), next # NoSub => next.id <= clock + 1,
         UNCHANGED <<env, redeploys, writing, row>>, checkouts' \subseteq Products,
         pc' \in [Requests -> Places],
         want' \in [Requests -> Plans \cup {"none", "resume", "cancel"}],
         saw' \in [Requests -> Seens \cup {NoSub}],
         \A q \in Requests : saw'[q] # NoSub => saw'[q] = saw[q],
         Asks'
  PROVE  IInv' /\ sub' = next
  <1>1. /\ clock \in Nat /\ clock' = clock + 1 /\ sub' = next /\ fresh' = FALSE
        /\ events' = events \cup told
    BY DEF Changes, IInv, TypeOK
  <1>2. told \subseteq Events /\ \A e \in told : e.at = clock'
    BY <1>1 DEF Tells
  <1>3. TypeOK'
    <2>1. clock' \in Nat /\ events' \subseteq Events /\ sub' \in Subs \cup {NoSub}
      BY <1>1, <1>2 DEF IInv, TypeOK
    <2>2. fresh' \in BOOLEAN
      BY <1>1
    <2>3. /\ env' \in Envs /\ redeploys' \in Nat /\ writing' \subseteq Writes
          /\ row' \in [plan : Plans \cup {Unset}, status : Statuses] \cup {NoRow}
      BY DEF IInv, TypeOK
    <2> QED
      BY <2>1, <2>2, <2>3 DEF TypeOK
  <1>4. /\ \A e \in events : e.at \in Nat /\ e.at <= clock
        /\ \A w \in writing : w.from \in Nat /\ w.from <= clock
    BY DEF IInv, TypeOK, Dated, Events, Writes
  <1>5. \A r \in Requests : saw[r] # NoSub => saw[r].id \in Nat /\ saw[r].id <= clock
    BY DEF IInv, TypeOK, Dated, Seens
  <1>6. Dated'
    <2>1. \A e \in events' : e.at <= clock'
      BY <1>1, <1>2, <1>4
    <2>2. \A w \in writing' : w.from <= clock'
      BY <1>1, <1>4
    <2>3. \A r \in Requests : saw'[r] # NoSub => saw'[r].id <= clock'
      BY <1>1, <1>5
    <2> QED
      BY <1>1, <2>1, <2>2, <2>3 DEF Dated
  <1>7. Agreed'
    <2>1. \A e \in events : e.at # clock'
      BY <1>1, <1>4
    <2>2. \A w \in writing : w.from # clock'
      BY <1>1, <1>4
    <2> QED
      BY <1>1, <2>1, <2>2 DEF Agreed, Tells
  <1> QED
    BY <1>1, <1>3, <1>6, <1>7 DEF IInv

\* Nothing happens at Polar or to the row.
LEMMA PortalEffect ==
  ASSUME IInv, env' \in Envs, redeploys' \in Nat, checkouts' \subseteq Products,
         UNCHANGED <<sub, clock, events, writing, row, fresh>>,
         pc' \in [Requests -> Places],
         want' \in [Requests -> Plans \cup {"none", "resume", "cancel"}],
         saw' \in [Requests -> Seens \cup {NoSub}],
         \A q \in Requests : saw'[q] # NoSub => saw'[q].id <= clock,
         Asks'
  PROVE  IInv'
  <1>1. TypeOK'
    BY DEF IInv, TypeOK
  <1>2. Dated'
    BY DEF IInv, Dated
  <1>3. Agreed'
    BY DEF IInv, Agreed
  <1> QED
    BY <1>1, <1>2, <1>3 DEF IInv

LEMMA AsksStill ==
  ASSUME IInv, UNCHANGED <<env, pc, want>>
  PROVE  Asks'
  BY DEF IInv, Asks

\* What was paid for, when the subscription becomes another one or none.
LEMMA KeptAnew ==
  ASSUME IInv, sub' # NoSub => sub' \in Subs /\ sub'.id = clock + 1 /\ Charges(sub'),
         \A q \in Requests : saw'[q] # NoSub => saw'[q] = saw[q]
  PROVE  Kept'
  <1>1. Charged'
    BY DEF Charged, Charges
  <1>2. ASSUME NEW r \in Requests
        PROVE  ~Current(saw[r])'
    <2>1. CASE saw'[r] = NoSub
      BY <2>1 DEF Current
    <2>2. CASE saw'[r] # NoSub
      <3>1. saw'[r] = saw[r] /\ saw[r] # NoSub
        BY <2>2
      <3>2. saw[r].id \in Nat /\ saw[r].id <= clock /\ clock \in Nat
        BY <3>1 DEF IInv, TypeOK, Dated, Seens
      <3> QED
        BY <3>1, <3>2 DEF Current, Held
    <2> QED
      BY <2>1, <2>2
  <1> QED
    BY <1>1, <1>2 DEF Kept, Untouched, StillFree

\* ... when it stays the one it is, or nothing happens to it.
LEMMA KeptAlong ==
  ASSUME IInv, Kept, sub' \in Subs, sub \in Subs, sub'.id = sub.id, Charges(sub'),
         sub'.amount = 0 => sub.amount = 0 /\ sub'.product = sub.product,
         sub.amount = 0 /\ sub'.amount # 0 =>
            \A r \in Requests : ~(pc[r] = "buying" /\ Current(saw[r]) /\ SawPlan(r) = "free"),
         UNCHANGED env,
         \A q \in Requests : saw'[q] # NoSub => saw'[q] = saw[q],
         \A q \in Requests : pc'[q] = "buying" => pc[q] = "buying"
  PROVE  Kept'
  <1>1. Charged'
    BY DEF Charged, Charges
  <1>2. sub # NoSub /\ sub' # NoSub
    BY SubsAreSubs
  <1>3. ASSUME NEW r \in Requests, Current(saw[r])'
        PROVE  /\ saw'[r] = saw[r] /\ Current(saw[r]) /\ SawPlan(r)' = SawPlan(r)
    BY <1>2, <1>3 DEF Current, Held, SawPlan, PlanForProduct
  <1>4. Untouched'
    BY <1>3 DEF Kept, Untouched
  <1>5. StillFree'
    BY <1>3 DEF Kept, StillFree
  <1> QED
    BY <1>1, <1>4, <1>5 DEF Kept

LEMMA KeptAside ==
  ASSUME Kept, UNCHANGED <<sub, env>>,
         \A q \in Requests : saw'[q] # NoSub => saw'[q] = saw[q],
         \A q \in Requests : pc'[q] = "buying" => pc[q] = "buying"
  PROVE  Kept'
  <1>1. Charged'
    BY DEF Kept, Charged, Charges
  <1>2. ASSUME NEW r \in Requests, Current(saw[r])'
        PROVE  /\ saw'[r] = saw[r] /\ Current(saw[r]) /\ SawPlan(r)' = SawPlan(r)
    BY <1>2 DEF Current, Held, SawPlan, PlanForProduct
  <1>3. Untouched'
    BY <1>2 DEF Kept, Untouched
  <1>4. StillFree'
    BY <1>2 DEF Kept, StillFree
  <1> QED
    BY <1>1, <1>3, <1>4 DEF Kept

-----------------------------------------------------------------------------
(* Polar's steps.                                                          *)

LEMMA ProvisionFreeStep ==
  ASSUME IInv, ProvisionFree
  PROVE  IInv' /\ Kept'
  <1> DEFINE product == env["free"]
             s == NewSub(product, Price[product])
  <1>1. /\ ~Held /\ product # Unset /\ Changes(s, {Updated(s)})
        /\ UNCHANGED <<checkouts, writing, row, pc, want, saw, env, redeploys>>
    BY DEF ProvisionFree, Portal, Deployment
  <1>2. product \in Products /\ Price[product] \in Nat
    BY <1>1, EnvType, AccountAssumption DEF IInv, Plans
  <1>3. /\ s \in Subs /\ s.id = clock + 1 /\ s.product = product
        /\ s.amount = Price[product] /\ s.pending = Unset /\ ~s.over
    BY <1>2, NewSubType DEF IInv
  <1>4. Tells(Updated(s), s)
    BY <1>3, UpdatedTells DEF IInv
  <1> HIDE DEF s
  <1>5. s.id <= clock + 1
    BY <1>3 DEF IInv, TypeOK
  <1>6. IInv' /\ sub' = s
    <2>1. \A e \in {Updated(s)} : Tells(e, s)
      BY <1>4
    <2>2. Asks'
      BY <1>1, AsksStill
    <2>3. /\ checkouts' \subseteq Products /\ pc' \in [Requests -> Places]
          /\ want' \in [Requests -> Plans \cup {"none", "resume", "cancel"}]
          /\ saw' \in [Requests -> Seens \cup {NoSub}]
      BY <1>1 DEF IInv, TypeOK
    <2> QED
      BY <1>1, <1>3, <1>5, <2>1, <2>2, <2>3, ChangesEffect
  <1>7. Charges(s)
    BY <1>3 DEF Charges
  <1> QED
    BY <1>1, <1>3, <1>6, <1>7, KeptAnew

LEMMA SubscribeStep ==
  ASSUME IInv, NEW product \in Products, Subscribe(product)
  PROVE  IInv' /\ Kept' /\ ~Held
  <1>1. PICK amount \in {0, Price[product]} :
          LET s == NewSub(product, amount)
          IN  Changes(s, {Event(s, "sync", "incomplete"), Updated(s)})
    BY DEF Subscribe
  <1> DEFINE s == NewSub(product, amount)
             told == {Event(s, "sync", "incomplete"), Updated(s)}
  <1>2. /\ ~Held /\ Changes(s, told) /\ checkouts' \subseteq checkouts
        /\ UNCHANGED <<writing, row, pc, want, saw, env, redeploys>>
    BY <1>1 DEF Subscribe, Portal, Deployment
  <1>3. amount \in Nat
    BY AccountAssumption
  <1>4. /\ s \in Subs /\ s.id = clock + 1 /\ s.product = product
        /\ s.amount = amount /\ s.pending = Unset /\ ~s.over
    BY <1>3, NewSubType DEF IInv
  <1>5. \A e \in told : Tells(e, s)
    BY <1>4, UpdatedTells, IncompleteTells DEF IInv
  <1> HIDE DEF s, told
  <1>6. s.id <= clock + 1
    BY <1>4 DEF IInv, TypeOK
  <1>7. IInv' /\ sub' = s
    <2>1. Asks'
      BY <1>2, AsksStill
    <2>2. /\ checkouts' \subseteq Products /\ pc' \in [Requests -> Places]
          /\ want' \in [Requests -> Plans \cup {"none", "resume", "cancel"}]
          /\ saw' \in [Requests -> Seens \cup {NoSub}]
      BY <1>2 DEF IInv, TypeOK
    <2> QED
      BY <1>2, <1>4, <1>5, <1>6, <2>1, <2>2, ChangesEffect
  <1>8. Charges(s)
    BY <1>4 DEF Charges
  <1> QED
    BY <1>2, <1>4, <1>7, <1>8, KeptAnew

LEMMA HeldSub ==
  ASSUME IInv, Held
  PROVE  sub \in Subs /\ sub # NoSub /\ sub.id \in Nat /\ sub.id <= clock + 1
  BY SubsAreSubs DEF IInv, TypeOK, Dated, Held

\* A change of the subscription that is there, by Polar at a renewal, ...
LEMMA PolarChanges ==
  ASSUME IInv, NEW next \in Subs \cup {NoSub}, NEW told, Changes(next, told),
         \A e \in told : Tells(e, next), next # NoSub => next.id = sub.id, Held,
         UNCHANGED <<checkouts, writing, row, Portal, Deployment>>
  PROVE  IInv' /\ sub' = next
  <1>1. next # NoSub => next.id <= clock + 1
    BY HeldSub
  <1>2. Asks'
    BY AsksStill DEF Portal, Deployment
  <1>3. /\ checkouts' \subseteq Products /\ pc' \in [Requests -> Places]
        /\ want' \in [Requests -> Plans \cup {"none", "resume", "cancel"}]
        /\ saw' \in [Requests -> Seens \cup {NoSub}]
    BY DEF IInv, TypeOK, Portal
  <1> QED
    BY <1>1, <1>2, <1>3, ChangesEffect DEF Portal, Deployment

LEMMA PeriodPassesStep ==
  ASSUME IInv, PeriodPasses
  PROVE  /\ IInv' /\ (Kept => Kept')
         /\ sub' # NoSub /\ sub'.id = sub.id /\ sub'.amount = sub.amount
  <1> DEFINE t == [sub EXCEPT !.over = TRUE]
  <1>1. /\ Costs(sub) /\ Held /\ sub' = t
        /\ UNCHANGED <<checkouts, clock, events, writing, row, fresh, pc, want, saw,
                       env, redeploys>>
    BY DEF PeriodPasses, Costs, Held, Table, Portal, Deployment
  <1>2. sub \in Subs
    BY <1>1, HeldSub
  <1>3. /\ t \in Subs /\ t.id = sub.id /\ t.product = sub.product /\ t.amount = sub.amount
        /\ t.pending = sub.pending /\ t.status = sub.status /\ t.cancel = sub.cancel
    BY <1>2, OverEdit
  <1>4. t # NoSub /\ sub # NoSub /\ sub.amount > 0
    BY <1>1, <1>2, <1>3, SubsAreSubs DEF Costs
  <1> HIDE DEF t
  <1>5. TypeOK'
    BY <1>1, <1>3 DEF IInv, TypeOK
  <1>6. Dated'
    BY <1>1, <1>3, <1>4 DEF IInv, Dated
  <1>7. Agreed'
    BY <1>1, <1>3, <1>4 DEF IInv, Agreed, Runs
  <1>8. Asks'
    BY <1>1, AsksStill
  <1>9. ASSUME Kept PROVE Kept'
    <2>1. Charges(t)
      BY <1>3, <1>4, <1>9 DEF Kept, Charged, Charges
    <2> QED
      BY <1>1, <1>2, <1>3, <1>4, <1>9, <2>1, KeptAlong
  <1> QED
    BY <1>1, <1>3, <1>4, <1>5, <1>6, <1>7, <1>8, <1>9 DEF IInv

LEMMA RenewsStep ==
  ASSUME IInv, Renews
  PROVE  IInv' /\ (Kept => Kept') /\ Held /\ sub.over
  <1> DEFINE next == IF sub.pending = Unset THEN sub.product ELSE sub.pending
             t == [sub EXCEPT !.over = FALSE, !.status = "active", !.product = next,
                              !.amount = Price[next], !.pending = Unset]
  <1>1. /\ Held /\ sub.over /\ Changes(t, {Updated(t)})
        /\ UNCHANGED <<checkouts, writing, row, Portal, Deployment>>
    BY DEF Renews
  <1>2. sub \in Subs /\ sub # NoSub
    BY <1>1, HeldSub
  <1>3. next \in Products /\ Price[next] \in Nat
    BY <1>2, SubsAreSubs, AccountAssumption
  <1>4. /\ t \in Subs /\ t.id = sub.id /\ t.product = next /\ t.amount = Price[next]
        /\ t.pending = Unset /\ ~t.over
    <2> HIDE DEF next
    <2> QED
      BY <1>2, <1>3, RenewEdit
  <1>5. \A e \in {Updated(t)} : Tells(e, t)
    BY <1>4, UpdatedTells DEF IInv
  <1> HIDE DEF t
  <1>6. IInv' /\ sub' = t
    BY <1>1, <1>4, <1>5, PolarChanges
  <1>7. ASSUME Kept PROVE Kept'
    <2>1. sub.amount > 0 /\ sub.amount \in {0, Price[sub.product]}
          /\ (sub.pending # Unset => Price[sub.pending] > 0)
      BY <1>1, <1>2, <1>7 DEF Kept, Charged, Charges
    <2>2. Price[next] > 0
      BY <2>1
    <2>3. Charges(t) /\ t.amount # 0
      BY <1>3, <1>4, <2>2 DEF Charges
    <2>4. UNCHANGED <<pc, saw, env>>
      BY <1>1 DEF Portal, Deployment
    <2> QED
      BY <1>2, <1>4, <1>6, <1>7, <2>1, <2>3, <2>4, KeptAlong
  <1> QED
    BY <1>1, <1>6, <1>7

LEMMA PaymentFailsStep ==
  ASSUME IInv, PaymentFails
  PROVE  IInv' /\ (Kept => Kept') /\ Held /\ sub.over
  <1> DEFINE t == [sub EXCEPT !.status = "past_due"]
  <1>1. /\ Held /\ sub.over /\ Changes(t, {Updated(t)})
        /\ UNCHANGED <<checkouts, writing, row, Portal, Deployment>>
    BY DEF PaymentFails
  <1>2. sub \in Subs /\ sub # NoSub
    BY <1>1, HeldSub
  <1>3. /\ t \in Subs /\ t.id = sub.id /\ t.product = sub.product /\ t.amount = sub.amount
        /\ t.pending = sub.pending /\ t.over = sub.over
    BY <1>2, FailEdit
  <1>4. \A e \in {Updated(t)} : Tells(e, t)
    BY <1>3, UpdatedTells DEF IInv
  <1> HIDE DEF t
  <1>5. IInv' /\ sub' = t
    BY <1>1, <1>3, <1>4, PolarChanges
  <1>6. ASSUME Kept PROVE Kept'
    <2>1. Charges(t)
      BY <1>2, <1>3, <1>6 DEF Kept, Charged, Charges
    <2>2. UNCHANGED <<pc, saw, env>>
      BY <1>1 DEF Portal, Deployment
    <2> QED
      BY <1>2, <1>3, <1>5, <1>6, <2>1, <2>2, KeptAlong
  <1> QED
    BY <1>1, <1>5, <1>6

LEMMA PeriodEndsStep ==
  ASSUME IInv, PeriodEnds
  PROVE  IInv' /\ Kept' /\ Held /\ sub.over
  <1>1. /\ Held /\ sub.over /\ Changes(NoSub, Ended(sub))
        /\ UNCHANGED <<checkouts, writing, row, Portal, Deployment>>
    BY DEF PeriodEnds
  <1>2. sub \in Subs /\ ~Runs(NoSub)
    BY <1>1, HeldSub DEF Runs
  <1>3. \A e \in Ended(sub) : Tells(e, NoSub)
    BY <1>2, EndTells DEF IInv
  <1>4. IInv' /\ sub' = NoSub
    BY <1>1, <1>3, PolarChanges
  <1>5. Kept'
    BY <1>1, <1>4, KeptAnew DEF Portal
  <1> QED
    BY <1>1, <1>4, <1>5

-----------------------------------------------------------------------------
(* The webhook's steps.                                                    *)

\* The row is as true as the write.
LEMMA SetEffect ==
  ASSUME IInv, NEW w \in Writes, Set(w),
         w.from = clock => (w.status = "active" <=> Runs(sub))
  PROVE  /\ row' \in [plan : Plans \cup {Unset}, status : Statuses]
         /\ fresh' \in BOOLEAN
         /\ fresh' => (row'.status = "active" <=> Runs(sub))
  <1>1. /\ row' = [plan |-> w.plan, status |-> w.status] /\ fresh' = (w.from = clock)
    BY DEF Set
  <1>2. w.plan \in Plans \cup {Unset} /\ w.status \in Statuses
    BY DEF Writes
  <1>3. fresh' \in BOOLEAN /\ (fresh' <=> w.from = clock)
    BY <1>1
  <1> QED
    BY <1>1, <1>2, <1>3

\* A step of the webhook, by what it does to the writes under way and the row.
LEMMA TableEffect ==
  ASSUME IInv, UNCHANGED <<Polar, Portal, Deployment>>,
         writing' \subseteq Writes,
         \A w \in writing' : w.from <= clock
             /\ (w.from = clock => (w.status = "active" <=> Runs(sub))),
         \/ UNCHANGED <<row, fresh>>
         \/ /\ row' \in [plan : Plans \cup {Unset}, status : Statuses]
            /\ fresh' \in BOOLEAN
            /\ fresh' => (row'.status = "active" <=> Runs(sub))
  PROVE  IInv' /\ (Kept => Kept')
  <1>1. UNCHANGED <<sub, checkouts, clock, events, pc, want, saw, env, redeploys>>
    BY DEF Polar, Portal, Deployment
  <1>2. TypeOK'
    BY <1>1 DEF IInv, TypeOK
  <1>3. Dated'
    BY <1>1 DEF IInv, Dated
  <1>4. Agreed'
    BY <1>1 DEF IInv, Agreed
  <1>5. Asks'
    BY <1>1, AsksStill
  <1>6. Kept => Kept'
    BY <1>1, KeptAside
  <1> QED
    BY <1>2, <1>3, <1>4, <1>5, <1>6 DEF IInv

\* What a handled event makes the webhook write is as true as the event.
LEMMA WriteAgrees ==
  ASSUME IInv, NEW e \in events, Handles(e)
  PROVE  /\ Write(e) \in Writes /\ Write(e).from <= clock
         /\ Write(e).from = clock => (Write(e).status = "active" <=> Runs(sub))
  <1>1. Status(e) # Unset
    BY DEF Handles
  <1> QED
    BY <1>1, WriteType DEF IInv, Dated, Agreed

LEMMA UpsertStep ==
  ASSUME IInv, NEW e \in events, Upsert(e)
  PROVE  IInv' /\ (Kept => Kept')
  <1>1. /\ Handles(e) /\ Set(Write(e))
        /\ UNCHANGED <<writing, Polar, Portal, Deployment>>
    BY DEF Upsert
  <1>2. /\ writing' \subseteq Writes
        /\ \A w \in writing' : w.from <= clock
             /\ (w.from = clock => (w.status = "active" <=> Runs(sub)))
    BY <1>1 DEF IInv, TypeOK, Dated, Agreed
  <1>3. /\ row' \in [plan : Plans \cup {Unset}, status : Statuses]
        /\ fresh' \in BOOLEAN
        /\ fresh' => (row'.status = "active" <=> Runs(sub))
    BY <1>1, WriteAgrees, SetEffect
  <1> QED
    BY <1>1, <1>2, <1>3, TableEffect

LEMMA InsertFreeStep ==
  ASSUME IInv, NEW e \in events, InsertFree(e)
  PROVE  IInv' /\ (Kept => Kept')
  <1>1. /\ Handles(e) /\ writing' = writing \cup {Write(e)}
        /\ Set(Write(e)) \/ UNCHANGED <<row, fresh>>
        /\ UNCHANGED <<Polar, Portal, Deployment>>
    BY DEF InsertFree
  <1>2. /\ Write(e) \in Writes /\ Write(e).from <= clock
        /\ Write(e).from = clock => (Write(e).status = "active" <=> Runs(sub))
    BY <1>1, WriteAgrees
  <1>3. /\ writing' \subseteq Writes
        /\ \A w \in writing' : w.from <= clock
             /\ (w.from = clock => (w.status = "active" <=> Runs(sub)))
    BY <1>1, <1>2 DEF IInv, TypeOK, Dated, Agreed
  <1>4. \/ UNCHANGED <<row, fresh>>
        \/ /\ row' \in [plan : Plans \cup {Unset}, status : Statuses]
           /\ fresh' \in BOOLEAN
           /\ fresh' => (row'.status = "active" <=> Runs(sub))
    BY <1>1, <1>2, SetEffect
  <1> QED
    BY <1>1, <1>3, <1>4, TableEffect

LEMMA UpdateFreeStep ==
  ASSUME IInv, NEW w \in writing, UpdateFree(w)
  PROVE  IInv' /\ (Kept => Kept')
  <1>1. /\ writing' = writing \ {w}
        /\ Set(w) \/ UNCHANGED <<row, fresh>>
        /\ UNCHANGED <<Polar, Portal, Deployment>>
    BY DEF UpdateFree
  <1>2. w \in Writes /\ (w.from = clock => (w.status = "active" <=> Runs(sub)))
    BY DEF IInv, TypeOK, Agreed
  <1>3. /\ writing' \subseteq Writes
        /\ \A v \in writing' : v.from <= clock
             /\ (v.from = clock => (v.status = "active" <=> Runs(sub)))
    <2>1. writing' \subseteq writing
      BY <1>1
    <2> QED
      BY <2>1 DEF IInv, TypeOK, Dated, Agreed
  <1>4. \/ UNCHANGED <<row, fresh>>
        \/ /\ row' \in [plan : Plans \cup {Unset}, status : Statuses]
           /\ fresh' \in BOOLEAN
           /\ fresh' => (row'.status = "active" <=> Runs(sub))
    BY <1>1, <1>2, SetEffect
  <1> QED
    BY <1>1, <1>3, <1>4, TableEffect

-----------------------------------------------------------------------------
(* The forms' steps.                                                       *)

\* A form that changes nothing at Polar.
LEMMA FormAside ==
  ASSUME IInv, UNCHANGED <<sub, clock, events, writing, row, fresh, env, redeploys>>,
         checkouts' \subseteq Products,
         pc' \in [Requests -> Places],
         want' \in [Requests -> Plans \cup {"none", "resume", "cancel"}],
         saw' \in [Requests -> Seens \cup {NoSub}],
         \A q \in Requests : saw'[q] # NoSub => saw'[q] = saw[q],
         \A q \in Requests : pc'[q] = "buying" => pc[q] = "buying",
         Asks'
  PROVE  IInv' /\ (Kept => Kept')
  <1>1. \A q \in Requests : saw'[q] # NoSub => saw'[q].id <= clock
    BY DEF IInv, Dated
  <1>2. env' \in Envs /\ redeploys' \in Nat
    BY DEF IInv, TypeOK
  <1> QED
    BY <1>1, <1>2, PortalEffect, KeptAside

LEMMA PostStep ==
  ASSUME IInv, NEW r \in Requests, NEW choice \in Plans \cup {"resume", "cancel"},
         Post(r, choice)
  PROVE  IInv' /\ (Kept => Kept')
  <1>1. /\ Goto(r, Route(choice)) /\ want' = [want EXCEPT ![r] = choice]
        /\ UNCHANGED <<saw, sub, checkouts, clock, events, writing, row, fresh, env, redeploys>>
    BY DEF Post, Polar, Table, Deployment
  <1>2. /\ Route(choice) \in {"resume", "cancel", "change", "checkout"}
        /\ Route(choice) = "change" => choice \in Plans
        /\ Route(choice) = "checkout" => choice \in PaidPlans
    <2>1. CASE choice \in {"resume", "cancel"}
      <3>1. Route(choice) = choice
        BY <2>1 DEF Route, PaidPlans
      <3> QED
        BY <2>1, <3>1
    <2>2. CASE choice \in Plans
      <3>1. choice \notin {"resume", "cancel"}
        BY <2>2 DEF Plans, PaidPlans
      <3> QED
        BY <2>2, <3>1 DEF Route, Plans
    <2> QED
      BY <2>1, <2>2
  <1>3. Route(choice) \in Places
    BY <1>2 DEF Places
  <1>4. /\ pc' \in [Requests -> Places]
        /\ \A q \in Requests : pc'[q] = IF q = r THEN Route(choice) ELSE pc[q]
    BY <1>1, <1>3, GotoEffect
  <1>5. /\ want' \in [Requests -> Plans \cup {"none", "resume", "cancel"}]
        /\ \A q \in Requests : want'[q] = IF q = r THEN choice ELSE want[q]
    BY <1>1 DEF IInv, TypeOK
  <1>6. Asks'
    BY <1>1, <1>2, <1>4, <1>5 DEF IInv, Asks
  <1>7. \A q \in Requests : pc'[q] = "buying" => pc[q] = "buying"
    BY <1>2, <1>4
  <1>8. checkouts' \subseteq Products /\ saw' \in [Requests -> Seens \cup {NoSub}]
    BY <1>1 DEF IInv, TypeOK
  <1> QED
    BY <1>1, <1>4, <1>5, <1>6, <1>7, <1>8, FormAside

LEMMA ReadStateStep ==
  ASSUME IInv, NEW r \in Requests, ReadState(r)
  PROVE  IInv' /\ (Kept => Kept')
  <1>1. /\ pc[r] \in {"change", "checkout", "resume", "cancel"}
        /\ saw' = [saw EXCEPT ![r] = Seen(sub)] /\ Goto(r, Acts(r))
        /\ UNCHANGED <<want, sub, checkouts, clock, events, writing, row, fresh, env, redeploys>>
    BY DEF ReadState, Polar, Table, Deployment
  <1>2. /\ Acts(r) \in {"changing", "buying", "resuming", "ending"}
        /\ Acts(r) = "changing" => pc[r] = "change"
        /\ Acts(r) = "buying" => pc[r] = "checkout"
    BY <1>1 DEF Acts
  <1>3. Acts(r) \in Places
    BY <1>2 DEF Places
  <1>4. /\ pc' \in [Requests -> Places]
        /\ \A q \in Requests : pc'[q] = IF q = r THEN Acts(r) ELSE pc[q]
    BY <1>1, <1>3, GotoEffect
  <1>5. /\ Seen(sub) \in Seens \cup {NoSub}
        /\ sub = NoSub => Seen(sub) = NoSub
        /\ sub # NoSub => /\ Seen(sub) # NoSub /\ Seen(sub).id = sub.id
                          /\ Seen(sub).product = sub.product
                          /\ Seen(sub).amount = sub.amount
    <2>1. CASE sub = NoSub
      BY <2>1 DEF Seen
    <2>2. CASE sub # NoSub
      <3>1. sub \in Subs
        BY <2>2 DEF IInv, TypeOK
      <3> QED
        BY <2>2, <3>1, SubsAreSubs
    <2> QED
      BY <2>1, <2>2
  <1>6. /\ saw' \in [Requests -> Seens \cup {NoSub}]
        /\ \A q \in Requests : saw'[q] = IF q = r THEN Seen(sub) ELSE saw[q]
    BY <1>1, <1>5 DEF IInv, TypeOK
  <1>7. Asks'
    BY <1>1, <1>2, <1>4 DEF IInv, Asks
  <1>8. \A q \in Requests : saw'[q] # NoSub => saw'[q].id <= clock
    BY <1>5, <1>6 DEF IInv, Dated
  <1>9. IInv'
    BY <1>1, <1>4, <1>6, <1>7, <1>8, PortalEffect DEF IInv, TypeOK
  <1>10. ASSUME Kept PROVE Kept'
    <2>1. Charged'
      BY <1>1, <1>10 DEF Kept, Charged, Charges
    <2>2. Untouched'
      BY <1>1, <1>5, <1>6, <1>10 DEF Kept, Untouched, Current, Held
    <2>3. ASSUME NEW q \in Requests \ {r}
          PROVE  /\ saw'[q] = saw[q] /\ pc'[q] = pc[q] /\ SawPlan(q)' = SawPlan(q)
                 /\ Current(saw[q])' = Current(saw[q])
      BY <1>1, <1>4, <1>6 DEF SawPlan, PlanForProduct, Current, Held
    <2>4. StillFree'
      BY <1>1, <1>5, <1>6, <1>10, <2>3 DEF Kept, StillFree, Current, Held
    <2> QED
      BY <2>1, <2>2, <2>4 DEF Kept
  <1> QED
    BY <1>9, <1>10

\* A PATCH changes the subscription that was read, if that is still the one, and
\* the request has its answer.
LEMMA PatchEffect ==
  ASSUME IInv, NEW r \in Requests, NEW s, NEW told, Patch(r, s, told),
         UNCHANGED Deployment,
         Current(saw[r]) =>
            s \in Subs /\ s.id = sub.id /\ \A e \in told : Tells(e, s)
  PROVE  /\ IInv'
         /\ UNCHANGED sub \/ (Current(saw[r]) /\ (s.cancel => ~sub.cancel) /\ sub' = s)
         /\ pc'[r] = "idle" /\ UNCHANGED env
         /\ \A q \in Requests : saw'[q] # NoSub => saw'[q] = saw[q]
         /\ \A q \in Requests : pc'[q] = "buying" => pc[q] = "buying"
  <1>1. /\ Answered(r) /\ UNCHANGED <<checkouts, writing, row, env, redeploys>>
        /\ checkouts' \subseteq Products
    BY DEF Patch, Deployment, IInv, TypeOK
  <1>2. /\ pc' \in [Requests -> Places]
        /\ want' \in [Requests -> Plans \cup {"none", "resume", "cancel"}]
        /\ saw' \in [Requests -> Seens \cup {NoSub}]
        /\ \A q \in Requests : saw'[q] # NoSub => saw'[q] = saw[q]
        /\ \A q \in Requests : pc'[q] = "buying" => pc[q] = "buying"
        /\ pc'[r] = "idle"
        /\ Asks'
    BY <1>1, AnsweredEffect
  <1>3. CASE Current(saw[r]) /\ (s.cancel => ~sub.cancel)
    <2>1. Changes(s, told) /\ Held
      BY <1>3 DEF Patch, Current
    <2>2. s.id <= clock + 1
      BY <1>3, <2>1, HeldSub
    <2>3. IInv' /\ sub' = s
      BY <1>1, <1>2, <1>3, <2>1, <2>2, ChangesEffect
    <2> QED
      BY <1>1, <1>2, <1>3, <2>3
  <1>4. CASE ~(Current(saw[r]) /\ (s.cancel => ~sub.cancel))
    <2>1. UNCHANGED <<sub, clock, events, fresh>>
      BY <1>4 DEF Patch
    <2> QED
      BY <1>1, <1>2, <2>1, FormAside
  <1> QED
    BY <1>3, <1>4

\* An upgrade is charged now; a downgrade is booked for the renewal.
LEMMA ChangeEffect ==
  ASSUME IInv, NEW r \in Requests, Change(r)
  PROVE  /\ IInv' /\ UNCHANGED env
         /\ want[r] \in PaidPlans /\ env[want[r]] \in Products
         /\ pc[r] = "changing" /\ pc'[r] # pc[r] /\ SawPaid(r)
         /\ \A q \in Requests : saw'[q] # NoSub => saw'[q] = saw[q]
         /\ \A q \in Requests : pc'[q] = "buying" => pc[q] = "buying"
         /\ \/ UNCHANGED sub
            \/ /\ Current(saw[r]) /\ sub \in Subs /\ sub' \in Subs /\ sub'.id = sub.id
               /\ \/ /\ Invoiced(SawPlan(r), want[r])
                     /\ sub'.product = env[want[r]] /\ sub'.pending = Unset
                     /\ sub'.amount = Price[env[want[r]]]
                  \/ /\ sub'.product = sub.product /\ sub'.amount = sub.amount
                     /\ sub'.pending = env[want[r]] /\ sub'.over = sub.over
  <1> DEFINE s == Switched(want[r], SawPlan(r))
             product == env[want[r]]
  <1>1. /\ pc[r] = "changing" /\ SawPaid(r) /\ want[r] # "free" /\ product # Unset
        /\ Patch(r, s, {Updated(s)}) /\ UNCHANGED Deployment
    BY DEF Change, Patch
  <1>2. want[r] \in PaidPlans
    BY <1>1 DEF IInv, Asks, Plans
  <1>3. product \in Products
    BY <1>1, <1>2, EnvType DEF IInv, Plans
  <1>4. ASSUME Current(saw[r])
        PROVE  /\ sub \in Subs /\ s \in Subs /\ s.id = sub.id
               /\ \/ /\ Invoiced(SawPlan(r), want[r])
                     /\ s.product = product /\ s.pending = Unset
                     /\ s.amount = Price[product]
                  \/ /\ s.product = sub.product /\ s.amount = sub.amount
                     /\ s.pending = product /\ s.over = sub.over
    <2>1. sub \in Subs
      BY <1>4, HeldSub DEF Current
    <2>2. CASE Invoiced(SawPlan(r), want[r])
      <3>1. s = [sub EXCEPT !.product = product, !.amount = Price[product],
                            !.pending = Unset]
        BY <2>2 DEF Switched
      <3> HIDE DEF s, product
      <3> QED
        BY <1>3, <2>1, <2>2, <3>1, SwitchEdit
    <2>3. CASE ~Invoiced(SawPlan(r), want[r])
      <3>1. s = [sub EXCEPT !.pending = product]
        BY <2>3 DEF Switched
      <3> HIDE DEF s, product
      <3> QED
        BY <1>3, <2>1, <3>1, BookEdit
    <2> QED
      BY <2>1, <2>2, <2>3
  <1> HIDE DEF s
  <1>5. Current(saw[r]) => \A e \in {Updated(s)} : Tells(e, s)
    BY <1>4, UpdatedTells DEF IInv
  <1>6. /\ IInv'
        /\ UNCHANGED sub \/ (Current(saw[r]) /\ (s.cancel => ~sub.cancel) /\ sub' = s)
        /\ pc'[r] = "idle" /\ UNCHANGED env
        /\ \A q \in Requests : saw'[q] # NoSub => saw'[q] = saw[q]
        /\ \A q \in Requests : pc'[q] = "buying" => pc[q] = "buying"
    BY <1>1, <1>4, <1>5, PatchEffect
  <1> QED
    BY <1>1, <1>2, <1>3, <1>4, <1>6

\* The paid product a request asks for costs something.
LEMMA PaidCosts ==
  ASSUME IInv, LadderHolds, NEW plan \in PaidPlans, env[plan] \in Products
  PROVE  Price[env[plan]] \in Nat /\ Price[env[plan]] > 0
  <1>1. env \in Envs /\ env[plan] # Unset /\ PriceOf(plan) <= PriceOf(plan)
    BY AccountAssumption DEF IInv, TypeOK, PriceOf, PaidPlans
  <1> QED
    BY <1>1, AccountAssumption DEF LadderHolds

LEMMA ChangeStep ==
  ASSUME IInv, NEW r \in Requests, Change(r)
  PROVE  IInv' /\ (LadderHolds /\ Kept => Kept')
  <1> DEFINE product == env[want[r]]
  <1>1. /\ IInv' /\ UNCHANGED env
        /\ want[r] \in PaidPlans /\ product \in Products
        /\ SawPaid(r)
        /\ \A q \in Requests : saw'[q] # NoSub => saw'[q] = saw[q]
        /\ \A q \in Requests : pc'[q] = "buying" => pc[q] = "buying"
        /\ \/ UNCHANGED sub
           \/ /\ Current(saw[r]) /\ sub \in Subs /\ sub' \in Subs /\ sub'.id = sub.id
              /\ \/ /\ Invoiced(SawPlan(r), want[r])
                    /\ sub'.product = product /\ sub'.pending = Unset
                    /\ sub'.amount = Price[product]
                 \/ /\ sub'.product = sub.product /\ sub'.amount = sub.amount
                    /\ sub'.pending = product /\ sub'.over = sub.over
    BY ChangeEffect
  <1>2. ASSUME LadderHolds, Kept PROVE Kept'
    <2>1. Price[product] \in Nat /\ Price[product] > 0
      BY <1>1, <1>2, PaidCosts
    <2>2. CASE UNCHANGED sub
      BY <1>1, <1>2, <2>2, KeptAside
    <2>3. CASE /\ Current(saw[r]) /\ sub \in Subs /\ sub' \in Subs /\ sub'.id = sub.id
               /\ sub'.product = product /\ sub'.pending = Unset
               /\ sub'.amount = Price[product]
      <3>1. Charges(sub') /\ sub'.amount # 0
        BY <2>1, <2>3 DEF Charges
      <3>2. ASSUME sub.amount = 0, NEW q \in Requests, Current(saw[q]), SawPlan(q) = "free"
            PROVE  FALSE
        <4>1. saw[r].product = sub.product /\ saw[q].product = sub.product
          BY <1>2, <2>3, <3>2 DEF Kept, Untouched
        <4>2. SawPlan(r) = SawPlan(q)
          BY <2>3, <3>2, <4>1 DEF SawPlan, Current
        <4> QED
          BY <1>1, <3>2, <4>2 DEF SawPaid, PaidPlans
      <3> QED
        BY <1>1, <1>2, <2>3, <3>1, <3>2, KeptAlong
    <2>4. CASE /\ sub \in Subs /\ sub' \in Subs /\ sub'.id = sub.id
               /\ sub'.product = sub.product /\ sub'.amount = sub.amount
               /\ sub'.pending = product /\ sub'.over = sub.over
      <3>1. Charges(sub')
        BY <1>2, <2>1, <2>4, SubsAreSubs DEF Kept, Charged, Charges
      <3> QED
        BY <1>1, <1>2, <2>4, <3>1, KeptAlong
    <2> QED
      BY <1>1, <2>2, <2>3, <2>4
  <1> QED
    BY <1>1, <1>2

\* A cancellation is booked or taken back: the price stays.
LEMMA CancelResumeEffect ==
  ASSUME IInv, NEW r \in Requests, Cancel(r) \/ Resume(r)
  PROVE  /\ IInv' /\ (Kept => Kept')
         /\ \/ UNCHANGED sub
            \/ sub' # NoSub /\ sub'.id = sub.id /\ sub'.amount = sub.amount
  <1>1. PICK b \in BOOLEAN :
          LET s == [sub EXCEPT !.cancel = b] IN
          Patch(r, s, IF b THEN ScheduledEnd(s) ELSE {Updated(s)})
    BY DEF Cancel, Resume
  <1> DEFINE s == [sub EXCEPT !.cancel = b]
             told == IF b THEN ScheduledEnd(s) ELSE {Updated(s)}
  <1>2. Patch(r, s, told) /\ UNCHANGED Deployment
    BY <1>1 DEF Patch
  <1>3. ASSUME Current(saw[r])
        PROVE  /\ sub \in Subs /\ s \in Subs /\ s.id = sub.id /\ s.product = sub.product
               /\ s.amount = sub.amount /\ s.pending = sub.pending /\ s.over = sub.over
               /\ s.cancel = b
    BY <1>3, HeldSub, CancelEdit DEF Current
  <1> HIDE DEF s
  <1>4. ASSUME Current(saw[r]) PROVE \A e \in told : Tells(e, s)
    <2>1. Tells(Updated(s), s)
      BY <1>3, <1>4, UpdatedTells DEF IInv
    <2>2. b => Tells(Event(s, "canceled", s.status), s)
      BY <1>3, <1>4, EndTells DEF IInv, Runs
    <2> QED
      BY <2>1, <2>2 DEF ScheduledEnd
  <1> HIDE DEF told
  <1>5. /\ IInv'
        /\ UNCHANGED sub \/ (Current(saw[r]) /\ (s.cancel => ~sub.cancel) /\ sub' = s)
        /\ UNCHANGED env
        /\ \A q \in Requests : saw'[q] # NoSub => saw'[q] = saw[q]
        /\ \A q \in Requests : pc'[q] = "buying" => pc[q] = "buying"
    BY <1>2, <1>3, <1>4, PatchEffect
  <1>6. ASSUME Kept PROVE Kept'
    <2>1. CASE UNCHANGED sub
      BY <1>5, <1>6, <2>1, KeptAside
    <2>2. CASE Current(saw[r]) /\ sub' = s
      <3>1. Charges(s)
        BY <1>3, <1>6, <2>2, SubsAreSubs DEF Kept, Charged, Charges
      <3> QED
        BY <1>3, <1>5, <1>6, <2>2, <3>1, KeptAlong
    <2> QED
      BY <1>5, <2>1, <2>2
  <1>7. \/ UNCHANGED sub
        \/ sub' # NoSub /\ sub'.id = sub.id /\ sub'.amount = sub.amount
    BY <1>3, <1>5, SubsAreSubs
  <1> QED
    BY <1>5, <1>6, <1>7

\* The way to a checkout is cleared of what was, and is, free.
LEMMA RevokeFreeStep ==
  ASSUME IInv, NEW r \in Requests, RevokeFree(r)
  PROVE  IInv' /\ (Kept => Kept' /\ (UNCHANGED sub \/ ~Costs(sub)))
  <1> DEFINE place == IF Current(saw[r]) THEN "opening" ELSE "idle"
  <1>1. /\ pc[r] = "buying" /\ env[want[r]] # Unset /\ OnlyFree(saw[r])
        /\ saw[r] # NoSub /\ saw[r].amount = 0
        /\ Goto(r, place)
        /\ UNCHANGED <<want, saw, checkouts, writing, row, env, redeploys>>
    BY DEF RevokeFree, MayBuy, Blocks, MayRevoke, Deployment
  <1>2. /\ pc' \in [Requests -> Places]
        /\ \A q \in Requests : pc'[q] = IF q = r THEN place ELSE pc[q]
    <2>1. place \in Places
      BY DEF Places
    <2> HIDE DEF place
    <2> QED
      BY <1>1, <2>1, GotoEffect
  <1>3. Asks'
    <2>1. want[r] \in PaidPlans
      BY <1>1 DEF IInv, Asks
    <2> QED
      BY <1>1, <1>2, <2>1 DEF IInv, Asks
  <1>4. \A q \in Requests : pc'[q] = "buying" => pc[q] = "buying"
    BY <1>2
  <1>5. /\ checkouts' \subseteq Products
        /\ want' \in [Requests -> Plans \cup {"none", "resume", "cancel"}]
        /\ saw' \in [Requests -> Seens \cup {NoSub}]
        /\ \A q \in Requests : saw'[q] # NoSub => saw'[q] = saw[q]
    BY <1>1 DEF IInv, TypeOK
  <1>6. CASE Current(saw[r])
    <2>1. Changes(NoSub, Ended(sub)) /\ Held
      BY <1>6 DEF RevokeFree, Current
    <2>2. \A e \in Ended(sub) : Tells(e, NoSub)
      BY <2>1, HeldSub, EndTells DEF IInv, Runs
    <2>3. IInv' /\ sub' = NoSub
      BY <1>1, <1>2, <1>3, <1>5, <2>1, <2>2, ChangesEffect
    <2>4. Kept'
      BY <1>5, <2>3, KeptAnew
    <2>5. Kept => ~Costs(sub)
      <3>1. SawPlan(r) = "free"
        BY <1>1 DEF OnlyFree, SawPlan
      <3> QED
        BY <1>1, <1>6, <3>1 DEF Kept, StillFree, Costs
    <2> QED
      BY <2>3, <2>4, <2>5
  <1>7. CASE ~Current(saw[r])
    <2>1. UNCHANGED <<sub, clock, events, fresh>>
      BY <1>7 DEF RevokeFree
    <2>2. IInv' /\ (Kept => Kept')
      BY <1>1, <1>2, <1>3, <1>4, <1>5, <2>1, FormAside
    <2> QED
      BY <2>1, <2>2
  <1> QED
    BY <1>6, <1>7

LEMMA NothingToRevokeStep ==
  ASSUME IInv, NEW r \in Requests, NothingToRevoke(r)
  PROVE  IInv' /\ (Kept => Kept')
  <1>1. /\ pc[r] = "buying" /\ env[want[r]] # Unset /\ Goto(r, "opening")
        /\ UNCHANGED <<want, saw, sub, checkouts, clock, events, writing, row, fresh,
                       env, redeploys>>
    BY DEF NothingToRevoke, MayBuy, Polar, Table, Deployment
  <1>2. /\ pc' \in [Requests -> Places]
        /\ \A q \in Requests : pc'[q] = IF q = r THEN "opening" ELSE pc[q]
    <2>1. "opening" \in Places
      BY DEF Places
    <2> QED
      BY <1>1, <2>1, GotoEffect
  <1>3. Asks'
    BY <1>1, <1>2 DEF IInv, Asks
  <1>4. /\ checkouts' \subseteq Products
        /\ want' \in [Requests -> Plans \cup {"none", "resume", "cancel"}]
        /\ saw' \in [Requests -> Seens \cup {NoSub}]
    BY <1>1 DEF IInv, TypeOK
  <1>5. \A q \in Requests : pc'[q] = "buying" => pc[q] = "buying"
    BY <1>2
  <1> QED
    BY <1>1, <1>2, <1>3, <1>4, <1>5, FormAside

LEMMA OpenCheckoutStep ==
  ASSUME IInv, NEW r \in Requests, OpenCheckout(r)
  PROVE  IInv' /\ (Kept => Kept')
  <1>1. /\ pc[r] = "opening" /\ checkouts' = checkouts \cup {env[want[r]]} /\ Answered(r)
        /\ UNCHANGED <<sub, clock, events, writing, row, fresh, env, redeploys>>
    BY DEF OpenCheckout, Table, Deployment
  <1>2. want[r] \in Plans /\ env[want[r]] # Unset
    BY <1>1 DEF IInv, Asks, Plans
  <1>3. checkouts' \subseteq Products
    BY <1>1, <1>2, EnvType DEF IInv, TypeOK
  <1> QED
    BY <1>1, <1>3, AnsweredEffect, FormAside

LEMMA RefuseStep ==
  ASSUME IInv, NEW r \in Requests, Refuse(r)
  PROVE  IInv' /\ (Kept => Kept')
  <1>1. /\ Answered(r)
        /\ UNCHANGED <<sub, checkouts, clock, events, writing, row, fresh, env, redeploys>>
    BY DEF Refuse, Polar, Table, Deployment
  <1>2. checkouts' \subseteq Products
    BY <1>1 DEF IInv, TypeOK
  <1> QED
    BY <1>1, <1>2, AnsweredEffect, FormAside

\* Products change their plans while no form is under way.
LEMMA RedeployStep ==
  ASSUME IInv, NEW e \in Envs, Redeploy(e)
  PROVE  IInv' /\ (Kept => Kept')
  <1>1. /\ \A r \in Requests : pc[r] = "idle"
        /\ env' = e /\ redeploys' = redeploys + 1
        /\ UNCHANGED <<sub, checkouts, clock, events, writing, row, fresh, pc, want, saw>>
    BY DEF Redeploy, Polar, Table, Portal
  <1>2. env' \in Envs /\ redeploys' \in Nat
    BY <1>1 DEF IInv, TypeOK
  <1>3. Asks'
    BY <1>1 DEF IInv, Asks
  <1>4. \A q \in Requests : saw'[q] # NoSub => saw'[q].id <= clock
    BY <1>1 DEF IInv, Dated
  <1>5. IInv'
    BY <1>1, <1>2, <1>3, <1>4, PortalEffect DEF IInv, TypeOK
  <1>6. ASSUME Kept PROVE Kept'
    <2>1. Charged'
      BY <1>1, <1>6 DEF Kept, Charged, Charges
    <2>2. Untouched'
      BY <1>1, <1>6 DEF Kept, Untouched, Current, Held
    <2>3. StillFree'
      BY <1>1 DEF StillFree
    <2> QED
      BY <2>1, <2>2, <2>3 DEF Kept
  <1> QED
    BY <1>5, <1>6

-----------------------------------------------------------------------------
LEMMA Initially == Init => IInv /\ Kept
  <1> SUFFICES ASSUME Init PROVE IInv /\ Kept
    OBVIOUS
  <1>1. TypeOK
    BY DEF Init, TypeOK, Places
  <1>2. Dated /\ Agreed /\ Asks
    BY DEF Init, Dated, Agreed, Asks
  <1>3. Kept
    BY DEF Init, Kept, Charged, Untouched, StillFree, Current, Held
  <1> QED
    BY <1>1, <1>2, <1>3 DEF IInv

LEMMA Inductive ==
  ASSUME IInv, [Next]_vars
  PROVE  IInv' /\ (LadderHolds /\ Kept => Kept')
  <1>1. CASE \/ ProvisionFree \/ \E p \in Products : Subscribe(p)
             \/ PeriodPasses \/ Renews \/ PaymentFails \/ PeriodEnds
    BY <1>1, ProvisionFreeStep, SubscribeStep, PeriodPassesStep, RenewsStep,
       PaymentFailsStep, PeriodEndsStep
  <1>2. CASE \/ \E e \in events : Upsert(e) \/ InsertFree(e)
             \/ \E w \in writing : UpdateFree(w)
    BY <1>2, UpsertStep, InsertFreeStep, UpdateFreeStep
  <1>3. CASE \/ \E r \in Requests, choice \in Plans \cup {"resume", "cancel"} :
                   Post(r, choice)
             \/ \E r \in Requests : ReadState(r)
    BY <1>3, PostStep, ReadStateStep
  <1>4. CASE \E r \in Requests : Change(r) \/ Cancel(r) \/ Resume(r)
    BY <1>4, ChangeStep, CancelResumeEffect
  <1>5. CASE \E r \in Requests : \/ RevokeFree(r) \/ NothingToRevoke(r)
                                \/ OpenCheckout(r) \/ Refuse(r)
    BY <1>5, RevokeFreeStep, NothingToRevokeStep, OpenCheckoutStep, RefuseStep
  <1>6. CASE \E e \in Envs : Redeploy(e)
    BY <1>6, RedeployStep
  <1>7. CASE UNCHANGED vars
    <2>1. UNCHANGED <<env, redeploys, sub, checkouts, clock, events, writing, row,
                      fresh, pc, want, saw>>
      BY <1>7 DEF vars
    <2>2. Asks'
      BY <2>1, AsksStill
    <2> QED
      BY <2>1, <2>2, FormAside DEF IInv, TypeOK
  <1> QED
    BY <1>1, <1>2, <1>3, <1>4, <1>5, <1>6, <1>7 DEF Next

THEOREM Invariance == Spec => []IInv
  <1>1. IInv /\ [Next]_vars => IInv'
    BY Inductive
  <1> QED
    BY <1>1, Initially, PTL DEF Spec

\* The types of an account's state, the events that are out and the forms under
\* way.
THEOREM TypeCorrect == Spec => []TypeOK
  BY Invariance, PTL DEF IInv

\* A row last written from the newest change of the subscription tells whether
\* that runs on, whichever of the change's events wrote it and through whichever
\* of the two handlers.
THEOREM RowIsTrue == Spec => []FreshRowIsTrue
  <1>1. IInv => FreshRowIsTrue
    BY DEF IInv, Agreed, FreshRowIsTrue, Runs, Held
  <1> QED
    BY <1>1, Invariance, PTL

-----------------------------------------------------------------------------
\* An active paid row gives way only to what an event of a paid subscription says:
\* a zero-cost write that was under way finds the row and leaves it.
THEOREM PaidSurvives == Spec => PaidSurvivesFree
  <1> DEFINE Survives ==
        row # NoRow /\ row.plan \in PaidPlans /\ row.status = "active" /\ row' # row
         => \E e \in events :
              OfPaid(e) /\ row' = [plan |-> ToPlan(e.product), status |-> Status(e)]
  <1>1. ASSUME IInv, [Next]_vars PROVE Survives
    <2> SUFFICES ASSUME row # NoRow, row.plan \in PaidPlans, row.status = "active",
                        row' # row
                 PROVE  \E e \in events :
                          /\ OfPaid(e)
                          /\ row' = [plan |-> ToPlan(e.product), status |-> Status(e)]
      OBVIOUS
    <2>1. ASSUME NEW e \in events, Upsert(e)
          PROVE  /\ OfPaid(e)
                 /\ row' = [plan |-> ToPlan(e.product), status |-> Status(e)]
      <3>1. row' = [plan |-> ToPlan(e.product), status |-> Status(e)]
        BY <2>1 DEF Upsert, Set, Write
      <3>2. e.amount \in Nat
        BY <1>1 DEF IInv, TypeOK, Events
      <3>3. OfPaid(e)
        BY <1>1, <2>1, <3>2, PlanOfProduct DEF IInv, Upsert, Unconditional, OfPaid
      <3> QED
        BY <3>1, <3>3
    <2>2. ASSUME NEW e \in events, InsertFree(e)
          PROVE  FALSE
      BY <2>2 DEF InsertFree
    <2>3. ASSUME NEW w \in writing, UpdateFree(w)
          PROVE  FALSE
      BY <2>3 DEF UpdateFree, NotActivePaid
    <2>4. CASE \/ ProvisionFree \/ \E p \in Products : Subscribe(p)
               \/ PeriodPasses \/ Renews \/ PaymentFails \/ PeriodEnds
               \/ UNCHANGED vars
      BY <2>4 DEF ProvisionFree, Subscribe, PeriodPasses, Renews, PaymentFails,
                  PeriodEnds, Table, vars
    <2>5. CASE \/ \E r \in Requests, choice \in Plans \cup {"resume", "cancel"} :
                     Post(r, choice)
               \/ \E r \in Requests :
                     \/ ReadState(r) \/ Change(r) \/ Cancel(r) \/ Resume(r)
                     \/ RevokeFree(r) \/ NothingToRevoke(r)
                     \/ OpenCheckout(r) \/ Refuse(r)
               \/ \E e \in Envs : Redeploy(e)
      BY <2>5 DEF Post, ReadState, Change, Cancel, Resume, Patch, RevokeFree,
                  NothingToRevoke, OpenCheckout, Refuse, Redeploy, Table
    <2> QED
      BY <1>1, <2>1, <2>2, <2>3, <2>4, <2>5 DEF Next
  <1> QED
    BY <1>1, Invariance, PTL DEF Spec, PaidSurvivesFree

-----------------------------------------------------------------------------
\* An upgrade by a form that saw the plan there is does not bring the price down.
LEMMA ChangeKeepsPrice ==
  ASSUME IInv, LadderHolds, Kept, NEW r \in Requests, Change(r), ~Outdated, Held
  PROVE  sub' # NoSub /\ sub'.id = sub.id /\ sub'.amount >= sub.amount
  <1> DEFINE target == want[r]
             held == SawPlan(r)
  <1>1. /\ target \in PaidPlans /\ env[target] \in Products
        /\ pc[r] = "changing" /\ pc'[r] # pc[r] /\ held \in PaidPlans
        /\ \/ UNCHANGED sub
           \/ /\ Current(saw[r]) /\ sub \in Subs /\ sub' \in Subs /\ sub'.id = sub.id
              /\ \/ /\ Invoiced(held, target)
                    /\ sub'.amount = Price[env[target]]
                 \/ sub'.amount = sub.amount
    BY ChangeEffect DEF SawPaid
  <1>2. sub \in Subs /\ sub # NoSub /\ sub.amount \in Nat
    BY HeldSub, SubsAreSubs
  <1>3. CASE UNCHANGED sub
    BY <1>2, <1>3
  <1>4. CASE sub' \in Subs /\ sub'.id = sub.id /\ sub'.amount = sub.amount
    BY <1>2, <1>4, SubsAreSubs
  <1>5. CASE /\ Current(saw[r]) /\ sub' \in Subs /\ sub'.id = sub.id
             /\ Invoiced(held, target) /\ sub'.amount = Price[env[target]]
    <2>1. saw[r].product = sub.product
      BY <1>1, <1>5 DEF Outdated
    <2>2. held = PlanForProduct(sub.product)
      BY <1>5, <2>1 DEF SawPlan, Current
    <2>3. env[held] = sub.product
      BY <1>1, <2>2, PlanOfProduct DEF IInv, Plans
    <2>4. PriceOf(held) <= PriceOf(target)
      <3>1. PriceOf(held) \in Nat /\ PriceOf(target) \in Nat
        BY <1>1 DEF PriceOf, PaidPlans
      <3> QED
        BY <1>5, <3>1 DEF Invoiced
    <2>5. env[held] # Unset /\ env[target] # Unset /\ env \in Envs
      BY <1>1, <1>2, <2>3, SubsAreSubs, AccountAssumption DEF IInv, TypeOK
    <2>6. 0 < Price[sub.product] /\ Price[sub.product] <= Price[env[target]]
      BY <1>1, <2>3, <2>4, <2>5 DEF LadderHolds
    <2>7. sub.amount \in {0, Price[sub.product]}
      BY <1>2 DEF Kept, Charged, Charges
    <2>8. Price[sub.product] \in Nat /\ Price[env[target]] \in Nat
      BY <1>1, <1>2, SubsAreSubs, AccountAssumption
    <2> QED
      BY <1>5, <2>6, <2>7, <2>8, SubsAreSubs
  <1> QED
    BY <1>1, <1>3, <1>4, <1>5

\* What was paid for is kept until its period is over, whatever forms are posted
\* at once, on whatever deployment, where paid plans cost what the ladder says:
\* checkoutPaidPlan revokes only what its own read found to cost nothing, and
\* that still costs nothing when the call arrives.
THEOREM PaidIsKept ==
  ASSUME LadderHolds
  PROVE  Spec => PaidForIsKept
  <1> DEFINE KeepsPaid ==
        Costs(sub) /\ ~sub.over /\ ~Outdated
         => sub' # NoSub /\ sub'.id = sub.id /\ sub'.amount >= sub.amount
  <1>1. IInv /\ Kept /\ [Next]_vars => IInv' /\ Kept'
    BY Inductive
  <1>2. ASSUME IInv, Kept, [Next]_vars PROVE KeepsPaid
    <2> SUFFICES ASSUME Costs(sub), ~sub.over, ~Outdated
                 PROVE  sub' # NoSub /\ sub'.id = sub.id /\ sub'.amount >= sub.amount
      OBVIOUS
    <2>1. Held /\ sub \in Subs /\ sub.amount \in Nat /\ sub.amount > 0
      BY <1>2, HeldSub, SubsAreSubs DEF Costs, Held
    <2>2. CASE \/ ProvisionFree \/ \E p \in Products : Subscribe(p)
      BY <1>2, <2>1, <2>2 DEF ProvisionFree, Subscribe
    <2>3. CASE PeriodPasses
      BY <1>2, <2>1, <2>3, PeriodPassesStep
    <2>4. CASE Renews \/ PaymentFails \/ PeriodEnds
      BY <1>2, <2>4, RenewsStep, PaymentFailsStep, PeriodEndsStep
    <2>5. ASSUME NEW r \in Requests, Change(r)
          PROVE  sub' # NoSub /\ sub'.id = sub.id /\ sub'.amount >= sub.amount
      BY <1>2, <2>1, <2>5, ChangeKeepsPrice
    <2>6. ASSUME NEW r \in Requests, Cancel(r) \/ Resume(r)
          PROVE  sub' # NoSub /\ sub'.id = sub.id /\ sub'.amount >= sub.amount
      BY <1>2, <2>1, <2>6, CancelResumeEffect DEF Held
    <2>7. ASSUME NEW r \in Requests, RevokeFree(r)
          PROVE  UNCHANGED sub
      BY <1>2, <2>7, RevokeFreeStep
    <2>8. CASE \/ \E e \in events : Upsert(e) \/ InsertFree(e)
               \/ \E w \in writing : UpdateFree(w)
               \/ \E r \in Requests, choice \in Plans \cup {"resume", "cancel"} :
                     Post(r, choice)
               \/ \E r \in Requests : \/ ReadState(r) \/ NothingToRevoke(r)
                                      \/ OpenCheckout(r) \/ Refuse(r)
               \/ \E e \in Envs : Redeploy(e)
               \/ UNCHANGED vars
      <3>1. UNCHANGED sub
        BY <2>8 DEF Upsert, InsertFree, UpdateFree, Post, ReadState, NothingToRevoke,
                    OpenCheckout, Refuse, Redeploy, Polar, vars
      <3> QED
        BY <2>1, <3>1 DEF Held
    <2>9. UNCHANGED sub => sub' # NoSub /\ sub'.id = sub.id /\ sub'.amount >= sub.amount
      BY <2>1 DEF Held
    <2> QED
      BY <1>2, <2>2, <2>3, <2>4, <2>5, <2>6, <2>7, <2>8, <2>9 DEF Next
  <1> QED
    BY <1>1, <1>2, Initially, PTL DEF Spec, PaidForIsKept

----------------------------------------------------------------------------
(***************************************************************************)
(* The claim row of module Provisioning, under which Free is created.      *)
(*                                                                         *)
(* That the claim bars: for any number of gateway requests and portal      *)
(* renders, and lookups that take for ever, no two whose lookup left room  *)
(* for their other calls create under a claim at the same time.            *)
(*                                                                         *)
(* OnePunctualCreator is not inductive.  Why it holds is that the claim of *)
(* such a creator is the row's, and that it is young: its age and what is  *)
(* left of the pending call add up to no more than the calls made so far   *)
(* may take, so the row cannot go stale under it.  A lookup that outlasts  *)
(* its room makes a late creator of it, of whose claim nothing is said but *)
(* that its token is nobody else's.                                        *)
(***************************************************************************)

\* The longest a caller whose lookup was not late can have held its claim once
\* the call it is in has settled.
Budget(call) ==
    IF call = "lookup" THEN LookupRoom
    ELSE IF call = "customer" THEN LookupRoom + CallTimeout
    ELSE IF call = "rereading" THEN LookupRoom + 2 * CallTimeout
    ELSE LookupRoom + 3 * CallTimeout

\* Only winners of the claim carry a token, and no two the same.
TokensDistinct ==
    \A c, d \in Callers :
        token[c] # NoToken /\ token[c] = token[d] => c = d

ClaimsYoung ==
    \A c \in Callers : Punctual(c) =>
        /\ claim.token = token[c]
        /\ claim.age + left[c] <= Budget(awaited[c])

\* The calls made before the claim.
Unclaimed == {"idle", "reading", "claiming"}

TokensWon ==
    \A c \in Callers :
        /\ awaited[c] \in Unclaimed => token[c] = NoToken
        /\ awaited[c] \in {"lookup", "creating"} => token[c] # NoToken

\* Nobody is late with a claim it has not won.
LateHolds == \A c \in late : token[c] # NoToken

ClaimInv ==
    ClaimTypeOK /\ TokensDistinct /\ TokensWon /\ ClaimsYoung /\ LateHolds

----------------------------------------------------------------------------
\* The window and the limits of the calls.
LEMMA Room ==
  /\ StaleAfter \in Nat /\ CallTimeout \in Nat /\ CallTimeout > 0
  /\ LookupRoom \in Nat /\ StaleAfter = LookupRoom + 3 * CallTimeout
  /\ MaxLeft \in Nat
  /\ 0 \in 0..MaxLeft /\ CallTimeout \in 0..MaxLeft /\ LookupRoom \in 0..MaxLeft
  <1>1. /\ StaleAfter \in Nat /\ CallTimeout \in Nat /\ CallTimeout > 0
        /\ LookupRoom \in Nat /\ StaleAfter = LookupRoom + 3 * CallTimeout
    BY Times DEF LookupRoom
  <1> QED
    BY <1>1 DEF MaxLeft

LEMMA InitClaimInv == ClaimInit => ClaimInv
  BY CallerKinds, Room, TokenKinds
     DEF ClaimInit, ClaimInv, ClaimTypeOK, TokensDistinct, TokensWon,
         ClaimsYoung, LateHolds, Creator, Punctual, NoClaim, States

\* What has been spent and is left of the window, under a creator's claim.
LEMMA AgeWithinBudget ==
  ASSUME ClaimInv, NEW c \in Callers, Punctual(c)
  PROVE  /\ claim.age \in Nat /\ left[c] \in Nat /\ Budget(awaited[c]) \in Nat
         /\ claim.age + left[c] <= Budget(awaited[c])
         /\ Budget(awaited[c]) <= StaleAfter
  <1>1. left[c] \in Nat /\ claim.age \in Nat
    BY Room DEF ClaimInv, ClaimTypeOK
  <1>2. claim.age + left[c] <= Budget(awaited[c])
    BY DEF ClaimInv, ClaimsYoung
  <1>3. Budget(awaited[c]) \in Nat /\ Budget(awaited[c]) <= StaleAfter
    BY Room DEF Budget
  <1> QED
    BY <1>1, <1>2, <1>3

\* A creator's claim has not expired.
LEMMA CreatorNotExpired ==
  ASSUME ClaimInv, NEW c \in Callers, Punctual(c)
  PROVE  ~Expired /\ claim # NoClaim
  <1>1. claim.token = token[c]
    BY DEF ClaimInv, ClaimsYoung
  <1>2. ~Expired
    BY AgeWithinBudget, Room DEF Expired
  <1>3. claim # NoClaim
    BY <1>1 DEF Punctual, Creator, NoClaim
  <1> QED
    BY <1>2, <1>3

\* The caller that deletes the row is not a creator, so it deletes nobody
\* else's claim.
LEMMA OwnerIsNotCreator ==
  ASSUME ClaimInv, NEW c \in Callers, NEW d \in Callers, Punctual(c),
         awaited[d] \in {"completing", "releasing"}
  PROVE  ~Owns(d)
  BY DEF ClaimInv, TokensDistinct, ClaimsYoung, Creator, Punctual, Owns

----------------------------------------------------------------------------
\* A caller that goes back to idle disturbs nobody.
LEMMA ReturnPreserves ==
  ASSUME ClaimInv, NEW c \in Callers, Return(c), UNCHANGED <<claim, AtPolar>>
  PROVE  ClaimInv'
  <1>1. ClaimTypeOK'
    BY Room DEF ClaimInv, ClaimTypeOK, Return, AtPolar, States
  <1>2. TokensDistinct' /\ TokensWon' /\ LateHolds'
    BY TokenKinds
       DEF ClaimInv, ClaimTypeOK, TokensDistinct, TokensWon, LateHolds, Return
  <1>3. ClaimsYoung'
    BY DEF ClaimInv, ClaimTypeOK, ClaimsYoung, Creator, Punctual, Return
  <1> QED
    BY <1>1, <1>2, <1>3 DEF ClaimInv

\* From one bounded call under the claim to the next.
LEMMA NextCallPreserves ==
  ASSUME ClaimInv, NEW c \in Callers,
         NEW call \in {"customer", "rereading", "creating"},
         Creator(c), AwaitBounded(c, call, CallTimeout),
         UNCHANGED <<existing, token, claim>>,
         customer' \in BOOLEAN, free' \in Nat, other' \in BOOLEAN,
         Punctual(c) => claim.age + CallTimeout <= Budget(call)
  PROVE  ClaimInv'
  <1>1. ClaimTypeOK'
    BY Room DEF ClaimInv, ClaimTypeOK, AwaitBounded, Await, States
  <1>2. TokensDistinct' /\ TokensWon' /\ LateHolds'
    BY DEF ClaimInv, ClaimTypeOK, TokensDistinct, TokensWon, LateHolds,
           AwaitBounded, Await, Creator, Unclaimed
  <1>3. ASSUME NEW d \in Callers, Punctual(d)'
        PROVE  /\ claim'.token = token'[d]
               /\ claim'.age + left'[d] <= Budget(awaited'[d])
    <2>1. CASE d = c
      <3>1. awaited'[c] = call /\ left'[c] = CallTimeout /\ late' = late
        BY DEF AwaitBounded, Await, ClaimInv, ClaimTypeOK
      <3>2. Punctual(c)
        BY <1>3, <2>1, <3>1 DEF Punctual
      <3> QED
        BY <2>1, <3>1, <3>2 DEF ClaimInv, ClaimsYoung
    <2>2. CASE d # c
      <3>1. awaited'[d] = awaited[d] /\ left'[d] = left[d] /\ late' = late
        BY <2>2 DEF AwaitBounded, Await, ClaimInv, ClaimTypeOK
      <3>2. Punctual(d)
        BY <1>3, <3>1 DEF Creator, Punctual
      <3> QED
        BY <3>1, <3>2 DEF ClaimInv, ClaimsYoung
    <2> QED
      BY <2>1, <2>2
  <1> QED
    BY <1>1, <1>2, <1>3 DEF ClaimInv, ClaimsYoung

\* The last of its calls is over.
LEMMA FinishPreserves ==
  ASSUME ClaimInv, NEW c \in Callers, NEW call \in {"completing", "releasing"},
         Creator(c), Finish(c, call), UNCHANGED <<existing, token, claim>>,
         customer' \in BOOLEAN, free' \in Nat, other' \in BOOLEAN
  PROVE  ClaimInv'
  <1>1. ClaimTypeOK'
    BY Room DEF ClaimInv, ClaimTypeOK, Finish, States
  <1>2. TokensDistinct' /\ TokensWon' /\ LateHolds'
    BY DEF ClaimInv, ClaimTypeOK, TokensDistinct, TokensWon, LateHolds, Finish,
           Creator, Unclaimed
  <1>3. ClaimsYoung'
    BY DEF ClaimInv, ClaimTypeOK, ClaimsYoung, Creator, Punctual, Finish
  <1> QED
    BY <1>1, <1>2, <1>3 DEF ClaimInv

----------------------------------------------------------------------------
\* The winner's token is new and its claim has just been made; there was no
\* other creator, for its claim would have been in the way.
LEMMA WinPreserves ==
  ASSUME ClaimInv, NEW c \in Callers, WinClaim(c)
  PROVE  ClaimInv'
  <1>1. PICK t \in Tokens \ InUse :
           /\ claim' = [token |-> t, age |-> 0]
           /\ token' = [token EXCEPT ![c] = t]
    BY DEF WinClaim
  <1>2. \A d \in Callers : ~Punctual(d)
    <2> SUFFICES ASSUME NEW d \in Callers, Punctual(d) PROVE FALSE
      OBVIOUS
    <2> QED
      BY CreatorNotExpired DEF WinClaim, CanClaim
  <1>3. /\ awaited' \in [Callers -> States] /\ left' \in [Callers -> 0..MaxLeft]
        /\ \A d \in Callers : d # c => awaited'[d] = awaited[d]
        /\ awaited'[c] \in {"lookup", "creating"} /\ late' = late
        /\ left'[c] \in Nat /\ left'[c] <= Budget(awaited'[c])
    BY Room DEF WinClaim, AwaitBounded, Await, ClaimInv, ClaimTypeOK, States, Budget
  <1>4. ClaimTypeOK'
    BY <1>1, <1>3 DEF WinClaim, ClaimInv, ClaimTypeOK, AtPolar
  <1>5. TokensDistinct' /\ TokensWon' /\ LateHolds'
    BY <1>1, <1>3, TokenKinds
       DEF ClaimInv, ClaimTypeOK, TokensDistinct, TokensWon, LateHolds, Unclaimed,
           InUse
  <1>6. ClaimsYoung'
    <2> SUFFICES ASSUME NEW d \in Callers, Punctual(d)'
                 PROVE  /\ claim'.token = token'[d]
                        /\ claim'.age + left'[d] <= Budget(awaited'[d])
      BY DEF ClaimsYoung
    <2>1. d = c
      BY <1>1, <1>2, <1>3 DEF Creator, Punctual, ClaimInv, ClaimTypeOK
    <2> QED
      BY <2>1, <1>1, <1>3 DEF ClaimInv, ClaimTypeOK
  <1> QED
    BY <1>4, <1>5, <1>6 DEF ClaimInv

\* Time takes from what is left of a pending call what it adds to the claim;
\* of a lookup that has nothing left it makes a late one.
LEMMA TickPreserves ==
  ASSUME ClaimInv, Tick
  PROVE  ClaimInv'
  <1>1. /\ \A d \in Callers : Punctual(d)' => Punctual(d)
        /\ UNCHANGED <<awaited, token, existing, customer, free, other>>
    BY DEF Tick, Creator, Punctual, AtPolar
  <1>2. left' \in [Callers -> 0..MaxLeft]
    BY Room DEF Tick, ClaimInv, ClaimTypeOK
  <1>3. /\ claim' \in [token : Tokens \cup {NoToken}, age : Nat]
        /\ claim'.token = claim.token /\ claim'.age <= claim.age + 1
    BY DEF Tick, ClaimInv, ClaimTypeOK
  <1>4. late' \subseteq Callers /\ LateHolds'
    BY <1>1 DEF Tick, ClaimInv, ClaimTypeOK, LateHolds, TokensWon
  <1>5. ClaimTypeOK' /\ TokensDistinct' /\ TokensWon'
    BY <1>1, <1>2, <1>3, <1>4 DEF ClaimInv, ClaimTypeOK, TokensDistinct, TokensWon
  <1>6. ASSUME NEW d \in Callers, Punctual(d)'
        PROVE  claim'.age + left'[d] <= Budget(awaited'[d])
    <2>1. Punctual(d) /\ Creator(d)
      BY <1>1, <1>6 DEF Punctual
    <2>2. left[d] > 0
      <3>1. left[d] # 0
        BY <1>1, <1>6, <2>1, Room DEF Tick, CallsInTime, Punctual
      <3> QED
        BY <2>1, <3>1, AgeWithinBudget
    <2>3. left'[d] = left[d] - 1
      BY <2>1, <2>2 DEF Tick
    <2>4. claim'.age \in Nat
      BY <1>3
    <2> QED
      BY <1>1, <1>3, <2>1, <2>3, <2>4, AgeWithinBudget
  <1>7. ClaimsYoung'
    BY <1>1, <1>3, <1>6 DEF ClaimInv, ClaimsYoung
  <1> QED
    BY <1>4, <1>5, <1>7 DEF ClaimInv

\* A caller whose row is deleted, or not, was not a creator.
LEMMA DeletePreserves ==
  ASSUME ClaimInv, NEW c \in Callers, DeleteClaim(c)
  PROVE  ClaimInv'
  <1>1. CASE claim' = claim
    BY <1>1, ReturnPreserves DEF DeleteClaim
  <1>2. CASE claim' # claim
    <2>1. Owns(c) /\ claim' = NoClaim
      BY <1>2 DEF DeleteClaim
    <2>2. \A d \in Callers : ~Punctual(d)
      BY <2>1, OwnerIsNotCreator DEF DeleteClaim
    <2>3. \A d \in Callers : ~Punctual(d)'
      BY <2>2 DEF DeleteClaim, Return, Creator, Punctual, ClaimInv, ClaimTypeOK
    <2>4. ClaimTypeOK'
      BY <2>1, Room
         DEF DeleteClaim, Return, AtPolar, ClaimInv, ClaimTypeOK, NoClaim, States
    <2>5. TokensDistinct' /\ TokensWon' /\ LateHolds'
      BY TokenKinds
         DEF DeleteClaim, Return, ClaimInv, ClaimTypeOK, TokensDistinct, TokensWon,
             LateHolds
    <2> QED
      BY <2>3, <2>4, <2>5 DEF ClaimInv, ClaimsYoung
  <1> QED
    BY <1>1, <1>2

\* A caller without a token is no creator, whichever call it goes to.
LEMMA PlainStepPreserves ==
  ASSUME ClaimInv, NEW c \in Callers, NEW call \in States,
         token[c] = NoToken, call \notin {"lookup", "creating"},
         Await(c, call),
         left' = left \/ left' = [left EXCEPT ![c] = 0],
         UNCHANGED <<token, claim>>, existing' \in [Callers -> BOOLEAN],
         customer' \in BOOLEAN, free' \in Nat, other' \in BOOLEAN
  PROVE  ClaimInv'
  <1>1. ClaimTypeOK'
    <2>1. left' \in [Callers -> 0..MaxLeft]
      BY Room DEF ClaimInv, ClaimTypeOK
    <2> QED
      BY <2>1 DEF ClaimInv, ClaimTypeOK, Await
  <1>2. TokensDistinct' /\ TokensWon' /\ LateHolds'
    BY DEF ClaimInv, ClaimTypeOK, TokensDistinct, TokensWon, LateHolds, Await
  <1>3. ASSUME NEW d \in Callers, Punctual(d)'
        PROVE  Punctual(d) /\ awaited'[d] = awaited[d] /\ left'[d] = left[d]
    BY <1>3 DEF Creator, Punctual, Await, ClaimInv, ClaimTypeOK
  <1> QED
    BY <1>1, <1>2, <1>3 DEF ClaimInv, ClaimsYoung

\* The gateway's calls under its claim, each within its share of the budget.
LEMMA CreatorStepPreserves ==
  ASSUME ClaimInv, NEW c \in Callers, token[c] # NoToken,
         EmailArrives(c) \/ SubscriptionCreated(c) \/ SubscriptionFails(c)
         \/ CustomerCreated(c) \/ CustomerFails(c)
         \/ CustomerIsThere(c) \/ CustomerMissing(c)
  PROVE  ClaimInv'
  <1>1. Creator(c)
    BY DEF EmailArrives, SubscriptionCreated, SubscriptionFails,
           CustomerCreated, CustomerFails, CustomerIsThere, CustomerMissing,
           Creator
  <1>2. UNCHANGED <<existing, token, claim>>
    BY DEF EmailArrives, SubscriptionCreated, SubscriptionFails,
           CustomerCreated, CustomerFails, CustomerIsThere, CustomerMissing
  <1>3. customer' \in BOOLEAN /\ free' \in Nat /\ other' \in BOOLEAN
    <2>1. customer \in BOOLEAN /\ free \in Nat /\ other \in BOOLEAN
      BY DEF ClaimInv, ClaimTypeOK
    <2>2. /\ customer' \in {customer, TRUE} /\ other' = other
          /\ free' \in {free, free + 1}
      BY DEF EmailArrives, SubscriptionCreated, SubscriptionFails,
             CustomerCreated, CustomerFails, CustomerIsThere, CustomerMissing,
             AtPolar
    <2>3. free' \in Nat
      BY <2>1, <2>2
    <2>4. customer' \in BOOLEAN /\ other' \in BOOLEAN
      BY <2>1, <2>2, Zenon
    <2> QED
      BY <2>3, <2>4
  <1>4. \/ /\ awaited[c] = "lookup"
           /\ AwaitBounded(c, "customer", CallTimeout)
        \/ /\ awaited[c] = "customer"
           /\ AwaitBounded(c, "rereading", CallTimeout)
        \/ /\ awaited[c] \in {"customer", "rereading"}
           /\ AwaitBounded(c, "creating", CallTimeout)
        \/ Finish(c, "completing")
        \/ Finish(c, "releasing")
    BY DEF EmailArrives, SubscriptionCreated, SubscriptionFails,
           CustomerCreated, CustomerFails, CustomerIsThere, CustomerMissing,
           AfterCustomer
  <1>5. CASE Finish(c, "completing") \/ Finish(c, "releasing")
    BY <1>1, <1>2, <1>3, <1>5, FinishPreserves
  <1>6. Punctual(c) =>
           /\ awaited[c] = "lookup" => claim.age + CallTimeout <= Budget("customer")
           /\ awaited[c] = "customer" => claim.age + CallTimeout <= Budget("rereading")
           /\ awaited[c] \in {"customer", "rereading"}
                 => claim.age + CallTimeout <= Budget("creating")
    <2>1. Punctual(c) => claim.age \in Nat /\ claim.age <= Budget(awaited[c])
      BY AgeWithinBudget
    <2> QED
      BY <2>1, Room DEF Budget
  <1>7. CASE awaited[c] = "lookup" /\ AwaitBounded(c, "customer", CallTimeout)
    BY <1>1, <1>2, <1>3, <1>6, <1>7, NextCallPreserves
  <1>8. CASE awaited[c] = "customer" /\ AwaitBounded(c, "rereading", CallTimeout)
    BY <1>1, <1>2, <1>3, <1>6, <1>8, NextCallPreserves
  <1>9. CASE /\ awaited[c] \in {"customer", "rereading"}
             /\ AwaitBounded(c, "creating", CallTimeout)
    BY <1>1, <1>2, <1>3, <1>6, <1>9, NextCallPreserves
  <1> QED
    BY <1>4, <1>5, <1>7, <1>8, <1>9

\* The portal's calls before it claims.
LEMMA TokenlessStepPreserves ==
  ASSUME ClaimInv, NEW c \in Callers, token[c] = NoToken,
         EmailArrives(c) \/ SubscriptionCreated(c) \/ SubscriptionFails(c)
         \/ CustomerCreated(c) \/ CustomerFails(c)
         \/ CustomerIsThere(c) \/ CustomerMissing(c)
  PROVE  ClaimInv'
  <1>1. awaited[c] \notin {"lookup", "creating"}
    BY DEF ClaimInv, TokensWon
  <1>2. CASE CustomerCreated(c)
    <2>1. Await(c, "claiming") /\ UNCHANGED left
      BY <1>2 DEF CustomerCreated, AfterCustomer
    <2> QED
      BY <2>1, <1>2, PlainStepPreserves
         DEF CustomerCreated, ClaimInv, ClaimTypeOK, States
  <1>3. CASE CustomerFails(c)
    <2>1. Await(c, "rereading") /\ left' = [left EXCEPT ![c] = 0]
      BY <1>3 DEF CustomerFails, AwaitBounded
    <2> QED
      BY <2>1, <1>3, PlainStepPreserves
         DEF CustomerFails, ClaimInv, ClaimTypeOK, States
  <1>4. CASE (CustomerIsThere(c) \/ CustomerMissing(c)) /\ Return(c)
    BY <1>4, ReturnPreserves DEF CustomerIsThere, CustomerMissing
  <1>5. CASE CustomerIsThere(c) /\ ~Return(c)
    <2>1. Await(c, "claiming") /\ UNCHANGED left
      BY <1>5 DEF CustomerIsThere, AfterCustomer
    <2> QED
      BY <2>1, <1>5, PlainStepPreserves
         DEF CustomerIsThere, AtPolar, ClaimInv, ClaimTypeOK, States
  <1>6. ~(CustomerMissing(c) /\ ~Return(c))
    BY DEF CustomerMissing
  <1> QED
    BY <1>1, <1>2, <1>3, <1>4, <1>5, <1>6
       DEF EmailArrives, SubscriptionCreated, SubscriptionFails

----------------------------------------------------------------------------
LEMMA StepClaimInv ==
  ASSUME ClaimInv, [ClaimNext]_claimVars
  PROVE  ClaimInv'
  <1>11. ClaimTypeOK /\ TokensWon
    BY DEF ClaimInv
  <1>12. customer \in BOOLEAN /\ free \in Nat /\ other \in BOOLEAN
    BY <1>11 DEF ClaimTypeOK
  <1>1. ASSUME NEW c \in Callers, Start(c)
        PROVE  ClaimInv'
    <2>1. "reading" \in States /\ token[c] = NoToken
      BY <1>1, <1>11 DEF Start, States, TokensWon, Unclaimed
    <2> QED
      BY <2>1, <1>1, <1>11, PlainStepPreserves DEF Start, AtPolar, ClaimTypeOK
  <1>2. ASSUME NEW c \in Callers, ReadSubscribed(c) \/ LoseClaim(c) \/ Die(c)
        PROVE  ClaimInv'
    BY <1>2, ReturnPreserves DEF ReadSubscribed, LoseClaim, Die
  <1>3. ASSUME NEW c \in Callers, ReadNothing(c)
        PROVE  ClaimInv'
    <2>1. CASE Return(c)
      BY <1>3, <2>1, ReturnPreserves DEF ReadNothing
    <2>2. CASE ~Return(c)
      <3> DEFINE call == IF c \in Portals /\ ~customer
                         THEN "customer" ELSE "claiming"
      <3>1. /\ Await(c, call) /\ UNCHANGED <<token, left, claim, AtPolar>>
            /\ existing' = [existing EXCEPT ![c] = customer]
        BY <1>3, <2>2 DEF ReadNothing
      <3>2. call \in States
        BY DEF States
      <3>3. existing' \in [Callers -> BOOLEAN]
        BY <3>1, <1>11 DEF ClaimTypeOK
      <3>4. token[c] = NoToken /\ call \notin {"lookup", "creating"}
        BY <1>3, <1>11 DEF ReadNothing, TokensWon, Unclaimed
      <3> HIDE DEF call
      <3> QED
        BY <3>1, <3>2, <3>3, <3>4, <1>12, PlainStepPreserves DEF AtPolar
    <2> QED
      BY <2>1, <2>2
  <1>4. ASSUME NEW c \in Callers, WinClaim(c)
        PROVE  ClaimInv'
    BY <1>4, WinPreserves
  <1>5. ASSUME NEW c \in Callers,
               EmailArrives(c) \/ SubscriptionCreated(c) \/ SubscriptionFails(c)
               \/ CustomerCreated(c) \/ CustomerFails(c)
               \/ CustomerIsThere(c) \/ CustomerMissing(c),
               token[c] # NoToken
        PROVE  ClaimInv'
    BY <1>5, CreatorStepPreserves
  <1>6. ASSUME NEW c \in Callers,
               EmailArrives(c) \/ SubscriptionCreated(c) \/ SubscriptionFails(c)
               \/ CustomerCreated(c) \/ CustomerFails(c)
               \/ CustomerIsThere(c) \/ CustomerMissing(c),
               token[c] = NoToken
        PROVE  ClaimInv'
    BY <1>6, TokenlessStepPreserves
  <1>7. ASSUME NEW c \in Callers, DeleteClaim(c)
        PROVE  ClaimInv'
    BY <1>7, DeletePreserves
  <1>8. CASE Lapse
    BY <1>8
       DEF Lapse, ClaimInv, ClaimTypeOK, TokensDistinct, TokensWon, ClaimsYoung,
           LateHolds, Creator, Punctual
  <1>9. CASE Tick
    BY <1>9, TickPreserves
  <1>10. CASE UNCHANGED claimVars
    BY <1>10
       DEF claimVars, ClaimInv, ClaimTypeOK, TokensDistinct, TokensWon,
           ClaimsYoung, LateHolds, Creator, Punctual
  <1> QED
    BY <1>1, <1>2, <1>3, <1>4, <1>5, <1>6, <1>7, <1>8, <1>9, <1>10
       DEF ClaimNext, Settle

----------------------------------------------------------------------------
\* The strengthened invariant of every behaviour.
THEOREM ClaimInvariance == ClaimSpec => []ClaimInv
  <1>1. ClaimInit => ClaimInv
    BY InitClaimInv
  <1>2. ClaimInv /\ [ClaimNext]_claimVars => ClaimInv'
    BY StepClaimInv
  <1> QED
    BY <1>1, <1>2, PTL DEF ClaimSpec

\* Every variable keeps its type; in particular no bounded call outlives its
\* limit.
THEOREM ClaimTypeCorrect == ClaimSpec => []ClaimTypeOK
  <1>1. ClaimInv => ClaimTypeOK
    BY DEF ClaimInv
  <1> QED
    BY <1>1, ClaimInvariance, PTL

\* However many requests race and however long WorkOS takes, at most one of
\* those creates under the claim whose lookup was not late.
THEOREM ClaimBars == ClaimSpec => []OnePunctualCreator
  <1>1. ClaimInv => OnePunctualCreator
    BY DEF ClaimInv, TokensDistinct, ClaimsYoung, OnePunctualCreator, Creator,
           Punctual
  <1> QED
    BY <1>1, ClaimInvariance, PTL

----------------------------------------------------------------------------
(* The claim is a lease.                                                   *)

Creators == {c \in Callers : Punctual(c)}

\* Without a row there is no age.
NoRowNoAge == claim.token = NoToken => claim = NoClaim

LEMMA NoRowNoAgeStep == NoRowNoAge /\ [ClaimNext]_claimVars => NoRowNoAge'
  <1> SUFFICES ASSUME NoRowNoAge, [ClaimNext]_claimVars PROVE NoRowNoAge'
    OBVIOUS
  <1>1. CASE claim' = claim \/ claim' = NoClaim
    BY <1>1 DEF NoRowNoAge
  <1>2. ASSUME NEW c \in Callers, WinClaim(c)
        PROVE  NoRowNoAge'
    BY <1>2, TokenKinds DEF WinClaim, NoRowNoAge
  <1>3. CASE Tick
    BY <1>3 DEF Tick, NoRowNoAge
  <1>4. ASSUME NEW c \in Callers, Start(c) \/ Settle(c) \/ Die(c), ~WinClaim(c)
        PROVE  claim' = claim \/ claim' = NoClaim
    BY <1>4 DEF Start, Settle, Die, ReadSubscribed, ReadNothing, LoseClaim,
                EmailArrives, CustomerCreated, CustomerFails, CustomerIsThere,
                CustomerMissing, SubscriptionCreated, SubscriptionFails, DeleteClaim
  <1> QED
    BY <1>1, <1>2, <1>3, <1>4 DEF ClaimNext, Lapse, claimVars

\* A step that leaves the claim, and after which no caller creates who did not
\* before and all others do, is a stop or hidden.
LEMMA CreatorStops ==
  ASSUME NEW c \in Callers, claim' = claim,
         \A d \in Callers \ {c} : Punctual(d)' <=> Punctual(d),
         Punctual(c)' => Punctual(c)
  PROVE  [Claim!Next]_(Claim!vars)
  <1>1. Expired' = Expired
    BY DEF Expired
  <1>2. CASE Punctual(c)' <=> Punctual(c)
    BY <1>1, <1>2 DEF Claim!vars
  <1>3. CASE Punctual(c) /\ ~Punctual(c)'
    <2>1. c \in Creators /\ Creators' = Creators \ {c}
      BY <1>3 DEF Creators
    <2>2. Claim!Stop(c)
      BY <1>1, <2>1 DEF Claim!Stop, Creators
    <2> QED
      BY <2>2 DEF Claim!Next
  <1> QED
    BY <1>2, <1>3

LEMMA WinTakes ==
  ASSUME ClaimInv, NEW c \in Callers, WinClaim(c)
  PROVE  Claim!Take(c)
  <1>1. PICK t \in Tokens \ InUse :
           /\ claim' = [token |-> t, age |-> 0]
           /\ token' = [token EXCEPT ![c] = t]
    BY DEF WinClaim
  <1>2. Creators = {}
    BY CreatorNotExpired DEF Creators, WinClaim, CanClaim
  <1>3. Creators' = {c}
    <2>1. /\ \A d \in Callers \ {c} : awaited'[d] = awaited[d] /\ token'[d] = token[d]
          /\ awaited'[c] \in {"lookup", "creating"} /\ token'[c] = t /\ late' = late
      BY <1>1 DEF WinClaim, AwaitBounded, Await, ClaimInv, ClaimTypeOK
    <2>3. c \notin late
      BY DEF WinClaim, ClaimInv, TokensWon, LateHolds, Unclaimed
    <2>2. \A d \in Callers : Punctual(d)' <=> d = c
      BY <1>2, <2>1, <2>3, TokenKinds DEF Creator, Punctual, Creators
    <2> QED
      BY <2>2 DEF Creators
  <1>4. claim'.token \in Tokens \ {claim.token} /\ ~Expired'
    BY <1>1, Times DEF InUse, Expired
  <1>5. claim.token = NoToken \/ Expired
    BY DEF WinClaim, CanClaim, NoClaim
  <1> QED
    BY <1>2, <1>3, <1>4, <1>5 DEF Claim!Take, Claim!Renewed, Creators

\* A caller deletes its own row, when neither it nor another creates under it.
LEMMA DeleteGivesBack ==
  ASSUME ClaimInv, NoRowNoAge, NEW c \in Callers, DeleteClaim(c)
  PROVE  [Claim!Next]_(Claim!vars)
  <1>1. \A d \in Callers : Punctual(d)' <=> Punctual(d)
    BY DEF DeleteClaim, Return, Creator, Punctual, ClaimInv, ClaimTypeOK
  <1>2. CASE claim' = claim
    BY <1>1, <1>2, CreatorStops
  <1>3. CASE claim' # claim
    <2>1. Owns(c) /\ claim' = NoClaim
      BY <1>3 DEF DeleteClaim
    <2>2. Creators = {} /\ Creators' = {}
      BY <1>1, <2>1, OwnerIsNotCreator DEF DeleteClaim, Creators
    <2>3. claim.token # NoToken
      BY <1>3, <2>1 DEF NoRowNoAge
    <2>4. claim'.token = NoToken /\ ~Expired'
      BY <2>1, Times DEF NoClaim, Expired
    <2>5. Claim!GiveBack
      BY <2>2, <2>3, <2>4 DEF Claim!GiveBack, Creators
    <2> QED
      BY <2>5 DEF Claim!Next
  <1> QED
    BY <1>2, <1>3

\* The claim goes stale when nobody creates under it, and later than a lookup
\* that becomes late.
LEMMA TickExpires ==
  ASSUME ClaimInv, NoRowNoAge, Tick
  PROVE  [Claim!Next]_(Claim!vars)
  <1>1. Creators' \subseteq Creators /\ \A c \in Callers : Creator(c)' <=> Creator(c)
    BY DEF Tick, Creators, Creator, Punctual
  <1>2. claim'.token = claim.token /\ claim.age \in Nat
    BY DEF Tick, ClaimInv, ClaimTypeOK
  <1>3. CASE Creators' = Creators /\ Expired' = Expired
    BY <1>2, <1>3 DEF Claim!vars, Creators
  <1>4. ASSUME Expired' # Expired
        PROVE  /\ claim.token # NoToken /\ Expired' /\ claim.age = StaleAfter
    <2>1. claim # NoClaim /\ claim.age <= StaleAfter /\ claim' = [claim EXCEPT !.age = @ + 1]
      BY <1>4 DEF Tick, Expired
    <2>2. claim.token # NoToken
      BY <2>1 DEF NoRowNoAge
    <2>3. claim'.age = claim.age + 1
      BY <2>1 DEF ClaimInv, ClaimTypeOK
    <2> QED
      BY <1>2, <1>4, <2>1, <2>2, <2>3, Room DEF Expired
  <1>5. CASE Creators' = Creators /\ Expired' # Expired
    <2>1. ASSUME NEW c \in Creators PROVE FALSE
      <3>1. Punctual(c) /\ Creator(c) /\ Punctual(c)'
        BY <1>5, <2>1 DEF Creators, Punctual
      <3>2. left[c] # 0
        BY <3>1 DEF Tick, CallsInTime, Punctual, Creators
      <3> QED
        BY <1>4, <1>5, <2>1, <3>1, <3>2, AgeWithinBudget, Room DEF Creators
    <2>2. Claim!Lapse
      BY <1>2, <1>4, <1>5, <2>1 DEF Claim!Lapse, Creators
    <2> QED
      BY <2>2 DEF Claim!Next
  <1>6. CASE Creators' # Creators
    <2>1. PICK c \in Creators : c \notin Creators'
      BY <1>1, <1>6
    <2>2. c \in Callers /\ Punctual(c) /\ ~Punctual(c)'
      BY <2>1 DEF Creators
    <2>3. awaited[c] = "lookup"
      BY <1>1, <2>2 DEF Tick, Punctual
    <2>4. Creators = {c}
      BY <2>2 DEF Creators, ClaimInv, TokensDistinct, ClaimsYoung, Creator, Punctual
    <2>5. Creators' = Creators \ {c}
      BY <1>1, <2>1, <2>4
    <2>6. claim.age <= LookupRoom
      BY <2>2, <2>3, AgeWithinBudget, Room DEF Budget
    <2>7. Expired' = Expired
      BY <1>2, <1>4, <2>6, Room
    <2>8. Claim!Stop(c)
      BY <1>2, <2>1, <2>5, <2>7 DEF Claim!Stop, Creators
    <2> QED
      BY <2>2, <2>8 DEF Claim!Next
  <1> QED
    BY <1>3, <1>5, <1>6

\* What a caller does between its claim and the deletion of its row.
LEMMA CallStops ==
  ASSUME ClaimInv, NEW c \in Callers,
         \/ Start(c) \/ ReadSubscribed(c) \/ ReadNothing(c) \/ LoseClaim(c)
         \/ EmailArrives(c) \/ CustomerCreated(c) \/ CustomerFails(c)
         \/ CustomerIsThere(c) \/ CustomerMissing(c)
         \/ SubscriptionCreated(c) \/ SubscriptionFails(c) \/ Die(c)
  PROVE  [Claim!Next]_(Claim!vars)
  <1>1. claim' = claim
    BY DEF Start, ReadSubscribed, ReadNothing, LoseClaim, EmailArrives,
           CustomerCreated, CustomerFails, CustomerIsThere, CustomerMissing,
           SubscriptionCreated, SubscriptionFails, Die
  <1>2. \/ Return(c)
        \/ (\E call \in States : Await(c, call)) /\ UNCHANGED token
        \/ (\E call \in {"completing", "releasing"} : Finish(c, call)) /\ UNCHANGED token
    BY DEF Start, ReadSubscribed, ReadNothing, LoseClaim, EmailArrives,
           CustomerCreated, CustomerFails, CustomerIsThere, CustomerMissing,
           SubscriptionCreated, SubscriptionFails, Die, AwaitBounded,
           AfterCustomer, States
  <1>3. \A d \in Callers \ {c} : Punctual(d)' <=> Punctual(d)
    BY <1>2 DEF Return, Await, Finish, Creator, Punctual, ClaimInv, ClaimTypeOK
  <1>4. Punctual(c)' => Punctual(c)
    <2>1. CASE Return(c)
      BY <2>1 DEF Return, Creator, Punctual, ClaimInv, ClaimTypeOK
    <2>4. CASE \E call \in {"completing", "releasing"} : Finish(c, call)
      BY <2>4 DEF Finish, Creator, Punctual, ClaimInv, ClaimTypeOK
    <2>2. CASE UNCHANGED <<token, late>> /\ token[c] # NoToken
      <3>1. awaited[c] \notin Unclaimed
        BY <2>2 DEF ClaimInv, TokensWon
      <3>2. awaited[c] \in {"lookup", "customer", "rereading", "creating"} \/ Return(c)
        BY <3>1 DEF Start, ReadSubscribed, ReadNothing, LoseClaim, EmailArrives,
                    CustomerCreated, CustomerFails, CustomerIsThere,
                    CustomerMissing, SubscriptionCreated, SubscriptionFails, Die,
                    Unclaimed
      <3> QED
        BY <2>1, <2>2, <3>2 DEF Creator, Punctual
    <2>3. CASE UNCHANGED token /\ token[c] = NoToken
      BY <2>3 DEF Creator, Punctual
    <2> QED
      BY <1>2, <2>1, <2>2, <2>3, <2>4 DEF Await
  <1> QED
    BY <1>1, <1>3, <1>4, CreatorStops

LEMMA ClaimLeaseStep ==
  ASSUME ClaimInv, NoRowNoAge, [ClaimNext]_claimVars
  PROVE  [Claim!Next]_(Claim!vars)
  <1>1. ASSUME NEW c \in Callers, WinClaim(c)
        PROVE  Claim!Next
    BY <1>1, WinTakes DEF Claim!Next
  <1>2. ASSUME NEW c \in Callers, DeleteClaim(c)
        PROVE  [Claim!Next]_(Claim!vars)
    BY <1>2, DeleteGivesBack
  <1>3. ASSUME NEW c \in Callers, Start(c) \/ Settle(c) \/ Die(c),
               ~WinClaim(c), ~DeleteClaim(c)
        PROVE  [Claim!Next]_(Claim!vars)
    BY <1>3, CallStops DEF Settle
  <1>4. CASE Tick
    BY <1>4, TickExpires
  <1>5. CASE Lapse \/ UNCHANGED claimVars
    BY <1>5 DEF Lapse, claimVars, Claim!vars, Creator, Punctual, Expired
  <1> QED
    BY <1>1, <1>2, <1>3, <1>4, <1>5 DEF ClaimNext

\* For any number of requests and renders: the claim is a lease, kept while a
\* winner creates whose lookup was not late, and left to the next by the dead
\* and the late.
THEOREM ClaimLeases == ClaimSpec => ClaimIsALease
  <1>1. ClaimInit => Claim!Init /\ NoRowNoAge
    BY Room DEF ClaimInit, Claim!Init, NoRowNoAge, Creator, Punctual, NoClaim, Expired
  <1>2. NoRowNoAge /\ [ClaimNext]_claimVars => NoRowNoAge'
    BY NoRowNoAgeStep
  <1>3. ClaimInv /\ NoRowNoAge /\ [ClaimNext]_claimVars
           => [Claim!Next]_(Claim!vars)
    BY ClaimLeaseStep
  <1> QED
    BY <1>1, <1>2, <1>3, ClaimInvariance, PTL DEF ClaimSpec, ClaimIsALease, Claim!Spec
=============================================================================
