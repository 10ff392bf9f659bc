------------------------------- MODULE Account -------------------------------
(***************************************************************************)
(* One account's subscription, and the row the rest of seri reads it from. *)
(* Polar, the billing provider, is external: it keeps at most one active   *)
(* subscription of a customer and posts an event, or two, for each change  *)
(* of it, in no order and possibly more than once.  The webhook of         *)
(* apps/server turns events into account_status; the forms of apps/portal  *)
(* change the subscription, each on a state it read one await earlier; an  *)
(* operator may redeploy with other product ids.  How Free is created once *)
(* is module Provisioning's subject; here it is one step.                  *)
(***************************************************************************)
EXTENDS Integers, FiniteSets

CONSTANTS
    Requests,       \* the portal's form posts
    Products,       \* Polar's product ids
    Price,          \* what each costs: its rank on the ladder, 0 when free
    Envs,           \* the deployments: which product each plan's variable names
    Unset,          \* a variable that is not set, or a product no plan has
    NoSub, NoRow,   \* no active subscription, no row
    MaxChanges,     \* bound: changes Polar makes
    MaxWriting,     \* bound: zero-cost writes under way at once
    MaxRedeploys    \* bound: deployments that change a product id

VARIABLES
    env,        \* POLAR_PRODUCT_*, as both apps were deployed
    redeploys,
    sub,        \* the active subscription at Polar
    checkouts,  \* products of the checkout pages that are open
    clock,      \* changes Polar has made
    events,     \* events posted; any of them may come, or come again
    writing,    \* zero-cost writes between their two statements
    row,        \* the account_status row
    fresh,      \* its last write told of Polar's newest change
    pc, want,   \* where each request stands and what it asks for
    saw         \* the subscription it read

vars == <<env, redeploys, sub, checkouts, clock, events, writing, row,
          fresh, pc, want, saw>>
Polar == <<sub, checkouts, clock, events>>
Table == <<writing, row, fresh>>
Portal == <<pc, want, saw>>
Deployment == <<env, redeploys>>

PaidPlans == {"pro", "max"}     \* ultra differs from max in nothing here
Plans == {"free"} \cup PaidPlans
PriceOf(plan) == CASE plan = "free" -> 0 [] plan = "pro" -> 1 [] plan = "max" -> 2

\* The first plan of the ladder whose variable names the product.
PlanForProduct(product) ==
    IF env["free"] = product THEN "free"
    ELSE IF env["pro"] = product THEN "pro"
    ELSE IF env["max"] = product THEN "max" ELSE Unset

\* What the webhook stores: nothing at all when any variable is missing.
ToPlan(product) ==
    IF \E plan \in Plans : env[plan] = Unset THEN Unset
    ELSE PlanForProduct(product)

\* What a subscription is, and what a request reads of it.
Seens == [id : Nat, product : Products, amount : Nat, cancel : BOOLEAN]
Subs == [id : Nat, product : Products, amount : Nat, cancel : BOOLEAN,
         status : {"active", "past_due"}, pending : Products \cup {Unset},
         over : BOOLEAN]

ASSUME AccountAssumption ==
    /\ Price \in [Products -> Nat]
    /\ Envs \subseteq [Plans -> Products \cup {Unset}]
    /\ Unset \notin Products \cup Plans
    /\ NoSub \notin Subs \cup Seens
    /\ {MaxChanges, MaxWriting, MaxRedeploys} \subseteq Nat

\* What paid plans cost at Polar is in the order of the ladder, and not nothing.
LadderHolds ==
    \A e \in Envs : \A a, b \in PaidPlans :
        e[a] # Unset /\ e[b] # Unset /\ PriceOf(a) <= PriceOf(b) =>
            0 < Price[e[a]] /\ Price[e[a]] <= Price[e[b]]

Held == sub # NoSub
Costs(s) == s # NoSub /\ s.amount > 0
Current(s) == Held /\ s # NoSub /\ s.id = sub.id

Init ==
    /\ env \in Envs /\ redeploys = 0
    /\ sub = NoSub /\ checkouts = {} /\ clock = 0 /\ events = {}
    /\ writing = {} /\ row = NoRow /\ fresh = FALSE
    /\ pc = [r \in Requests |-> "idle"]
    /\ want = [r \in Requests |-> "none"]
    /\ saw = [r \in Requests |-> NoSub]

----------------------------------------------------------------------------
(* Polar.                                                                  *)

Event(s, kind, status) ==
    [kind |-> kind, product |-> s.product, amount |-> s.amount,
     status |-> status, cancel |-> s.cancel, at |-> clock + 1]
Updated(s) == Event(s, "sync", s.status)

\* The subscription becomes `next' and Polar posts what it tells of it.
Changes(next, told) ==
    /\ clock < MaxChanges
    /\ clock' = clock + 1
    /\ sub' = next /\ fresh' = FALSE
    /\ events' = events \cup told

NewSub(product, amount) ==
    [id |-> clock + 1, product |-> product, amount |-> amount, cancel |-> FALSE,
     status |-> "active", pending |-> Unset, over |-> FALSE]

\* A page load or a gateway request that finds nothing held creates Free.
ProvisionFree ==
    /\ ~Held /\ env["free"] # Unset
    /\ LET s == NewSub(env["free"], Price[env["free"]]) IN
       s.amount = 0 /\ Changes(s, {Updated(s)})
    /\ UNCHANGED <<checkouts, writing, row, Portal, Deployment>>

\* The customer completes a checkout: refused while anything is active.  A
\* discount may bring the amount to zero.
Subscribe(product) ==
    /\ product \in checkouts /\ ~Held
    /\ \E amount \in {0, Price[product]} :
         LET s == NewSub(product, amount) IN
         Changes(s, {Event(s, "sync", "incomplete"), Updated(s)})
    /\ checkouts' = checkouts \ {product}
    /\ UNCHANGED <<writing, row, Portal, Deployment>>

PeriodPasses ==
    /\ Costs(sub) /\ ~sub.over
    /\ sub' = [sub EXCEPT !.over = TRUE]
    /\ UNCHANGED <<checkouts, clock, events, Table, Portal, Deployment>>

\* A booked downgrade takes effect.
Renews ==
    /\ Held /\ sub.over /\ ~sub.cancel
    /\ LET next == IF sub.pending = Unset THEN sub.product ELSE sub.pending
           s == [sub EXCEPT !.over = FALSE, !.status = "active",
                            !.product = next, !.amount = Price[next],
                            !.pending = Unset] IN
       Changes(s, {Updated(s)})
    /\ UNCHANGED <<checkouts, writing, row, Portal, Deployment>>

PaymentFails ==
    /\ Held /\ sub.over /\ sub.status = "active" /\ ~sub.cancel
    /\ LET s == [sub EXCEPT !.status = "past_due"] IN Changes(s, {Updated(s)})
    /\ UNCHANGED <<checkouts, writing, row, Portal, Deployment>>

Ended(s) == {Event(s, "revoked", "canceled"), Event(s, "sync", "canceled")}

PeriodEnds ==
    /\ Held /\ sub.over /\ (sub.cancel \/ sub.status = "past_due")
    /\ Changes(NoSub, Ended(sub))
    /\ UNCHANGED <<checkouts, writing, row, Portal, Deployment>>

----------------------------------------------------------------------------
(* The webhook: POST of apps/server.                                       *)

\* A cancellation still to come leaves Polar's status "active", so a sync
\* reads it from the payload; the two handlers then agree in either order.
SyncStatus_Payload(e) ==        \* variant: the payload's status as it is
    IF e.status \in {"active", "past_due", "canceled"} THEN e.status ELSE Unset
SyncStatus(e) ==
    CASE e.status = "active" -> IF e.cancel THEN "canceled" ELSE "active"
      [] e.status \in {"past_due", "canceled"} -> e.status
      [] OTHER -> Unset
Status(e) == IF e.kind = "sync" THEN SyncStatus(e) ELSE e.kind

Write(e) == [plan |-> ToPlan(e.product), status |-> Status(e), from |-> e.at]

\* A status seri has no name for is passed over; Polar repeats an event whose
\* answer it did not get, so none is ever used up.
Handles(e) == e \in events /\ Status(e) # Unset

\* What costs, or is labelled paid, is written whatever the row says.
Unconditional_NotFree(e) ==     \* variant: whatever is not labelled free is
    ToPlan(e.product) # "free"
Unconditional(e) == e.amount # 0 \/ ToPlan(e.product) \in PaidPlans

Set(w) ==
    /\ row' = [plan |-> w.plan, status |-> w.status]
    /\ fresh' = (w.from = clock)

Upsert(e) ==
    /\ Handles(e) /\ Unconditional(e)
    /\ Set(Write(e))
    /\ UNCHANGED <<writing, Polar, Portal, Deployment>>

\* A zero-cost write is two statements: create the row if there is none ...
InsertFree(e) ==
    /\ Handles(e) /\ ~Unconditional(e)
    /\ Cardinality(writing) < MaxWriting
    /\ IF row = NoRow THEN Set(Write(e)) ELSE UNCHANGED <<row, fresh>>
    /\ writing' = writing \cup {Write(e)}
    /\ UNCHANGED <<Polar, Portal, Deployment>>

\* ... then claim it unless it is an active paid one, as the update finds it.
NotActivePaid == row.plan \notin PaidPlans \/ row.status # "active"

UpdateFree(w) ==
    /\ w \in writing
    /\ writing' = writing \ {w}
    /\ IF NotActivePaid THEN Set(w) ELSE UNCHANGED <<row, fresh>>
    /\ UNCHANGED <<Polar, Portal, Deployment>>

----------------------------------------------------------------------------
(* The portal's forms: selectPlan, resumePaidPlan, cancelPaidPlan.         *)

PaidHeld == Held /\ PlanForProduct(sub.product) \in PaidPlans
OnlyFree(s) == s # NoSub => PlanForProduct(s.product) = "free"

Goto(r, place) == pc' = [pc EXCEPT ![r] = place]
Answered(r) ==
    /\ Goto(r, "idle")
    /\ want' = [want EXCEPT ![r] = "none"]
    /\ saw' = [saw EXCEPT ![r] = NoSub]

\* selectPlan reads once to choose the mechanism, which then reads again.
Route(choice) ==
    CASE choice \in {"resume", "cancel"} -> choice
      [] choice = "free" \/ (choice \in PaidPlans /\ PaidHeld) -> "change"
      [] choice \in PaidPlans /\ ~PaidHeld -> "checkout"

Post(r, choice) ==
    /\ pc[r] = "idle"
    /\ Goto(r, Route(choice))
    /\ want' = [want EXCEPT ![r] = choice]
    /\ UNCHANGED <<saw, Polar, Table, Deployment>>

Acts(r) == CASE pc[r] = "change" -> "changing" [] pc[r] = "checkout" -> "buying"
             [] pc[r] = "resume" -> "resuming" [] pc[r] = "cancel" -> "ending"

\* The fields a request reads.
Seen(s) ==
    IF s = NoSub THEN NoSub
    ELSE [id |-> s.id, product |-> s.product, amount |-> s.amount,
          cancel |-> s.cancel]

ReadState(r) ==
    /\ pc[r] \in {"change", "checkout", "resume", "cancel"}
    /\ saw' = [saw EXCEPT ![r] = Seen(sub)]
    /\ Goto(r, Acts(r))
    /\ UNCHANGED <<want, Polar, Table, Deployment>>

SawPlan(r) == IF saw[r] = NoSub THEN Unset ELSE PlanForProduct(saw[r].product)
SawPaid(r) == SawPlan(r) \in PaidPlans
SawEnding(r) == saw[r] # NoSub /\ saw[r].cancel

\* An upgrade, or the plan already held, is invoiced now; a downgrade waits
\* for the end of the period.
Invoiced(held, target) == target = held \/ PriceOf(target) > PriceOf(held)

Switched(target, held) ==
    IF Invoiced(held, target)
    THEN [sub EXCEPT !.product = env[target], !.amount = Price[env[target]],
                     !.pending = Unset]
    ELSE [sub EXCEPT !.pending = env[target]]

ScheduledEnd(s) == {Updated(s), Event(s, "canceled", s.status)}

\* PATCH of the subscription that was read: 403 when it has ended since, or
\* a cancellation is pending and this is not its undoing.
Patch(r, s, told) ==
    /\ IF Current(saw[r]) /\ (s.cancel => ~sub.cancel)
       THEN Changes(s, told) ELSE UNCHANGED <<sub, clock, events, fresh>>
    /\ Answered(r)
    /\ UNCHANGED <<checkouts, writing, row, Deployment>>

Change(r) ==
    /\ pc[r] = "changing" /\ SawPaid(r) /\ want[r] # "free"
    /\ ~SawEnding(r) /\ env[want[r]] # Unset
    /\ LET s == Switched(want[r], SawPlan(r)) IN Patch(r, s, {Updated(s)})

Cancel(r) ==
    /\ \/ pc[r] = "changing" /\ SawPaid(r) /\ want[r] = "free" /\ ~SawEnding(r)
       \/ pc[r] = "ending" /\ saw[r] # NoSub /\ SawPlan(r) # "free"
    /\ LET s == [sub EXCEPT !.cancel = TRUE] IN Patch(r, s, ScheduledEnd(s))

Resume(r) ==
    /\ pc[r] = "resuming" /\ SawPaid(r)
    /\ LET s == [sub EXCEPT !.cancel = FALSE] IN Patch(r, s, {Updated(s)})

\* A checkout needs the way clear: the free subscription is revoked first,
\* found by its product and vetoed when it costs anything.
Blocks(s) == s # NoSub
MayRevoke_Free(s) == TRUE       \* variant: the label alone decides
MayRevoke(s) == s.amount = 0

MayBuy(r) ==
    /\ pc[r] = "buying" /\ env[want[r]] # Unset /\ OnlyFree(saw[r])

RevokeFree(r) ==
    /\ MayBuy(r) /\ Blocks(saw[r]) /\ MayRevoke(saw[r])
    /\ IF Current(saw[r])
       THEN Changes(NoSub, Ended(sub)) /\ Goto(r, "opening")
       ELSE Goto(r, "idle") /\ UNCHANGED <<sub, clock, events, fresh>>
    /\ UNCHANGED <<want, saw, checkouts, writing, row, Deployment>>

NothingToRevoke(r) ==
    /\ MayBuy(r) /\ ~Blocks(saw[r])
    /\ Goto(r, "opening")
    /\ UNCHANGED <<want, saw, Polar, Table, Deployment>>

OpenCheckout(r) ==
    /\ pc[r] = "opening"
    /\ checkouts' = checkouts \cup {env[want[r]]}
    /\ Answered(r)
    /\ UNCHANGED <<sub, clock, events, Table, Deployment>>

\* Every answer that changes nothing: 409, 500, a failed call, "already so".
Refuse(r) ==
    /\ \/ pc[r] = "changing" /\ \/ ~SawPaid(r) \/ SawEnding(r)
                                \/ env[want[r]] = Unset
       \/ pc[r] = "buying" /\ ~(MayBuy(r) /\ (Blocks(saw[r]) => MayRevoke(saw[r])))
       \/ pc[r] = "resuming" /\ ~SawPaid(r)
       \/ pc[r] = "ending" /\ (saw[r] = NoSub \/ SawPlan(r) = "free")
       \/ pc[r] \in {"change", "checkout", "resume", "cancel", "opening"}
    /\ Answered(r)
    /\ UNCHANGED <<Polar, Table, Deployment>>

\* A request finishes under the deployment that took it.
Redeploy(e) ==
    /\ \A r \in Requests : pc[r] = "idle"
    /\ redeploys < MaxRedeploys /\ e \in Envs
    /\ env' = e /\ redeploys' = redeploys + 1
    /\ UNCHANGED <<Polar, Table, Portal>>

----------------------------------------------------------------------------

Next ==
    \/ ProvisionFree
    \/ \E p \in Products : Subscribe(p)
    \/ PeriodPasses \/ Renews \/ PaymentFails \/ PeriodEnds
    \/ \E e \in events : Upsert(e) \/ InsertFree(e)
    \/ \E w \in writing : UpdateFree(w)
    \/ \E r \in Requests, choice \in Plans \cup {"resume", "cancel"} :
         Post(r, choice)
    \/ \E r \in Requests : ReadState(r)
    \/ \E r \in Requests : Change(r) \/ Cancel(r) \/ Resume(r)
    \/ \E r \in Requests : RevokeFree(r) \/ NothingToRevoke(r)
    \/ \E r \in Requests : OpenCheckout(r) \/ Refuse(r)
    \/ \E e \in Envs : Redeploy(e)

Spec == Init /\ [][Next]_vars

----------------------------------------------------------------------------
(* What must hold.                                                         *)

Events == [kind : {"sync", "canceled", "revoked"}, product : Products, amount : Nat,
           status : {"active", "past_due", "canceled", "incomplete"},
           cancel : BOOLEAN, at : Nat]
Statuses == {"active", "past_due", "canceled", "revoked"}
Writes == [plan : Plans \cup {Unset}, status : Statuses, from : Nat]
Places == {"idle", "change", "checkout", "resume", "cancel",
           "changing", "buying", "resuming", "ending", "opening"}

TypeOK ==
    /\ env \in Envs /\ redeploys \in Nat
    /\ sub \in Subs \cup {NoSub} /\ checkouts \subseteq Products
    /\ clock \in Nat /\ events \subseteq Events /\ writing \subseteq Writes
    /\ row \in [plan : Plans \cup {Unset}, status : Statuses] \cup {NoRow}
    /\ fresh \in BOOLEAN
    /\ pc \in [Requests -> Places]
    /\ want \in [Requests -> Plans \cup {"none", "resume", "cancel"}]
    /\ saw \in [Requests -> Seens \cup {NoSub}]

\* The event is about a subscription that is, or is sold as, a paid one.
OfPaid(e) == e.amount > 0 \/ PlanForProduct(e.product) \in PaidPlans

\* The paid write survives: an active paid row changes only to what an event of
\* a paid subscription says, however the two statements of a free one fall
\* around it, and whatever product variables were set when each was handled.
PaidSurvivesFree ==
    [][row # NoRow /\ row.plan \in PaidPlans /\ row.status = "active" /\ row' # row
         => \E e \in events :
              OfPaid(e) /\ row' = [plan |-> ToPlan(e.product), status |-> Status(e)]]_vars

\* The events of one change agree: a row last written from the newest change
\* reads active exactly when the subscription runs on, paid for and with no
\* cancellation pending, whichever of its events wrote it, in whatever order.
FreshRowIsTrue ==
    fresh => (row.status = "active" <=> Held /\ sub.status = "active" /\ ~sub.cancel)

\* A request acts on a subscription whose product has changed since it read.
Outdated ==
    \E r \in Requests : /\ pc[r] = "changing" /\ pc'[r] # pc[r]
                       /\ Current(saw[r]) /\ saw[r].product # sub.product

\* What was paid for is kept until its period is over: no form, on whatever
\* deployment, ends the subscription or brings down its price before that,
\* but for one that acts on a plan another form has just changed.
PaidForIsKept ==
    [][Costs(sub) /\ ~sub.over /\ ~Outdated
         => sub' # NoSub /\ sub'.id = sub.id /\ sub'.amount >= sub.amount]_vars
=============================================================================
