----------------------------- MODULE RateBucket -----------------------------
(***************************************************************************)
(* One row of rate_buckets and the callers of debit_bucket, the function   *)
(* of supabase/migrations/20260821120000_rate_buckets.sql that              *)
(* apps/server/lib/rateLimit.ts calls once per bucket.                     *)
(*                                                                         *)
(* The function is one transaction of three statements: it makes a full    *)
(* row if there is none, reads it under its lock, and writes back what is  *)
(* left.  The clock is read for the refill and again for the write.        *)
(* Tokens are integers: Rate is what a unit of time adds, Cost a debit.    *)
(***************************************************************************)
EXTENDS Integers

CONSTANTS Callers, NoCaller, Capacity, Rate, Cost,
          MaxTime                   \* bound: the clock

ASSUME BucketNumbers ==
    /\ Capacity \in Nat /\ Rate \in Nat
    /\ Cost \in Nat /\ MaxTime \in Nat
ASSUME NoCallerIsNone == NoCaller \notin Callers

VARIABLES
    now,
    exists,         \* the row has been committed
    tokens,         \* its columns
    updatedAt,
    lock,           \* the caller whose transaction holds the row
    at,             \* where each caller's transaction is
    seen,           \* v_tokens and v_updated_at of each caller
    available,      \* its v_available
    admitted,       \* history: debits allowed so far
    mark            \* history: the clock and admitted at some moment

row == <<exists, tokens, updatedAt>>
bucketVars == <<now, exists, tokens, updatedAt, lock, at, seen, available,
          admitted, mark>>

Times == 0..MaxTime

BucketInit ==
    /\ now = 0
    /\ exists = FALSE /\ tokens = Capacity /\ updatedAt = 0
    /\ lock = NoCaller
    /\ at = [c \in Callers |-> "idle"]
    /\ seen = [c \in Callers |-> [tokens |-> Capacity, updatedAt |-> 0]]
    /\ available = [c \in Callers |-> 0]
    /\ admitted = 0
    /\ mark = [time |-> 0, admitted |-> 0]

----------------------------------------------------------------------------
Unlocked_Always(c) == TRUE          \* variant: the select is not FOR UPDATE
Unlocked(c) == lock = NoCaller

\* INSERT ... ON CONFLICT DO NOTHING, then SELECT ... FOR UPDATE.  A row that
\* is inserted here is nobody else's to see, or to insert, before the commit.
Read(c) ==
    /\ at[c] = "idle" /\ Unlocked(c)
    /\ lock' = c
    /\ seen' = [seen EXCEPT ![c] =
                   IF exists THEN [tokens |-> tokens, updatedAt |-> updatedAt]
                   ELSE [tokens |-> Capacity, updatedAt |-> now]]
    /\ at' = [at EXCEPT ![c] = "read"]
    /\ UNCHANGED <<now, row, available, admitted, mark>>

Lesser(a, b) == IF a <= b THEN a ELSE b

Refilled(t, since) == Lesser(Capacity, t + Rate * (now - since))

Refill(c) ==
    /\ at[c] = "read"
    /\ available' = [available EXCEPT ![c] =
                        Refilled(seen[c].tokens, seen[c].updatedAt)]
    /\ at' = [at EXCEPT ![c] = "refilled"]
    /\ UNCHANGED <<now, row, lock, seen, admitted, mark>>

Allowed(c) == available[c] >= Cost

Left(c) == IF Allowed(c) THEN available[c] - Cost ELSE available[c]

\* UPDATE, and the end of the transaction.
Write(c) ==
    /\ at[c] = "refilled"
    /\ exists' = TRUE /\ tokens' = Left(c) /\ updatedAt' = now
    /\ admitted' = IF Allowed(c) THEN admitted + 1 ELSE admitted
    /\ lock' = NoCaller
    /\ at' = [at EXCEPT ![c] = "idle"]
    /\ UNCHANGED <<now, seen, available, mark>>

\* The caller's connection is lost: the transaction is rolled back.
RollBack(c) ==
    /\ at[c] # "idle"
    /\ lock' = NoCaller
    /\ at' = [at EXCEPT ![c] = "idle"]
    /\ UNCHANGED <<now, row, seen, available, admitted, mark>>

BucketTick ==
    /\ now < MaxTime
    /\ now' = now + 1
    /\ UNCHANGED <<row, lock, at, seen, available, admitted, mark>>

\* A window of time opens, for WindowBound alone.
Mark ==
    /\ mark' = [time |-> now, admitted |-> admitted]
    /\ UNCHANGED <<now, row, lock, at, seen, available, admitted>>

BucketNext ==
    \/ \E c \in Callers : Read(c) \/ Refill(c) \/ Write(c) \/ RollBack(c)
    \/ BucketTick \/ Mark

BucketSpec == BucketInit /\ [][BucketNext]_bucketVars

----------------------------------------------------------------------------
(* Properties.                                                             *)

BucketTypeOK ==
    /\ now \in Times /\ updatedAt \in Times
    /\ exists \in BOOLEAN /\ tokens \in 0..Capacity
    /\ lock \in Callers \cup {NoCaller}
    /\ at \in [Callers -> {"idle", "read", "refilled"}]
    /\ seen \in [Callers -> [tokens : 0..Capacity, updatedAt : Times]]
    /\ available \in [Callers -> 0..Capacity]
    /\ admitted \in Nat
    /\ mark \in [time : Times, admitted : Nat]

\* Whatever window of time one looks at, concurrent callers, first uses and
\* rolled back ones included, what was admitted in it is no more than a full
\* bucket and what the window refilled.
WindowBound ==
    Cost * (admitted - mark.admitted) <= Capacity + Rate * (now - mark.time)
=============================================================================
