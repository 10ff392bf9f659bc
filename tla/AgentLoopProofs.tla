--------------------------- MODULE AgentLoopProofs ---------------------------
(***************************************************************************)
(* Proofs about AgentLoop: its type invariant, the pairing of tool calls   *)
(* with their rows whenever no batch is open, and the silence after an     *)
(* abort.                                                                  *)
(*                                                                         *)
(* Pairing is not inductive alone.  While a batch is open the transcript   *)
(* is a paired one followed by the assistant message of that batch, and    *)
(* the rows collected so far answer the first calls of it, in order        *)
(* (OpenBatch); both are needed to see that the tool message which closes  *)
(* the batch, complete or cancelled, answers that assistant message.       *)
(***************************************************************************)
EXTENDS CliRun, TLAPS, SequenceTheorems

----------------------------------------------------------------------------
(* Lemmas about transcripts.                                               *)

\* A paired transcript stays paired when a message that opens no batch and
\* answers none is appended.
LEMMA PairedAppendPlain ==
    ASSUME NEW ms \in Seq(Messages), Paired(ms), NEW m \in Messages,
           m.role # "tool", m.role = "assistant" => m.calls = <<>>
    PROVE  Paired(Append(ms, m))
<1> DEFINE new == Append(ms, m)
<1>1. Len(new) = Len(ms) + 1 /\ \A i \in 1..Len(ms) : new[i] = ms[i]
  OBVIOUS
<1>2. new[Len(ms) + 1] = m
  OBVIOUS
<1>3. Len(ms) \in Nat
  OBVIOUS
<1> HIDE DEF new
<1> QED BY <1>1, <1>2, <1>3 DEF Paired

\* What an open batch looks like: a paired transcript, then the assistant
\* message whose calls are being worked off.
OpenBatch(ms, cs) ==
    \E n \in Nat :
        /\ Len(ms) = n + 1
        /\ Paired(SubSeq(ms, 1, n))
        /\ ms[n + 1] = AssistantMessage(cs)

\* Appending an assistant message to a paired transcript opens a batch.
LEMMA AppendOpensBatch ==
    ASSUME NEW ms \in Seq(Messages), Paired(ms), NEW cs \in Seq(Calls)
    PROVE  OpenBatch(Append(ms, AssistantMessage(cs)), cs)
<1>1. AssistantMessage(cs) \in Messages
  BY DEF AssistantMessage, Messages
<1> DEFINE new == Append(ms, AssistantMessage(cs))
<1>2. Len(ms) \in Nat /\ Len(new) = Len(ms) + 1
      /\ new[Len(ms) + 1] = AssistantMessage(cs)
  BY <1>1
<1>3. SubSeq(new, 1, Len(ms)) = ms
  BY <1>1
<1> HIDE DEF new
<1> QED BY <1>2, <1>3 DEF OpenBatch, new

\* The message that closes an open batch restores the pairing, provided it
\* has one row for each call, in order.
LEMMA ClosingRestoresPairing ==
    ASSUME NEW ms \in Seq(Messages), NEW cs \in Seq(Calls),
           OpenBatch(ms, cs),
           NEW rs \in Seq(Rows), Len(rs) = Len(cs),
           \A k \in 1..Len(cs) : rs[k].id = cs[k].id
    PROVE  Paired(Append(ms, ToolMessage(rs)))
<1>1. PICK n \in Nat : /\ Len(ms) = n + 1
                       /\ Paired(SubSeq(ms, 1, n))
                       /\ ms[n + 1] = AssistantMessage(cs)
  BY DEF OpenBatch
<1> DEFINE new == Append(ms, ToolMessage(rs))
           old == SubSeq(ms, 1, n)
<1>2. ToolMessage(rs) \in Messages
  BY DEF ToolMessage, Messages
<1>3. /\ Len(new) = n + 2
      /\ new[n + 2] = ToolMessage(rs)
      /\ new[n + 1] = AssistantMessage(cs)
      /\ \A i \in 1..n : new[i] = ms[i]
  BY <1>1, <1>2
<1>4. Len(old) = n /\ \A i \in 1..n : old[i] = ms[i]
  BY <1>1
<1>5. Answers(new[n + 2], new[n + 1])
  BY <1>3 DEF Answers, ToolMessage, AssistantMessage
<1>6. \A i \in 1..n : new[i] = old[i]
  BY <1>3, <1>4
<1> HIDE DEF new, old
<1>7. ASSUME NEW i \in 1..Len(new)
      PROVE  /\ new[i].role = "assistant" /\ new[i].calls # <<>>
                   => i < Len(new) /\ Answers(new[i + 1], new[i])
             /\ new[i].role = "tool"
                   => i > 1 /\ Answers(new[i], new[i - 1])
  <2>1. CASE i \in 1..n
    <3>1. /\ old[i].role = "assistant" /\ old[i].calls # <<>>
                => i < n /\ Answers(old[i + 1], old[i])
          /\ old[i].role = "tool" => i > 1 /\ Answers(old[i], old[i - 1])
      BY <1>1, <1>4, <2>1 DEF Paired, old
    <3>2. i < n => i + 1 \in 1..n
      BY <2>1
    <3>3. i > 1 => i - 1 \in 1..n
      BY <2>1
    <3> QED BY <1>3, <1>6, <2>1, <3>1, <3>2, <3>3
  <2>2. CASE i = n + 1
    BY <1>3, <1>5, <2>2 DEF AssistantMessage
  <2>3. CASE i = n + 2
    <3>1. i - 1 = n + 1 /\ i > 1
      BY <2>3
    <3> QED BY <1>3, <1>5, <2>3, <3>1 DEF ToolMessage
  <2> QED BY <1>3, <2>1, <2>2, <2>3
<1> QED BY <1>7 DEF Paired, new

\* Where a compaction cuts a paired transcript: right after the messages it
\* may evict, or one later when a tool message would come first.
LEMMA BoundaryIsSafe ==
    ASSUME NEW ms \in Seq(Messages), Paired(ms), CanCompact(ms)
    PROVE  LET b == EvictionBoundary(ms) IN
           /\ b \in 1..Len(ms) /\ b >= MinEvictable
           /\ b = Len(ms) \/ ms[b + 1].role # "tool"
           /\ b = Len(ms) - PreserveRecent \/ b = Len(ms) - PreserveRecent + 1
<1> DEFINE start == Len(ms) - PreserveRecent
           safe(b) == b = Len(ms) \/ ms[b + 1].role # "tool"
           first(b) == safe(b) /\ \A c \in start..(b - 1) : ~safe(c)
<1>1. start \in Int /\ start <= Len(ms) /\ Len(ms) \in Nat
      /\ MinEvictable \in Nat /\ MinEvictable > 0
  BY Limits
<1>2. start > 0
  <2>1. ~(start <= 0)
    <3>1. SUFFICES ASSUME start <= 0 PROVE FALSE
      OBVIOUS
    <3>2. EvictionBoundary(ms) = start
      BY <3>1 DEF EvictionBoundary
    <3> QED BY <1>1, <3>1, <3>2 DEF CanCompact
  <2> QED BY <1>1, <2>1
<1>3. \E b \in {start, start + 1} : b \in start..Len(ms) /\ first(b)
  <2>1. CASE safe(start)
    <3>1. first(start) /\ start \in start..Len(ms)
      BY <1>1, <2>1
    <3> QED BY <3>1
  <2>2. CASE ~safe(start)
    <3>1. start + 1 \in 1..Len(ms) /\ ms[start + 1].role = "tool"
      BY <1>1, <1>2, <2>2
    <3>2. safe(start + 1)
      <4>1. SUFFICES ASSUME start + 2 \in 1..Len(ms),
                            ms[start + 2].role = "tool"
                     PROVE  FALSE
        BY <1>1, <3>1
      <4>2. Answers(ms[start + 2], ms[start + 1])
        BY <1>1, <4>1 DEF Paired
      <4> QED BY <3>1, <4>2 DEF Answers
    <3>3. \A c \in start..((start + 1) - 1) : c = start
      BY <1>1
    <3>4. first(start + 1) /\ start + 1 \in start..Len(ms)
      BY <1>1, <2>2, <3>1, <3>2, <3>3
    <3> QED BY <3>4
  <2> QED BY <2>1, <2>2
<1>4. EvictionBoundary(ms) = CHOOSE b \in start..Len(ms) : first(b)
  BY <1>1, <1>2 DEF EvictionBoundary
<1>5. PICK w \in {start, start + 1} : w \in start..Len(ms) /\ first(w)
  BY <1>3
<1>6. \A b \in start..Len(ms) : first(b) => b = w
  <2>1. SUFFICES ASSUME NEW b \in start..Len(ms), first(b), b # w PROVE FALSE
    OBVIOUS
  <2>2. CASE b < w
    BY <1>1, <1>5, <2>1, <2>2
  <2>3. CASE w < b
    BY <1>1, <1>5, <2>1, <2>3
  <2> QED BY <1>1, <2>1, <2>2, <2>3
<1>7. EvictionBoundary(ms) = w
  <2> HIDE DEF first, start
  <2> QED BY <1>4, <1>5, <1>6
<1>8. w \in 1..Len(ms)
  BY <1>1, <1>2, <1>5
<1> QED BY <1>1, <1>5, <1>7, <1>8 DEF CanCompact

\* A compaction keeps a transcript paired.
LEMMA CompactedIsPaired ==
    ASSUME NEW ms \in Seq(Messages), Paired(ms), CanCompact(ms)
    PROVE  Compacted(ms) \in Seq(Messages) /\ Paired(Compacted(ms))
<1> DEFINE b == EvictionBoundary(ms)
           new == Compacted(ms)
<1>1. b \in 1..Len(ms) /\ (b = Len(ms) \/ ms[b + 1].role # "tool")
  BY BoundaryIsSafe
<1> HIDE DEF b
<1>2. UserMessage \in Messages
  BY DEF UserMessage, Messages
<1>3. new = <<UserMessage>> \o SubSeq(ms, b + 1, Len(ms))
  BY DEF Compacted, b
<1>4. /\ new \in Seq(Messages)
      /\ Len(new) = Len(ms) - b + 1
      /\ new[1] = UserMessage
      /\ \A i \in 2..Len(new) : new[i] = ms[b + i - 1]
  BY <1>1, <1>2, <1>3, SMTT(30)
<1> HIDE DEF new
<1>5. ASSUME NEW i \in 1..Len(new)
      PROVE  /\ new[i].role = "assistant" /\ new[i].calls # <<>>
                   => i < Len(new) /\ Answers(new[i + 1], new[i])
             /\ new[i].role = "tool"
                   => i > 1 /\ Answers(new[i], new[i - 1])
  <2>1. CASE i = 1
    BY <1>4, <2>1 DEF UserMessage
  <2>2. CASE i > 1
    <3> DEFINE j == b + i - 1
    <3>1. j \in 1..Len(ms) /\ new[i] = ms[j] /\ i \in 2..Len(new) /\ j > 1
      <4>1. Len(new) = Len(ms) - b + 1 /\ b \in 1..Len(ms) /\ Len(ms) \in Nat
        BY <1>1, <1>4
      <4>2. i \in 2..Len(new)
        BY <2>2, <4>1
      <4>3. j \in 1..Len(ms) /\ j > 1
        BY <4>1, <4>2
      <4> QED BY <1>4, <4>2, <4>3
    <3>2. /\ ms[j].role = "assistant" /\ ms[j].calls # <<>>
                => j < Len(ms) /\ Answers(ms[j + 1], ms[j])
          /\ ms[j].role = "tool" => j > 1 /\ Answers(ms[j], ms[j - 1])
      BY <3>1 DEF Paired
    <3>3. j < Len(ms) => i < Len(new) /\ new[i + 1] = ms[j + 1]
      BY <1>1, <1>4, <3>1
    <3>4. CASE i = 2
      <4>1. j = b + 1
        BY <1>1, <3>4
      <4>2. ms[j].role # "tool"
        BY <1>1, <3>1, <4>1
      <4> QED BY <3>1, <3>2, <3>3, <4>2
    <3>5. CASE i > 2
      <4>1. i - 1 \in 2..Len(new) /\ b + (i - 1) - 1 = j - 1
        BY <1>1, <1>4, <3>5
      <4>2. new[i - 1] = ms[j - 1]
        BY <1>4, <4>1
      <4> QED BY <2>2, <3>1, <3>2, <3>3, <4>2
    <3> QED BY <2>2, <3>4, <3>5
  <2> QED BY <2>1, <2>2
<1> QED BY <1>4, <1>5 DEF Paired, new

----------------------------------------------------------------------------
(* The inductive invariant.                                                *)

\* The rows collected for the open batch answer its first calls, and a call
\* is being asked about or executed only while some call has no row.
RowsFollowCalls ==
    InBatch =>
        /\ Len(results) <= Len(calls)
        /\ \A k \in 1..Len(results) : results[k].id = calls[k].id
        /\ phase # "gate" => Len(results) < Len(calls)

BatchOrPaired ==
    /\ InBatch => OpenBatch(messages, calls)
    /\ ~InBatch => Paired(messages)

\* A compaction is under way only where the boundary allows one.
CompactionIsDue == phase = "compacting" => CanCompact(messages)

IInv == TypeOK /\ RowsFollowCalls /\ BatchOrPaired /\ CompactionIsDue

LEMMA EventTuples ==
    /\ \A e \in EventTypes : <<e>> \in Seq(EventTypes)
    /\ \A e, f \in EventTypes : <<e, f>> \in Seq(EventTypes)
    /\ <<>> \in Seq(EventTypes)
  OBVIOUS

\* Pushing a row for the next call keeps the rows typed and aligned.
LEMMA PushRowAligned ==
    ASSUME IInv, InBatch, HasCall, NEW o \in Outcomes, PushRow(o)
    PROVE  /\ results' \in Seq(Rows)
           /\ Len(results') = Len(results) + 1
           /\ \A k \in 1..Len(results') : results'[k].id = calls[k].id
<1>1. /\ Len(results) \in Nat /\ Len(calls) \in Nat
      /\ results \in Seq(Rows) /\ calls \in Seq(Calls)
      /\ Next1 \in 1..Len(calls)
  BY DEF IInv, TypeOK, HasCall, Next1
<1>2. calls[Next1] \in Calls
  BY <1>1
<1>3. [id |-> calls[Next1].id, outcome |-> o] \in Rows
  BY <1>2 DEF Calls, Rows
<1>4. \A k \in 1..Len(results) : results[k].id = calls[k].id
  BY DEF IInv, RowsFollowCalls
<1> DEFINE row == [id |-> calls[Next1].id, outcome |-> o]
<1>5. results' = Append(results, row)
  BY DEF PushRow
<1>6. row.id = calls[Len(results) + 1].id
  BY DEF Next1
<1> HIDE DEF row
<1>7. /\ results' \in Seq(Rows) /\ Len(results') = Len(results) + 1
      /\ results'[Len(results) + 1] = row
      /\ \A k \in 1..Len(results) : results'[k] = results[k]
  BY <1>1, <1>3, <1>5 DEF row
<1> QED BY <1>1, <1>4, <1>6, <1>7

\* The rows that close a cancelled batch: one per call, in order.
LEMMA ClosedRowsAlign ==
    ASSUME IInv, InBatch
    PROVE  /\ ClosedRows \in Seq(Rows)
           /\ Len(ClosedRows) = Len(calls)
           /\ \A k \in 1..Len(calls) : ClosedRows[k].id = calls[k].id
<1>1. /\ Len(results) \in Nat /\ Len(calls) \in Nat
      /\ results \in Seq(Rows) /\ calls \in Seq(Calls)
      /\ Len(results) <= Len(calls)
      /\ \A k \in 1..Len(results) : results[k].id = calls[k].id
  BY DEF IInv, TypeOK, RowsFollowCalls
<1> DEFINE n == Len(calls) - Len(results)
<1>2. Cancelled \in Seq(Rows) /\ Len(Cancelled) = n
  <2>1. \A k \in 1..(Len(calls) - Len(results)) :
           calls[Len(results) + k] \in Calls
    BY <1>1
  <2>2. \A k \in 1..(Len(calls) - Len(results)) :
           [id |-> calls[Len(results) + k].id, outcome |-> "cancelled"] \in Rows
    BY <2>1 DEF Calls, Rows, Outcomes
  <2>3. n \in Nat
    BY <1>1
  <2>4. Cancelled \in [1..n -> Rows]
    BY <2>2 DEF Cancelled
  <2> HIDE DEF n
  <2>5. Cancelled \in Seq(Rows)
    BY <2>3, <2>4, SeqDef
  <2>6. DOMAIN Cancelled = 1..n
    BY <2>4
  <2>7. Len(Cancelled) = n
    BY <2>3, <2>5, <2>6, LenProperties
  <2> QED BY <2>5, <2>7
<1>3. \A k \in 1..(Len(calls) - Len(results)) :
         Cancelled[k].id = calls[Len(results) + k].id
  BY DEF Cancelled
<1>4. /\ ClosedRows \in Seq(Rows) /\ Len(ClosedRows) = Len(calls)
      /\ \A k \in 1..Len(results) : ClosedRows[k] = results[k]
      /\ \A k \in (Len(results) + 1)..Len(calls) :
            ClosedRows[k] = Cancelled[k - Len(results)]
  BY <1>1, <1>2 DEF ClosedRows
<1>5. ASSUME NEW k \in (Len(results) + 1)..Len(calls)
      PROVE  ClosedRows[k].id = calls[k].id
  <2>1. k - Len(results) \in 1..(Len(calls) - Len(results))
    BY <1>1
  <2>2. Len(results) + (k - Len(results)) = k
    BY <1>1
  <2>3. ClosedRows[k] = Cancelled[k - Len(results)]
    BY <1>4
  <2>4. Cancelled[k - Len(results)].id = calls[Len(results) + (k - Len(results))].id
    BY <1>3, <2>1
  <2> QED BY <2>2, <2>3, <2>4
<1>6. ASSUME NEW k \in 1..Len(results)
      PROVE  ClosedRows[k].id = calls[k].id
  BY <1>1, <1>4
<1>7. \A k \in 1..Len(calls) :
         k \in 1..Len(results) \/ k \in (Len(results) + 1)..Len(calls)
  BY <1>1
<1> QED BY <1>4, <1>5, <1>6, <1>7

\* The branch after an approving gate, whatever the grant.
LEMMA RunOrRejectPreserves ==
    ASSUME IInv, InBatch, HasCall,
           NEW g \in Seq(EventTypes), RunOrReject(g),
           UNCHANGED <<messages, calls>>
    PROVE  /\ phase' \in {"gate", "executing"}
           /\ results' \in Seq(Rows)
           /\ consecutiveDenials' \in Nat
           /\ events' \in Seq(EventTypes)
           /\ RowsFollowCalls' /\ BatchOrPaired'
<1>1. consecutiveDenials' \in Nat
  BY DEF RunOrReject, IInv, TypeOK
<1>2. OpenBatch(messages', calls')
  BY DEF IInv, BatchOrPaired
<1>3. /\ Len(results) \in Nat /\ Len(calls) \in Nat
      /\ Len(results) < Len(calls)
  BY DEF IInv, TypeOK, HasCall, Next1
<1>4. CASE PushRow("unknown") /\ phase' = "gate" /\ events' = g \o <<"error">>
  <2>1. events' \in Seq(EventTypes)
    BY <1>4 DEF EventTypes
  <2>2. /\ results' \in Seq(Rows) /\ Len(results') = Len(results) + 1
        /\ \A k \in 1..Len(results') : results'[k].id = calls[k].id
    BY <1>4, PushRowAligned DEF Outcomes
  <2> QED BY <1>1, <1>2, <1>3, <1>4, <2>1, <2>2
          DEF RowsFollowCalls, BatchOrPaired, InBatch
<1>5. CASE UNCHANGED results /\ phase' = "executing"
           /\ events' = g \o <<"tool-call">>
  <2>1. events' \in Seq(EventTypes)
    BY <1>5 DEF EventTypes
  <2>2. results' \in Seq(Rows)
        /\ \A k \in 1..Len(results) : results[k].id = calls[k].id
    BY <1>5 DEF IInv, TypeOK, RowsFollowCalls
  <2> QED BY <1>1, <1>2, <1>3, <1>5, <2>1, <2>2
          DEF RowsFollowCalls, BatchOrPaired, InBatch
<1> QED BY <1>4, <1>5 DEF RunOrReject

----------------------------------------------------------------------------
(* The invariant holds at the start and is kept by every step.             *)

LEMMA InitIInv == Init => IInv
<1> SUFFICES ASSUME Init PROVE IInv
  OBVIOUS
<1>1. messages \in Seq(Messages) /\ Paired(messages)
  BY HistoryTypes, HistoriesPaired DEF Init
<1>2. TypeOK
  <2>1. \A S : <<>> \in Seq(S)
    BY EmptySeq
  <2>2. calls \in Seq(Calls) /\ results \in Seq(Rows)
        /\ events \in Seq(EventTypes)
    BY <2>1 DEF Init
  <2> QED BY <1>1, <2>2 DEF Init, TypeOK, Phases, Reasons
<1>3. RowsFollowCalls /\ BatchOrPaired /\ CompactionIsDue
  BY <1>1 DEF Init, RowsFollowCalls, BatchOrPaired, InBatch, CompactionIsDue
<1> QED BY <1>2, <1>3 DEF IInv

\* The parts of the invariant that speak of an open batch are vacuous in a
\* step that leaves none open and the transcript paired.
LEMMA ClosedStep ==
    ASSUME phase' \in {"top", "streaming", "done"}, Paired(messages')
    PROVE  RowsFollowCalls' /\ BatchOrPaired' /\ CompactionIsDue'
  BY DEF RowsFollowCalls, BatchOrPaired, CompactionIsDue, InBatch

LEMMA StepIInv == IInv /\ [Next]_vars => IInv'
<1> SUFFICES ASSUME IInv, [Next]_vars PROVE IInv'
  OBVIOUS
<1> USE DEF Phases, Reasons
<1>1. CASE BeginIteration
  <2>1. TypeOK'
    BY <1>1, EventTuples DEF BeginIteration, Finish, External, RunState, IInv,
                             TypeOK, EventTypes
  <2>2. RowsFollowCalls' /\ BatchOrPaired' /\ CompactionIsDue'
    BY <1>1 DEF BeginIteration, Finish, IInv, RowsFollowCalls, BatchOrPaired,
                InBatch, CompactionIsDue
  <2> QED BY <2>1, <2>2 DEF IInv
<1>2. CASE CompactionSucceeds
  <2>1. Paired(messages) /\ messages \in Seq(Messages) /\ CanCompact(messages)
    BY <1>2 DEF CompactionSucceeds, IInv, TypeOK, BatchOrPaired, InBatch,
                CompactionIsDue
  <2>2. messages' \in Seq(Messages) /\ Paired(messages')
    BY <1>2, <2>1, CompactedIsPaired DEF CompactionSucceeds
  <2>3. TypeOK'
    BY <1>2, <2>2, EventTuples DEF CompactionSucceeds, External, RunState, IInv,
                                   TypeOK, EventTypes
  <2> QED BY <1>2, <2>2, <2>3, ClosedStep DEF CompactionSucceeds, IInv
<1>3. CASE CompactionFails
  <2>1. TypeOK'
    BY <1>3, EventTuples DEF CompactionFails, Finish, External, RunState, IInv,
                             TypeOK, EventTypes
  <2>2. Paired(messages')
    BY <1>3 DEF CompactionFails, IInv, BatchOrPaired, InBatch
  <2> QED BY <1>3, <2>1, <2>2, ClosedStep DEF CompactionFails, Finish, IInv
<1>4. CASE StreamEndsTurn
  <2>1. Paired(messages) /\ messages \in Seq(Messages)
    BY <1>4 DEF StreamEndsTurn, IInv, TypeOK
  <2>2. AssistantMessage(<<>>) \in Messages
    BY DEF AssistantMessage, Messages
  <2>3. messages' \in Seq(Messages) /\ Paired(messages')
    <3>1. Paired(Append(messages, AssistantMessage(<<>>)))
      BY <2>1, <2>2, PairedAppendPlain DEF AssistantMessage
    <3>2. messages' = messages
          \/ messages' = Append(messages, AssistantMessage(<<>>))
      BY <1>4 DEF StreamEndsTurn
    <3>3. Append(messages, AssistantMessage(<<>>)) \in Seq(Messages)
      BY <2>1, <2>2
    <3>4. CASE messages' = messages
      BY <2>1, <3>4
    <3>5. CASE messages' = Append(messages, AssistantMessage(<<>>))
      BY <3>1, <3>3, <3>5, Zenon
    <3> QED BY <3>2, <3>4, <3>5
  <2>4. TypeOK'
    BY <1>4, <2>3, EventTuples DEF StreamEndsTurn, Finish, External, IInv,
                                   TypeOK, EventTypes
  <2> QED BY <1>4, <2>3, <2>4, ClosedStep DEF StreamEndsTurn, Finish, IInv
<1>5. CASE StreamCallsTools
  <2>1. PICK n \in 1..MaxCalls : \E names \in [1..n -> Tools] :
           calls' = [k \in 1..n |->
                        [id |-> <<iteration + 1, k>>, tool |-> names[k]]]
    BY <1>5 DEF StreamCallsTools
  <2>2. PICK names \in [1..n -> Tools] :
           calls' = [k \in 1..n |->
                        [id |-> <<iteration + 1, k>>, tool |-> names[k]]]
    BY <2>1
  <2>3. n \in Nat /\ iteration + 1 \in Nat
    BY Limits DEF IInv, TypeOK
  <2>4. \A k \in 1..n : <<iteration + 1, k>> \in CallIds
    BY <2>3 DEF CallIds
  <2>5. calls' \in [1..n -> Calls]
    BY <2>2, <2>4 DEF Calls
  <2>6. calls' \in Seq(Calls)
    BY <2>3, <2>5, SeqDef
  <2>7. Paired(messages) /\ messages \in Seq(Messages)
    BY <1>5 DEF StreamCallsTools, IInv, TypeOK
  <2>8. AssistantMessage(calls') \in Messages
    BY <2>6 DEF AssistantMessage, Messages
  <2>9. messages' \in Seq(Messages) /\ OpenBatch(messages', calls')
    BY <1>5, <2>6, <2>7, <2>8, AppendOpensBatch DEF StreamCallsTools
  <2>10. TypeOK'
    BY <1>5, <2>6, <2>9, EventTuples DEF StreamCallsTools, External, IInv,
                                         TypeOK, EventTypes
  <2>11. Len(calls') \in Nat
    BY <2>6
  <2>12. results' = <<>> /\ phase' = "gate"
    BY <1>5 DEF StreamCallsTools
  <2>13. RowsFollowCalls' /\ BatchOrPaired' /\ CompactionIsDue'
    BY <2>9, <2>11, <2>12 DEF RowsFollowCalls, BatchOrPaired, CompactionIsDue,
                              InBatch
  <2> QED BY <2>10, <2>13 DEF IInv
<1>6. CASE StreamFails
  <2>1. TypeOK'
    BY <1>6, EventTuples DEF StreamFails, Finish, External, RunState, IInv,
                             TypeOK, EventTypes
  <2>2. Paired(messages')
    BY <1>6 DEF StreamFails, IInv, BatchOrPaired, InBatch
  <2> QED BY <1>6, <2>1, <2>2, ClosedStep DEF StreamFails, Finish, IInv
<1>7. CASE GateCall
  <2>1. InBatch /\ HasCall
    BY <1>7 DEF GateCall, InBatch
  <2>2. CASE RunOrReject(<<>>)
    <3>1. UNCHANGED <<messages, calls>>
      BY <1>7 DEF GateCall
    <3>2. /\ phase' \in {"gate", "executing"} /\ results' \in Seq(Rows)
          /\ consecutiveDenials' \in Nat /\ events' \in Seq(EventTypes)
          /\ RowsFollowCalls' /\ BatchOrPaired'
      BY <2>1, <2>2, <3>1, RunOrRejectPreserves, EventTuples
    <3>3. TypeOK'
      BY <1>7, <3>2 DEF GateCall, External, RunState, IInv, TypeOK
    <3> QED BY <3>2, <3>3 DEF IInv, CompactionIsDue
  <2>3. CASE PushRow("blocked") /\ events' = <<"blocked">>
             /\ UNCHANGED <<phase, consecutiveDenials>>
    <3>1. /\ results' \in Seq(Rows) /\ Len(results') = Len(results) + 1
          /\ \A k \in 1..Len(results') : results'[k].id = calls[k].id
      BY <2>1, <2>3, PushRowAligned DEF Outcomes
    <3>2. TypeOK'
      BY <1>7, <2>3, <3>1, EventTuples DEF GateCall, External, RunState, IInv,
                                           TypeOK, EventTypes
    <3>3. Len(results) \in Nat /\ Len(calls) \in Nat
      BY DEF IInv, TypeOK
    <3>4. RowsFollowCalls' /\ BatchOrPaired' /\ CompactionIsDue'
      BY <1>7, <2>1, <2>3, <3>1, <3>3
         DEF GateCall, IInv, RowsFollowCalls, BatchOrPaired, CompactionIsDue,
             InBatch, HasCall, Next1
    <3> QED BY <3>2, <3>4 DEF IInv
  <2>4. CASE phase' = "prompting" /\ events' = <<>>
             /\ UNCHANGED <<results, consecutiveDenials>>
    <3>1. TypeOK'
      BY <1>7, <2>4, EventTuples DEF GateCall, External, RunState, IInv, TypeOK
    <3>2. Len(results) \in Nat /\ Len(calls) \in Nat
      BY DEF IInv, TypeOK
    <3>3. RowsFollowCalls' /\ BatchOrPaired' /\ CompactionIsDue'
      BY <1>7, <2>1, <2>4, <3>2
         DEF GateCall, IInv, RowsFollowCalls, BatchOrPaired, CompactionIsDue,
             InBatch, HasCall, Next1
    <3> QED BY <3>1, <3>3 DEF IInv
  <2> QED BY <1>7, <2>2, <2>3, <2>4 DEF GateCall
<1>8. CASE AnswerPrompt
  <2>1. PICK answer \in {"once", "always", "no"} : PromptAnswered(answer)
    BY <1>8 DEF AnswerPrompt
  <2>2. InBatch /\ HasCall /\ UNCHANGED <<messages, calls>>
    <3>1. InBatch /\ phase = "prompting" /\ UNCHANGED <<messages, calls>>
      BY <2>1 DEF PromptAnswered, AnswerCounts, InBatch
    <3>2. Len(results) < Len(calls) /\ Len(results) \in Nat /\ Len(calls) \in Nat
      BY <3>1 DEF IInv, TypeOK, RowsFollowCalls
    <3> QED BY <3>1, <3>2 DEF HasCall, Next1
  <2>3. CASE \/ answer = "once" /\ RunOrReject(<<>>) /\ UNCHANGED allowedTools
             \/ /\ answer = "always" /\ OffersAlways(CurrentTool)
                /\ allowedTools' = allowedTools \cup {CurrentTool}
                /\ RunOrReject(<<"tool-allowed">>)
    <3>1. \E g \in Seq(EventTypes) : RunOrReject(g)
      BY <2>3, EventTuples DEF EventTypes
    <3>2. /\ phase' \in {"gate", "executing"} /\ results' \in Seq(Rows)
          /\ consecutiveDenials' \in Nat /\ events' \in Seq(EventTypes)
          /\ RowsFollowCalls' /\ BatchOrPaired'
      BY <2>2, <3>1, RunOrRejectPreserves
    <3>3. allowedTools' \subseteq PersistableTools
      BY <2>3 DEF OffersAlways, IInv, TypeOK
    <3>4. TypeOK'
      BY <2>1, <3>2, <3>3 DEF PromptAnswered, External, RunState, IInv, TypeOK
    <3> QED BY <3>2, <3>4 DEF IInv, CompactionIsDue
  <2>4. CASE /\ consecutiveDenials' = consecutiveDenials + 1
             /\ PushRow("declined") /\ phase' = "gate"
             /\ events' = <<"declined">> /\ UNCHANGED allowedTools
    <3>1. /\ results' \in Seq(Rows) /\ Len(results') = Len(results) + 1
          /\ \A k \in 1..Len(results') : results'[k].id = calls[k].id
      BY <2>2, <2>4, PushRowAligned DEF Outcomes
    <3>2. TypeOK'
      BY <2>1, <2>4, <3>1, EventTuples DEF PromptAnswered, External, RunState,
                                           IInv, TypeOK, EventTypes
    <3>3. Len(results) \in Nat /\ Len(calls) \in Nat
      BY DEF IInv, TypeOK
    <3>4. RowsFollowCalls' /\ BatchOrPaired' /\ CompactionIsDue'
      BY <2>2, <2>4, <3>1, <3>3
         DEF IInv, RowsFollowCalls, BatchOrPaired, CompactionIsDue, InBatch,
             HasCall, Next1
    <3> QED BY <3>2, <3>4 DEF IInv
  <2> QED BY <2>1, <2>3, <2>4 DEF PromptAnswered
<1>9. CASE ToolReturns \/ ToolThrows
  <2>1. PICK o \in {"ok", "threw"} : PushRow(o)
    BY <1>9 DEF ToolReturns, ToolThrows
  <2>2. /\ InBatch /\ phase = "executing" /\ phase' = "gate"
        /\ UNCHANGED <<messages, calls>>
    BY <1>9 DEF ToolReturns, ToolThrows, InBatch
  <2>3. HasCall /\ Len(results) \in Nat /\ Len(calls) \in Nat
        /\ Len(results) < Len(calls)
    BY <2>2 DEF IInv, TypeOK, RowsFollowCalls, HasCall, Next1
  <2>4. /\ results' \in Seq(Rows) /\ Len(results') = Len(results) + 1
        /\ \A k \in 1..Len(results') : results'[k].id = calls[k].id
    BY <2>1, <2>2, <2>3, PushRowAligned DEF Outcomes
  <2>5. TypeOK'
    BY <1>9, <2>4, EventTuples DEF ToolReturns, ToolThrows, External, RunState,
                                   IInv, TypeOK, EventTypes
  <2>6. RowsFollowCalls' /\ BatchOrPaired' /\ CompactionIsDue'
    BY <2>2, <2>3, <2>4 DEF IInv, RowsFollowCalls, BatchOrPaired,
                            CompactionIsDue, InBatch
  <2> QED BY <2>5, <2>6 DEF IInv
<1>10. CASE CancelBatch
  <2>1. InBatch /\ OpenBatch(messages, calls) /\ calls \in Seq(Calls)
        /\ messages \in Seq(Messages)
    BY <1>10 DEF CancelBatch, BreakPoints, InBatch, IInv, BatchOrPaired, TypeOK
  <2>2. /\ ClosedRows \in Seq(Rows) /\ Len(ClosedRows) = Len(calls)
        /\ \A k \in 1..Len(calls) : ClosedRows[k].id = calls[k].id
    BY <2>1, ClosedRowsAlign
  <2>3. ToolMessage(ClosedRows) \in Messages
    BY <2>2 DEF ToolMessage, Messages
  <2>4. messages' \in Seq(Messages) /\ Paired(messages')
    BY <1>10, <2>1, <2>2, <2>3, ClosingRestoresPairing DEF CancelBatch
  <2>5. TypeOK'
    BY <1>10, <2>2, <2>4, EventTuples DEF CancelBatch, Finish, External,
                                          RunState, IInv, TypeOK, EventTypes
  <2> QED BY <1>10, <2>4, <2>5, ClosedStep DEF CancelBatch, Finish, IInv
<1>11. CASE CloseBatch
  <2>1. InBatch /\ OpenBatch(messages, calls) /\ calls \in Seq(Calls)
        /\ messages \in Seq(Messages) /\ results \in Seq(Rows)
    BY <1>11 DEF CloseBatch, InBatch, IInv, BatchOrPaired, TypeOK
  <2>2. /\ Len(results) = Len(calls)
        /\ \A k \in 1..Len(calls) : results[k].id = calls[k].id
    BY <1>11, <2>1 DEF CloseBatch, HasCall, Next1, IInv, RowsFollowCalls
  <2>3. ToolMessage(results) \in Messages
    BY <2>1 DEF ToolMessage, Messages
  <2>4. messages' \in Seq(Messages) /\ Paired(messages')
    <3>1. messages' = Append(messages, ToolMessage(results))
      BY <1>11 DEF CloseBatch
    <3>2. Paired(Append(messages, ToolMessage(results)))
      BY <2>1, <2>2, ClosingRestoresPairing
    <3>3. Append(messages, ToolMessage(results)) \in Seq(Messages)
      BY <2>1, <2>3
    <3> QED BY <3>1, <3>2, <3>3, Zenon
  <2>5. /\ phase' \in {"top", "done"} /\ iteration' \in Nat
        /\ reason' \in Reasons
    BY <1>11 DEF CloseBatch, Finish, IInv, TypeOK
  <2>6. events' \in Seq(EventTypes)
    BY <1>11, EventTuples DEF CloseBatch, EventTypes
  <2>7. TypeOK'
    BY <1>11, <2>4, <2>5, <2>6 DEF CloseBatch, External, IInv, TypeOK
  <2> QED BY <2>4, <2>5, <2>7, ClosedStep DEF IInv
<1>12. CASE Abort \/ CycleMode
  <2>1. TypeOK'
    BY <1>12, EventTuples DEF Abort, CycleMode, cycleMode, PermissionModes, IInv,
                              TypeOK
  <2>2. RowsFollowCalls' /\ BatchOrPaired' /\ CompactionIsDue'
    BY <1>12 DEF Abort, CycleMode, IInv, RowsFollowCalls, BatchOrPaired,
                 CompactionIsDue, InBatch
  <2> QED BY <2>1, <2>2 DEF IInv
<1>13. CASE UNCHANGED vars
  BY <1>13 DEF vars, IInv, TypeOK, RowsFollowCalls, BatchOrPaired,
               CompactionIsDue, InBatch
<1> QED
  BY <1>1, <1>2, <1>3, <1>4, <1>5, <1>6, <1>7, <1>8, <1>9, <1>10, <1>11, <1>12,
     <1>13 DEF Next, LoopStep, Terminating

----------------------------------------------------------------------------
(* The theorems.                                                           *)

\* Every state of a run satisfies the inductive invariant.
THEOREM Invariance == Spec => []IInv
<1>1. Init => IInv
  BY InitIInv
<1>2. IInv /\ [Next]_vars => IInv'
  BY StepIInv
<1> QED BY <1>1, <1>2, PTL DEF Spec

\* Every variable of a run keeps its type: in particular the allowlist of a
\* run never holds a tool that could not be approved for good.
THEOREM TypeCorrect == Spec => []TypeOK
<1>1. IInv => TypeOK
  BY DEF IInv
<1> QED BY <1>1, Invariance, PTL

\* Started on any paired transcript, whatever the model asks for, the user
\* answers or a signal interrupts, the loop has a paired transcript whenever
\* no batch is open: the session it leaves can be resumed.
THEOREM TranscriptPaired == Spec => []PairedBetweenBatches
<1>1. IInv => PairedBetweenBatches
  BY DEF IInv, BatchOrPaired, PairedBetweenBatches
<1> QED BY <1>1, Invariance, PTL

----------------------------------------------------------------------------
(* After an abort.                                                         *)

\* A step of an aborted run ends it, or only adds a row to the open batch, or
\* closes that batch; the environment's steps leave the loop alone.
LEMMA AbortedStep ==
    ASSUME IInv, [Next]_vars, aborted
    PROVE  /\ phase' = phase \/ phase' \in {"gate", "top", "done"}
           /\ consecutiveDenials' = consecutiveDenials
           /\ \/ messages' = messages
              \/ \E rows : messages' = Append(messages, ToolMessage(rows))
<1>1. CASE BeginIteration
  BY <1>1 DEF BeginIteration, Finish
<1>2. CASE CompactionFails
  BY <1>2 DEF CompactionFails, Finish
<1>3. CASE StreamFails
  BY <1>3 DEF StreamFails, Finish
<1>4. CASE ToolReturns
  BY <1>4 DEF ToolReturns
<1>5. CASE CancelBatch
  BY <1>5 DEF CancelBatch, Finish
<1>6. CASE CloseBatch
  BY <1>6 DEF CloseBatch, Finish
<1>7. CASE CycleMode
  BY <1>7 DEF CycleMode
<1>8. CASE UNCHANGED vars
  BY <1>8 DEF vars
<1>9. ~AnswerPrompt
  BY DEF AnswerPrompt, PromptAnswered, AnswerCounts
<1>10. ~(\/ CompactionSucceeds \/ StreamEndsTurn \/ StreamCallsTools
        \/ GateCall \/ ToolThrows \/ Abort)
  BY DEF CompactionSucceeds, StreamEndsTurn, StreamCallsTools, GateCall,
         ToolThrows, Abort
<1> QED
  BY <1>1, <1>2, <1>3, <1>4, <1>5, <1>6, <1>7, <1>8, <1>9, <1>10
     DEF Next, LoopStep, Terminating

\* Once the signal is aborted no tool starts, nobody is asked, no answer of
\* the model is taken and no denial is counted: in every behaviour, for every
\* set of tools, mode and history.
THEOREM AbortIsFinal == Spec => NothingNewAfterAbort
<1> DEFINE Step ==
      aborted =>
         /\ phase' \in {"compacting", "streaming", "prompting", "executing"}
               => phase' = phase
         /\ consecutiveDenials' = consecutiveDenials
         /\ Len(messages') > Len(messages)
               => messages'[Len(messages')].role = "tool"
<1>1. IInv /\ [Next]_vars => Step
  <2> SUFFICES ASSUME IInv, [Next]_vars, aborted PROVE Step
    OBVIOUS
  <2>1. messages \in Seq(Messages)
    BY DEF IInv, TypeOK
  <2>2. CASE messages' = messages
    BY <2>1, <2>2, AbortedStep
  <2>3. CASE messages' # messages
    <3>1. PICK rows : messages' = Append(messages, ToolMessage(rows))
      BY <2>3, AbortedStep
    <3>2. messages'[Len(messages')] = ToolMessage(rows)
      BY <2>1, <3>1
    <3> QED
      BY <3>2, AbortedStep DEF ToolMessage
  <2> QED BY <2>2, <2>3
<1> QED BY <1>1, Invariance, PTL DEF Spec, NothingNewAfterAbort

----------------------------------------------------------------------------
(* Under read-only.                                                        *)

\* Nobody is asked under read-only, and the mode cannot be changed while the
\* user is: an answer finds the mode its question went up under.
AskedInWriteMode == phase = "prompting" => mode # "read-only"

LEMMA StepAskedInWriteMode ==
    AskedInWriteMode /\ [Next]_vars => AskedInWriteMode'
<1> SUFFICES ASSUME AskedInWriteMode, [Next]_vars PROVE AskedInWriteMode'
  OBVIOUS
<1> USE DEF AskedInWriteMode, Finish, External
<1>1. CASE GateCall
  BY <1>1 DEF GateCall, RunOrReject, checkPermission
<1>2. CASE AnswerPrompt
  BY <1>2 DEF AnswerPrompt, PromptAnswered, RunOrReject
<1>3. CASE BeginIteration \/ CompactionSucceeds \/ CompactionFails
           \/ StreamEndsTurn \/ StreamCallsTools \/ StreamFails
  BY <1>3 DEF BeginIteration, CompactionSucceeds, CompactionFails,
              StreamEndsTurn, StreamCallsTools, StreamFails
<1>4. CASE ToolReturns \/ ToolThrows \/ CancelBatch \/ CloseBatch
  BY <1>4 DEF ToolReturns, ToolThrows, CancelBatch, CloseBatch
<1>5. CASE Abort \/ CycleMode \/ UNCHANGED vars
  BY <1>5 DEF Abort, CycleMode, InputOpen, vars
<1> QED
  BY <1>1, <1>2, <1>3, <1>4, <1>5 DEF Next, LoopStep, Terminating

\* No write tool is started under read-only: not one that was allowed for
\* good, nor one whose prompt went up under an earlier mode.
THEOREM ReadOnlyHolds == Spec => NoWriteStartsReadOnly
<1> DEFINE Step == phase # "executing" /\ phase' = "executing"
                   /\ mode = "read-only" => CurrentTool \notin WriteTools
<1>1. Init => AskedInWriteMode
  BY DEF Init, AskedInWriteMode
<1>2. AskedInWriteMode /\ [Next]_vars => Step
  <2> SUFFICES ASSUME AskedInWriteMode, [Next]_vars, phase # "executing",
                      phase' = "executing", mode = "read-only"
               PROVE  CurrentTool \notin WriteTools
    OBVIOUS
  <2>1. CASE GateCall
    BY <2>1 DEF GateCall, checkPermission
  <2>2. ~AnswerPrompt
    BY DEF AnswerPrompt, PromptAnswered, AnswerCounts, AskedInWriteMode
  <2> QED
    BY <2>1, <2>2
       DEF Next, LoopStep, Terminating, BeginIteration, CompactionSucceeds,
           CompactionFails, StreamEndsTurn, StreamCallsTools, StreamFails,
           ToolReturns, ToolThrows, CancelBatch, CloseBatch, Finish, Abort,
           CycleMode, vars
<1> QED BY <1>1, <1>2, StepAskedInWriteMode, PTL DEF Spec, NoWriteStartsReadOnly

----------------------------------------------------------------------------
(* Denials.                                                                *)

\* Why DenialLimit holds: the streak is weighed at the end of every batch,
\* and a row is marked as cancelled only by the step that ends the run.
DenialInv ==
    /\ phase \in {"top", "compacting", "streaming"}
          => consecutiveDenials < MaxConsecutiveDenials
    /\ phase # "done" =>
          /\ reason # "repeated-denials"
          /\ \A k \in 1..Len(results) : results[k].outcome # "cancelled"
    /\ reason = "repeated-denials" =>
          /\ consecutiveDenials >= MaxConsecutiveDenials
          /\ \A k \in 1..Len(results) : results[k].outcome # "cancelled"

NoCancelledRow == \A k \in 1..Len(results) : results[k].outcome # "cancelled"

\* A row pushed by the batch is not a cancelled one.
LEMMA PushedIsNotCancelled ==
    ASSUME IInv, NoCancelledRow, NEW o \in Outcomes \ {"cancelled"}, PushRow(o)
    PROVE  NoCancelledRow'
<1>1. results \in Seq(Rows)
  BY DEF IInv, TypeOK
<1> DEFINE row == [id |-> calls[Next1].id, outcome |-> o]
<1>2. results' = Append(results, row) /\ row.outcome = o
  BY DEF PushRow
<1> HIDE DEF row
<1> QED BY <1>1, <1>2 DEF NoCancelledRow

LEMMA RunOrRejectKeepsRows ==
    ASSUME IInv, NoCancelledRow, NEW grant, RunOrReject(grant)
    PROVE  NoCancelledRow' /\ phase' \in {"gate", "executing"}
<1>1. CASE PushRow("unknown") /\ phase' = "gate"
  BY <1>1, PushedIsNotCancelled DEF Outcomes
<1>2. CASE UNCHANGED results /\ phase' = "executing"
  BY <1>2 DEF NoCancelledRow
<1> QED BY <1>1, <1>2 DEF RunOrReject

LEMMA StepDenialInv == IInv /\ DenialInv /\ [Next]_vars => DenialInv'
<1> SUFFICES ASSUME IInv, DenialInv, [Next]_vars PROVE DenialInv'
  OBVIOUS
<1> USE DEF NoCancelledRow
<1>1. CASE BeginIteration \/ CompactionFails \/ StreamFails
  BY <1>1 DEF BeginIteration, CompactionFails, StreamFails, Finish, DenialInv
<1>2. CASE CompactionSucceeds \/ StreamEndsTurn
  BY <1>2 DEF CompactionSucceeds, StreamEndsTurn, Finish, DenialInv
<1>3. CASE StreamCallsTools
  BY <1>3 DEF StreamCallsTools, DenialInv
<1>4. CASE GateCall
  <2>1. NoCancelledRow /\ phase = "gate" /\ reason # "repeated-denials"
    BY <1>4 DEF GateCall, DenialInv
  <2>2. CASE RunOrReject(<<>>)
    BY <1>4, <2>1, <2>2, RunOrRejectKeepsRows DEF GateCall, DenialInv
  <2>3. CASE PushRow("blocked") /\ UNCHANGED phase
    BY <1>4, <2>1, <2>3, PushedIsNotCancelled DEF GateCall, DenialInv, Outcomes
  <2>4. CASE phase' = "prompting" /\ UNCHANGED results
    BY <1>4, <2>1, <2>4 DEF GateCall, DenialInv
  <2> QED BY <1>4, <2>2, <2>3, <2>4 DEF GateCall
<1>5. CASE AnswerPrompt
  <2>1. PICK answer \in {"once", "always", "no"} : PromptAnswered(answer)
    BY <1>5 DEF AnswerPrompt
  <2>2. NoCancelledRow /\ reason # "repeated-denials" /\ UNCHANGED reason
    BY <2>1 DEF PromptAnswered, AnswerCounts, DenialInv
  <2>3. CASE \E grant : RunOrReject(grant)
    BY <2>2, <2>3, RunOrRejectKeepsRows DEF DenialInv
  <2>4. CASE PushRow("declined") /\ phase' = "gate"
    BY <2>2, <2>4, PushedIsNotCancelled DEF DenialInv, Outcomes
  <2> QED BY <2>1, <2>3, <2>4 DEF PromptAnswered
<1>6. CASE ToolReturns \/ ToolThrows
  <2>1. NoCancelledRow /\ reason # "repeated-denials" /\ UNCHANGED reason
    BY <1>6 DEF ToolReturns, ToolThrows, DenialInv
  <2>2. PICK o \in {"ok", "threw"} : PushRow(o) /\ phase' = "gate"
    BY <1>6 DEF ToolReturns, ToolThrows
  <2>3. o \in Outcomes \ {"cancelled"}
    BY DEF Outcomes
  <2>4. NoCancelledRow'
    BY <2>1, <2>2, <2>3, PushedIsNotCancelled
  <2> QED BY <2>1, <2>2, <2>4 DEF DenialInv
<1>7. CASE CancelBatch
  BY <1>7 DEF CancelBatch, Finish, DenialInv
<1>8. CASE CloseBatch
  <2>1. NoCancelledRow /\ reason # "repeated-denials"
    BY <1>8 DEF CloseBatch, DenialInv
  <2>2. UNCHANGED <<results, consecutiveDenials>>
    BY <1>8 DEF CloseBatch
  <2>3. CASE TooManyDenials
    BY <1>8, <2>1, <2>2, <2>3 DEF CloseBatch, Finish, TooManyDenials, DenialInv
  <2>4. CASE ~TooManyDenials
    <3>1. consecutiveDenials < MaxConsecutiveDenials
      BY <2>4, Limits DEF TooManyDenials, IInv, TypeOK
    <3>2. phase' = "top" /\ UNCHANGED reason
      BY <1>8, <2>4 DEF CloseBatch
    <3> QED BY <2>1, <2>2, <3>1, <3>2 DEF DenialInv
  <2> QED BY <2>3, <2>4
<1>9. CASE Abort \/ CycleMode \/ UNCHANGED vars
  BY <1>9 DEF Abort, CycleMode, vars, DenialInv
<1> QED
  BY <1>1, <1>2, <1>3, <1>4, <1>5, <1>6, <1>7, <1>8, <1>9
     DEF Next, LoopStep, Terminating

\* A run goes on only below the limit of denials in a row, and one that stops
\* for them has reached it in a batch nobody cancelled.
THEOREM DenialsEndTheRun == Spec => []DenialLimit
<1>1. Init => DenialInv
  BY Limits DEF Init, DenialInv
<1>2. IInv /\ DenialInv /\ [Next]_vars => DenialInv'
  BY StepDenialInv
<1>3. DenialInv => DenialLimit
  BY DEF DenialInv, DenialLimit
<1> QED BY <1>1, <1>2, <1>3, Invariance, PTL DEF Spec

----------------------------------------------------------------------------
(* What a compaction keeps.                                                *)

\* Only a compaction changes the transcript without making it longer.
LEMMA OnlyCompactionReplaces ==
    ASSUME IInv, [Next]_vars,
           messages' # messages, Len(messages') <= Len(messages)
    PROVE  CompactionSucceeds
<1>1. messages \in Seq(Messages) /\ Len(messages) \in Nat
  BY DEF IInv, TypeOK
<1>2. messages' # messages
  OBVIOUS
<1>3. ASSUME NEW m PROVE messages' # Append(messages, m)
  BY <1>1
<1>4. ~(\/ BeginIteration \/ CompactionFails \/ StreamFails \/ GateCall
       \/ AnswerPrompt \/ ToolReturns \/ ToolThrows \/ Abort \/ CycleMode
       \/ UNCHANGED vars)
  BY <1>2 DEF BeginIteration, CompactionFails, StreamFails, GateCall,
              AnswerPrompt, PromptAnswered, ToolReturns, ToolThrows, Abort,
              CycleMode, vars
<1>5. ~(StreamEndsTurn \/ StreamCallsTools \/ CancelBatch \/ CloseBatch)
  BY <1>2, <1>3 DEF StreamEndsTurn, StreamCallsTools, CancelBatch, CloseBatch
<1> QED BY <1>4, <1>5 DEF Next, LoopStep, Terminating

\* Whatever the window and the minimum to evict, a compaction evicts at least
\* that minimum and keeps the newest messages as they were, short by at most
\* the tool message that could not come first.
THEOREM RecentMessagesSurvive == Spec => CompactionKeepsTheRecent
<1> DEFINE kept == Len(messages') - 1
           evicted == Len(messages) - kept
           Step == messages' # messages /\ Len(messages') <= Len(messages) =>
                     /\ evicted >= MinEvictable
                     /\ kept >= PreserveRecent - 1 /\ kept <= PreserveRecent
                     /\ \A k \in 1..kept : messages'[k + 1] = messages[evicted + k]
<1>1. IInv /\ [Next]_vars => Step
  <2> SUFFICES ASSUME IInv, [Next]_vars,
                      messages' # messages, Len(messages') <= Len(messages)
               PROVE  Step
    OBVIOUS
  <2> DEFINE b == EvictionBoundary(messages)
  <2>1. CompactionSucceeds
    BY OnlyCompactionReplaces
  <2>2. messages \in Seq(Messages) /\ Paired(messages) /\ CanCompact(messages)
    BY <2>1 DEF CompactionSucceeds, IInv, TypeOK, BatchOrPaired, InBatch,
                CompactionIsDue
  <2>3. /\ b \in 1..Len(messages) /\ b >= MinEvictable
        /\ b = Len(messages) - PreserveRecent
           \/ b = Len(messages) - PreserveRecent + 1
    BY <2>2, BoundaryIsSafe
  <2>4. messages' = <<UserMessage>> \o SubSeq(messages, b + 1, Len(messages))
    BY <2>1 DEF CompactionSucceeds, Compacted
  <2> HIDE DEF b
  <2>5. /\ Len(messages') = Len(messages) - b + 1
        /\ \A k \in 1..(Len(messages) - b) : messages'[k + 1] = messages[b + k]
    BY <2>2, <2>3, <2>4
  <2>6. kept = Len(messages) - b /\ evicted = b
    BY <2>2, <2>3, <2>5
  <2>7. Len(messages) \in Nat /\ PreserveRecent \in Nat /\ b \in Int
    BY <2>2, <2>3, Limits
  <2> HIDE DEF kept, evicted
  <2>8. evicted >= MinEvictable /\ kept >= PreserveRecent - 1
        /\ kept <= PreserveRecent
    BY <2>3, <2>6, <2>7
  <2>9. \A k \in 1..kept : messages'[k + 1] = messages[evicted + k]
    BY <2>5, <2>6
  <2> QED BY <2>8, <2>9 DEF kept, evicted
<1> QED BY <1>1, Invariance, PTL DEF Spec, CompactionKeepsTheRecent

----------------------------------------------------------------------------
(* The agent loop implements Conversation.  Most steps of the loop are     *)
(* steps of nobody seen from outside: Complete leaves out the batch that   *)
(* is open, so a batch becomes visible in one piece, when it is closed or  *)
(* cancelled.  The inductive invariant supplies what the mapping needs:    *)
(* that the open batch is exactly the last message (OpenBatch), that the   *)
(* rows which close it answer its calls, and that a compaction was only    *)
(* begun where the boundary allows one.                                    *)

LEMMA InitRefines == Init => Conv!Init
  BY DEF Init, Conv!Init, Complete, Standing, InBatch

\* An open batch is hidden whole: what is complete is the transcript before
\* the assistant message that opened it.
LEMMA OpenBatchHidden ==
    ASSUME IInv, InBatch
    PROVE  /\ Len(messages) \in Nat \ {0}
           /\ Complete = SubSeq(messages, 1, Len(messages) - 1)
           /\ Len(Complete) = Len(messages) - 1
           /\ messages[Len(messages)] = AssistantMessage(calls)
<1>1. messages \in Seq(Messages) /\ OpenBatch(messages, calls)
  BY DEF IInv, TypeOK, BatchOrPaired
<1>2. PICK n \in Nat : /\ Len(messages) = n + 1
                       /\ messages[n + 1] = AssistantMessage(calls)
  BY <1>1 DEF OpenBatch
<1>3. Complete = SubSeq(messages, 1, Len(messages) - 1)
  BY DEF Complete
<1> QED BY <1>1, <1>2, <1>3

\* Closing the open batch with one row per call, in order, is an exchange:
\* the rows may be the tools' own or the ones a cancel fills in.
LEMMA ClosingIsExchange ==
    ASSUME IInv, InBatch, ~InBatch', NEW rs \in Seq(Rows),
           Len(rs) = Len(calls),
           \A k \in 1..Len(calls) : rs[k].id = calls[k].id,
           messages' = Append(messages, ToolMessage(rs)),
           Standing # "over",
           Standing' = "over" \/ (Standing = "going" /\ UNCHANGED Standing)
    PROVE  Conv!Exchange
<1> DEFINE n == Len(messages)
<1>1. messages \in Seq(Messages) /\ n \in Nat \ {0}
      /\ Complete = SubSeq(messages, 1, n - 1) /\ Len(Complete) = n - 1
      /\ messages[n] = AssistantMessage(calls)
  BY OpenBatchHidden DEF IInv, TypeOK
<1>2. ToolMessage(rs) \in Messages
  BY DEF ToolMessage, Messages
<1>3. Complete' = Append(messages, ToolMessage(rs))
  BY DEF Complete
<1>4. /\ Len(Complete') = n + 1
      /\ Complete'[n + 1] = ToolMessage(rs)
      /\ Complete'[n] = AssistantMessage(calls)
      /\ SubSeq(Complete', 1, n - 1) = SubSeq(messages, 1, n - 1)
  BY <1>1, <1>2, <1>3
<1>5. Answers(ToolMessage(rs), AssistantMessage(calls))
  BY DEF Answers, ToolMessage, AssistantMessage
<1>6. Conv!Answers(ToolMessage(rs), AssistantMessage(calls))
  BY <1>5 DEF Answers, Conv!Answers
<1> HIDE DEF n
<1>7. Len(Complete) + 2 = n + 1 /\ Len(Complete) + 1 = n
  BY <1>1
<1> QED BY <1>1, <1>4, <1>6, <1>7 DEF Conv!Exchange

\* A step that leaves the complete messages and the standing alone.
LEMMA BatchStepHidden ==
    ASSUME InBatch, InBatch', UNCHANGED <<messages, aborted>>
    PROVE  UNCHANGED <<Complete, Standing>>
  BY DEF Complete, Standing, InBatch

LEMMA StepRefines ==
    IInv /\ [Next]_vars => [Conv!Next]_<<Complete, Standing>>
<1> SUFFICES ASSUME IInv, [Next]_vars
             PROVE  Conv!Next \/ UNCHANGED <<Complete, Standing>>
  OBVIOUS
<1>1. CASE BeginIteration
  BY <1>1 DEF BeginIteration, Finish, External, Complete, Standing, InBatch,
              Conv!Next, Conv!Stop
<1>2. CASE CompactionSucceeds
  <2> DEFINE b == EvictionBoundary(messages)
  <2>1. messages \in Seq(Messages) /\ Paired(messages) /\ CanCompact(messages)
    BY <1>2 DEF CompactionSucceeds, IInv, TypeOK, BatchOrPaired, InBatch,
                CompactionIsDue
  <2>2. /\ b \in 1..Len(messages) /\ b >= MinEvictable
        /\ b = Len(messages) \/ messages[b + 1].role # "tool"
        /\ b = Len(messages) - PreserveRecent
           \/ b = Len(messages) - PreserveRecent + 1
    BY <2>1, BoundaryIsSafe
  <2>3. messages' = <<UserMessage>> \o SubSeq(messages, b + 1, Len(messages))
    BY <1>2 DEF CompactionSucceeds, Compacted
  <2>4. /\ Complete = messages /\ Complete' = messages'
        /\ Standing = "going" /\ Standing' = "going"
    BY <1>2 DEF CompactionSucceeds, External, Complete, Standing, InBatch
  <2> HIDE DEF b
  <2>5. Len(messages) \in Nat /\ b \in MinEvictable..Len(messages)
    BY <2>1, <2>2, Limits
  <2>6. Len(messages) - b \in {PreserveRecent - 1, PreserveRecent}
    BY <2>2, <2>5, Limits
  <2>7. Conv!UserMessage = UserMessage
    BY DEF Conv!UserMessage, UserMessage
  <2>8. /\ b \in MinEvictable..Len(Complete)
        /\ Len(Complete) - b \in {PreserveRecent - 1, PreserveRecent}
        /\ b < Len(Complete) => Complete[b + 1].role # "tool"
    BY <2>2, <2>4, <2>5, <2>6
  <2>9. Complete' = <<Conv!UserMessage>> \o SubSeq(Complete, b + 1, Len(Complete))
    BY <2>3, <2>4, <2>7, Zenon
  <2>10. Conv!Compact
    BY <2>4, <2>8, <2>9, Zenon DEF Conv!Compact
  <2> QED BY <2>10 DEF Conv!Next
<1>3. CASE CompactionFails \/ StreamFails
  BY <1>3 DEF CompactionFails, StreamFails, Finish, External, Complete,
              Standing, InBatch, Conv!Next, Conv!Stop
<1>4. CASE StreamEndsTurn
  <2>1. /\ Complete = messages /\ Complete' = messages'
        /\ Standing = "going" /\ Standing' = "over"
    BY <1>4 DEF StreamEndsTurn, Finish, Complete, Standing, InBatch
  <2>2. CASE messages' = messages
    BY <2>1, <2>2 DEF Conv!Next, Conv!Stop
  <2>3. CASE messages' = Append(messages, AssistantMessage(<<>>))
    BY <2>1, <2>3 DEF Conv!Next, Conv!CloseWithWords, Conv!AssistantMessage,
                      AssistantMessage
  <2> QED BY <1>4, <2>2, <2>3 DEF StreamEndsTurn
<1>5. CASE StreamCallsTools
  <2>1. messages \in Seq(Messages) /\ ~InBatch /\ InBatch'
        /\ Complete = messages
    BY <1>5 DEF StreamCallsTools, IInv, TypeOK, InBatch, Complete
  <2>2. calls' \in Seq(Calls)
    BY <1>5, StepIInv DEF IInv, TypeOK
  <2>3. AssistantMessage(calls') \in Messages
    BY <2>2 DEF AssistantMessage, Messages
  <2>4. messages' = Append(messages, AssistantMessage(calls'))
    BY <1>5 DEF StreamCallsTools
  <2>5. Complete' = SubSeq(messages', 1, Len(messages') - 1)
    BY <2>1 DEF Complete
  <2>6. Complete' = messages
    BY <2>1, <2>3, <2>4, <2>5
  <2>7. UNCHANGED Standing
    BY <1>5 DEF StreamCallsTools, External, Standing
  <2> QED BY <2>1, <2>6, <2>7
<1>6. CASE GateCall \/ AnswerPrompt \/ ToolReturns \/ ToolThrows
  <2>1. InBatch /\ InBatch' /\ UNCHANGED <<messages, aborted>>
    BY <1>6 DEF GateCall, AnswerPrompt, PromptAnswered, AnswerCounts,
                RunOrReject, ToolReturns, ToolThrows, External, InBatch
  <2> QED BY <2>1, BatchStepHidden
<1>7. CASE CancelBatch
  <2>1. /\ InBatch /\ ~InBatch'
        /\ messages' = Append(messages, ToolMessage(ClosedRows))
        /\ Standing = "cancelled" /\ Standing' = "over"
    BY <1>7 DEF CancelBatch, BreakPoints, Finish, InBatch, Standing
  <2> QED BY <2>1, ClosedRowsAlign, ClosingIsExchange DEF Conv!Next
<1>8. CASE CloseBatch
  <2>1. /\ InBatch /\ ~InBatch'
        /\ messages' = Append(messages, ToolMessage(results))
    BY <1>8 DEF CloseBatch, Finish, InBatch
  <2>2. /\ results \in Seq(Rows) /\ Len(results) = Len(calls)
        /\ \A k \in 1..Len(calls) : results[k].id = calls[k].id
    BY <1>8, <2>1 DEF CloseBatch, HasCall, Next1, IInv, TypeOK, RowsFollowCalls
  <2>3. /\ Standing # "over"
        /\ Standing' = "over" \/ (Standing = "going" /\ UNCHANGED Standing)
    BY <1>8 DEF CloseBatch, Finish, External, Standing
  <2> QED BY <2>1, <2>2, <2>3, ClosingIsExchange DEF Conv!Next
<1>9. CASE Abort
  BY <1>9 DEF Abort, Complete, Standing, InBatch, Conv!Next, Conv!Cancel,
              Conv!Stop
<1>10. CASE CycleMode \/ UNCHANGED vars
  BY <1>10 DEF CycleMode, vars, Complete, Standing, InBatch
<1> QED
  BY <1>1, <1>2, <1>3, <1>4, <1>5, <1>6, <1>7, <1>8, <1>9, <1>10
     DEF Next, LoopStep, Terminating

\* For every set of tools, window, limit and history, every run of the loop
\* is a run of Conversation: no denial, failure, compaction or cancel at any
\* await shows its consumers half an exchange.
THEOREM Implements == Spec => ImplementsConversation
<1>1. Init => Conv!Init
  BY InitRefines
<1>2. IInv /\ [Next]_vars => [Conv!Next]_<<Complete, Standing>>
  BY StepRefines
<1> QED BY <1>1, <1>2, Invariance, PTL DEF Spec, ImplementsConversation, Conv!Spec

----------------------------------------------------------------------------
(* Runs over one session.                                                  *)
(*                                                                         *)
(* The loop's invariant holds in every run, as long as no run was killed   *)
(* with a batch open: what a run is started on is what an earlier one      *)
(* saved, and that is paired whenever the loop has no batch open.  So the  *)
(* invariant of the session ties the file to the loop's phase.             *)

Processes == Down \cup {"running", "archiving"}

SessionInv ==
    /\ IInv
    /\ saved \in Seq(Messages)
    /\ process \in Processes
    /\ InBatch => process = "running"
    /\ ~InBatch => Paired(saved)

SessionSafe == killedInBatch \/ SessionInv

LEMMA UserMessageTyped ==
    UserMessage \in Messages /\ UserMessage.role = "user"
  BY EmptySeq DEF UserMessage, Messages

LEMMA StartRunKeeps == SessionInv /\ StartRun => SessionInv'
<1> SUFFICES ASSUME SessionInv, StartRun PROVE SessionInv'
  OBVIOUS
<1>1. saved \in Seq(Messages) /\ Paired(saved)
  BY DEF SessionInv, StartRun, Down
<1>2. messages' \in Seq(Messages) /\ Paired(messages')
  <2>1. CASE messages' = saved
    BY <1>1, <2>1
  <2>2. CASE messages' = Append(saved, UserMessage)
    BY <1>1, <2>2, UserMessageTyped, PairedAppendPlain
  <2> QED BY <2>1, <2>2 DEF StartRun
<1>3. TypeOK'
  <2>1. calls' \in Seq(Calls) /\ results' \in Seq(Rows)
        /\ events' \in Seq(EventTypes)
    BY EmptySeq DEF StartRun
  <2> QED BY <1>2, <2>1 DEF StartRun, TypeOK, Phases, Reasons
<1>4. phase' = "top" /\ process' = "running" /\ saved' = messages'
  BY DEF StartRun
<1> QED
  BY <1>2, <1>3, <1>4, ClosedStep DEF SessionInv, IInv, Processes, InBatch

\* Only the steps that close a batch, complete or cancelled, leave it, and
\* both announce the transcript.
LEMMA ClosingAnnounces ==
    ASSUME LoopStep, InBatch, ~InBatch'
    PROVE  "messages-updated" \in Yielded
<1>1. CASE CancelBatch
  BY <1>1 DEF CancelBatch, Yielded
<1>2. CASE CloseBatch
  <2>1. /\ events' \in {<<"messages-updated", "done">>, <<"messages-updated">>}
        /\ 1 \in 1..Len(events') /\ events'[1] = "messages-updated"
    BY <1>2 DEF CloseBatch
  <2> QED BY <2>1 DEF Yielded
<1>3. ~GateCall /\ ~AnswerPrompt
  BY DEF GateCall, AnswerPrompt, PromptAnswered, AnswerCounts, RunOrReject,
         InBatch
<1> QED
  BY <1>1, <1>2, <1>3
     DEF LoopStep, InBatch, BeginIteration, CompactionSucceeds, CompactionFails,
         StreamEndsTurn, StreamCallsTools, StreamFails, ToolReturns, ToolThrows

LEMMA DriveLoopKeeps == SessionInv /\ DriveLoop => SessionInv'
<1> SUFFICES ASSUME SessionInv, DriveLoop PROVE SessionInv'
  OBVIOUS
<1>1. IInv'
  BY StepIInv DEF SessionInv, DriveLoop, Next
<1>2. saved' \in Seq(Messages)
  BY <1>1 DEF SessionInv, DriveLoop, Consume, Persisted, IInv, TypeOK
<1>3. process' \in Processes /\ (InBatch' => process' = "running")
  BY DEF DriveLoop, Consume, Processes, InBatch
<1>4. ASSUME ~InBatch' PROVE Paired(saved')
  <2>1. CASE "messages-updated" \in Yielded
    BY <1>1, <1>4, <2>1 DEF IInv, BatchOrPaired, DriveLoop, Consume, Persisted
  <2>2. CASE "messages-updated" \notin Yielded
    <3>1. ~InBatch
      BY <1>4, <2>2, ClosingAnnounces DEF DriveLoop
    <3> QED BY <2>2, <3>1 DEF SessionInv, DriveLoop, Consume, Persisted
  <2> QED BY <2>1, <2>2
<1> QED BY <1>1, <1>2, <1>3, <1>4 DEF SessionInv

\* The signals change the loop's state only in what its invariant allows:
\* an abort leaves the phase, and a death outside a batch leaves no batch.
LEMMA SignalKeeps ==
    SessionInv /\ (Interrupt \/ Terminate) => SessionSafe'
<1> SUFFICES ASSUME SessionInv, Interrupt \/ Terminate, ~killedInBatch'
             PROVE  SessionInv'
  BY DEF SessionSafe
<1>1. CASE Cancel
  BY <1>1, EmptySeq
     DEF Cancel, SessionInv, IInv, TypeOK, RowsFollowCalls, BatchOrPaired,
         CompactionIsDue, InBatch
<1>2. CASE Die
  <2>1. ~InBatch /\ Paired(messages)
    BY <1>2 DEF Die, SessionInv, IInv, BatchOrPaired
  <2>2. TypeOK'
    BY <1>2, EmptySeq DEF Die, SessionInv, IInv, TypeOK, Phases
  <2>3. phase' = "done" /\ Paired(messages') /\ UNCHANGED saved
        /\ process' = "signalled"
    BY <1>2, <2>1 DEF Die
  <2> QED
    BY <2>1, <2>2, <2>3, ClosedStep
       DEF SessionInv, IInv, InBatch, Processes, Down
<1> QED BY <1>1, <1>2 DEF Interrupt, Terminate, SecondPress

LEMMA StepSessionSafe == SessionSafe /\ [CliNext]_allVars => SessionSafe'
<1> SUFFICES ASSUME SessionSafe, [CliNext]_allVars PROVE SessionSafe'
  OBVIOUS
<1>1. killedInBatch => killedInBatch'
  BY DEF CliNext, StartRun, DriveLoop, Consume, EndRun, Interrupt, Terminate,
         Cancel, SecondPress, Die, NoMoreRuns, allVars, cliVars
<1>2. CASE killedInBatch
  BY <1>1, <1>2 DEF SessionSafe
<1>3. CASE ~killedInBatch
  <2> USE <1>3 DEF SessionSafe
  <2>1. CASE StartRun
    BY <2>1, StartRunKeeps
  <2>2. CASE DriveLoop
    BY <2>2, DriveLoopKeeps
  <2>3. CASE EndRun
    <3>1. UNCHANGED <<vars, saved>> /\ process' \in Processes /\ ~InBatch
      BY <2>3 DEF EndRun, SessionInv, Processes, Down
    <3> QED
      BY <3>1 DEF SessionInv, IInv, TypeOK, RowsFollowCalls, BatchOrPaired,
                  CompactionIsDue, InBatch, vars
  <2>4. CASE Interrupt \/ Terminate
    BY <2>4, SignalKeeps
  <2>5. CASE UNCHANGED allVars
    BY <2>5 DEF allVars, cliVars, vars, SessionInv, IInv, TypeOK,
                RowsFollowCalls, BatchOrPaired, CompactionIsDue, InBatch
  <2> QED BY <2>1, <2>2, <2>3, <2>4, <2>5 DEF CliNext, NoMoreRuns
<1> QED BY <1>2, <1>3

LEMMA InitSessionSafe == CliInit => SessionSafe
  BY InitIInv
     DEF CliInit, Init, SessionSafe, SessionInv, Processes, Down, InBatch, IInv,
         TypeOK, BatchOrPaired

\* However many runs a session has seen and however each of them ended, its
\* file pairs every tool call with its row, unless a run was killed with a
\* tool batch open.
THEOREM SessionsResume == CliSpec => []ResumableUnlessKilled
<1>1. SessionSafe => ResumableUnlessKilled
  <2> SUFFICES ASSUME SessionInv, process \in Down PROVE Paired(saved)
    BY DEF SessionSafe, ResumableUnlessKilled
  <2> QED BY DEF SessionInv, Down
<1> QED BY <1>1, InitSessionSafe, StepSessionSafe, PTL DEF CliSpec

----------------------------------------------------------------------------
(* The exit status.                                                        *)
(*                                                                         *)
(* driveLoop judges a run by the events it consumed, the transcript by the *)
(* rows: a refusal is always seen as an event, and a tool that was started *)
(* has a row of its own, or is still running, or the run was aborted.      *)

RowOutcomes == {results[k].outcome : k \in 1..Len(results)}
HasRun == outcomes \cap {"ok", "threw"} # {}

Judged ==
    /\ \E S : results \in Seq(S)
    /\ RowOutcomes \subseteq outcomes
    /\ "declined" \in outcomes => hadDenial
    /\ ranTool => HasRun \/ phase = "executing"

\* What a run leaves is judged only if it was not aborted.
StatusInv ==
    /\ reason = "aborted" \/ Judged
    /\ phase # "done" => reason = "none"

EndedInv ==
    /\ process \in {"running", "archiving"} => StatusInv
    /\ process = "archiving" => phase = "done"
    /\ process = "exited" /\ exitCode = 0 =>
          /\ reason = "no-tool-call"
          /\ "declined" \in outcomes => HasRun

\* A tool is announced by the step that starts it, and by no other.
LEMMA ToolCallStarts ==
    ASSUME LoopStep, "tool-call" \in Yielded
    PROVE  phase' = "executing"
<1>1. CASE GateCall \/ AnswerPrompt
  <2>1. CASE \E g \in {<<>>, <<"tool-allowed">>} : RunOrReject(g)
    BY <2>1 DEF RunOrReject, Yielded
  <2>2. CASE events' \in {<<"blocked">>, <<"declined">>, <<>>}
    BY <2>2 DEF Yielded
  <2> QED BY <1>1, <2>1, <2>2 DEF GateCall, AnswerPrompt, PromptAnswered
<1>2. ASSUME events' \in {<<>>, <<"done">>, <<"error">>, <<"tool-result">>,
                          <<"compacted", "messages-updated">>,
                          <<"messages-updated">>, <<"messages-updated", "done">>}
      PROVE  FALSE
  BY <1>2 DEF Yielded
<1> QED
  BY <1>1, <1>2
     DEF LoopStep, BeginIteration, CompactionSucceeds, CompactionFails,
         StreamEndsTurn, StreamCallsTools, StreamFails, ToolReturns, ToolThrows,
         CancelBatch, CloseBatch

\* A step that leaves the rows alone keeps the judgement, unless it ends the
\* execution of a tool.
LEMMA QuietJudged ==
    ASSUME Judged, LoopStep, Consume, phase # "executing", UNCHANGED results
    PROVE  Judged'
<1>1. RowOutcomes' = RowOutcomes /\ outcomes' = outcomes
  BY DEF Judged, Consume, RowOutcomes
<1>2. ranTool' => ranTool \/ phase' = "executing"
  BY ToolCallStarts DEF Consume, RanSomething
<1> QED
  BY <1>1, <1>2 DEF Judged, Consume, HasRun

\* A row that is pushed is counted among the run's outcomes; a refusal comes
\* with its event, and the end of an execution with the row of a tool that ran.
LEMMA PushJudged ==
    ASSUME Judged, LoopStep, Consume, NEW o, PushRow(o),
           o = "declined" => "declined" \in Yielded,
           phase = "executing" => o \in {"ok", "threw"}
    PROVE  Judged'
<1> DEFINE row == [id |-> calls[Next1].id, outcome |-> o]
<1>1. PICK S : results \in Seq(S)
  BY DEF Judged
<1>2. results' = Append(results, row) /\ row.outcome = o
  BY DEF PushRow
<1> HIDE DEF row
<1>3. /\ results' \in Seq(S \cup {row})
      /\ Len(results) \in Nat /\ Len(results') = Len(results) + 1
      /\ results'[Len(results) + 1] = row
      /\ \A k \in 1..Len(results) : results'[k] = results[k]
  <2>1. results \in Seq(S \cup {row})
    BY <1>1
  <2> QED BY <1>2, <2>1
<1>4. RowOutcomes' = RowOutcomes \cup {o}
  BY <1>2, <1>3 DEF RowOutcomes
<1>5. outcomes' = outcomes \cup {o}
  BY <1>4 DEF Judged, Consume, RowOutcomes
<1>6. "declined" \in outcomes' => hadDenial'
  BY <1>5 DEF Judged, Consume
<1>7. ranTool' => HasRun' \/ phase' = "executing"
  BY <1>5, ToolCallStarts DEF Judged, Consume, RanSomething, HasRun
<1> QED BY <1>3, <1>4, <1>5, <1>6, <1>7 DEF Judged

LEMMA DriveLoopJudged ==
    ASSUME StatusInv, DriveLoop
    PROVE  StatusInv' /\ (process' = "archiving" => phase' = "done")
<1>1. LoopStep /\ Consume
  BY DEF DriveLoop
<1>2. phase # "done" /\ reason = "none" /\ Judged
  BY <1>1 DEF StatusInv, LoopStep, BeginIteration, CompactionSucceeds,
              CompactionFails, StreamEndsTurn, StreamCallsTools, StreamFails,
              GateCall, AnswerPrompt, PromptAnswered, AnswerCounts, ToolReturns,
              ToolThrows, CancelBatch, BreakPoints, CloseBatch
<1>3. phase' # "done" => reason' = "none"
  BY <1>1, <1>2
     DEF LoopStep, BeginIteration, CompactionSucceeds, CompactionFails,
         StreamEndsTurn, StreamCallsTools, StreamFails, GateCall, AnswerPrompt,
         PromptAnswered, ToolReturns, ToolThrows, CancelBatch, CloseBatch, Finish
<1>4. process' = "archiving" => phase' = "done"
  BY <1>1 DEF Consume
<1>5. reason' = "aborted" \/ Judged'
  <2>1. CASE BeginIteration \/ CompactionSucceeds \/ CompactionFails
             \/ StreamEndsTurn \/ StreamFails \/ CloseBatch
    BY <1>1, <1>2, <2>1, QuietJudged
       DEF BeginIteration, CompactionSucceeds, CompactionFails, StreamEndsTurn,
           StreamFails, CloseBatch
  <2>2. CASE StreamCallsTools
    <3>1. results' = <<>> /\ phase = "streaming"
      BY <2>2 DEF StreamCallsTools
    <3>2. results' \in Seq({}) /\ RowOutcomes' = {}
      BY <3>1, EmptySeq DEF RowOutcomes
    <3>3. outcomes' = outcomes
      BY <1>1, <3>2 DEF Consume, RowOutcomes
    <3>4. ranTool' => ranTool \/ phase' = "executing"
      BY <1>1, ToolCallStarts DEF Consume, RanSomething
    <3> QED BY <1>1, <1>2, <3>1, <3>2, <3>3, <3>4 DEF Judged, Consume, HasRun
  <2>3. CASE GateCall \/ AnswerPrompt
    <3>1. phase # "executing"
      BY <2>3 DEF GateCall, AnswerPrompt, PromptAnswered, AnswerCounts
    <3>2. \/ UNCHANGED results
          \/ \E o \in {"unknown", "blocked"} : PushRow(o)
          \/ PushRow("declined") /\ events' = <<"declined">>
      BY <2>3 DEF GateCall, AnswerPrompt, PromptAnswered, RunOrReject
    <3>3. events' = <<"declined">> => "declined" \in Yielded
      BY DEF Yielded
    <3> QED BY <1>1, <1>2, <3>1, <3>2, <3>3, QuietJudged, PushJudged
  <2>4. CASE ToolReturns \/ ToolThrows
    BY <1>1, <1>2, <2>4, PushJudged DEF ToolReturns, ToolThrows
  <2>5. CASE CancelBatch
    BY <2>5 DEF CancelBatch, Finish
  <2> QED BY <1>1, <2>1, <2>2, <2>3, <2>4, <2>5 DEF LoopStep
<1> QED BY <1>3, <1>4, <1>5 DEF StatusInv

LEMMA StepEndedInv == EndedInv /\ [CliNext]_allVars => EndedInv'
<1> SUFFICES ASSUME EndedInv, [CliNext]_allVars PROVE EndedInv'
  OBVIOUS
<1>1. CASE StartRun
  <2>1. results' = <<>> /\ outcomes' = {} /\ ranTool' = FALSE
        /\ reason' = "none" /\ process' = "running"
    BY <1>1 DEF StartRun
  <2>2. results' \in Seq({}) /\ RowOutcomes' = {}
    BY <2>1, EmptySeq DEF RowOutcomes
  <2> QED BY <2>1, <2>2 DEF EndedInv, StatusInv, Judged
<1>2. CASE DriveLoop
  <2>1. process = "running" /\ process' \in {"running", "archiving"}
    BY <1>2 DEF DriveLoop, Consume
  <2> QED BY <1>2, <2>1, DriveLoopJudged DEF EndedInv
<1>3. CASE EndRun
  <2>1. StatusInv /\ phase = "done" /\ UNCHANGED <<vars, outcomes>>
        /\ process' \in {"signalled", "exited"}
    BY <1>3 DEF EndRun, EndedInv
  <2>2. process' = "exited" => exitCode' = StatusOf
    BY <1>3 DEF EndRun
  <2>3. StatusOf = 0 => /\ reason = "no-tool-call"
                        /\ "declined" \in outcomes => HasRun
    BY <2>1 DEF StatusOf, StatusInv, Judged
  <2> QED BY <2>1, <2>2, <2>3 DEF EndedInv, HasRun, vars
<1>4. CASE Interrupt /\ Cancel
  BY <1>4 DEF Interrupt, Cancel, Down, EndedInv, StatusInv, Judged, RowOutcomes,
              HasRun
<1>5. CASE Die
  BY <1>5 DEF Die, EndedInv
<1>6. CASE UNCHANGED allVars
  BY <1>6 DEF allVars, vars, cliVars, EndedInv, StatusInv, Judged, RowOutcomes,
              HasRun
<1> QED BY <1>1, <1>2, <1>3, <1>4, <1>5, <1>6
        DEF CliNext, Interrupt, Terminate, SecondPress, NoMoreRuns

\* Status 0 is given only when the model had the last word and, if the user
\* refused anything in the run, some tool did run: whatever is compacted away
\* in between, and whatever the session held before.
THEOREM StatusTellsTheTruth == CliSpec => []ExitZeroMeansAccomplished
<1>1. CliInit => EndedInv
  BY DEF CliInit, EndedInv
<1>2. EndedInv => ExitZeroMeansAccomplished
  BY DEF EndedInv, ExitZeroMeansAccomplished, HasRun
<1> QED BY <1>1, <1>2, StepEndedInv, PTL DEF CliSpec
=============================================================================
