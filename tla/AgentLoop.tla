----------------------------- MODULE AgentLoop -----------------------------
(***************************************************************************)
(* One run of the agent loop: runLoop of apps/cli/src/loop/loop.ts, with   *)
(* the gate it consults (gate/gate.ts) and the compaction it calls         *)
(* (loop/compaction.ts).                                                   *)
(*                                                                         *)
(* The loop is an async generator.  Between two awaits it runs without     *)
(* interruption, so one action below is everything the code does from one  *)
(* await to the next: the model's answer, the user's answer to a prompt    *)
(* and a tool's return are the only points where a signal handler can set  *)
(* the abort signal or a keystroke can change the permission mode.         *)
(*                                                                         *)
(* `events' holds what the last step yielded to the generator's consumer,  *)
(* in order.                                                               *)
(***************************************************************************)
EXTENDS Transcripts

CONSTANTS
    Tools,                  \* tool names a model may call, defined or not
    DefinedTools,           \* those with an execute function in opts.tools
    WriteTools,             \* WRITE_TOOLS of gate.ts
    PersistableTools,       \* write tools whose prompt offers "always"
    HasApprovalPrompt,      \* opts.approvalPrompt is defined
    Interactive,            \* the caller lets the user cycle the mode
    Histories,              \* transcripts a run may be started on
    MaxIterations,          \* opts.maxIterations
    MaxConsecutiveDenials,  \* MAX_CONSECUTIVE_DENIALS
    PreserveRecent,         \* preserveRecentMessages
    MinEvictable,           \* DEFAULT_MIN_EVICTABLE
    MaxCalls                \* bound: tool calls in one model answer

VARIABLES
    phase,              \* where the generator is suspended
    iteration,          \* the for loop's counter
    messages,           \* the loop's own copy of the transcript
    calls,              \* toolCalls of the current model answer
    results,            \* toolResults pushed so far for them
    overThreshold,      \* lastInputTokens / window >= compactionThreshold
    mode,               \* opts.permissionMode, a getter
    allowedTools,       \* the run's own allowlist
    consecutiveDenials,
    aborted,            \* opts.signal.aborted
    reason,             \* how the generator ended
    events              \* what the last step yielded

vars == <<phase, iteration, messages, calls, results, overThreshold, mode,
          allowedTools, consecutiveDenials, aborted, reason, events>>

----------------------------------------------------------------------------
(* Data.                                                                   *)

PermissionModes == {"read-only", "approve-each", "auto"}
Phases == {"top", "compacting", "streaming", "gate", "prompting",
           "executing", "done"}
Reasons == {"none", "no-tool-call", "max-iterations", "aborted",
            "repeated-denials", "error"}
EventTypes == {"messages-updated", "compacted", "tool-allowed", "tool-call",
               "tool-result", "blocked", "declined", "error", "done"}
Outcomes == {"ok", "threw", "unknown", "blocked", "declined", "cancelled"}

\* A call is identified by the iteration that produced it and its position,
\* as the provider's toolCallId identifies it; histories use iteration 0.
CallIds == Nat \X Nat
Calls == [id : CallIds, tool : Tools]
Rows == [id : CallIds, outcome : Outcomes]
Messages == [role : {"user", "assistant", "tool"},
             calls : Seq(Calls), rows : Seq(Rows)]

ASSUME ToolSets ==
    /\ DefinedTools \subseteq Tools
    /\ WriteTools \subseteq Tools
    /\ PersistableTools \subseteq WriteTools
ASSUME Limits ==
    /\ MaxIterations \in Nat /\ MaxConsecutiveDenials \in Nat \ {0}
    /\ PreserveRecent \in Nat /\ MinEvictable \in Nat \ {0}
    /\ MaxCalls \in Nat \ {0}
ASSUME Flags == HasApprovalPrompt \in BOOLEAN /\ Interactive \in BOOLEAN
ASSUME HistoryTypes == Histories \subseteq Seq(Messages)
ASSUME HistoriesPaired == \A h \in Histories : Paired(h)

----------------------------------------------------------------------------
(* The gate and the compaction boundary.                                   *)

checkPermission(tool, m, allowed) ==
    IF m = "auto" \/ tool \notin WriteTools THEN "allow"
    ELSE IF m = "read-only" THEN "block"
    ELSE IF tool \in allowed THEN "allow" ELSE "needs-approval"

cycleMode(m) ==
    CASE m = "read-only" -> "approve-each"
      [] m = "approve-each" -> "auto"
      [] OTHER -> "read-only"

\* The prompt's "always" is offered for persistable tools only.
OffersAlways(tool) == tool \in PersistableTools

\* Variant: the boundary is not moved past tool messages.
EvictionBoundary_Unsafe(ms) == Len(ms) - PreserveRecent

\* The number of leading messages to evict: all but the PreserveRecent
\* newest, moved forward past tool messages so that no pair is cut.
EvictionBoundary(ms) ==
    LET start == Len(ms) - PreserveRecent
        safe(b) == b = Len(ms) \/ ms[b + 1].role # "tool"
    IN  IF start <= 0 THEN start
        ELSE CHOOSE b \in start..Len(ms) :
                 safe(b) /\ \A c \in start..(b - 1) : ~safe(c)

CanCompact(ms) == EvictionBoundary(ms) >= MinEvictable

Compacted(ms) ==
    <<UserMessage>> \o SubSeq(ms, EvictionBoundary(ms) + 1, Len(ms))

----------------------------------------------------------------------------
Init ==
    /\ phase = "top" /\ iteration = 0
    /\ messages \in Histories
    /\ calls = <<>> /\ results = <<>>
    /\ overThreshold = FALSE
    /\ mode \in PermissionModes
    /\ allowedTools \in SUBSET PersistableTools
    /\ consecutiveDenials = 0
    /\ aborted = FALSE
    /\ reason = "none" /\ events = <<>>

\* The environment's part of the state: the loop only reads it.
External == <<mode, aborted>>
\* What the tool batch does not touch.
RunState == <<iteration, overThreshold>>

Finish(r) == phase' = "done" /\ reason' = r

----------------------------------------------------------------------------
(* The environment: the user and the signal handler.                       *)

\* controller.abort(), from a first Ctrl-C.
Abort ==
    /\ ~aborted /\ phase # "done"
    /\ aborted' = TRUE
    /\ events' = <<>>
    /\ UNCHANGED <<phase, iteration, messages, calls, results, overThreshold,
                   mode, allowedTools, consecutiveDenials, reason>>

\* Variant: commands are still taken while the user is being asked.
InputOpen_Always == phase # "done"

InputOpen == phase \notin {"prompting", "done"}

\* /mode while a turn runs.  The approval box replaces the input box, so no
\* mode change is possible while the user is being asked.
CycleMode ==
    /\ Interactive
    /\ InputOpen
    /\ mode' = cycleMode(mode)
    /\ events' = <<>>
    /\ UNCHANGED <<phase, iteration, messages, calls, results, overThreshold,
                   allowedTools, consecutiveDenials, aborted, reason>>

----------------------------------------------------------------------------
(* The top of the for loop, compaction and the model call.                 *)

BeginIteration ==
    /\ phase = "top"
    /\ IF iteration >= MaxIterations
       THEN Finish("max-iterations") /\ events' = <<"done">>
       ELSE IF aborted
       THEN Finish("aborted") /\ events' = <<"done">>
       ELSE /\ phase' = IF overThreshold /\ CanCompact(messages)
                        THEN "compacting" ELSE "streaming"
            /\ events' = <<>>
            /\ UNCHANGED reason
    /\ UNCHANGED <<messages, calls, results, allowedTools, consecutiveDenials,
                   RunState, External>>

CompactionSucceeds ==
    /\ phase = "compacting" /\ ~aborted
    /\ messages' = Compacted(messages)
    /\ phase' = "streaming"
    /\ events' = <<"compacted", "messages-updated">>
    /\ UNCHANGED <<calls, results, allowedTools, consecutiveDenials, reason,
                   RunState, External>>

\* A cancelled summariser ends the run; a failed one is reported and the
\* iteration goes on to its model call with the transcript as it was.
CompactionFails ==
    /\ phase = "compacting"
    /\ \/ aborted /\ Finish("aborted") /\ events' = <<"done">>
       \/ /\ ~aborted
          /\ phase' = "streaming" /\ events' = <<"error">>
          /\ UNCHANGED reason
    /\ UNCHANGED <<messages, calls, results, allowedTools, consecutiveDenials,
                   RunState, External>>

\* The model answers without calling a tool, with text or with nothing.
StreamEndsTurn ==
    /\ phase = "streaming" /\ ~aborted /\ Paired(messages)
    /\ \/ /\ messages' = Append(messages, AssistantMessage(<<>>))
          /\ events' = <<"messages-updated", "done">>
       \/ messages' = messages /\ events' = <<"done">>
    /\ Finish("no-tool-call")
    /\ overThreshold' \in BOOLEAN
    /\ UNCHANGED <<iteration, calls, results, allowedTools, consecutiveDenials,
                   External>>

\* The model calls tools.  The assistant message is in the transcript, and
\* handed to the consumer, before any of them runs.
StreamCallsTools ==
    /\ phase = "streaming" /\ ~aborted /\ Paired(messages)
    /\ \E n \in 1..MaxCalls : \E names \in [1..n -> Tools] :
          calls' = [k \in 1..n |->
                       [id |-> <<iteration + 1, k>>, tool |-> names[k]]]
    /\ messages' = Append(messages, AssistantMessage(calls'))
    /\ results' = <<>>
    /\ phase' = "gate"
    /\ events' = <<"messages-updated">>
    /\ overThreshold' \in BOOLEAN
    /\ UNCHANGED <<iteration, allowedTools, consecutiveDenials, reason,
                   External>>

\* A cancelled stream closes and its usage rejects: the partial answer is
\* dropped.  A provider failure arrives as an error part, whose branch does
\* not consult the signal, or as a rejection, whose branch does; neither
\* failure yields `done'.
StreamFails ==
    /\ phase = "streaming"
    /\ \/ aborted /\ Finish("aborted") /\ events' = <<"done">>
       \/ Finish("error") /\ events' = <<"error">>
    /\ UNCHANGED <<messages, calls, results, allowedTools, consecutiveDenials,
                   RunState, External>>

----------------------------------------------------------------------------
(* The tool batch.                                                         *)

Next1 == Len(results) + 1
CurrentTool == calls[Next1].tool
HasCall == Next1 <= Len(calls)

PushRow(outcome) ==
    results' = Append(results, [id |-> calls[Next1].id, outcome |-> outcome])

\* A call that will really run clears the streak of denials.
ClearsStreak == CurrentTool \in DefinedTools

\* The branch after the gate for a call that may run: a name without a
\* definition gets an error row, any other resets the streak and starts.
RunOrReject(grant) ==
    /\ consecutiveDenials' = IF ClearsStreak THEN 0 ELSE consecutiveDenials
    /\ \/ /\ CurrentTool \notin DefinedTools
          /\ PushRow("unknown")
          /\ phase' = "gate"
          /\ events' = grant \o <<"error">>
       \/ /\ CurrentTool \in DefinedTools
          /\ phase' = "executing"
          /\ events' = grant \o <<"tool-call">>
          /\ UNCHANGED results

\* A mode that blocks, or nobody to ask, is not counted as a denial.
GateCall ==
    /\ phase = "gate" /\ HasCall /\ ~aborted
    /\ LET verdict == checkPermission(CurrentTool, mode, allowedTools) IN
       \/ verdict = "allow" /\ RunOrReject(<<>>)
       \/ /\ \/ verdict = "block"
             \/ verdict = "needs-approval" /\ ~HasApprovalPrompt
          /\ PushRow("blocked")
          /\ events' = <<"blocked">>
          /\ UNCHANGED <<phase, consecutiveDenials>>
       \/ /\ verdict = "needs-approval" /\ HasApprovalPrompt
          /\ phase' = "prompting"
          /\ events' = <<>>
          /\ UNCHANGED <<results, consecutiveDenials>>
    /\ UNCHANGED <<messages, calls, allowedTools, reason, RunState, External>>

\* The signal is looked at again once the prompt has answered.
AnswerCounts_Unchecked == phase = "prompting"       \* variant: it is not
AnswerCounts == phase = "prompting" /\ ~aborted

PromptAnswered(answer) ==
    /\ AnswerCounts
    /\ \/ answer = "once" /\ RunOrReject(<<>>) /\ UNCHANGED allowedTools
       \/ /\ answer = "always" /\ OffersAlways(CurrentTool)
          /\ allowedTools' = allowedTools \cup {CurrentTool}
          /\ RunOrReject(<<"tool-allowed">>)
       \/ /\ answer = "no"
          /\ consecutiveDenials' = consecutiveDenials + 1
          /\ PushRow("declined")
          /\ phase' = "gate"
          /\ events' = <<"declined">>
          /\ UNCHANGED allowedTools
    /\ UNCHANGED <<messages, calls, reason, RunState, External>>

AnswerPrompt == \E answer \in {"once", "always", "no"} : PromptAnswered(answer)

\* execute resolves.  A tool that does not watch the signal may do so after
\* the abort; its row is kept.
ToolReturns ==
    /\ phase = "executing"
    /\ PushRow("ok")
    /\ phase' = "gate"
    /\ events' = <<"tool-result">>
    /\ UNCHANGED <<messages, calls, allowedTools, consecutiveDenials, reason,
                   RunState, External>>

\* execute rejects with the turn still running: the row records the failure.
ToolThrows ==
    /\ phase = "executing" /\ ~aborted
    /\ PushRow("threw")
    /\ phase' = "gate"
    /\ events' = <<"error">>
    /\ UNCHANGED <<messages, calls, allowedTools, consecutiveDenials, reason,
                   RunState, External>>

\* Rows for the calls no row answers yet.
Cancelled_None == <<>>              \* variant: they are left unanswered
Cancelled ==
    [k \in 1..(Len(calls) - Len(results)) |->
        [id |-> calls[Len(results) + k].id, outcome |-> "cancelled"]]

\* The answered rows, then the cancelled ones.
ClosedRows == results \o Cancelled

\* Where the loop is parked or running when a break can be taken.
BreakPoints_NoPrompt == {"gate", "executing"}   \* variant: the prompt stays up
BreakPoints == {"gate", "prompting", "executing"}

\* Each of the three breaks: the abort is seen before a call, after the
\* prompt it resolved with "no", or by the catch of a tool that rejected.
\* What was not answered is recorded as cancelled and the run ends.
CancelBatch ==
    /\ phase \in BreakPoints /\ HasCall /\ aborted
    /\ messages' = Append(messages, ToolMessage(ClosedRows))
    /\ results' = ClosedRows
    /\ Finish("aborted")
    /\ events' = <<"messages-updated", "done">>
    /\ UNCHANGED <<calls, allowedTools, consecutiveDenials, RunState, External>>

TooManyDenials_OffByOne == consecutiveDenials > MaxConsecutiveDenials
TooManyDenials == consecutiveDenials >= MaxConsecutiveDenials

\* Every call has its row: the batch joins the transcript, and the streak is
\* weighed only now.
CloseBatch ==
    /\ phase = "gate" /\ ~HasCall
    /\ messages' = Append(messages, ToolMessage(results))
    /\ IF TooManyDenials
       THEN /\ Finish("repeated-denials")
            /\ events' = <<"messages-updated", "done">>
            /\ UNCHANGED iteration
       ELSE /\ phase' = "top" /\ iteration' = iteration + 1
            /\ events' = <<"messages-updated">>
            /\ UNCHANGED reason
    /\ UNCHANGED <<calls, results, overThreshold, allowedTools,
                   consecutiveDenials, External>>

----------------------------------------------------------------------------
LoopStep ==
    \/ BeginIteration
    \/ CompactionSucceeds \/ CompactionFails
    \/ StreamEndsTurn \/ StreamCallsTools \/ StreamFails
    \/ GateCall \/ AnswerPrompt
    \/ ToolReturns \/ ToolThrows
    \/ CancelBatch \/ CloseBatch

Terminating == phase = "done" /\ UNCHANGED vars

Next == LoopStep \/ Abort \/ CycleMode \/ Terminating

\* What the event loop and the abort signal together guarantee: code that is
\* not parked at an await runs, and each await the signal was handed to
\* settles once it is aborted.  Nothing obliges a model, a tool or a user to
\* answer otherwise.
Settles ==
    \/ BeginIteration
    \/ phase = "gate" /\ (GateCall \/ CancelBatch \/ CloseBatch)
    \/ aborted /\ LoopStep

Spec == Init /\ [][Next]_vars
FairSpec == Spec /\ WF_vars(Settles)

----------------------------------------------------------------------------
(* Properties.                                                             *)

TypeOK ==
    /\ phase \in Phases /\ iteration \in Nat
    /\ messages \in Seq(Messages)
    /\ calls \in Seq(Calls) /\ results \in Seq(Rows)
    /\ overThreshold \in BOOLEAN
    /\ mode \in PermissionModes
    /\ allowedTools \subseteq PersistableTools
    /\ consecutiveDenials \in Nat
    /\ aborted \in BOOLEAN
    /\ reason \in Reasons
    /\ events \in Seq(EventTypes)

InBatch == phase \in {"gate", "prompting", "executing"}

\* Whenever no tool batch is open the transcript pairs every tool call with
\* its row, through cancellations, denials, unknown tools and compactions:
\* a later run on it is not refused for a missing tool result.
PairedBetweenBatches == InBatch \/ Paired(messages)

\* A run that goes on has fewer denials in a row than the limit, and one that
\* stops for them has that many and was not cancelled half way.
DenialLimit ==
    /\ phase \in {"top", "compacting", "streaming"}
          => consecutiveDenials < MaxConsecutiveDenials
    /\ reason = "repeated-denials"
          => /\ consecutiveDenials >= MaxConsecutiveDenials
             /\ \A k \in 1..Len(results) : results[k].outcome # "cancelled"

\* Leaving a write mode in the middle of a turn takes effect at once: no write
\* tool is started under read-only, not even one that was allowed for good or
\* whose prompt went up under an earlier mode.
NoWriteStartsReadOnly ==
    [][phase # "executing" /\ phase' = "executing" /\ mode = "read-only"
         => CurrentTool \notin WriteTools]_vars

\* After the abort no tool starts, no model answer is taken, nobody is asked
\* and no call is recorded as refused: a cancel is never told to the model
\* as a denial.
NothingNewAfterAbort ==
    [][aborted =>
         /\ phase' \in {"compacting", "streaming", "prompting", "executing"}
               => phase' = phase
         /\ consecutiveDenials' = consecutiveDenials
         /\ Len(messages') > Len(messages)
               => messages'[Len(messages')].role = "tool"]_vars

\* A compaction evicts at least MinEvictable messages and no more than one
\* beyond those it may: what remains is the newest part of the transcript
\* unchanged, short of PreserveRecent by at most the one tool message that
\* could not open it.
CompactionKeepsTheRecent ==
    [][messages' # messages /\ Len(messages') <= Len(messages) =>
         LET kept == Len(messages') - 1
             evicted == Len(messages) - kept
         IN  /\ evicted >= MinEvictable
             /\ kept >= PreserveRecent - 1 /\ kept <= PreserveRecent
             /\ \A k \in 1..kept : messages'[k + 1] = messages[evicted + k]
      ]_vars

\* Ctrl-C always ends the run, wherever it lands.
AbortEndsRun == aborted ~> phase = "done"

----------------------------------------------------------------------------
(* What the run promises.                                                  *)

\* The messages of the batch that is open do not count yet.
Complete ==
    IF InBatch THEN SubSeq(messages, 1, Len(messages) - 1) ELSE messages

\* At the top of the loop an abort is the end.
Standing ==
    IF phase = "done" \/ (aborted /\ phase = "top") THEN "over"
    ELSE IF aborted THEN "cancelled" ELSE "going"

Conv == INSTANCE Conversation WITH
    conversation <- Complete, status <- Standing

\* The loop implements Conversation: seen from outside, exchanges are atomic
\* through denials, failures and cancellations at any await, compactions keep
\* the newest messages and cut between exchanges, and a cancelled run adds no
\* more than the rows of the batch it was in.
ImplementsConversation == Conv!Spec
=============================================================================
