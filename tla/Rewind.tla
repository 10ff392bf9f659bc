------------------------------- MODULE Rewind --------------------------------
(***************************************************************************)
(* The conversation half of the checkpoint store: /rewind and what it      *)
(* stands on, over one session of the terminal interface, its resumes and  *)
(* kills (apps/cli/src/checkpoint/checkpoint.ts, tui/commands.ts, cli.ts), *)
(* and the archivist's place in the same transcript (memory/archivist.ts). *)
(*                                                                         *)
(* A checkpoint's anchor and the archivist's cursor are both positions in  *)
(* a transcript that compaction replaces and /rewind truncates, and three  *)
(* stores move one after the other: the messages in memory, the session    *)
(* file and the checkpoint log.  An anchor carries, as history, the        *)
(* messages it was taken after.                                            *)
(***************************************************************************)
EXTENDS Integers, Sequences, SequencesExt, FiniteSets

CONSTANTS
    Interval,        \* ARCHIVIST_TOOL_CALL_INTERVAL
    MinEvictable,    \* fewest messages worth a compaction
    MaxMessages,     \* bound: messages ever made
    MaxRewinds,      \* bound: /rewind commands
    MaxCompactions,  \* bound: compactions
    MaxProcesses     \* bound: processes started

VARIABLES
    phase,      \* where the process is, "down" when there is none
    messages,   \* the reducer's session.messages
    unsaved,    \* transcripts dispatched and not yet seen by onSessionChange
    saved,      \* the transcript in the session file
    records,    \* <id>.jsonl: tool records and barriers
    dropped,    \* whether the running /rewind dropped anything
    archivist,  \* ArchivistState: cursor, calls, near
    task,       \* history: the message the process was started with, or 0
    shown,      \* history: messages archived, or declined by a process before
    warned,     \* history: a failed save or barrier has been reported
    orphans,    \* history: records that a killed process left past the file
    made        \* messages, rewinds, compactions and starts so far

rewindVars == <<phase, messages, unsaved, saved, records, dropped, archivist,
                task, shown, warned, orphans, made>>

ASSUME RewindBounds == {MinEvictable, MaxMessages, MaxRewinds, MaxCompactions,
                        MaxProcesses} \subseteq Nat
ASSUME IntervalIsPositive == Interval \in Nat \ {0}

Ids(s) == {s[i].id : i \in DOMAIN s}
Limit == [messages |-> MaxMessages, rewinds |-> MaxRewinds,
          compactions |-> MaxCompactions, starts |-> MaxProcesses]
Spend(what) ==
    made[what] < Limit[what] /\ made' = [made EXCEPT ![what] = @ + 1]

\* A new message at the end of a transcript, of those ever made.
Message(kind) == [id |-> made.messages + 1, kind |-> kind]
Paired(s) == \A i \in DOMAIN s :
    s[i].kind = "call" <=> i < Len(s) /\ s[i + 1].kind = "rows"

\* Every change of the reducer's session is seen by onSessionChange later.
Dispatch(s) == messages' = s /\ unsaved' = Append(unsaved, s)

\* The interface's effect runs long before a model or a tool has answered.
Settled == unsaved = <<>>

----------------------------------------------------------------------------
(* A process of the session, its turns and its end.                        *)

NewArchivist(s) == [cursor |-> Len(s), calls |-> 0, near |-> FALSE]

AwaitsReply(s) == s # <<>> /\ Last(s).kind # "text"

\* seri --resume, or the first start; a task on the command line is the last
\* message of the session that is saved and that the archivist's state is
\* made from.
Start ==
    /\ phase = "down" /\ made.starts < MaxProcesses
    /\ \/ /\ messages' = saved /\ task' = 0
          /\ phase' = IF AwaitsReply(saved) THEN "model" ELSE "idle"
          /\ made' = [made EXCEPT !.starts = @ + 1]
       \/ /\ made.messages < MaxMessages
          /\ messages' = Append(saved, Message("user"))
          /\ task' = made.messages + 1 /\ phase' = "model"
          /\ made' = [made EXCEPT !.starts = @ + 1, !.messages = @ + 1]
    /\ saved' = messages' /\ unsaved' = <<>>
    /\ archivist' = NewArchivist(messages')
    /\ shown' = shown \cup Ids(saved)
    /\ UNCHANGED <<records, dropped, warned, orphans>>

\* onSubmit of a task: the message reaches the reducer with the turn's first
\* answer.
Submit ==
    /\ phase = "idle" /\ phase' = "model"
    /\ Spend("messages")
    /\ messages' = Append(messages, Message("user"))
    /\ UNCHANGED <<unsaved, saved, records, dropped, archivist, task, shown,
                   warned, orphans>>

\* The position of the message that carries the call, and a barrier.
RewindTo_After(s) == Len(s)                          \* variant: off by one
RewindTo(s) == Len(s) - 1
Anchor(s) ==
    [kind |-> "tool", to |-> RewindTo(s), was |-> SubSeq(s, 1, Len(s) - 1)]
Barrier(cause) == [kind |-> cause, to |-> 0, was |-> <<>>]

\* The model calls a tool; a call the store snapshots leaves an anchor.  A
\* transcript with an unanswered call gets no answer.
CallTool ==
    /\ phase = "model" /\ phase' = "tools"
    /\ Settled /\ Paired(messages)
    /\ Spend("messages")
    /\ Dispatch(Append(messages, Message("call")))
    /\ \/ records' = Append(records, Anchor(messages'))
       \/ UNCHANGED records
    /\ \E near \in BOOLEAN :
          archivist' = [archivist EXCEPT
                           !.calls = IF @ < Interval THEN @ + 1 ELSE @,
                           !.near = near]
    /\ UNCHANGED <<saved, dropped, task, shown, warned, orphans>>

ToolsReturn ==
    /\ phase = "tools" /\ Settled
    /\ phase' \in {"model", "ended"}      \* on to the model, or too many denials
    /\ Spend("messages")
    /\ Dispatch(Append(messages, Message("rows")))
    /\ UNCHANGED <<saved, records, dropped, archivist, task, shown, warned,
                   orphans>>

FinalAnswer ==
    /\ phase = "model" /\ phase' = "ended"
    /\ Settled /\ Paired(messages)
    /\ Spend("messages")
    /\ Dispatch(Append(messages, Message("text")))
    /\ \E near \in BOOLEAN : archivist' = [archivist EXCEPT !.near = near]
    /\ UNCHANGED <<saved, records, dropped, task, shown, warned, orphans>>

StreamFails ==
    /\ phase = "model" /\ phase' = "ended"
    /\ UNCHANGED <<messages, unsaved, saved, records, dropped, archivist, task,
                   shown, warned, orphans, made>>

\* Where a compaction may cut: not before the rows of a call.
Boundaries ==
    {b \in MinEvictable..(Len(messages) - 1) : messages[b + 1].kind # "rows"}

\* observeArchivistEvent (compacted).
CursorAfterCompaction == 0

\* The loop splices its messages and yields; driveLoop appends the barrier,
\* or warns that it could not.
LoopCompacts ==
    /\ phase = "model" /\ phase' = "compacted"
    /\ Settled
    /\ made.messages < MaxMessages /\ made.compactions < MaxCompactions
    /\ made' = [made EXCEPT !.messages = @ + 1, !.compactions = @ + 1]
    /\ \E b \in Boundaries :
          messages' = <<Message("summary")>>
                          \o SubSeq(messages, b + 1, Len(messages))
    /\ archivist' = [archivist EXCEPT !.cursor = CursorAfterCompaction]
    /\ \/ /\ records' = IF records = <<>> THEN records
                        ELSE Append(records, Barrier("compaction"))
          /\ UNCHANGED warned
       \/ warned' = TRUE /\ UNCHANGED records
    /\ UNCHANGED <<unsaved, saved, dropped, task, shown, orphans>>

\* ...and the messages are announced after it.
AnnounceCompacted ==
    /\ phase = "compacted" /\ phase' = "model"
    /\ Dispatch(messages)
    /\ UNCHANGED <<saved, records, dropped, archivist, task, shown, warned,
                   orphans, made>>

----------------------------------------------------------------------------
(* maybeRunArchivist, at the end of a turn that was not aborted.           *)

InBounds(a) == IF a.cursor > Len(messages) THEN 0 ELSE a.cursor
Triggered(a) == a.calls >= Interval \/ a.near

EndTurn ==
    /\ phase = "ended"
    /\ \/ phase' = "idle" /\ UNCHANGED archivist                \* aborted
       \/ /\ archivist' = [archivist EXCEPT !.cursor = InBounds(archivist)]
          /\ \/ phase' = "idle"                                 \* switched off
             \/ Triggered(archivist) /\ phase' = "archiving"
    /\ UNCHANGED <<messages, unsaved, saved, records, dropped, task, shown,
                   warned, orphans, made>>

Archived ==
    /\ phase = "archiving" /\ phase' = "idle"
    /\ shown' = shown \cup
                    Ids(SubSeq(messages, archivist.cursor + 1, Len(messages)))
    /\ archivist' = [archivist EXCEPT !.cursor = Len(messages), !.calls = 0]
    /\ UNCHANGED <<messages, unsaved, saved, records, dropped, task, warned,
                   orphans, made>>

\* A failure costs an interval and no messages; a cancel costs nothing.
CursorAfterFailure == archivist.cursor

NotArchived ==
    /\ phase = "archiving" /\ phase' = "idle"
    /\ \/ archivist' = [archivist EXCEPT !.calls = 0, !.cursor = CursorAfterFailure]
       \/ UNCHANGED archivist
    /\ UNCHANGED <<messages, unsaved, saved, records, dropped, task, shown,
                   warned, orphans, made>>

----------------------------------------------------------------------------
(* /rewind.                                                                *)

\* The records a rewind may step to: those after the last barrier.
Usable ==
    {i \in DOMAIN records : \A j \in i..Len(records) : records[j].kind = "tool"}

\* newestDistinct: the steps of /rewind count these positions, newest first.
Anchors == {records[i].to : i \in Usable}

\* decideRewind, and the truncated session dispatched.
DecideRewind(to) ==
    /\ phase = "idle" /\ phase' = "rewinding"
    /\ Spend("rewinds")
    /\ LET kept == IF to < Len(messages) THEN to ELSE Len(messages)
       IN  /\ Dispatch(SubSeq(messages, 1, kept))
           /\ dropped' = (kept < Len(messages))
    /\ UNCHANGED <<saved, records, archivist, task, shown, warned, orphans>>

\* appendBarrier does nothing without a log.
RewindBarrier_Never == records                       \* variant: none
RewindBarrier == IF dropped THEN Append(records, Barrier("rewind")) ELSE records

\* resetArchivistForRewind.
CursorAfterRewind_Kept == archivist.cursor           \* variant: not reset
CursorAfterRewind == 0

\* The save has settled: the barrier, then the archivist.
EndRewind ==
    /\ phase = "truncated" /\ phase' = "idle"
    /\ records' = RewindBarrier
    /\ archivist' = [archivist EXCEPT !.cursor = CursorAfterRewind]
    /\ UNCHANGED <<messages, unsaved, saved, dropped, task, shown, warned,
                   orphans, made>>

\* The barrier cannot be written: the command's own error.
BarrierFails ==
    /\ phase = "truncated" /\ phase' = "idle" /\ dropped
    /\ warned' = TRUE
    /\ UNCHANGED <<messages, unsaved, saved, records, dropped, archivist, task,
                   shown, orphans, made>>

----------------------------------------------------------------------------
(* onSessionChange, and the end of a process.                              *)

\* The effect of one of the renders since the last save: it saves what that
\* render showed and settles whoever awaits a save.
Persist ==
    \E i \in DOMAIN unsaved :
        /\ saved' = unsaved[i]
        /\ unsaved' = SubSeq(unsaved, i + 1, Len(unsaved))
        /\ phase' = IF phase = "rewinding" THEN "truncated" ELSE phase
        /\ UNCHANGED <<messages, records, dropped, archivist, task, shown,
                       warned, orphans, made>>

PersistFails ==
    /\ ~warned /\ warned' = TRUE
    /\ \E i \in DOMAIN unsaved :
          unsaved' = SubSeq(unsaved, i + 1, Len(unsaved))
    /\ phase' = IF phase = "rewinding" THEN "idle" ELSE phase
    /\ UNCHANGED <<messages, saved, records, dropped, archivist, task, shown,
                   orphans, made>>

\* Anchors past the end of the session file.  There are some for a moment:
\* after a rewind's save, until its barrier, and after the record of a call
\* that answers a new message, until the effect that saves both.
PastTheFile == {i \in DOMAIN records : records[i].to > Len(saved)}

\* A process ends anywhere.
Kill ==
    /\ phase # "down" /\ phase' = "down"
    /\ messages' = <<>> /\ unsaved' = <<>> /\ task' = 0
    /\ archivist' = NewArchivist(<<>>)
    /\ orphans' = orphans \cup PastTheFile
    /\ UNCHANGED <<saved, records, dropped, shown, warned, made>>

RewindInit ==
    /\ phase = "down" /\ messages = <<>> /\ unsaved = <<>> /\ saved = <<>>
    /\ records = <<>> /\ dropped = FALSE
    /\ archivist = NewArchivist(<<>>)
    /\ task = 0 /\ shown = {} /\ warned = FALSE /\ orphans = {}
    /\ made = [messages |-> 0, rewinds |-> 0, compactions |-> 0, starts |-> 0]

RewindNext ==
    \/ Start \/ Submit \/ CallTool \/ ToolsReturn \/ FinalAnswer \/ StreamFails
    \/ LoopCompacts \/ AnnounceCompacted
    \/ EndTurn \/ Archived \/ NotArchived
    \/ \E to \in Anchors : DecideRewind(to)
    \/ EndRewind \/ BarrierFails
    \/ Persist \/ PersistFails \/ Kill

RewindSpec == RewindInit /\ [][RewindNext]_rewindVars

----------------------------------------------------------------------------
(* Properties.  A failed save or barrier is reported to the user and       *)
(* voids them.                                                             *)

Kinds == {"user", "call", "rows", "text", "summary"}
Transcripts == Seq([id : 1..MaxMessages, kind : Kinds])
Records == [kind : {"tool", "compaction", "rewind"}, to : Nat, was : Transcripts]
Phases == {"down", "idle", "model", "tools", "compacted", "ended", "archiving",
           "rewinding", "truncated"}

RewindTypeOK ==
    /\ phase \in Phases
    /\ messages \in Transcripts /\ saved \in Transcripts
    /\ unsaved \in Seq(Transcripts)
    /\ records \in Seq(Records)
    /\ dropped \in BOOLEAN /\ warned \in BOOLEAN
    /\ archivist \in [cursor : Nat, calls : 0..Interval, near : BOOLEAN]
    /\ task \in 0..MaxMessages /\ shown \subseteq 1..MaxMessages
    /\ orphans \subseteq DOMAIN records
    /\ made \in [messages : 0..MaxMessages, rewinds : 0..MaxRewinds,
                 compactions : 0..MaxCompactions, starts : 0..MaxProcesses]

\* An anchor /rewind would accept names the place it was taken at: what the
\* transcript holds before it is what it held then, whatever compactions,
\* rewinds, kills and resumes came between.  Excepted are the anchors that
\* pointed past the end of the session file when a process was killed: no
\* resume brings back what they were taken after, and nothing bars them.
AnchorsHold ==
    phase = "idle" /\ ~warned =>
        \A i \in Usable \ orphans : IsPrefix(records[i].was, messages)

\* /rewind drops what follows an anchor that is not excepted.
ToAnAnchorThatHolds ==
    /\ phase = "idle" /\ phase' = "rewinding" /\ ~warned /\ dropped'
    /\ \E i \in Usable \ orphans : records[i].to = Len(messages')

\* A transcript rewound to any other anchor is one every provider accepts: no
\* call without its rows, no rows without their call.
RewoundIsPaired == [][ToAnAnchorThatHolds => Paired(messages')]_rewindVars

\* The same of every anchor.  The session grows over an orphan again, and
\* /rewind takes it (violated).
NoStaleAnchor ==
    phase = "idle" /\ ~warned =>
        \A i \in Usable : IsPrefix(records[i].was, messages)

\* The archivist never passes over a message: all below its cursor it was
\* shown, or an earlier process of the session was, or this one was started
\* with.
NothingSkipped ==
    ~warned => \A i \in DOMAIN messages :
        i <= archivist.cursor => messages[i].id \in shown \cup {task}
=============================================================================
