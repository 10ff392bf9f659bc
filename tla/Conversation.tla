---------------------------- MODULE Conversation ----------------------------
(***************************************************************************)
(* What a run of the agent loop promises its consumers, whatever the model *)
(* answers, the tools do and the user interrupts: the transcript only ever *)
(* grows by a whole exchange - an assistant message together with the rows *)
(* of every call it makes - or by the model's closing words, is shortened  *)
(* by a compaction that keeps its newest part, and after a cancel takes in *)
(* the exchange that was open at most.  AgentLoop implements it.           *)
(***************************************************************************)
EXTENDS Transcripts

CONSTANTS
    Histories,          \* transcripts a run may be started on
    PreserveRecent,     \* what a compaction must leave
    MinEvictable        \* and the least it must take

VARIABLES
    conversation,       \* the exchanges that are complete
    status              \* going, cancelled, or over

Init == conversation \in Histories /\ status = "going"

\* An exchange that was open when the cancel came is the last one.
Exchange ==
    /\ status # "over"
    /\ Len(conversation') = Len(conversation) + 2
    /\ SubSeq(conversation', 1, Len(conversation)) = conversation
    /\ Answers(conversation'[Len(conversation) + 2], conversation'[Len(conversation) + 1])
    /\ status' = "over" \/ (status = "going" /\ UNCHANGED status)

CloseWithWords ==
    /\ status = "going" /\ status' = "over"
    /\ conversation' = Append(conversation, AssistantMessage(<<>>))

Compact ==
    /\ status = "going" /\ UNCHANGED status
    /\ \E evicted \in MinEvictable..Len(conversation) :
          /\ Len(conversation) - evicted \in {PreserveRecent - 1, PreserveRecent}
          /\ evicted < Len(conversation) => conversation[evicted + 1].role # "tool"
          /\ conversation' =
                <<UserMessage>> \o SubSeq(conversation, evicted + 1, Len(conversation))

Cancel == status = "going" /\ status' = "cancelled" /\ UNCHANGED conversation

Stop == status # "over" /\ status' = "over" /\ UNCHANGED conversation

Next == Exchange \/ CloseWithWords \/ Compact \/ Cancel \/ Stop

Spec == Init /\ [][Next]_<<conversation, status>>
=============================================================================
