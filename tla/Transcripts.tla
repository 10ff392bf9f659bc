----------------------------- MODULE Transcripts ----------------------------
(***************************************************************************)
(* The messages of a session as the agent loop and its consumers tell them *)
(* apart: a role, the tool calls an assistant message makes and the result *)
(* rows a tool message carries.  Text and tool arguments are left out.     *)
(***************************************************************************)
EXTENDS Integers, Sequences

UserMessage == [role |-> "user", calls |-> <<>>, rows |-> <<>>]
AssistantMessage(cs) == [role |-> "assistant", calls |-> cs, rows |-> <<>>]
ToolMessage(rs) == [role |-> "tool", calls |-> <<>>, rows |-> rs]

\* t carries one row for each call of a, in the order of the calls.
Answers(t, a) ==
    /\ t.role = "tool"
    /\ a.role = "assistant"
    /\ Len(t.rows) = Len(a.calls)
    /\ \A k \in 1..Len(a.calls) : t.rows[k].id = a.calls[k].id

\* What the SDK demands of a transcript before it sends it: each assistant
\* message that makes calls is followed by the rows answering them, and no
\* row stands alone.
Paired(ms) ==
    \A i \in 1..Len(ms) :
        /\ ms[i].role = "assistant" /\ ms[i].calls # <<>>
              => i < Len(ms) /\ Answers(ms[i + 1], ms[i])
        /\ ms[i].role = "tool"
              => i > 1 /\ Answers(ms[i], ms[i - 1])
=============================================================================
