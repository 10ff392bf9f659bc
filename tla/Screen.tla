------------------------------- MODULE Screen -------------------------------
(***************************************************************************)
(* The transcript of the terminal interface and the window the reader sees *)
(* of it: the part of tuiReducer that keeps it (tui/reducer.ts), the walk  *)
(* that cuts the window out (tui/format.ts) and the offset it is cut at    *)
(* (tui/App.tsx).  The answer that is still streaming is drawn below the   *)
(* committed entries and committed when the next line arrives.             *)
(*                                                                         *)
(* A text is its length in cells, wrapped hard at the terminal's width.    *)
(* The operators take the reducer's state to the next one; Tui dispatches  *)
(* them.                                                                   *)
(***************************************************************************)
EXTENDS Integers, Sequences, SequencesExt

Marker == 2                     \* the cells in front of an answer
Entry(role, cells) == [role |-> role, cells |-> cells]
Blank == Entry("system", 0)

NotNegative(n) == IF n < 0 THEN 0 ELSE n
Smaller(a, b) == IF a < b THEN a ELSE b

EmptyTranscript == [transcript |-> <<>>, streaming |-> 0, total |-> 0,
                    offset |-> 0, snapshot |-> 0]

\* The record with another's fields in place of its own.
With(s, r) == [f \in DOMAIN s |-> IF f \in DOMAIN r THEN r[f] ELSE s[f]]

InitialScreen(columns, rows) ==
    [transcript |-> <<>>, streaming |-> 0, total |-> 0, offset |-> 0,
     snapshot |-> 0, columns |-> columns, rows |-> rows]

-----------------------------------------------------------------------------
(* Wrapping.                                                               *)

DisplayCells(entry) == entry.cells + (IF entry.role = "assistant" THEN Marker ELSE 0)

\* wrapForTranscript: an empty line keeps its row.
EntryRows(entry, columns) ==
    IF DisplayCells(entry) = 0 THEN 1
    ELSE (DisplayCells(entry) + columns - 1) \div columns

VisualRows(entries, columns) ==
    FoldSeq(LAMBDA entry, sum : sum + EntryRows(entry, columns), 0, entries)

StreamingRows(s, columns) ==
    IF s.streaming = 0 THEN 0 ELSE EntryRows(Entry("assistant", s.streaming), columns)

-----------------------------------------------------------------------------
(* The reducer.                                                            *)

MaxOffset(total, streaming, rows) == NotNegative(total + streaming - rows)

\* The rows a flush brings that the offset has counted.  A plausible bug: none.
Resolved_None(s) == 0

Resolved(s) == s.snapshot

\* A reader who has scrolled up stays with what they were reading.
AppendLines(s, lines, resolved) ==
    LET added == VisualRows(lines, s.columns) IN
    [s EXCEPT !.transcript = @ \o lines,
              !.total = @ + added,
              !.offset = IF @ > 0 THEN @ + NotNegative(added - resolved) ELSE 0,
              !.snapshot = IF resolved > 0 THEN 0 ELSE @]

Separator(s, line) ==
    IF line.role = "user" /\ s.transcript # <<>> THEN <<Blank>> ELSE <<>>

\* What the user submits is echoed without ending the answer that streams.
Echo(s, cells) ==
    LET line == Entry("user", cells) IN
    AppendLines(s, Separator(s, line) \o <<line>>, 0)

PushLine(s, cells) ==
    LET flushed == IF s.streaming = 0 THEN <<>> ELSE <<Entry("assistant", s.streaming)>> IN
    [AppendLines(s, flushed \o <<Entry("system", cells)>>, Resolved(s)) EXCEPT !.streaming = 0]

TextDelta(s, cells) == [s EXCEPT !.streaming = @ + cells]

Cleared(s) == With(s, EmptyTranscript)

ScrolledTo(s, offset) ==
    [s EXCEPT !.offset = offset, !.snapshot = StreamingRows(s, s.columns)]

Top(s) == MaxOffset(s.total, StreamingRows(s, s.columns), s.rows)

ScrolledBy(s, delta) == ScrolledTo(s, Smaller(Top(s), NotNegative(s.offset + delta)))

\* The cached counts are taken again for another width alone.
Resized(s, columns, rows) ==
    LET total == IF columns = s.columns THEN s.total ELSE VisualRows(s.transcript, columns)
        streaming == IF columns = s.columns THEN s.snapshot ELSE StreamingRows(s, columns)
    IN [s EXCEPT !.columns = columns, !.rows = rows, !.total = total, !.snapshot = streaming,
                 !.offset = Smaller(MaxOffset(total, streaming, rows), @)]

-----------------------------------------------------------------------------
(* The window.                                                             *)

\* What has streamed since the offset was set lies below it as well.
ShownOffset(s) ==
    IF s.offset = 0 THEN 0
    ELSE s.offset + NotNegative(StreamingRows(s, s.columns) - s.snapshot)

\* A row is the place of its entry and its place in it; what streams will be the next
\* entry.
RowsOf(s, i) ==
    LET n == IF i > Len(s.transcript) THEN StreamingRows(s, s.columns)
             ELSE EntryRows(s.transcript[i], s.columns)
    IN [k \in 1..n |-> <<i, k>>]

RowsFrom(s, i) == FlattenSeq([k \in 1..(Len(s.transcript) + 2 - i) |-> RowsOf(s, i + k - 1)])

\* The walk back from the newest entry ends with the entry that fills the window.
WalkEnd(s) ==
    CHOOSE i \in 1..(Len(s.transcript) + 1) :
        /\ i = 1 \/ Len(RowsFrom(s, i)) >= ShownOffset(s) + s.rows
        /\ \A j \in (i + 1)..(Len(s.transcript) + 1) :
              Len(RowsFrom(s, j)) < ShownOffset(s) + s.rows

VisibleTranscript(s) ==
    LET tail == RowsFrom(s, WalkEnd(s))
        end == NotNegative(Len(tail) - ShownOffset(s))
    IN SubSeq(tail, NotNegative(end - s.rows) + 1, end)
=============================================================================
