---------------------------- MODULE SessionStore ----------------------------
(***************************************************************************)
(* The file of one session, <sessionsDir>/<id>.jsonl, and the processes    *)
(* that resume it: saveSession and loadSession of                          *)
(* apps/cli/src/session/session.ts, over atomicWriteFile.ts.               *)
(*                                                                         *)
(* The file is a header line, always whole because only a rename puts it   *)
(* there, and one line per message.  A line is a message, or Garbage when  *)
(* it does not parse, and says whether its newline is there: an append     *)
(* goes on where the file ends, in the middle of a line or not.  Messages  *)
(* are numbers, new ones larger than any before.  Sizes in bytes are       *)
(* compared as contents: two different files never measure the same.       *)
(***************************************************************************)
EXTENDS Integers, Sequences, SequencesExt

CONSTANTS
    Procs,              \* processes that may resume the session
    Headers,            \* values of the header line (mode, model, provider)
    None,               \* nothing tracked, nothing planned, no file
    FaultSets,          \* the sets of faults looked into, one by one
    MaxMessage,         \* bound: messages ever made
    MaxLen              \* bound: length of a transcript

VARIABLES
    faults,     \* what may go wrong
    file,       \* the file, or None
    state,      \* the SessionState each process holds, or None when it is down
    known,      \* its persistedCounts, -Headers and -Sizes, or None
    plan,       \* the write its saveSession has decided on, or None
    dirty,      \* its state has changed since its last save
    newest,     \* the newest message
    report      \* the process whose save has just returned, or None

vars == <<faults, file, state, known, plan, dirty, newest, report>>

Garbage == 0
Messages == 1..MaxMessage
States == [header : Headers, messages : Seq(Messages)]
Lines == [msg : Messages \cup {Garbage}, nl : BOOLEAN]
Files == [header : Headers, lines : Seq(Lines)]
Known == [header : Headers, count : Nat, size : Files]
Plans == [op : {"append", "rewrite", "nothing"}, lines : Seq(Lines)]

\* "kill": a process may be killed; "newline": so that an append loses its
\* last newline and no more; "throw": a write may throw and the process go on
\* (the TUI); "window": others may write between a save's stat and write.
ASSUME FaultKinds == FaultSets \subseteq SUBSET {"kill", "newline", "throw", "window"}
ASSUME Bounds == MaxMessage \in Nat /\ MaxLen \in Nat
ASSUME NoneIsNone == None \notin Procs \cup States \cup Files \cup Known \cup Plans

Alive(p) == state[p] # None

Line(m) == [msg |-> m, nl |-> TRUE]
LinesOf(ms) == [i \in 1..Len(ms) |-> Line(ms[i])]
FileOf(s) == [header |-> s.header, lines |-> LinesOf(s.messages)]

\* Bytes written at the end of a file: what is written joins a last line that
\* has no newline, and the joined line is none that was ever saved.
Appended(f, lines) ==
    IF lines = <<>> \/ f.lines = <<>> \/ Last(f.lines).nl
    THEN [f EXCEPT !.lines = @ \o lines]
    ELSE [f EXCEPT !.lines =
             Front(@) \o <<[Head(lines) EXCEPT !.msg = Garbage]>> \o Tail(lines)]

\* What a torn write of some lines may have put in the file: the first k, and
\* a piece of the next one that does not parse, or does for lack of only its
\* newline.
Torn(lines) ==
    {SubSeq(lines, 1, k) : k \in 0..(Len(lines) - 1)}
    \cup {SubSeq(lines, 1, k) \o <<[msg |-> Garbage, nl |-> FALSE]>> :
             k \in 0..(Len(lines) - 1)}
    \cup {SubSeq(lines, 1, k) \o <<[lines[k + 1] EXCEPT !.nl = FALSE]>> :
             k \in IF "newline" \in faults THEN 0..(Len(lines) - 1) ELSE {}}

----------------------------------------------------------------------------
(* loadSession.                                                            *)

LastTorn(f) == f.lines # <<>> /\ Last(f.lines).msg = Garbage

\* It parses: no line but the last is malformed.
Readable(f) ==
    \A i \in 1..(Len(f.lines) - 1) : f.lines[i].msg # Garbage

Loaded(f) ==
    LET whole == IF LastTorn(f) THEN Front(f.lines) ELSE f.lines
    IN  [header |-> f.header,
         messages |-> [i \in 1..Len(whole) |-> whole[i].msg]]

\* Variant: the tracking is seeded although a torn line was dropped.
Seed_Always(f) ==
    [header |-> f.header, count |-> Len(Loaded(f).messages), size |-> f]

\* Nothing is tracked when a torn line was dropped, so that the next save
\* rewrites the file.
Seed(f) ==
    IF LastTorn(f) THEN None
    ELSE [header |-> f.header, count |-> Len(Loaded(f).messages), size |-> f]

Free(p) == \A q \in Procs : plan[q] # None => q = p \/ "window" \in faults

Load(p) ==
    /\ ~Alive(p) /\ Free(p)
    /\ file # None /\ Readable(file)
    /\ state' = [state EXCEPT ![p] = Loaded(file)]
    /\ known' = [known EXCEPT ![p] = Seed(file)]
    /\ report' = None
    /\ UNCHANGED <<faults, file, plan, dirty, newest>>

\* A session nobody has saved: prepareSession makes it and saves it.
Create(p) ==
    /\ ~Alive(p) /\ Free(p) /\ file = None
    /\ \A q \in Procs : ~Alive(q)
    /\ \E h \in Headers :
          state' = [state EXCEPT ![p] = [header |-> h, messages |-> <<>>]]
    /\ known' = [known EXCEPT ![p] = None]
    /\ dirty' = [dirty EXCEPT ![p] = TRUE]
    /\ report' = None
    /\ UNCHANGED <<faults, file, plan, newest>>

----------------------------------------------------------------------------
(* What changes the state.  Each change is saved before the next.          *)

Change(p, s) ==
    /\ Alive(p) /\ ~dirty[p] /\ plan[p] = None /\ Free(p)
    /\ state' = [state EXCEPT ![p] = s]
    /\ dirty' = [dirty EXCEPT ![p] = TRUE]
    /\ report' = None
    /\ UNCHANGED <<faults, file, known, plan>>

\* The turn goes on: a message, or a task and its answer.
Extend(p) ==
    \E n \in 1..2 :
        /\ newest + n <= MaxMessage
        /\ newest' = newest + n
        /\ Alive(p) /\ Len(state[p].messages) + n <= MaxLen
        /\ Change(p, [state[p] EXCEPT !.messages =
                         @ \o [i \in 1..n |-> newest + i]])

\* A compaction: a summary in the place of two messages or more.
Compact(p) ==
    /\ Alive(p) /\ newest < MaxMessage
    /\ newest' = newest + 1
    /\ LET ms == state[p].messages IN
       \E b \in 2..Len(ms) :
          Change(p, [state[p] EXCEPT !.messages =
                        <<newest + 1>> \o SubSeq(ms, b + 1, Len(ms))])

\* /rewind.
Rewind(p) ==
    /\ Alive(p)
    /\ \E k \in 0..(Len(state[p].messages) - 1) :
          Change(p, [state[p] EXCEPT !.messages = SubSeq(@, 1, k)])
    /\ UNCHANGED newest

\* /mode or /model.
SetHeader(p) ==
    /\ Alive(p)
    /\ \E h \in Headers \ {state[p].header} :
          Change(p, [state[p] EXCEPT !.header = h])
    /\ UNCHANGED newest

----------------------------------------------------------------------------
(* saveSession.                                                            *)

\* The file is what this process last wrote or read.
SizeMatches_Unchecked(p) == known[p] # None /\ file # None     \* variant
SizeMatches(p) == known[p] # None /\ file # None /\ file = known[p].size

SameHeader(p) == known[p] # None /\ known[p].header = state[p].header

NewLines(p) ==
    LinesOf(SubSeq(state[p].messages, known[p].count + 1,
                   Len(state[p].messages)))

\* statSync, and the choice between an append, a rewrite and nothing.
Decision(p) ==
    IF SameHeader(p) /\ SizeMatches(p)
    THEN LET len == Len(state[p].messages)
         IN  CASE len > known[p].count -> [op |-> "append", lines |-> NewLines(p)]
               [] len < known[p].count -> [op |-> "rewrite", lines |-> <<>>]
               [] OTHER                -> [op |-> "nothing", lines |-> <<>>]
    ELSE [op |-> "rewrite", lines |-> <<>>]

SaveStat(p) ==
    /\ Alive(p) /\ dirty[p] /\ plan[p] = None /\ Free(p)
    /\ plan' = [plan EXCEPT ![p] = Decision(p)]
    /\ report' = None
    /\ UNCHANGED <<faults, file, state, known, dirty, newest>>

Track(p, size) ==
    known' = [known EXCEPT ![p] =
                 [header |-> state[p].header,
                  count |-> Len(state[p].messages), size |-> size]]

Returns(p) ==
    /\ plan' = [plan EXCEPT ![p] = None]
    /\ dirty' = [dirty EXCEPT ![p] = FALSE]

\* The size an append leaves behind, by this process's own arithmetic.
AfterAppend(p) == Appended(known[p].size, plan[p].lines)

SaveAppends(p) ==
    /\ plan[p] # None /\ plan[p].op = "append" /\ Free(p)
    /\ file' = Appended(file, plan[p].lines)
    /\ Track(p, AfterAppend(p))
    /\ Returns(p) /\ report' = p
    /\ UNCHANGED <<faults, state, newest>>

SaveRewrites(p) ==
    /\ plan[p] # None /\ plan[p].op = "rewrite" /\ Free(p)
    /\ file' = FileOf(state[p])
    /\ Track(p, FileOf(state[p]))
    /\ Returns(p) /\ report' = p
    /\ UNCHANGED <<faults, state, newest>>

SaveWritesNothing(p) ==
    /\ plan[p] # None /\ plan[p].op = "nothing" /\ Free(p)
    /\ Track(p, known[p].size)
    /\ Returns(p) /\ report' = p
    /\ UNCHANGED <<faults, file, state, newest>>

\* appendFileSync throws with part of the lines written, or atomicWriteFile
\* throws before its rename.  The caller warns and goes on with its state;
\* nothing is tracked.
SaveThrows(p) ==
    /\ "throw" \in faults /\ plan[p] # None /\ Free(p)
    /\ \/ /\ plan[p].op = "append"
          /\ \E part \in Torn(plan[p].lines) : file' = Appended(file, part)
       \/ plan[p].op = "rewrite" /\ UNCHANGED file
    /\ Returns(p) /\ report' = None
    /\ UNCHANGED <<faults, state, known, newest>>

\* The process is killed, in the middle of a write or not.  A rewrite leaves
\* the old file or the new one.
CutRewrite_InPlace(p) ==    \* variant: the file itself is written over
    {[FileOf(state[p]) EXCEPT !.lines = part] : part \in Torn(FileOf(state[p]).lines)}
CutRewrite(p) == {file, FileOf(state[p])}

Killed(p) ==
    /\ "kill" \in faults /\ Alive(p) /\ Free(p)
    /\ file' \in IF plan[p] = None THEN {file}
                 ELSE CASE plan[p].op = "append" ->
                              {Appended(file, t) : t \in
                                  Torn(plan[p].lines) \cup {plan[p].lines}}
                        [] plan[p].op = "rewrite" -> CutRewrite(p)
                        [] OTHER -> {file}
    /\ state' = [state EXCEPT ![p] = None]
    /\ known' = [known EXCEPT ![p] = None]
    /\ plan' = [plan EXCEPT ![p] = None]
    /\ dirty' = [dirty EXCEPT ![p] = FALSE]
    /\ report' = None
    /\ UNCHANGED <<faults, newest>>

----------------------------------------------------------------------------
Init ==
    /\ faults \in FaultSets
    /\ file = None
    /\ state = [p \in Procs |-> None]
    /\ known = [p \in Procs |-> None]
    /\ plan = [p \in Procs |-> None]
    /\ dirty = [p \in Procs |-> FALSE]
    /\ newest = 0
    /\ report = None

Next ==
    \E p \in Procs :
        \/ Load(p) \/ Create(p)
        \/ Extend(p) \/ Compact(p) \/ Rewind(p) \/ SetHeader(p)
        \/ SaveStat(p)
        \/ SaveAppends(p) \/ SaveRewrites(p) \/ SaveWritesNothing(p)
        \/ SaveThrows(p)
        \/ Killed(p)

Spec == Init /\ [][Next]_vars

----------------------------------------------------------------------------
(* Properties.                                                             *)

TypeOK ==
    /\ faults \in FaultSets
    /\ file \in Files \cup {None}
    /\ state \in [Procs -> States \cup {None}]
    /\ known \in [Procs -> Known \cup {None}]
    /\ plan \in [Procs -> Plans \cup {None}]
    /\ dirty \in [Procs -> BOOLEAN]
    /\ newest \in 0..MaxMessage
    /\ report \in Procs \cup {None}

\* A save that returned has saved: a load now gives the very state it was
\* called with, whatever the file went through before: appends and rewrites by
\* this process or another, torn when one was killed.
SaveIsExact ==
    report # None /\ faults \subseteq {"kill"}
        => Readable(file) /\ Loaded(file) = state[report]

\* A save appends only where "nothing but new messages changed since the last
\* save": what the file holds is what the transcript begins with.  (Violated
\* where a write may throw and the process go on.)
AppendsOnlyGrow ==
    \A p \in Procs : plan[p] # None /\ plan[p].op # "rewrite"
        => IsPrefix(Loaded(file).messages, state[p].messages)

\* A session that was ever saved can always be loaded: a kill, a write that
\* throws half way or another process in between may tear its last line but
\* corrupts no line before it.  (Violated where what is torn off may be no
\* more than a newline, or where another process writes between a save's stat
\* and its write and one of the two is killed.)
NeverUnreadable == file # None => Readable(file)

\* A kill loses nothing that was on disk: what a load gives afterwards begins
\* with what one gave before, or is the whole state the process was saving.
KillLosesNothingSaved ==
    [][\A p \in Procs : Alive(p) /\ ~Alive(p)' /\ file # None =>
         \/ IsPrefix(Loaded(file).messages, Loaded(file').messages)
         \/ Loaded(file') = state[p]]_vars
=============================================================================
