------------------------------- MODULE Memory -------------------------------
(***************************************************************************)
(* The persistent memory of apps/cli/src/memory: the files memory_write    *)
(* edits, the writes staged for review and the /memory commands that       *)
(* approve or reject them, in several seri processes over one profile      *)
(* directory.  A process runs each call without yielding, so it is at one  *)
(* place at a time; another process may come between any two of its file   *)
(* system calls, and it may be killed there.                               *)
(*                                                                         *)
(* An entry is the set of words on its line: a target is found in the      *)
(* lines that have all its words, and a line counts one character a word.  *)
(***************************************************************************)
EXTENDS Integers, FiniteSets, Sequences, SequencesExt

CONSTANTS
    Procs,      \* seri processes sharing the profile directory
    Files,      \* the memory files: one of the user, one of each project
    Words,      \* what lines are made of
    Flagged,    \* the words scanForInjection refuses
    Cap,        \* MEMORY_CAPS, in words
    MaxCalls,   \* bound: memory_write calls
    MaxEdits,   \* bound: edits by hand
    MaxKills    \* bound: processes killed

ASSUME MemoryAssumption ==
    /\ Cap \in Nat \ {0} /\ Flagged \subseteq Words
    /\ MaxCalls \in Nat /\ MaxEdits \in Nat /\ MaxKills \in Nat
    /\ "editor" \notin Procs

VARIABLES
    live,      \* the entries of each file, in order
    staged,    \* the .pending files in the order of stagedAt
    gate,      \* SERI_MEMORY_APPROVAL of config.json
    tmps,      \* the temporary files of atomicWriteFile, by name
    proc,      \* what each process is doing (ghost: overtaken, another write of the
               \* file landed since the process read it)
    ids,       \* the number of writes staged so far
    decided,   \* ghost: the staged writes that landed or were rejected
    spent      \* the counters of the bounds

vars == <<live, staged, gate, tmps, proc, ids, decided, spent>>

Lines == SUBSET Words \ {{}}
Requests == [file : Files, action : {"add"}, target : {{}}, content : Lines]
       \cup [file : Files, action : {"replace"}, target : Lines, content : Lines]
       \cup [file : Files, action : {"remove"}, target : Lines, content : {{}}]

Live == 0   \* the id of a write the gate let through without staging

-----------------------------------------------------------------------------
(* computeWrite, over the entries of one file.                             *)

Length(entries) == FoldSeq(LAMBDA l, n : n + Cardinality(l), 0, entries)

Matches(entries, target) ==
    {i \in DOMAIN entries : target # {} /\ target \subseteq entries[i]}

Found(entries, r) == r.action = "add" \/ Cardinality(Matches(entries, r.target)) = 1

Written(entries, r) ==
    IF r.action = "add" THEN Append(entries, r.content)
    ELSE LET i == CHOOSE k \in Matches(entries, r.target) : TRUE
         IN  IF r.action = "replace" THEN [entries EXCEPT ![i] = r.content]
                                     ELSE RemoveAt(entries, i)

WithinCap(entries, r) == Length(Written(entries, r)) <= Cap

Accepts(entries, r) == Found(entries, r) /\ WithinCap(entries, r)

-----------------------------------------------------------------------------
Suspicious(r) == (r.content \cup r.target) \cap Flagged # {}

Idle == [pc |-> "idle", verb |-> "none", queue |-> <<>>, next |-> <<>>, overtaken |-> FALSE]

Job(p) == Head(proc[p].queue)

At(p, pc) == proc[p].pc = pc

FirstStep(verb) == IF verb = "reject" THEN "unlink" ELSE "load"

\* The command or call goes on with its next write, whether this one threw or not.
Rest(p) ==
    IF Len(proc[p].queue) = 1
    THEN [proc EXCEPT ![p] = Idle]
    ELSE [proc EXCEPT ![p] = [Idle EXCEPT !.pc = FirstStep(proc[p].verb),
                                          !.verb = proc[p].verb,
                                          !.queue = Tail(proc[p].queue)]]

Begin(p, verb, queue) ==
    proc' = [proc EXCEPT ![p] = [Idle EXCEPT !.pc = FirstStep(verb), !.verb = verb,
                                             !.queue = queue]]

\* The processes but p, those at work on file f being overtaken.
Overtaken(p, f, procs) ==
    [q \in Procs |->
        IF q # p /\ procs[q].pc \in {"tmp", "rename"} /\ Job(q).req.file = f
        THEN [procs[q] EXCEPT !.overtaken = TRUE] ELSE procs[q]]

\* memory_write, called by the archivist's child: refused when the scan finds
\* something or the file, as it is now, does not admit the write.
MemoryWrite(p, r) ==
    /\ At(p, "idle") /\ spent.calls < MaxCalls
    /\ ~Suspicious(r)
    /\ Accepts(live[r.file], r)
    /\ spent' = [spent EXCEPT !.calls = @ + 1]
    /\ \/ /\ gate
          /\ ids' = ids + 1
          /\ staged' = Append(staged, [id |-> ids + 1, req |-> r])
          /\ UNCHANGED proc
       \/ /\ ~gate
          /\ Begin(p, "write", <<[id |-> Live, req |-> r]>>)
          /\ UNCHANGED <<ids, staged>>
    /\ UNCHANGED <<live, gate, tmps, decided>>

\* /memory approve or reject of one write or of all: the matches are listed once.
Command(p, verb) ==
    /\ At(p, "idle") /\ staged # <<>>
    /\ \/ Begin(p, verb, staged)
       \/ \E i \in DOMAIN staged : Begin(p, verb, <<staged[i]>>)
    /\ UNCHANGED <<live, staged, gate, tmps, ids, decided, spent>>

Approval(on) ==
    /\ gate # on
    /\ gate' = on
    /\ UNCHANGED <<live, staged, tmps, proc, ids, decided, spent>>

\* The staged writes but the one of this id.
Without(id) ==
    LET at == {i \in DOMAIN staged : staged[i].id = id}
    IN  IF at = {} THEN staged ELSE RemoveAt(staged, CHOOSE i \in at : TRUE)

\* What a write that is refused at approval leaves of the queue of staged writes.
\* A plausible bug: the staged file is unlinked in a finally.
AfterRefusal_Unlinked(p) == Without(Job(p).id)

AfterRefusal(p) == staged

\* applyWrite reads the live file and computes again; a refusal throws.
LoadFile(p) ==
    /\ At(p, "load")
    /\ LET r == Job(p).req IN
       IF Accepts(live[r.file], r)
       THEN /\ proc' = [proc EXCEPT ![p].pc = "tmp", ![p].overtaken = FALSE,
                                    ![p].next = Written(live[r.file], r)]
            /\ UNCHANGED staged
       ELSE proc' = Rest(p) /\ staged' = AfterRefusal(p)
    /\ UNCHANGED <<live, gate, tmps, ids, decided, spent>>

\* A process that was killed comes back under another pid: its count of kills.
\* A plausible bug: one name for every writer, the target's with ".tmp".
TmpName_Fixed(p) == [file |-> Job(p).req.file, owner |-> "tmp", life |-> 0]

TmpName(p) == [file |-> Job(p).req.file, owner |-> p, life |-> spent.kills[p]]

Orphans(file) ==
    {n \in DOMAIN tmps : n.file = file /\ n.owner \in Procs /\ n.life # spent.kills[n.owner]}

WriteTmp(p) ==
    /\ At(p, "tmp")
    /\ tmps' = [n \in (DOMAIN tmps \ Orphans(Job(p).req.file)) \cup {TmpName(p)} |->
                    IF n = TmpName(p) THEN proc[p].next ELSE tmps[n]]
    /\ proc' = [proc EXCEPT ![p].pc = "rename"]
    /\ UNCHANGED <<live, staged, gate, ids, decided, spent>>

Rename(p) ==
    LET f == Job(p).req.file IN
    /\ At(p, "rename") /\ TmpName(p) \in DOMAIN tmps
    /\ live' = [live EXCEPT ![f] = tmps[TmpName(p)]]
    /\ tmps' = [n \in DOMAIN tmps \ {TmpName(p)} |-> tmps[n]]
    /\ decided' = decided \cup ({Job(p).id} \ {Live})
    /\ proc' = Overtaken(p, f, IF Job(p).id = Live THEN Rest(p)
                               ELSE [proc EXCEPT ![p].pc = "unlink"])
    /\ UNCHANGED <<staged, gate, ids, spent>>

\* The unlink of an approval or of a rejection; it throws when another process
\* has removed the file, and the command goes on.
Unlink(p) ==
    /\ At(p, "unlink")
    /\ staged' = Without(Job(p).id)
    /\ decided' = decided \cup {Job(p).id}
    /\ proc' = Rest(p)
    /\ UNCHANGED <<live, gate, tmps, ids, spent>>

Kill(p) ==
    /\ ~At(p, "idle")
    /\ FoldFunction(LAMBDA k, n : k + n, 0, spent.kills) < MaxKills
    /\ proc' = [proc EXCEPT ![p] = Idle]
    /\ spent' = [spent EXCEPT !.kills[p] = @ + 1]
    /\ UNCHANGED <<live, staged, gate, tmps, ids, decided>>

\* The files are meant to be edited by hand; no cap binds the editor.
Edit(f) ==
    /\ spent.edits < MaxEdits
    /\ \/ \E l \in SUBSET (Words \ Flagged) \ {{}} : live' = [live EXCEPT ![f] = Append(@, l)]
       \/ live[f] # <<>> /\ live' = [live EXCEPT ![f] = Tail(@)]
    /\ proc' = Overtaken("editor", f, proc)
    /\ spent' = [spent EXCEPT !.edits = @ + 1]
    /\ UNCHANGED <<staged, gate, tmps, ids, decided>>

-----------------------------------------------------------------------------
Writes == [id : Nat, req : Requests]
Jobs == [pc : {"idle", "load", "tmp", "rename", "unlink"},
         verb : {"none", "write", "approve", "reject"},
         queue : Seq(Writes), next : Seq(Lines), overtaken : BOOLEAN]

TypeOK ==
    /\ live \in [Files -> Seq(Lines)]
    /\ staged \in Seq(Writes)
    /\ gate \in BOOLEAN
    /\ \A n \in DOMAIN tmps : tmps[n] \in Seq(Lines)
    /\ proc \in [Procs -> Jobs]
    /\ ids \in Nat /\ decided \subseteq Nat
    /\ spent \in [calls : Nat, edits : Nat, kills : [Procs -> Nat]]

Init ==
    /\ live = [f \in Files |-> <<>>] /\ staged = <<>> /\ gate = TRUE
    /\ tmps = <<>> /\ proc = [p \in Procs |-> Idle] /\ ids = 0 /\ decided = {}
    /\ spent = [calls |-> 0, edits |-> 0, kills |-> [p \in Procs |-> 0]]

Next ==
    \/ \E p \in Procs :
         \/ \E r \in Requests : MemoryWrite(p, r)
         \/ \E verb \in {"approve", "reject"} : Command(p, verb)
         \/ LoadFile(p) \/ WriteTmp(p) \/ Rename(p) \/ Unlink(p) \/ Kill(p)
    \/ \E on \in BOOLEAN : Approval(on)
    \/ \E f \in Files : Edit(f)

Spec == Init /\ [][Next]_vars

-----------------------------------------------------------------------------
\* A rename puts in place what its own process computed, from the file it
\* replaces: only a process that another write overtook between its read and its
\* rename can undo an entry it was not asked to change (atomicWriteFile.ts:41).
LandsWhatItComputed ==
    [][\A p \in Procs :
         At(p, "rename") /\ ~At(p, "rename")' /\ spent'.kills = spent.kills /\ ~proc[p].overtaken
         => LET r == Job(p).req IN live' = [live EXCEPT ![r.file] = Written(@, r)]]_vars

\* A write staged for review stays staged until it landed or a user rejected it:
\* refusals, kills and other processes' commands lose none (pending.ts:225).
GoneMeansDecided ==
    \A i \in 1..ids : i \in decided \/ \E s \in Range(staged) : s.id = i
=============================================================================
