---------------------------- MODULE MemoryProofs ----------------------------
(***************************************************************************)
(* For any number of processes, files, words, calls, edits and kills:      *)
(*   - a rename that no other write of the file overtook puts in place the *)
(*     write computed from the file it replaces;                           *)
(*   - a staged write stays staged until it landed or was rejected.        *)
(*                                                                         *)
(* The first holds because a temporary file is its writer's alone: its     *)
(* name holds the writer's pid, and the sweep of orphans takes only those  *)
(* of processes that are gone.                                             *)
(***************************************************************************)
EXTENDS Memory, FiniteSetTheorems, SequenceTheorems, TLAPS

\* A process at work has a write to work on.
Busy == \A p \in Procs : ~At(p, "idle") => proc[p].queue # <<>>

\* What a process is about to rename is what it computed.
OwnTmp ==
    \A p \in Procs : At(p, "rename") =>
        TmpName(p) \in DOMAIN tmps /\ tmps[TmpName(p)] = proc[p].next

\* What a process computed still follows from the file, unless it was overtaken.
Fresh ==
    \A p \in Procs :
        (At(p, "tmp") \/ At(p, "rename")) /\ ~proc[p].overtaken =>
            proc[p].next = Written(live[Job(p).req.file], Job(p).req)

IInv == TypeOK /\ Busy /\ OwnTmp /\ Fresh

-----------------------------------------------------------------------------
(* Sequences without one of their elements.                                *)

LEMMA RemovedAt ==
  ASSUME NEW S, NEW s \in Seq(S), NEW i \in DOMAIN s
  PROVE  /\ RemoveAt(s, i) \in Seq(S)
         /\ \A k \in DOMAIN s : k # i => s[k] \in Range(RemoveAt(s, i))
  <1> DEFINE a == SubSeq(s, 1, i - 1)
             b == SubSeq(s, i + 1, Len(s))
  <1>1. i \in 1..Len(s) /\ Len(s) \in Nat
    OBVIOUS
  <1>2. /\ a \in Seq(S) /\ Len(a) = i - 1
        /\ \A k \in 1..(i - 1) : a[k] = s[k]
    BY <1>1, SubSeqProperties
  <1>3. /\ b \in Seq(S) /\ Len(b) = Len(s) - i
        /\ \A k \in 1..(Len(s) - i) : b[k] = s[i + k]
    BY <1>1, SubSeqProperties
  <1>4. RemoveAt(s, i) = a \o b
    BY DEF RemoveAt
  <1> HIDE DEF a, b
  <1> DEFINE c == a \o b
  <1>5. /\ c \in Seq(S) /\ Len(c) = Len(a) + Len(b)
        /\ \A k \in 1..(Len(a) + Len(b)) :
              c[k] = IF k <= Len(a) THEN a[k] ELSE b[k - Len(a)]
    BY <1>2, <1>3, ConcatProperties
  <1> HIDE DEF c
  <1>6. ASSUME NEW k \in DOMAIN s, k # i
        PROVE  \E j \in DOMAIN c : c[j] = s[k]
    <2>1. DOMAIN c = 1..(Len(s) - 1)
      BY <1>1, <1>2, <1>3, <1>5
    <2>2. CASE k < i
      <3>1. k \in 1..(i - 1) /\ k \in DOMAIN c
        BY <1>1, <1>6, <2>1, <2>2
      <3> QED
        BY <1>1, <1>2, <1>3, <1>5, <3>1
    <2>3. CASE k > i
      <3>1. k - 1 \in DOMAIN c /\ k - i \in 1..(Len(s) - i) /\ i + (k - i) = k
        BY <1>1, <1>6, <2>1, <2>3
      <3>2. /\ k - 1 \in 1..(Len(a) + Len(b)) /\ ~(k - 1 <= Len(a))
            /\ (k - 1) - Len(a) = k - i
        BY <1>1, <1>2, <1>3, <1>6, <2>3
      <3>3. c[k - 1] = b[k - i]
        BY <1>5, <3>2
      <3> QED
        BY <1>3, <3>1, <3>3
    <2> QED
      BY <1>1, <1>6, <2>2, <2>3
  <1> QED
    BY <1>4, <1>5, <1>6 DEF Range, c

\* What the unlink of one write leaves staged.
LEMMA WithoutOne ==
  ASSUME TypeOK, NEW id
  PROVE  /\ Without(id) \in Seq(Writes)
         /\ \A s \in Range(staged) : s.id # id => s \in Range(Without(id))
  <1> DEFINE at == {i \in DOMAIN staged : staged[i].id = id}
  <1>1. CASE at = {}
    BY <1>1 DEF Without, TypeOK
  <1>2. CASE at # {}
    <2>1. PICK i \in at : Without(id) = RemoveAt(staged, i)
      BY <1>2 DEF Without
    <2>2. /\ RemoveAt(staged, i) \in Seq(Writes)
          /\ \A k \in DOMAIN staged : k # i => staged[k] \in Range(RemoveAt(staged, i))
      BY RemovedAt DEF TypeOK
    <2> QED
      BY <2>1, <2>2 DEF Range
  <1> QED
    BY <1>1, <1>2

-----------------------------------------------------------------------------
(* The helpers of the steps.                                               *)

\* computeWrite gives entries: the one line it replaces or removes is there.
LEMMA WrittenType ==
  ASSUME NEW entries \in Seq(Lines), NEW r \in Requests, Found(entries, r)
  PROVE  Written(entries, r) \in Seq(Lines)
  <1>1. CASE r.action = "add"
    <2>1. r.content \in Lines
      BY <1>1 DEF Requests
    <2> QED
      BY <1>1, <2>1 DEF Written
  <1>2. CASE r.action # "add"
    <2> DEFINE M == Matches(entries, r.target)
               i == CHOOSE k \in M : TRUE
    <2>1. IsFiniteSet(DOMAIN entries) /\ M \subseteq DOMAIN entries
      BY FS_Interval DEF Matches
    <2>2. IsFiniteSet(M) /\ Cardinality(M) = 1
      BY <1>2, <2>1, FS_Subset DEF Found
    <2>3. M # {}
      BY <2>2, FS_EmptySet
    <2>4. i \in DOMAIN entries
      BY <2>1, <2>3
    <2>5. CASE r.action = "replace"
      <3>1. r.content \in Lines
        BY <2>5 DEF Requests
      <3>2. [entries EXCEPT ![i] = r.content] \in Seq(Lines)
        <4> HIDE DEF i
        <4> QED
          BY <2>4, <3>1, ExceptSeq
      <3> QED
        BY <1>2, <2>5, <3>2 DEF Written
    <2>6. CASE r.action # "replace"
      <3>1. RemoveAt(entries, i) \in Seq(Lines)
        <4> HIDE DEF i
        <4> QED
          BY <2>4, RemovedAt
      <3> QED
        BY <1>2, <2>6, <3>1 DEF Written
    <2> QED
      BY <2>5, <2>6
  <1> QED
    BY <1>1, <1>2

LEMMA IdleType == Idle \in Jobs /\ Idle.pc = "idle"
  BY EmptySeq DEF Idle, Jobs

\* A process that begins a command, or goes on with it.
LEMMA BegunType ==
  ASSUME NEW verb \in {"write", "approve", "reject"}, NEW queue \in Seq(Writes)
  PROVE  LET j == [Idle EXCEPT !.pc = FirstStep(verb), !.verb = verb, !.queue = queue]
         IN  j \in Jobs /\ j.queue = queue /\ j.pc \in {"load", "unlink"}
  BY EmptySeq DEF Idle, Jobs, FirstStep

LEMMA JobType ==
  ASSUME TypeOK, Busy, NEW p \in Procs, ~At(p, "idle")
  PROVE  /\ proc[p] \in Jobs /\ proc[p].queue \in Seq(Writes)
         /\ Job(p) \in Writes /\ Job(p).id \in Nat
         /\ Job(p).req \in Requests /\ Job(p).req.file \in Files
         /\ Tail(proc[p].queue) \in Seq(Writes)
         /\ Len(proc[p].queue) # 1 => Tail(proc[p].queue) # <<>>
  <1>1. proc[p] \in Jobs /\ proc[p].queue \in Seq(Writes) /\ proc[p].queue # <<>>
    BY DEF TypeOK, Busy, Jobs
  <1>2. /\ Job(p) \in Writes /\ Tail(proc[p].queue) \in Seq(Writes)
        /\ Len(Tail(proc[p].queue)) = Len(proc[p].queue) - 1
    BY <1>1, HeadTailProperties DEF Job
  <1>3. Len(proc[p].queue) # 1 => Tail(proc[p].queue) # <<>>
    <2>1. Len(proc[p].queue) \in Nat /\ Len(<<>>) = 0
      BY <1>1, LenProperties
    <2>2. Len(proc[p].queue) # 1 => Len(Tail(proc[p].queue)) # Len(<<>>)
      BY <1>2, <2>1
    <2> QED
      BY <2>2
  <1>4. Job(p).id \in Nat /\ Job(p).req \in Requests
    BY <1>2 DEF Writes
  <1>5. Job(p).req.file \in Files
    BY <1>4 DEF Requests
  <1> QED
    BY <1>1, <1>2, <1>3, <1>4, <1>5

\* A process that begins a command, or goes on with one, is at its first step.
LEMMA BeginEffect ==
  ASSUME TypeOK, NEW p \in Procs, NEW verb \in {"write", "approve", "reject"},
         NEW queue \in Seq(Writes), queue # <<>>, Begin(p, verb, queue)
  PROVE  /\ proc' \in [Procs -> Jobs]
         /\ \A q \in Procs \ {p} : proc'[q] = proc[q]
         /\ proc'[p].pc \in {"load", "unlink"} /\ proc'[p].queue # <<>>
  <1> DEFINE j == [Idle EXCEPT !.pc = FirstStep(verb), !.verb = verb, !.queue = queue]
  <1>1. j \in Jobs /\ j.queue = queue /\ j.pc \in {"load", "unlink"}
    BY BegunType
  <1>2. proc' = [proc EXCEPT ![p] = j]
    BY DEF Begin
  <1> HIDE DEF j
  <1> QED
    BY <1>1, <1>2 DEF TypeOK

\* A process that goes on is at rest or at the first step of its next write.
LEMMA RestEffect ==
  ASSUME TypeOK, Busy, NEW p \in Procs, ~At(p, "idle")
  PROVE  /\ Rest(p) \in [Procs -> Jobs]
         /\ \A q \in Procs \ {p} : Rest(p)[q] = proc[q]
         /\ Rest(p)[p].pc \in {"idle", "load", "unlink"}
         /\ Rest(p)[p].pc # "idle" => Rest(p)[p].queue # <<>>
  <1> DEFINE verb == proc[p].verb
             j == [Idle EXCEPT !.pc = FirstStep(verb), !.verb = verb,
                               !.queue = Tail(proc[p].queue)]
  <1>1. CASE Len(proc[p].queue) = 1
    <2>1. Rest(p) = [proc EXCEPT ![p] = Idle]
      BY <1>1 DEF Rest
    <2> QED
      BY <2>1, IdleType DEF TypeOK
  <1>2. CASE Len(proc[p].queue) # 1
    <2>1. Tail(proc[p].queue) \in Seq(Writes) /\ Tail(proc[p].queue) # <<>>
      BY <1>2, JobType
    <2>2. verb \in {"none", "write", "approve", "reject"}
      BY DEF TypeOK, Jobs
    <2>3. j \in Jobs /\ j.queue = Tail(proc[p].queue) /\ j.pc \in {"load", "unlink"}
      BY <2>1, <2>2, EmptySeq DEF Idle, Jobs, FirstStep
    <2>4. Rest(p) = [proc EXCEPT ![p] = j]
      BY <1>2 DEF Rest
    <2> HIDE DEF j
    <2> QED
      BY <2>1, <2>3, <2>4 DEF TypeOK
  <1> QED
    BY <1>1, <1>2

\* To be overtaken changes nothing else of a process, and only of those at work
\* on the file.
LEMMA OvertakenEffect ==
  ASSUME NEW p, NEW f, NEW procs \in [Procs -> Jobs]
  PROVE  LET after == Overtaken(p, f, procs) IN
         /\ after \in [Procs -> Jobs]
         /\ \A q \in Procs :
               /\ after[q].pc = procs[q].pc /\ after[q].queue = procs[q].queue
               /\ after[q].next = procs[q].next
               /\ ~after[q].overtaken => ~procs[q].overtaken
               /\ /\ q # p /\ procs[q].pc \in {"tmp", "rename"}
                  /\ Job(q).req.file = f
                  => after[q].overtaken
               /\ q = p => after[q] = procs[q]
  <1> DEFINE after == Overtaken(p, f, procs)
  <1>1. ASSUME NEW q \in Procs
        PROVE  LET j == [procs[q] EXCEPT !.overtaken = TRUE] IN
               /\ j \in Jobs /\ j.overtaken /\ j.pc = procs[q].pc
               /\ j.queue = procs[q].queue /\ j.next = procs[q].next
    BY DEF Jobs
  <1>2. after = [q \in Procs |->
                    IF q # p /\ procs[q].pc \in {"tmp", "rename"} /\ Job(q).req.file = f
                    THEN [procs[q] EXCEPT !.overtaken = TRUE] ELSE procs[q]]
    BY DEF Overtaken
  <1> HIDE DEF after
  <1>3. after \in [Procs -> Jobs]
    BY <1>1, <1>2
  <1> QED
    BY <1>1, <1>2, <1>3 DEF after

-----------------------------------------------------------------------------
(* The steps.                                                              *)

\* One process begins or goes on, or comes to rest: nothing else changes for the
\* others.
LEMMA GoesOn ==
  ASSUME IInv, NEW p \in Procs, UNCHANGED <<live, tmps>>, spent'.kills = spent.kills,
         \A q \in Procs \ {p} : proc'[q] = proc[q],
         proc'[p].pc \in {"idle", "load", "unlink"},
         proc'[p].pc # "idle" => proc'[p].queue # <<>>
  PROVE  Busy' /\ OwnTmp' /\ Fresh'
  <1>1. \A q \in Procs \ {p} : Job(q)' = Job(q) /\ TmpName(q)' = TmpName(q)
    BY DEF Job, TmpName
  <1>2. Busy'
    BY DEF IInv, Busy, At
  <1>3. OwnTmp'
    BY <1>1 DEF IInv, OwnTmp, At
  <1>4. Fresh'
    BY <1>1 DEF IInv, Fresh, At
  <1> QED
    BY <1>2, <1>3, <1>4

LEMMA MemoryWriteStep ==
  ASSUME IInv, NEW p \in Procs, NEW r \in Requests, MemoryWrite(p, r)
  PROVE  IInv'
  <1>1. /\ UNCHANGED <<live, gate, tmps, decided>>
        /\ spent' \in [calls : Nat, edits : Nat, kills : [Procs -> Nat]]
        /\ spent'.kills = spent.kills
    <2>1. spent \in [calls : Nat, edits : Nat, kills : [Procs -> Nat]]
      BY DEF IInv, TypeOK
    <2>2. spent' = [spent EXCEPT !.calls = @ + 1]
      BY DEF MemoryWrite
    <2>3. UNCHANGED <<live, gate, tmps, decided>>
      BY DEF MemoryWrite
    <2> QED
      BY <2>1, <2>2, <2>3
  <1>2. CASE gate
    <2>1. /\ ids' = ids + 1 /\ staged' = Append(staged, [id |-> ids + 1, req |-> r])
          /\ proc' = proc
      BY <1>2 DEF MemoryWrite
    <2>2. [id |-> ids + 1, req |-> r] \in Writes /\ ids + 1 \in Nat
      BY DEF Writes, IInv, TypeOK
    <2>3. staged' \in Seq(Writes)
      BY <2>1, <2>2, AppendProperties DEF IInv, TypeOK
    <2>4. TypeOK'
      BY <1>1, <2>1, <2>2, <2>3 DEF IInv, TypeOK
    <2>5. \A q \in Procs : Job(q)' = Job(q) /\ TmpName(q)' = TmpName(q)
      BY <1>1, <2>1 DEF Job, TmpName
    <2>6. Busy' /\ OwnTmp' /\ Fresh'
      BY <1>1, <2>1, <2>5 DEF IInv, Busy, OwnTmp, Fresh, At
    <2> QED
      BY <2>4, <2>6 DEF IInv
  <1>3. CASE ~gate
    <2> DEFINE queue == <<[id |-> Live, req |-> r]>>
    <2>1. Begin(p, "write", queue) /\ UNCHANGED <<ids, staged>>
      BY <1>3 DEF MemoryWrite
    <2>2. queue \in Seq(Writes) /\ queue # <<>>
      BY DEF Writes, Live
    <2> HIDE DEF queue
    <2>3. /\ proc' \in [Procs -> Jobs]
          /\ \A q \in Procs \ {p} : proc'[q] = proc[q]
          /\ proc'[p].pc \in {"load", "unlink"} /\ proc'[p].queue # <<>>
      BY <2>1, <2>2, BeginEffect DEF IInv
    <2>4. TypeOK'
      BY <1>1, <2>1, <2>3 DEF IInv, TypeOK
    <2>5. Busy' /\ OwnTmp' /\ Fresh'
      BY <1>1, <2>3, GoesOn
    <2> QED
      BY <2>4, <2>5 DEF IInv
  <1> QED
    BY <1>2, <1>3

LEMMA CommandStep ==
  ASSUME IInv, NEW p \in Procs, NEW verb \in {"approve", "reject"}, Command(p, verb)
  PROVE  IInv'
  <1>1. UNCHANGED <<live, staged, gate, tmps, ids, decided, spent>>
    BY DEF Command
  <1>2. PICK queue \in Seq(Writes) : queue # <<>> /\ Begin(p, verb, queue)
    <2>1. CASE Begin(p, verb, staged)
      BY <2>1 DEF Command, IInv, TypeOK
    <2>2. ASSUME NEW i \in DOMAIN staged, Begin(p, verb, <<staged[i]>>)
          PROVE  \E queue \in Seq(Writes) : queue # <<>> /\ Begin(p, verb, queue)
      <3>1. staged[i] \in Writes
        BY DEF IInv, TypeOK
      <3>2. <<staged[i]>> \in Seq(Writes) /\ <<staged[i]>> # <<>>
        BY <3>1
      <3> QED
        BY <2>2, <3>2
    <2> QED
      BY <2>1, <2>2 DEF Command
  <1>3. /\ proc' \in [Procs -> Jobs]
        /\ \A q \in Procs \ {p} : proc'[q] = proc[q]
        /\ proc'[p].pc \in {"load", "unlink"} /\ proc'[p].queue # <<>>
    BY <1>2, BeginEffect DEF IInv
  <1>4. TypeOK'
    BY <1>1, <1>3 DEF IInv, TypeOK
  <1>5. Busy' /\ OwnTmp' /\ Fresh'
    BY <1>1, <1>3, GoesOn
  <1> QED
    BY <1>4, <1>5 DEF IInv

LEMMA UnlinkStep ==
  ASSUME IInv, NEW p \in Procs, Unlink(p)
  PROVE  IInv'
  <1>1. /\ ~At(p, "idle") /\ UNCHANGED <<live, gate, tmps, ids, spent>>
        /\ proc' = Rest(p) /\ staged' = Without(Job(p).id)
        /\ decided' = decided \cup {Job(p).id}
    BY DEF Unlink, At
  <1>2. Job(p).id \in Nat
    BY <1>1, JobType DEF IInv
  <1>3. staged' \in Seq(Writes)
    BY <1>1, WithoutOne DEF IInv
  <1>4. /\ proc' \in [Procs -> Jobs]
        /\ \A q \in Procs \ {p} : proc'[q] = proc[q]
        /\ proc'[p].pc \in {"idle", "load", "unlink"}
        /\ proc'[p].pc # "idle" => proc'[p].queue # <<>>
    BY <1>1, RestEffect DEF IInv
  <1>5. TypeOK'
    BY <1>1, <1>2, <1>3, <1>4 DEF IInv, TypeOK
  <1>6. Busy' /\ OwnTmp' /\ Fresh'
    BY <1>1, <1>4, GoesOn
  <1> QED
    BY <1>5, <1>6 DEF IInv

LEMMA LoadFileStep ==
  ASSUME IInv, NEW p \in Procs, LoadFile(p)
  PROVE  IInv'
  <1> DEFINE r == Job(p).req
             next == Written(live[r.file], r)
  <1>1. ~At(p, "idle") /\ At(p, "load") /\ UNCHANGED <<live, gate, tmps, ids, decided, spent>>
    BY DEF LoadFile, At
  <1>2. /\ proc[p] \in Jobs /\ proc[p].queue # <<>>
        /\ r \in Requests /\ r.file \in Files
    BY <1>1, JobType DEF IInv, Busy
  <1>3. CASE Accepts(live[r.file], r)
    <2>1. /\ proc' = [proc EXCEPT ![p].pc = "tmp", ![p].overtaken = FALSE, ![p].next = next]
          /\ staged' = staged
      BY <1>3 DEF LoadFile
    <2>2. next \in Seq(Lines)
      <3>1. live[r.file] \in Seq(Lines)
        BY <1>2 DEF IInv, TypeOK
      <3> QED
        BY <1>2, <1>3, <3>1, WrittenType DEF Accepts
    <2>3. next = Written(live[r.file], r)
      OBVIOUS
    <2> HIDE DEF next
    <2>4. /\ proc' \in [Procs -> Jobs]
          /\ \A q \in Procs \ {p} : proc'[q] = proc[q]
          /\ proc'[p].pc = "tmp" /\ proc'[p].queue = proc[p].queue
          /\ proc'[p].next = next
      <3> DEFINE j == [proc[p] EXCEPT !.pc = "tmp", !.overtaken = FALSE, !.next = next]
      <3>1. /\ j \in Jobs /\ j.pc = "tmp" /\ j.queue = proc[p].queue
            /\ j.next = next
        BY <1>2, <2>2 DEF Jobs
      <3>2. proc' = [proc EXCEPT ![p] = j]
        BY <2>1 DEF IInv, TypeOK
      <3> HIDE DEF j
      <3> QED
        BY <3>1, <3>2 DEF IInv, TypeOK
    <2>5. TypeOK'
      BY <1>1, <2>1, <2>4 DEF IInv, TypeOK
    <2>6. \A q \in Procs : Job(q)' = Job(q) /\ TmpName(q)' = TmpName(q)
      BY <1>1, <2>4 DEF Job, TmpName
    <2>7. Busy' /\ OwnTmp'
      BY <1>1, <1>2, <2>4, <2>6 DEF IInv, Busy, OwnTmp, At
    <2>8. Fresh'
      BY <1>1, <2>3, <2>4, <2>6 DEF IInv, Fresh, At
    <2> QED
      BY <2>5, <2>7, <2>8 DEF IInv
  <1>4. CASE ~Accepts(live[r.file], r)
    <2>1. proc' = Rest(p) /\ staged' = staged
      BY <1>4 DEF LoadFile, AfterRefusal
    <2>2. /\ proc' \in [Procs -> Jobs]
          /\ \A q \in Procs \ {p} : proc'[q] = proc[q]
          /\ proc'[p].pc \in {"idle", "load", "unlink"}
          /\ proc'[p].pc # "idle" => proc'[p].queue # <<>>
      BY <1>1, <2>1, RestEffect DEF IInv
    <2>3. TypeOK'
      BY <1>1, <2>1, <2>2 DEF IInv, TypeOK
    <2>4. Busy' /\ OwnTmp' /\ Fresh'
      BY <1>1, <2>2, GoesOn
    <2> QED
      BY <2>3, <2>4 DEF IInv
  <1> QED
    BY <1>3, <1>4

\* A temporary file is its writer's alone: neither another's writing nor its
\* sweep of orphans takes it.
LEMMA WriteTmpStep ==
  ASSUME IInv, NEW p \in Procs, WriteTmp(p)
  PROVE  IInv'
  <1> DEFINE next == proc[p].next
             kept == DOMAIN tmps \ Orphans(Job(p).req.file)
  <1>1. /\ ~At(p, "idle") /\ At(p, "tmp")
        /\ UNCHANGED <<live, staged, gate, ids, decided, spent>>
        /\ proc' = [proc EXCEPT ![p].pc = "rename"]
        /\ tmps' = [n \in kept \cup {TmpName(p)} |->
                        IF n = TmpName(p) THEN next ELSE tmps[n]]
    BY DEF WriteTmp, At
  <1>2. /\ DOMAIN tmps' = {TmpName(p)} \cup kept
        /\ tmps'[TmpName(p)] = next
        /\ \A n \in kept : n # TmpName(p) => tmps'[n] = tmps[n]
    BY <1>1
  <1>3. /\ proc' \in [Procs -> Jobs]
        /\ \A q \in Procs \ {p} : proc'[q] = proc[q]
        /\ proc'[p].pc = "rename" /\ proc'[p].queue = proc[p].queue
        /\ proc'[p].next = next /\ proc'[p].overtaken = proc[p].overtaken
    <2> DEFINE j == [proc[p] EXCEPT !.pc = "rename"]
    <2>1. proc[p] \in Jobs
      BY DEF IInv, TypeOK
    <2>2. /\ j \in Jobs /\ j.pc = "rename" /\ j.queue = proc[p].queue
          /\ j.next = next /\ j.overtaken = proc[p].overtaken
      BY <2>1 DEF Jobs
    <2>3. proc' = [proc EXCEPT ![p] = j]
      BY <1>1 DEF IInv, TypeOK
    <2> HIDE DEF j
    <2> QED
      BY <2>2, <2>3 DEF IInv, TypeOK
  <1>4. TypeOK'
    <2>1. next \in Seq(Lines)
      BY DEF IInv, TypeOK, Jobs
    <2>2. \A n \in DOMAIN tmps' : tmps'[n] \in Seq(Lines)
      BY <1>2, <2>1 DEF IInv, TypeOK
    <2> QED
      BY <1>1, <1>3, <2>2 DEF IInv, TypeOK
  <1>5. \A q \in Procs : Job(q)' = Job(q) /\ TmpName(q)' = TmpName(q)
    BY <1>1, <1>3 DEF Job, TmpName
  <1>6. Busy'
    BY <1>1, <1>3 DEF IInv, Busy, At
  <1>7. OwnTmp'
    <2>1. ASSUME NEW q \in Procs \ {p}, At(q, "rename")
          PROVE  /\ TmpName(q) \in DOMAIN tmps'
                 /\ tmps'[TmpName(q)] = proc[q].next
      <3>1. TmpName(q) \in DOMAIN tmps /\ tmps[TmpName(q)] = proc[q].next
        BY <2>1 DEF IInv, OwnTmp
      <3>2. TmpName(q) \notin Orphans(Job(p).req.file) /\ TmpName(q) # TmpName(p)
        BY DEF TmpName, Orphans
      <3> QED
        BY <1>2, <3>1, <3>2
    <2> QED
      BY <1>2, <1>3, <1>5, <2>1 DEF OwnTmp, At
  <1>8. Fresh'
    BY <1>1, <1>3, <1>5 DEF IInv, Fresh, At
  <1> QED
    BY <1>4, <1>6, <1>7, <1>8 DEF IInv

\* What a rename does: the file is what the process computed, and the others at
\* work on it are overtaken.
LEMMA RenameEffect ==
  ASSUME IInv, NEW p \in Procs, Rename(p)
  PROVE  LET f == Job(p).req.file IN
         /\ f \in Files
         /\ live' = [live EXCEPT ![f] = proc[p].next]
         /\ tmps' = [n \in DOMAIN tmps \ {TmpName(p)} |-> tmps[n]]
         /\ decided \subseteq decided' /\ decided' \subseteq Nat
         /\ UNCHANGED <<staged, gate, ids, spent>>
         /\ proc' \in [Procs -> Jobs]
         /\ proc'[p].pc \in {"idle", "load", "unlink"}
         /\ proc'[p].pc # "idle" => proc'[p].queue # <<>>
         /\ \A q \in Procs \ {p} :
               /\ proc'[q].pc = proc[q].pc /\ proc'[q].queue = proc[q].queue
               /\ proc'[q].next = proc[q].next
               /\ ~proc'[q].overtaken => ~proc[q].overtaken
               /\ (At(q, "tmp") \/ At(q, "rename")) /\ Job(q).req.file = f
                  => proc'[q].overtaken
  <1> DEFINE f == Job(p).req.file
             unlinking == [proc EXCEPT ![p].pc = "unlink"]
             procs == IF Job(p).id = Live THEN Rest(p) ELSE unlinking
  <1>1. /\ ~At(p, "idle") /\ At(p, "rename") /\ tmps[TmpName(p)] = proc[p].next
        /\ live' = [live EXCEPT ![f] = tmps[TmpName(p)]]
        /\ tmps' = [n \in DOMAIN tmps \ {TmpName(p)} |-> tmps[n]]
        /\ decided' = decided \cup ({Job(p).id} \ {Live})
        /\ proc' = Overtaken(p, f, procs)
        /\ UNCHANGED <<staged, gate, ids, spent>>
    BY DEF Rename, At, IInv, OwnTmp
  <1>2. f \in Files /\ Job(p).id \in Nat /\ proc[p] \in Jobs /\ proc[p].queue # <<>>
    BY <1>1, JobType DEF IInv, Busy
  <1>3. /\ procs \in [Procs -> Jobs]
        /\ \A q \in Procs \ {p} : procs[q] = proc[q]
        /\ procs[p].pc \in {"idle", "load", "unlink"}
        /\ procs[p].pc # "idle" => procs[p].queue # <<>>
    <2>1. CASE Job(p).id = Live
      BY <1>1, <2>1, RestEffect DEF IInv
    <2>2. CASE Job(p).id # Live
      <3> DEFINE j == [proc[p] EXCEPT !.pc = "unlink"]
      <3>1. j \in Jobs /\ j.pc = "unlink" /\ j.queue = proc[p].queue
        BY <1>2 DEF Jobs
      <3>2. unlinking = [proc EXCEPT ![p] = j]
        BY DEF IInv, TypeOK
      <3> HIDE DEF j, unlinking
      <3>3. /\ unlinking \in [Procs -> Jobs]
            /\ \A q \in Procs \ {p} : unlinking[q] = proc[q]
            /\ unlinking[p].pc = "unlink" /\ unlinking[p].queue # <<>>
        BY <1>2, <3>1, <3>2 DEF IInv, TypeOK
      <3> QED
        BY <2>2, <3>3
    <2> QED
      BY <2>1, <2>2
  <1> HIDE DEF procs
  <1>4. /\ proc' \in [Procs -> Jobs]
        /\ \A q \in Procs :
              /\ proc'[q].pc = procs[q].pc /\ proc'[q].queue = procs[q].queue
              /\ proc'[q].next = procs[q].next
              /\ ~proc'[q].overtaken => ~procs[q].overtaken
              /\ /\ q # p /\ procs[q].pc \in {"tmp", "rename"}
                 /\ Job(q).req.file = f
                 => proc'[q].overtaken
    BY <1>1, <1>3, OvertakenEffect
  <1>5. decided \subseteq decided' /\ decided' \subseteq Nat
    BY <1>1, <1>2 DEF IInv, TypeOK
  <1> QED
    BY <1>1, <1>2, <1>3, <1>4, <1>5 DEF At

LEMMA RenameStep ==
  ASSUME IInv, NEW p \in Procs, Rename(p)
  PROVE  IInv'
  <1> DEFINE f == Job(p).req.file
  <1>1. /\ f \in Files
        /\ live' = [live EXCEPT ![f] = proc[p].next]
        /\ tmps' = [n \in DOMAIN tmps \ {TmpName(p)} |-> tmps[n]]
        /\ decided' \subseteq Nat
        /\ UNCHANGED <<staged, gate, ids, spent>>
        /\ proc' \in [Procs -> Jobs]
        /\ proc'[p].pc \in {"idle", "load", "unlink"}
        /\ proc'[p].pc # "idle" => proc'[p].queue # <<>>
        /\ \A q \in Procs \ {p} :
              /\ proc'[q].pc = proc[q].pc /\ proc'[q].queue = proc[q].queue
              /\ proc'[q].next = proc[q].next
              /\ ~proc'[q].overtaken => ~proc[q].overtaken
              /\ (At(q, "tmp") \/ At(q, "rename")) /\ Job(q).req.file = f
                 => proc'[q].overtaken
    BY RenameEffect
  <1>2. \A q \in Procs \ {p} : Job(q)' = Job(q) /\ TmpName(q)' = TmpName(q)
    BY <1>1 DEF Job, TmpName
  <1>3. TypeOK'
    <2>1. proc[p].next \in Seq(Lines)
      BY DEF IInv, TypeOK, Jobs
    <2>2. live' \in [Files -> Seq(Lines)]
      BY <1>1, <2>1 DEF IInv, TypeOK
    <2>3. \A n \in DOMAIN tmps' : tmps'[n] \in Seq(Lines)
      BY <1>1 DEF IInv, TypeOK
    <2> QED
      BY <1>1, <2>2, <2>3 DEF IInv, TypeOK
  <1>4. Busy'
    BY <1>1 DEF IInv, Busy, At
  <1>5. OwnTmp'
    <2>1. ASSUME NEW q \in Procs, At(q, "rename")'
          PROVE  TmpName(q)' \in DOMAIN tmps' /\ tmps'[TmpName(q)'] = proc'[q].next
      <3>1. q # p /\ At(q, "rename") /\ proc'[q].next = proc[q].next
        BY <1>1, <2>1 DEF At
      <3>2. TmpName(q) \in DOMAIN tmps /\ tmps[TmpName(q)] = proc[q].next
        BY <3>1 DEF IInv, OwnTmp
      <3>3. TmpName(q) # TmpName(p) /\ TmpName(q)' = TmpName(q)
        BY <1>2, <3>1 DEF TmpName
      <3> QED
        BY <1>1, <3>1, <3>2, <3>3
    <2> QED
      BY <2>1 DEF OwnTmp
  <1>6. Fresh'
    <2>1. ASSUME NEW q \in Procs \ {p}, At(q, "tmp") \/ At(q, "rename"),
                 ~proc'[q].overtaken
          PROVE  proc'[q].next = Written(live'[Job(q).req.file], Job(q).req)
      <3>1. proc[q].next = Written(live[Job(q).req.file], Job(q).req)
        BY <1>1, <2>1 DEF IInv, Fresh
      <3>2. live'[Job(q).req.file] = live[Job(q).req.file]
        BY <1>1, <2>1 DEF IInv, TypeOK
      <3> QED
        BY <1>1, <3>1, <3>2
    <2> QED
      BY <1>1, <1>2, <2>1 DEF Fresh, At
  <1> QED
    BY <1>1, <1>3, <1>4, <1>5, <1>6 DEF IInv

LEMMA EditStep ==
  ASSUME IInv, NEW f \in Files, Edit(f)
  PROVE  IInv'
  <1>1. /\ proc' = Overtaken("editor", f, proc)
        /\ UNCHANGED <<staged, gate, tmps, ids, decided>>
    BY DEF Edit
  <1>2. \A q \in Procs : q # "editor"
    BY MemoryAssumption
  <1>3. /\ proc' \in [Procs -> Jobs]
        /\ \A q \in Procs :
              /\ proc'[q].pc = proc[q].pc /\ proc'[q].queue = proc[q].queue
              /\ proc'[q].next = proc[q].next
              /\ ~proc'[q].overtaken => ~proc[q].overtaken
              /\ (At(q, "tmp") \/ At(q, "rename")) /\ Job(q).req.file = f
                 => proc'[q].overtaken
    <2>1. proc \in [Procs -> Jobs]
      BY DEF IInv, TypeOK
    <2> QED
      BY <1>1, <1>2, <2>1, OvertakenEffect DEF At
  <1>4. /\ live' \in [Files -> Seq(Lines)]
        /\ \A g \in Files \ {f} : live'[g] = live[g]
    <2>1. PICK to \in Seq(Lines) : live' = [live EXCEPT ![f] = to]
      <3>1. live[f] \in Seq(Lines)
        BY DEF IInv, TypeOK
      <3>2. ASSUME NEW l \in SUBSET (Words \ Flagged) \ {{}},
                   live' = [live EXCEPT ![f] = Append(@, l)]
            PROVE  \E to \in Seq(Lines) : live' = [live EXCEPT ![f] = to]
        <4>1. l \in Lines
          BY DEF Lines
        <4>2. Append(live[f], l) \in Seq(Lines)
          BY <3>1, <4>1, AppendProperties
        <4>3. live' = [live EXCEPT ![f] = Append(live[f], l)]
          BY <3>2 DEF IInv, TypeOK
        <4> QED
          BY <4>2, <4>3
      <3>3. CASE live[f] # <<>> /\ live' = [live EXCEPT ![f] = Tail(@)]
        <4>1. Tail(live[f]) \in Seq(Lines)
          BY <3>1, <3>3, HeadTailProperties
        <4>2. live' = [live EXCEPT ![f] = Tail(live[f])]
          BY <3>3 DEF IInv, TypeOK
        <4> QED
          BY <4>1, <4>2
      <3> QED
        BY <3>2, <3>3 DEF Edit
    <2> QED
      BY <2>1 DEF IInv, TypeOK
  <1>5. /\ spent' \in [calls : Nat, edits : Nat, kills : [Procs -> Nat]]
        /\ spent'.kills = spent.kills
    <2>1. spent \in [calls : Nat, edits : Nat, kills : [Procs -> Nat]]
      BY DEF IInv, TypeOK
    <2>2. spent' = [spent EXCEPT !.edits = @ + 1]
      BY DEF Edit
    <2> QED
      BY <2>1, <2>2
  <1>6. \A q \in Procs : Job(q)' = Job(q) /\ TmpName(q)' = TmpName(q)
    BY <1>3, <1>5 DEF Job, TmpName
  <1>7. TypeOK'
    BY <1>1, <1>3, <1>4, <1>5 DEF IInv, TypeOK
  <1>8. Busy' /\ OwnTmp'
    BY <1>1, <1>3, <1>6 DEF IInv, Busy, OwnTmp, At
  <1>9. Fresh'
    <2>1. ASSUME NEW q \in Procs, At(q, "tmp") \/ At(q, "rename"), ~proc'[q].overtaken
          PROVE  proc'[q].next = Written(live'[Job(q).req.file], Job(q).req)
      <3>1. Job(q).req.file \in Files /\ Job(q).req.file # f
        BY <1>3, <2>1, JobType DEF IInv, At
      <3>2. proc[q].next = Written(live[Job(q).req.file], Job(q).req)
        BY <1>3, <2>1 DEF IInv, Fresh
      <3> QED
        BY <1>3, <1>4, <3>1, <3>2
    <2> QED
      BY <1>3, <1>6, <2>1 DEF Fresh, At
  <1> QED
    BY <1>7, <1>8, <1>9 DEF IInv

\* A process that was killed comes back as another one.
LEMMA KillEffect ==
  ASSUME IInv, NEW p \in Procs, Kill(p)
  PROVE  /\ spent' \in [calls : Nat, edits : Nat, kills : [Procs -> Nat]]
         /\ spent'.kills[p] = spent.kills[p] + 1
         /\ \A q \in Procs \ {p} : spent'.kills[q] = spent.kills[q]
  <1> DEFINE kills == [spent.kills EXCEPT ![p] = @ + 1]
  <1>1. /\ spent \in [calls : Nat, edits : Nat, kills : [Procs -> Nat]]
        /\ spent.kills \in [Procs -> Nat]
    BY DEF IInv, TypeOK
  <1>2. /\ kills \in [Procs -> Nat] /\ kills[p] = spent.kills[p] + 1
        /\ \A q \in Procs \ {p} : kills[q] = spent.kills[q]
    BY <1>1
  <1>3. spent' = [spent EXCEPT !.kills = kills]
    BY DEF Kill
  <1> HIDE DEF kills
  <1> QED
    BY <1>1, <1>2, <1>3

\* A kill takes what the process was about to do; its temporary file is an orphan.
LEMMA KillStep ==
  ASSUME IInv, NEW p \in Procs, Kill(p)
  PROVE  IInv'
  <1>1. /\ proc' = [proc EXCEPT ![p] = Idle]
        /\ UNCHANGED <<live, staged, gate, tmps, ids, decided>>
    BY DEF Kill
  <1>2. /\ spent' \in [calls : Nat, edits : Nat, kills : [Procs -> Nat]]
        /\ \A q \in Procs \ {p} : spent'.kills[q] = spent.kills[q]
    BY KillEffect
  <1>3. /\ proc' \in [Procs -> Jobs] /\ proc'[p].pc = "idle"
        /\ \A q \in Procs \ {p} : proc'[q] = proc[q]
    BY <1>1, IdleType DEF IInv, TypeOK
  <1>4. \A q \in Procs \ {p} : Job(q)' = Job(q) /\ TmpName(q)' = TmpName(q)
    BY <1>2, <1>3 DEF Job, TmpName
  <1>5. TypeOK'
    BY <1>1, <1>2, <1>3 DEF IInv, TypeOK
  <1>6. Busy' /\ OwnTmp' /\ Fresh'
    BY <1>1, <1>3, <1>4 DEF IInv, Busy, OwnTmp, Fresh, At
  <1> QED
    BY <1>5, <1>6 DEF IInv

\* The gate is switched, or nothing happens.
LEMMA Aside ==
  ASSUME IInv, UNCHANGED <<live, staged, tmps, proc, ids, decided, spent>>, gate' \in BOOLEAN
  PROVE  IInv'
  <1>1. \A q \in Procs : Job(q)' = Job(q) /\ TmpName(q)' = TmpName(q)
    BY DEF Job, TmpName
  <1>2. TypeOK'
    BY DEF IInv, TypeOK
  <1>3. Busy' /\ OwnTmp' /\ Fresh'
    BY <1>1 DEF IInv, Busy, OwnTmp, Fresh, At
  <1> QED
    BY <1>2, <1>3 DEF IInv

-----------------------------------------------------------------------------
LEMMA Initially == Init => IInv /\ GoneMeansDecided
  <1> SUFFICES ASSUME Init PROVE IInv /\ GoneMeansDecided
    OBVIOUS
  <1>1. proc = [p \in Procs |-> Idle] /\ \A p \in Procs : proc[p].pc = "idle"
    BY IdleType DEF Init
  <1>2. TypeOK
    BY <1>1, IdleType, EmptySeq DEF Init, TypeOK
  <1>3. Busy /\ OwnTmp /\ Fresh
    BY <1>1 DEF Busy, OwnTmp, Fresh, At
  <1>4. GoneMeansDecided
    BY DEF Init, GoneMeansDecided
  <1> QED
    BY <1>2, <1>3, <1>4 DEF IInv

LEMMA Inductive == IInv /\ [Next]_vars => IInv'
  <1> SUFFICES ASSUME IInv, [Next]_vars PROVE IInv'
    OBVIOUS
  <1>1. ASSUME NEW p \in Procs,
               \/ \E r \in Requests : MemoryWrite(p, r)
               \/ \E verb \in {"approve", "reject"} : Command(p, verb)
               \/ LoadFile(p) \/ WriteTmp(p) \/ Rename(p) \/ Unlink(p) \/ Kill(p)
        PROVE  IInv'
    BY <1>1, MemoryWriteStep, CommandStep, LoadFileStep, WriteTmpStep, RenameStep,
       UnlinkStep, KillStep
  <1>2. CASE \E on \in BOOLEAN : Approval(on)
    BY <1>2, Aside DEF Approval
  <1>3. CASE \E f \in Files : Edit(f)
    BY <1>3, EditStep
  <1>4. CASE UNCHANGED vars
    BY <1>4, Aside DEF vars, IInv, TypeOK
  <1> QED
    BY <1>1, <1>2, <1>3, <1>4 DEF Next

\* The files hold entries, the staged writes are well formed, and a process at
\* work has a write whose result is still its own.
THEOREM Invariance == Spec => []IInv
  BY Initially, Inductive, PTL DEF Spec

-----------------------------------------------------------------------------
\* Only its own rename, or a kill, takes a process away from its rename.
LEMMA LeavesByRename ==
  ASSUME IInv, [Next]_vars, NEW p \in Procs, At(p, "rename"), ~At(p, "rename")',
         spent'.kills = spent.kills
  PROVE  Rename(p)
  <1>1. proc \in [Procs -> Jobs] /\ proc'[p].pc # proc[p].pc
    BY DEF IInv, TypeOK, At
  <1>2. PICK q \in Procs :
          \/ \E r \in Requests : MemoryWrite(q, r)
          \/ \E verb \in {"approve", "reject"} : Command(q, verb)
          \/ LoadFile(q) \/ WriteTmp(q) \/ Rename(q) \/ Unlink(q) \/ Kill(q)
    <2>1. ASSUME NEW f \in Files, Edit(f)
          PROVE  FALSE
      BY <1>1, <2>1, OvertakenEffect DEF Edit
    <2> QED
      BY <1>1, <2>1 DEF Next, vars, Approval
  <1>3. ASSUME NEW r \in Requests, MemoryWrite(q, r)
        PROVE  Rename(p)
    BY <1>1, <1>3 DEF MemoryWrite, Begin, At
  <1>4. ASSUME NEW verb \in {"approve", "reject"}, Command(q, verb)
        PROVE  Rename(p)
    BY <1>1, <1>4 DEF Command, Begin, At
  <1>5. CASE LoadFile(q)
    <2>1. q # p /\ ~At(q, "idle")
      BY <1>5 DEF LoadFile, At
    <2>2. Rest(q)[p] = proc[p]
      BY <2>1, RestEffect DEF IInv
    <2> QED
      BY <1>1, <1>5, <2>1, <2>2 DEF LoadFile
  <1>6. CASE WriteTmp(q)
    BY <1>1, <1>6 DEF WriteTmp, At
  <1>7. CASE Rename(q)
    BY <1>1, <1>7, RenameEffect
  <1>8. CASE Unlink(q)
    <2>1. q # p /\ ~At(q, "idle")
      BY <1>8 DEF Unlink, At
    <2>2. Rest(q)[p] = proc[p]
      BY <2>1, RestEffect DEF IInv
    <2> QED
      BY <1>1, <1>8, <2>2 DEF Unlink
  <1>9. CASE Kill(q)
    <2>1. q # p
      <3>1. spent.kills \in [Procs -> Nat]
        BY DEF IInv, TypeOK
      <3>2. spent'.kills[q] = spent.kills[q] + 1
        BY <1>9, KillEffect
      <3>3. q = p => spent.kills[p] = spent.kills[p] + 1
        BY <3>2
      <3> QED
        BY <3>1, <3>3
    <2> QED
      BY <1>1, <1>9, <2>1 DEF Kill
  <1> QED
    BY <1>2, <1>3, <1>4, <1>5, <1>6, <1>7, <1>8, <1>9

\* A write lands on the file it was computed from: applyWrite's read and
\* atomicWriteFile's rename are not one step, and only another write of the file
\* between the two can make a difference.
THEOREM WriteLands == Spec => LandsWhatItComputed
  <1> DEFINE Lands ==
        \A p \in Procs :
          At(p, "rename") /\ ~At(p, "rename")' /\ spent'.kills = spent.kills
          /\ ~proc[p].overtaken
          => LET r == Job(p).req IN live' = [live EXCEPT ![r.file] = Written(@, r)]
  <1>1. ASSUME IInv, [Next]_vars PROVE Lands
    <2> SUFFICES ASSUME NEW p \in Procs, At(p, "rename"), ~At(p, "rename")',
                        spent'.kills = spent.kills, ~proc[p].overtaken
                 PROVE  LET r == Job(p).req
                        IN  live' = [live EXCEPT ![r.file] = Written(@, r)]
      OBVIOUS
    <2> DEFINE r == Job(p).req
    <2>1. proc[p].next = Written(live[r.file], r)
      BY <1>1 DEF IInv, Fresh
    <2>2. Rename(p)
      BY <1>1, LeavesByRename
    <2>3. live' = [live EXCEPT ![r.file] = proc[p].next]
      BY <1>1, <2>2, RenameEffect
    <2> QED
      BY <1>1, <2>1, <2>3 DEF IInv, TypeOK
  <1> QED
    BY <1>1, Invariance, PTL DEF Spec, LandsWhatItComputed

-----------------------------------------------------------------------------
\* A staged write that goes, goes with a decision.
LEMMA GoneStep ==
  ASSUME IInv, GoneMeansDecided, [Next]_vars
  PROVE  GoneMeansDecided'
  <1>1. CASE UNCHANGED <<staged, ids>> /\ decided \subseteq decided'
    BY <1>1 DEF GoneMeansDecided
  <1>2. ASSUME NEW p \in Procs, NEW r \in Requests, MemoryWrite(p, r)
        PROVE  GoneMeansDecided'
    <2>1. CASE UNCHANGED ids
      BY <1>1, <1>2, <2>1 DEF MemoryWrite, IInv, TypeOK
    <2>2. CASE ids' = ids + 1 /\ staged' = Append(staged, [id |-> ids + 1, req |-> r])
      <3> DEFINE new == [id |-> ids + 1, req |-> r]
      <3>1. /\ staged \in Seq(Writes) /\ ids \in Nat /\ decided' = decided
            /\ new \in Writes /\ new.id = ids + 1
        BY <1>2 DEF MemoryWrite, IInv, TypeOK, Writes
      <3> HIDE DEF new
      <3>2. /\ DOMAIN staged' = 1..(Len(staged) + 1) /\ Len(staged) \in Nat
            /\ DOMAIN staged = 1..Len(staged)
            /\ \A k \in DOMAIN staged : staged'[k] = staged[k]
            /\ staged'[Len(staged) + 1] = new
        BY <2>2, <3>1, AppendProperties DEF new
      <3>3. Range(staged) \subseteq Range(staged') /\ new \in Range(staged')
        BY <3>2 DEF Range
      <3>4. ASSUME NEW i \in 1..(ids + 1)
            PROVE  i \in decided \/ \E s \in Range(staged') : s.id = i
        <4>1. CASE i = ids + 1
          BY <3>1, <3>3, <4>1
        <4>2. CASE i # ids + 1
          <5>1. i \in 1..ids
            BY <3>1, <4>2
          <5> QED
            BY <3>3, <5>1 DEF GoneMeansDecided
        <4> QED
          BY <4>1, <4>2
      <3> QED
        BY <2>2, <3>1, <3>4 DEF GoneMeansDecided
    <2> QED
      BY <1>2, <2>1, <2>2 DEF MemoryWrite
  <1>3. ASSUME NEW p \in Procs, Unlink(p)
        PROVE  GoneMeansDecided'
    <2>1. /\ staged' = Without(Job(p).id) /\ decided' = decided \cup {Job(p).id}
          /\ ids' = ids
      BY <1>3 DEF Unlink
    <2>2. \A s \in Range(staged) : s.id # Job(p).id => s \in Range(staged')
      BY <2>1, WithoutOne DEF IInv
    <2> QED
      BY <2>1, <2>2 DEF GoneMeansDecided
  <1>4. ASSUME NEW p \in Procs,
               \/ \E verb \in {"approve", "reject"} : Command(p, verb)
               \/ LoadFile(p) \/ WriteTmp(p) \/ Rename(p) \/ Kill(p)
        PROVE  UNCHANGED <<staged, ids>> /\ decided \subseteq decided'
    BY <1>4 DEF Command, LoadFile, AfterRefusal, WriteTmp, Rename, Kill
  <1>5. CASE \/ \E on \in BOOLEAN : Approval(on)
             \/ \E f \in Files : Edit(f)
             \/ UNCHANGED vars
    BY <1>1, <1>5 DEF Approval, Edit, vars
  <1> QED
    BY <1>1, <1>2, <1>3, <1>4, <1>5 DEF Next

\* No staged write is lost undecided: a refusal at approval, a kill between the
\* rename and the unlink, another process's command or the switching of the gate
\* leaves it staged.
THEOREM StagedUntilDecided == Spec => []GoneMeansDecided
  <1>1. IInv /\ GoneMeansDecided /\ [Next]_vars => GoneMeansDecided'
    BY GoneStep
  <1> QED
    BY <1>1, Initially, Invariance, PTL DEF Spec
=============================================================================
