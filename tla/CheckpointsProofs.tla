-------------------------- MODULE CheckpointsProofs --------------------------
(***************************************************************************)
(* For any number of sessions, files, contents, calls, edits and restores, *)
(* as long as the git commands of two processes do not come between each   *)
(* other's ("index" is not among the faults):                              *)
(*   - a restore leaves the worktree it began with in a commit;            *)
(*   - it removes only what write_file wrote;                              *)
(*   - /undo 1 goes back over the newest call.                             *)
(*                                                                         *)
(* The first holds because the index is still the worktree of the `git     *)
(* add' when it becomes the pre-undo commit, and a ref only grows while    *)
(* its session is open.  The second holds because, whatever the ledger     *)
(* loses, its entries are contents that write_file wrote to that path: an  *)
(* entry is the file as it was read back, before anything else could touch *)
(* it, or one of an older ledger.  The third holds because a tree is only  *)
(* reused by a process that has made a snapshot since it started and since *)
(* its last restore, so that the tree is the newest record's.              *)
(***************************************************************************)
EXTENDS Checkpoints, FiniteSetTheorems, TLAPS

Apart == "index" \notin faults

States == {"down", "idle", "staged", "running", "wrote", "recording",
           "staged restore", "snapshotted", "planned", "applying"}
Ledgers == [Paths -> Contents \cup {None}]
Jobs == [tool : Tools, path : Paths \cup {None}, tree : Trees \cup {None},
         delete : SUBSET Paths, entries : Ledgers \cup {None},
         hash : Contents \cup {Absent, None}]

TypeOK ==
    /\ disk \in Trees /\ index \in Trees
    /\ DOMAIN ref = Procs
    /\ ledger \in Ledgers
    /\ pc \in [Procs -> States]
    /\ job \in [Procs -> Jobs]
    /\ written \in [Paths -> SUBSET Contents]
    /\ began \in [Procs -> Trees \cup {None}]

\* What a process at work has at hand.
Restoring == {"staged restore", "snapshotted", "planned", "applying"}

Equipped ==
    \A p \in Procs :
        /\ pc[p] \in {"staged", "running", "wrote", "recording"} => job[p].path \in Paths
        /\ pc[p] = "recording" => job[p].entries \in Ledgers
        /\ pc[p] \in Restoring => job[p].tree \in Trees

\* One process at a time is between two git commands.
Alone == \A p, q \in Procs : pc[p] \in Midway /\ pc[q] \in Midway => p = q

\* What a restore began with is in the index, and then in a commit.
Kept ==
    \A p \in Procs :
        /\ pc[p] = "staged restore" => began[p] = index
        /\ pc[p] \in Restoring \ {"staged restore"} => began[p] \in ref[p]

\* An entry that is there, or about to be, is of a content that was written.
Vouches(entries) == \A f \in Paths : entries[f] = None \/ entries[f] \in written[f]

AsWritten ==
    /\ Vouches(ledger)
    /\ \A p \in Procs :
          /\ pc[p] = "wrote" => disk[job[p].path] \in written[job[p].path]
          /\ pc[p] = "recording" =>
                /\ job[p].hash \in written[job[p].path]
                /\ Vouches(job[p].entries)
          /\ pc[p] = "applying" =>
                \A f \in job[p].delete : disk[f] \in written[f]

IInv == Apart /\ TypeOK /\ Equipped /\ Alone /\ Kept /\ AsWritten

-----------------------------------------------------------------------------
(* The steps of one process.                                               *)

LEMMA Moves ==
  ASSUME TypeOK, NEW p \in Procs, NEW from, NEW to \in States, Steps(p, from, to)
  PROVE  /\ pc[p] = from
         /\ pc' \in [Procs -> States]
         /\ \A q \in Procs : pc'[q] = IF q = p THEN to ELSE pc[q]
  BY DEF TypeOK, Steps

LEMMA IdleJob ==
  ASSUME TypeOK, NEW p \in Procs
  PROVE  /\ Idle \in Jobs /\ Idle.delete = {}
         /\ [job EXCEPT ![p] = Idle] \in [Procs -> Jobs]
         /\ \A q \in Procs : [job EXCEPT ![p] = Idle][q] = IF q = p THEN Idle ELSE job[q]
  BY DEF TypeOK, Idle, Jobs, Tools

\* A call: its job, and where it goes.
LEMMA CallToolEffect ==
  ASSUME IInv, NEW p \in Procs, CallTool(p)
  PROVE  /\ pc[p] = "idle"
         /\ \E s \in {"staged", "running"} :
               /\ pc' = [pc EXCEPT ![p] = s]
               /\ s = "staged" => Free(p)
               /\ s # "staged" => UNCHANGED <<index, ref>>
         /\ index' \in Trees
         /\ DOMAIN ref' = Procs
         /\ \A q \in Procs : Alive(q) => ref'[q] = ref[q]
         /\ job' \in [Procs -> Jobs]
         /\ job'[p].path \in Paths
         /\ \A q \in Procs \ {p} : job'[q] = job[q]
  <1>1. PICK tool \in Tools, path \in Paths :
          /\ Stage(p, tool, path) \/ Reuse(p, tool, path) \/ NotCheckpointed(p)
          /\ job' = [job EXCEPT ![p] = [Idle EXCEPT !.tool = tool, !.path = path]]
    BY DEF CallTool
  <1>2. [Idle EXCEPT !.tool = tool, !.path = path] \in Jobs
        /\ [Idle EXCEPT !.tool = tool, !.path = path].path = path
    BY DEF Idle, Jobs
  <1>3. /\ job' \in [Procs -> Jobs]
        /\ job'[p].path \in Paths
        /\ \A q \in Procs \ {p} : job'[q] = job[q]
    BY <1>1, <1>2 DEF IInv, TypeOK
  <1>4. CASE Stage(p, tool, path)
    <2>1. \A pruned \in Pruned(p) : \A q \in pruned : ~Alive(q)
      BY DEF Pruned, Prunable
    <2>2. DOMAIN ref' = Procs /\ \A q \in Procs : Alive(q) => ref'[q] = ref[q]
      BY <1>4, <2>1 DEF Stage
    <2>3. index' \in Trees /\ pc' = [pc EXCEPT ![p] = "staged"] /\ Free(p)
      BY <1>4 DEF Stage, IInv, TypeOK
    <2> QED
      BY <1>3, <2>2, <2>3 DEF CallTool
  <1>5. CASE Reuse(p, tool, path) \/ NotCheckpointed(p)
    <2>1. UNCHANGED <<index, ref>> /\ pc' = [pc EXCEPT ![p] = "running"]
      BY <1>5 DEF Reuse, NotCheckpointed
    <2> QED
      BY <1>3, <2>1 DEF CallTool, IInv, TypeOK
  <1> QED
    BY <1>1, <1>4, <1>5

LEMMA LedgerReadEffect ==
  ASSUME IInv, NEW p \in Procs, LedgerRead(p)
  PROVE  /\ job' \in [Procs -> Jobs]
         /\ \A q \in Procs \ {p} : job'[q] = job[q]
         /\ job'[p].path = job[p].path /\ job'[p].entries = ledger
         /\ job'[p].hash = disk[job[p].path]
  <1> DEFINE hash == disk[job[p].path]
  <1>1. job' = [job EXCEPT ![p].entries = ledger, ![p].hash = hash]
    BY DEF LedgerRead
  <1>2. hash \in Contents \cup {Absent, None}
    BY DEF LedgerRead, Steps, IInv, TypeOK, Trees, Equipped
  <1> HIDE DEF hash
  <1>3. /\ \A q \in Procs \ {p} : job'[q] = job[q]
        /\ job'[p].path = job[p].path /\ job'[p].entries = ledger
        /\ job'[p].hash = hash
    BY <1>1 DEF IInv, TypeOK, Jobs
  <1>4. job' \in [Procs -> Jobs]
    <2>1. [job[p] EXCEPT !.entries = ledger, !.hash = hash] \in Jobs
      <3>1. /\ ledger \in Ledgers /\ job[p] \in Jobs
            /\ hash \in Contents \cup {Absent, None}
        BY <1>2 DEF IInv, TypeOK
      <3> QED
        BY <3>1 DEF Jobs
    <2>2. job' = [job EXCEPT ![p] = [job[p] EXCEPT !.entries = ledger, !.hash = hash]]
      BY <1>1 DEF IInv, TypeOK
    <2> QED
      BY <2>1, <2>2 DEF IInv, TypeOK
  <1> QED
    BY <1>3, <1>4 DEF hash

\* A restore that goes on checks its deletions against the ledger.
LEMMA ChecksEffect ==
  ASSUME TypeOK, NEW p \in Procs, NEW paths \in SUBSET Paths,
         job' = [job EXCEPT ![p].delete = SafeToDelete(paths)]
  PROVE  /\ job' \in [Procs -> Jobs]
         /\ \A q \in Procs \ {p} : job'[q] = job[q]
         /\ job'[p].tree = job[p].tree /\ job'[p].delete = SafeToDelete(paths)
  BY SMTT(30) DEF TypeOK, Jobs, SafeToDelete

-----------------------------------------------------------------------------
(* Types, and what a process at work has.                                  *)

LEMMA InitInv == Init /\ Apart => IInv
  BY DEF Init, Apart, IInv, TypeOK, Equipped, Alone, Kept, AsWritten, Vouches, Midway,
     Restoring, States, Trees, Ledgers, Jobs, Idle, Tools

LEMMA TypeStep ==
  ASSUME IInv, [Next]_vars
  PROVE  TypeOK'
  <1> USE DEF IInv, TypeOK
  <1>1. CASE Edit
    BY <1>1 DEF Edit, Trees
  <1>2. ASSUME NEW p \in Procs, Start(p)
        PROVE  TypeOK'
    BY <1>2 DEF Start, States
  <1>3. ASSUME NEW p \in Procs, Exit(p)
        PROVE  TypeOK'
    BY <1>3, IdleJob DEF Exit, States
  <1>4. ASSUME NEW p \in Procs, CallTool(p)
        PROVE  TypeOK'
    <2>1. UNCHANGED <<disk, ledger, written, began>>
      BY <1>4 DEF CallTool
    <2>2. pc' \in [Procs -> States]
      <3>1. PICK s \in {"staged", "running"} : pc' = [pc EXCEPT ![p] = s]
        BY <1>4, CallToolEffect
      <3> QED
        BY <3>1 DEF States
    <2> QED
      BY <1>4, <2>1, <2>2, CallToolEffect
  <1>5. ASSUME NEW p \in Procs, Snapshot(p) \/ LatchOff(p)
        PROVE  TypeOK'
    <2>1. pc' \in [Procs -> States]
      BY <1>5 DEF Snapshot, LatchOff, Steps, States
    <2>2. DOMAIN ref' = Procs
      BY <1>5 DEF Snapshot, LatchOff
    <2> QED
      BY <1>5, <2>1, <2>2 DEF Snapshot, LatchOff
  <1>6. ASSUME NEW p \in Procs, WriteFile(p)
        PROVE  TypeOK'
    <2>1. pc' \in [Procs -> States]
      BY <1>6 DEF WriteFile, Steps, States
    <2>2. disk' \in Trees /\ written' \in [Paths -> SUBSET Contents]
      <3>1. PICK c \in Contents :
              /\ disk' = [disk EXCEPT ![job[p].path] = c]
              /\ written' = [written EXCEPT ![job[p].path] = @ \cup {c}]
        BY <1>6 DEF WriteFile
      <3>2. job[p].path \in Paths
        BY <1>6 DEF WriteFile, Steps, Equipped
      <3> QED
        BY <3>1, <3>2 DEF Trees
    <2> QED
      BY <1>6, <2>1, <2>2 DEF WriteFile
  <1>7. ASSUME NEW p \in Procs, ShellOrFailure(p)
        PROVE  TypeOK'
    <2>1. pc' \in [Procs -> States]
      BY <1>7 DEF ShellOrFailure, Steps, States
    <2>2. disk' \in Trees
      BY <1>7 DEF ShellOrFailure, Trees
    <2> QED
      BY <1>7, <2>1, <2>2, IdleJob DEF ShellOrFailure
  <1>8. ASSUME NEW p \in Procs, LedgerRead(p)
        PROVE  TypeOK'
    <2>1. pc' \in [Procs -> States]
      BY <1>8 DEF LedgerRead, Steps, States
    <2> QED
      BY <1>8, <2>1, LedgerReadEffect DEF LedgerRead
  <1>9. ASSUME NEW p \in Procs, LedgerWrite(p)
        PROVE  TypeOK'
    <2>1. pc' \in [Procs -> States]
      BY <1>9 DEF LedgerWrite, Steps, States
    <2>2. ledger' \in Ledgers
      <3>1. job[p].entries \in Ledgers /\ job[p].hash \in Contents \cup {Absent, None}
        BY <1>9 DEF LedgerWrite, Steps, Equipped, Jobs
      <3> QED
        BY <1>9, <3>1 DEF LedgerWrite, Ledgers
    <2> QED
      BY <1>9, <2>1, <2>2, IdleJob DEF LedgerWrite
  <1>10. ASSUME NEW p \in Procs, Undo(p) \/ RestoreCommit(p)
         PROVE  TypeOK'
    <2>1. PICK tree : BeginRestore(p, tree)
      BY <1>10 DEF Undo, RestoreCommit
    <2>2. pc' \in [Procs -> States]
      BY <2>1 DEF BeginRestore, Steps, States
    <2>3. [Idle EXCEPT !.tree = tree] \in Jobs
      BY <2>1 DEF BeginRestore, Idle, Jobs, Tools
    <2> QED
      BY <2>1, <2>2, <2>3 DEF BeginRestore
  <1>11. ASSUME NEW p \in Procs, PreUndo(p)
         PROVE  TypeOK'
    BY <1>11 DEF PreUndo, Steps, States
  <1>12. ASSUME NEW p \in Procs, Plan(p)
         PROVE  TypeOK'
    <2>1. pc' \in [Procs -> States]
      BY <1>12 DEF Plan, Steps, States
    <2>2. index' \in Trees
      BY <1>12 DEF Plan, Steps, Equipped, Restoring
    <2>3. job' \in [Procs -> Jobs]
      <3>1. {f \in Paths : disk[f] # Absent /\ job[p].tree[f] = Absent} \in SUBSET Paths
        OBVIOUS
      <3> QED
        BY <1>12, <3>1, ChecksEffect DEF Plan
    <2> QED
      BY <1>12, <2>1, <2>2, <2>3 DEF Plan
  <1>13. ASSUME NEW p \in Procs, Recheck(p)
         PROVE  TypeOK'
    <2>1. pc' \in [Procs -> States]
      BY <1>13 DEF Recheck, Steps, States
    <2>2. job[p].delete \in SUBSET Paths
      BY DEF Jobs
    <2>3. job' \in [Procs -> Jobs]
      BY <1>13, <2>2, ChecksEffect DEF Recheck
    <2> QED
      BY <1>13, <2>1, <2>3 DEF Recheck
  <1>14. ASSUME NEW p \in Procs, Apply(p)
         PROVE  TypeOK'
    <2>1. pc' \in [Procs -> States]
      BY <1>14 DEF Apply, Steps, States
    <2>2. disk' \in Trees
      BY <1>14 DEF Apply, Trees
    <2>3. began' \in [Procs -> Trees \cup {None}]
      BY <1>14 DEF Apply
    <2> QED
      BY <1>14, <2>1, <2>2, <2>3, IdleJob DEF Apply
  <1>15. CASE UNCHANGED vars
    BY <1>15 DEF vars
  <1> QED
    BY <1>1, <1>2, <1>3, <1>4, <1>5, <1>6, <1>7, <1>8, <1>9, <1>10, <1>11, <1>12,
       <1>13, <1>14, <1>15 DEF Next

LEMMA EquippedStep ==
  ASSUME IInv, [Next]_vars
  PROVE  Equipped'
  <1> USE DEF IInv, TypeOK, Equipped
  <1>1. ASSUME NEW p \in Procs, CallTool(p)
        PROVE  Equipped'
    <2>1. PICK s \in {"staged", "running"} : pc' = [pc EXCEPT ![p] = s]
      BY <1>1, CallToolEffect
    <2> QED
      BY <1>1, <2>1, CallToolEffect DEF Restoring
  <1>2. ASSUME NEW p \in Procs, LedgerRead(p)
        PROVE  Equipped'
    <2>1. PICK s \in {"recording", "idle"} : Steps(p, "wrote", s)
      BY <1>2 DEF LedgerRead
    <2>2. pc' = [pc EXCEPT ![p] = s] /\ pc[p] = "wrote" /\ s \notin Restoring
      BY <2>1 DEF Steps, Restoring
    <2>3. \A q \in Procs \ {p} : job'[q] = job[q] /\ pc'[q] = pc[q]
      BY <1>2, <2>2, LedgerReadEffect
    <2>4. /\ pc'[p] \in {"recording", "idle"} /\ pc'[p] \notin Restoring
          /\ job'[p].path \in Paths /\ job'[p].entries \in Ledgers
      <3>1. job'[p].path = job[p].path /\ job'[p].entries = ledger
        BY <1>2, LedgerReadEffect
      <3> QED
        BY <2>2, <3>1
    <2> QED
      BY <2>3, <2>4
  <1>3. ASSUME NEW p \in Procs, Undo(p) \/ RestoreCommit(p)
        PROVE  Equipped'
    <2>1. PICK tree : BeginRestore(p, tree)
      BY <1>3 DEF Undo, RestoreCommit
    <2>2. [Idle EXCEPT !.tree = tree].tree \in Trees
      BY <2>1 DEF BeginRestore, Idle
    <2>3. /\ job'[p].tree \in Trees /\ \A q \in Procs \ {p} : job'[q] = job[q]
          /\ pc' = [pc EXCEPT ![p] = "staged restore"]
      BY <2>1, <2>2 DEF BeginRestore, Steps
    <2> QED
      BY <2>3
  <1>4. ASSUME NEW p \in Procs, Plan(p) \/ Recheck(p)
        PROVE  Equipped'
    <2>1. PICK paths \in SUBSET Paths :
             job' = [job EXCEPT ![p].delete = SafeToDelete(paths)]
      <3>1. {f \in Paths : disk[f] # Absent /\ job[p].tree[f] = Absent} \in SUBSET Paths
            /\ job[p].delete \in SUBSET Paths
        BY DEF Jobs
      <3> QED
        BY <1>4, <3>1 DEF Plan, Recheck
    <2>2. /\ \A q \in Procs \ {p} : job'[q] = job[q]
          /\ job'[p].tree = job[p].tree
      BY <2>1, ChecksEffect
    <2>3. pc[p] \in Restoring /\ \E s \in {"planned", "applying"} : pc' = [pc EXCEPT ![p] = s]
      BY <1>4 DEF Plan, Recheck, Steps, Restoring
    <2> QED
      BY <2>2, <2>3
  <1>5. ASSUME NEW p \in Procs, Snapshot(p) \/ LatchOff(p) \/ WriteFile(p) \/ PreUndo(p)
        PROVE  Equipped'
    BY <1>5 DEF Snapshot, LatchOff, WriteFile, PreUndo, Steps, Restoring
  <1>6. ASSUME NEW p \in Procs, Start(p) \/ Exit(p) \/ ShellOrFailure(p) \/ LedgerWrite(p) \/ Apply(p)
        PROVE  Equipped'
    <2>1. \E s \in {"down", "idle"} : pc' = [pc EXCEPT ![p] = s]
      BY <1>6 DEF Start, Exit, ShellOrFailure, LedgerWrite, Apply, Steps
    <2>2. job' = job \/ job' = [job EXCEPT ![p] = Idle]
      BY <1>6 DEF Start, Exit, ShellOrFailure, LedgerWrite, Apply
    <2>3. /\ pc'[p] \in {"down", "idle"} /\ pc'[p] \notin Restoring
          /\ \A q \in Procs \ {p} : pc'[q] = pc[q]
      BY <2>1 DEF Restoring
    <2>4. \A q \in Procs \ {p} : job'[q] = job[q]
      BY <2>2
    <2> QED
      BY <2>3, <2>4
  <1>7. CASE UNCHANGED <<pc, job>>
    BY <1>7
  <1> QED
    BY <1>1, <1>2, <1>3, <1>4, <1>5, <1>6, <1>7 DEF Next, Edit, vars

-----------------------------------------------------------------------------
(* The index has one user.                                                 *)

\* Who goes on to a git command, or changes the index, is alone.
LEMMA Exclusive ==
  ASSUME IInv, NEW p \in Procs, Free(p)
  PROVE  \A q \in Procs \ {p} : pc[q] \notin Midway
  BY DEF Free, IInv, Apart

LEMMA AloneStep ==
  ASSUME IInv, [Next]_vars
  PROVE  Alone'
  <1> USE DEF IInv, TypeOK, Alone
  <1>1. ASSUME NEW p \in Procs, CallTool(p)
        PROVE  Alone'
    <2>1. PICK s \in {"staged", "running"} : pc' = [pc EXCEPT ![p] = s] /\ (s = "staged" => Free(p))
      BY <1>1, CallToolEffect
    <2>2. CASE s = "staged"
      BY <2>1, <2>2, Exclusive
    <2>3. CASE s = "running"
      BY <2>1, <2>3 DEF Midway
    <2> QED
      BY <2>2, <2>3
  <1>2. ASSUME NEW p \in Procs, Undo(p) \/ RestoreCommit(p)
        PROVE  Alone'
    <2>1. pc' = [pc EXCEPT ![p] = "staged restore"] /\ Free(p)
      BY <1>2 DEF Undo, RestoreCommit, BeginRestore, Steps
    <2> QED
      BY <2>1, Exclusive
  <1>3. ASSUME NEW p \in Procs, PreUndo(p) \/ Plan(p) \/ Recheck(p)
        PROVE  Alone'
    <2>1. PICK s : pc' = [pc EXCEPT ![p] = s] /\ Free(p)
      BY <1>3 DEF PreUndo, Plan, Recheck, Steps
    <2> QED
      BY <2>1, Exclusive
  <1>4. ASSUME NEW p \in Procs, NEW s \in States \ Midway, pc' = [pc EXCEPT ![p] = s]
        PROVE  Alone'
    BY <1>4
  <1>5. ASSUME NEW p \in Procs, \/ Start(p) \/ Exit(p) \/ Snapshot(p) \/ LatchOff(p)
                                \/ WriteFile(p) \/ ShellOrFailure(p) \/ LedgerRead(p)
                                \/ LedgerWrite(p) \/ Apply(p)
        PROVE  Alone'
    <2>1. PICK s \in {"down", "idle", "running", "wrote", "recording"} : pc' = [pc EXCEPT ![p] = s]
      BY <1>5 DEF Start, Exit, Snapshot, LatchOff, WriteFile, ShellOrFailure,
                  LedgerRead, LedgerWrite, Apply, Steps
    <2>2. s \in States \ Midway
      BY DEF States, Midway
    <2> QED
      BY <1>4, <2>1, <2>2
  <1>6. CASE UNCHANGED pc
    BY <1>6
  <1> QED
    BY <1>1, <1>2, <1>3, <1>5, <1>6 DEF Next, Edit, vars

LEMMA KeptStep ==
  ASSUME IInv, [Next]_vars
  PROVE  Kept'
  <1> USE DEF IInv, TypeOK, Kept, Restoring
  <1>1. ASSUME NEW p \in Procs, CallTool(p)
        PROVE  Kept'
    <2>1. PICK s \in {"staged", "running"} :
             /\ pc' = [pc EXCEPT ![p] = s]
             /\ s = "staged" => Free(p)
             /\ s # "staged" => UNCHANGED <<index, ref>>
      BY <1>1, CallToolEffect
    <2>2. began' = began
      BY <1>1 DEF CallTool
    <2>3. \A q \in Procs : pc[q] \in Restoring => Alive(q)
      BY DEF Alive
    <2>4. s = "staged" => \A q \in Procs \ {p} : pc[q] \notin Restoring
      BY <2>1, Exclusive DEF Midway
    <2> QED
      BY <1>1, <2>1, <2>2, <2>3, <2>4, CallToolEffect
  <1>2. ASSUME NEW p \in Procs, Undo(p) \/ RestoreCommit(p)
        PROVE  Kept'
    <2>1. /\ pc' = [pc EXCEPT ![p] = "staged restore"] /\ Free(p)
          /\ index' = disk /\ began' = [began EXCEPT ![p] = disk] /\ ref' = ref
      BY <1>2 DEF Undo, RestoreCommit, BeginRestore, Steps
    <2>2. \A q \in Procs \ {p} : pc[q] \notin Restoring
      BY <2>1, Exclusive DEF Midway
    <2> QED
      BY <2>1, <2>2
  <1>3. ASSUME NEW p \in Procs, PreUndo(p)
        PROVE  Kept'
    BY <1>3 DEF PreUndo, Steps, CommitTree, PreUndoTree
  <1>4. ASSUME NEW p \in Procs, Plan(p) \/ Recheck(p)
        PROVE  Kept'
    <2>1. /\ \E s \in {"planned", "applying"} : pc' = [pc EXCEPT ![p] = s]
          /\ pc[p] \in {"snapshotted", "planned"} /\ Free(p)
          /\ UNCHANGED <<ref, began>>
      BY <1>4 DEF Plan, Recheck, Steps
    <2>2. \A q \in Procs \ {p} : pc[q] \notin Restoring
      BY <2>1, Exclusive DEF Midway
    <2> QED
      BY <2>1, <2>2
  <1>5. ASSUME NEW p \in Procs, Snapshot(p)
        PROVE  Kept'
    <2>1. /\ pc' = [pc EXCEPT ![p] = "running"]
          /\ \A q \in Procs \ {p} : ref'[q] = ref[q]
          /\ UNCHANGED <<index, began>>
      BY <1>5 DEF Snapshot, Steps
    <2> QED
      BY <2>1
  <1>6. ASSUME NEW p \in Procs, \/ Start(p) \/ Exit(p) \/ LatchOff(p) \/ WriteFile(p)
                                \/ ShellOrFailure(p) \/ LedgerRead(p)
                                \/ LedgerWrite(p) \/ Apply(p)
        PROVE  Kept'
    <2>1. \E s \in {"down", "idle", "running", "wrote", "recording"} : pc' = [pc EXCEPT ![p] = s]
      BY <1>6 DEF Start, Exit, LatchOff, WriteFile, ShellOrFailure,
                  LedgerRead, LedgerWrite, Apply, Steps
    <2>2. /\ UNCHANGED <<index, ref>>
          /\ began' = began \/ began' = [began EXCEPT ![p] = None]
      BY <1>6 DEF Start, Exit, LatchOff, WriteFile, ShellOrFailure,
                  LedgerRead, LedgerWrite, Apply
    <2> QED
      BY <2>1, <2>2
  <1>7. CASE UNCHANGED <<pc, index, ref, began>>
    BY <1>7
  <1> QED
    BY <1>1, <1>2, <1>3, <1>4, <1>5, <1>6, <1>7 DEF Next, Edit, vars

-----------------------------------------------------------------------------
(* What the ledger vouches for.                                            *)

\* A step of a process that leaves the files and the ledger as they are, and is not
\* one of those that read them.
LEMMA AsBefore ==
  ASSUME IInv, UNCHANGED <<disk, ledger, written>>, NEW p \in Procs,
         pc'[p] \notin {"wrote", "recording", "applying"},
         \A q \in Procs \ {p} : pc'[q] = pc[q] /\ job'[q] = job[q]
  PROVE  AsWritten'
  BY DEF IInv, AsWritten, Vouches

LEMMA AsWrittenStep ==
  ASSUME IInv, [Next]_vars
  PROVE  AsWritten'
  <1> USE DEF IInv, TypeOK, AsWritten
  <1>1. CASE Edit
    BY <1>1 DEF Edit, Unwatched, Unapplied, Unread, Vouches
  <1>2. ASSUME NEW p \in Procs, WriteFile(p)
        PROVE  AsWritten'
    <2>1. PICK c \in Contents :
            /\ disk' = [disk EXCEPT ![job[p].path] = c]
            /\ written' = [written EXCEPT ![job[p].path] = @ \cup {c}]
      BY <1>2 DEF WriteFile
    <2>2. /\ pc' = [pc EXCEPT ![p] = "wrote"] /\ UNCHANGED <<job, ledger>>
          /\ \A q \in Procs : pc[q] # "applying"
          /\ job[p].path \in Paths
      BY <1>2 DEF WriteFile, Steps, Unapplied, Equipped
    <2>3. /\ \A f \in Paths : written[f] \subseteq written'[f]
          /\ \A f \in Paths : disk'[f] = disk[f] \/ disk'[f] \in written'[f]
          /\ disk'[job[p].path] \in written'[job[p].path]
      BY <2>1, <2>2 DEF Trees
    <2>4. \A q \in Procs \ {p} : pc'[q] = pc[q]
      BY <2>2
    <2>5. Vouches(ledger)'
      BY <2>2, <2>3 DEF Vouches
    <2>6. ASSUME NEW q \in Procs, pc'[q] = "wrote"
          PROVE  disk'[job'[q].path] \in written'[job'[q].path]
      BY <2>2, <2>3, <2>6 DEF Equipped
    <2>7. ASSUME NEW q \in Procs, pc'[q] = "recording"
          PROVE  job'[q].hash \in written'[job'[q].path] /\ Vouches(job[q].entries)'
      <3>1. q # p /\ pc[q] = "recording"
        BY <2>2, <2>7
      <3> QED
        BY <2>2, <2>3, <3>1 DEF Vouches, Equipped
    <2>8. ASSUME NEW q \in Procs
          PROVE  pc'[q] # "applying"
      BY <2>2
    <2> QED
      BY <2>5, <2>6, <2>7, <2>8
  <1>3. ASSUME NEW p \in Procs, ShellOrFailure(p)
        PROVE  AsWritten'
    <2>1. /\ pc' = [pc EXCEPT ![p] = "idle"] /\ job' = [job EXCEPT ![p] = Idle]
          /\ UNCHANGED <<ledger, written>>
          /\ \A q \in Procs : pc[q] \notin {"applying", "wrote"}
      BY <1>3 DEF ShellOrFailure, Steps, Unwatched, Unapplied, Unread
    <2> QED
      BY <2>1 DEF Vouches
  <1>4. ASSUME NEW p \in Procs, LedgerRead(p)
        PROVE  AsWritten'
    <2>1. PICK s \in {"recording", "idle"} : Steps(p, "wrote", s)
      BY <1>4 DEF LedgerRead
    <2>2. UNCHANGED <<disk, ledger, written>>
      BY <1>4 DEF LedgerRead
    <2>3. pc[p] = "wrote" /\ \A q \in Procs : pc'[q] = IF q = p THEN s ELSE pc[q]
      BY <2>1 DEF Steps
    <2> QED
      BY <1>4, <2>2, <2>3, LedgerReadEffect DEF Vouches
  <1>5. ASSUME NEW p \in Procs, LedgerWrite(p)
        PROVE  AsWritten'
    <2>1. /\ pc[p] = "recording" /\ pc' = [pc EXCEPT ![p] = "idle"]
          /\ job' = [job EXCEPT ![p] = Idle]
          /\ UNCHANGED <<disk, written>>
          /\ job[p].path \in Paths /\ job[p].entries \in Ledgers
      BY <1>5 DEF LedgerWrite, Steps, Equipped
    <2>2. Vouches(ledger)'
      <3>1. CASE ledger' = ledger
        BY <2>1, <3>1 DEF Vouches
      <3>2. CASE ledger' = [job[p].entries EXCEPT ![job[p].path] = job[p].hash]
        BY <2>1, <3>2 DEF Vouches, Ledgers
      <3> QED
        BY <1>5, <3>1, <3>2 DEF LedgerWrite
    <2> QED
      BY <2>1, <2>2 DEF Vouches
  <1>6. ASSUME NEW p \in Procs, Recheck(p)
        PROVE  AsWritten'
    <2>1. /\ pc[p] = "planned" /\ pc' = [pc EXCEPT ![p] = "applying"]
          /\ UNCHANGED <<disk, ledger, written>>
          /\ job' = [job EXCEPT ![p].delete = SafeToDelete(job[p].delete)]
          /\ job[p].delete \in SUBSET Paths
      BY <1>6 DEF Recheck, Steps, Jobs
    <2>2. /\ job'[p].delete = SafeToDelete(job[p].delete)
          /\ \A q \in Procs \ {p} : job'[q] = job[q]
      BY <2>1, ChecksEffect
    <2>3. \A f \in SafeToDelete(job[p].delete) : disk[f] \in written[f]
      BY <2>1 DEF SafeToDelete, Vouches
    <2> QED
      BY <2>1, <2>2, <2>3 DEF Vouches
  <1>7. ASSUME NEW p \in Procs, Apply(p)
        PROVE  AsWritten'
    <2>1. /\ pc[p] = "applying" /\ pc' = [pc EXCEPT ![p] = "idle"]
          /\ job' = [job EXCEPT ![p] = Idle]
          /\ UNCHANGED <<ledger, written>>
          /\ Free(p) /\ \A q \in Procs : pc[q] # "wrote"
      BY <1>7 DEF Apply, Steps, Unread
    <2>2. \A q \in Procs \ {p} : pc[q] # "applying"
      BY <2>1, Exclusive DEF Midway
    <2> QED
      BY <2>1, <2>2 DEF Vouches
  <1>8. ASSUME NEW p \in Procs, CallTool(p)
        PROVE  AsWritten'
    <2>1. PICK s \in {"staged", "running"} : pc' = [pc EXCEPT ![p] = s]
      BY <1>8, CallToolEffect
    <2>2. UNCHANGED <<disk, ledger, written>>
      BY <1>8 DEF CallTool
    <2>3. /\ pc'[p] \notin {"wrote", "recording", "applying"}
          /\ \A q \in Procs \ {p} : pc'[q] = pc[q] /\ job'[q] = job[q]
      BY <1>8, <2>1, CallToolEffect
    <2> QED
      BY <2>2, <2>3, AsBefore
  <1>9. ASSUME NEW p \in Procs, Undo(p) \/ RestoreCommit(p)
        PROVE  AsWritten'
    <2>1. /\ pc' = [pc EXCEPT ![p] = "staged restore"] /\ UNCHANGED <<disk, ledger, written>>
          /\ \A q \in Procs \ {p} : job'[q] = job[q]
      BY <1>9 DEF Undo, RestoreCommit, BeginRestore, Steps
    <2>2. /\ pc'[p] \notin {"wrote", "recording", "applying"}
          /\ \A q \in Procs \ {p} : pc'[q] = pc[q] /\ job'[q] = job[q]
      BY <2>1
    <2>3. UNCHANGED <<disk, ledger, written>>
      BY <2>1
    <2> QED
      BY <2>2, <2>3, AsBefore
  <1>10. ASSUME NEW p \in Procs, Start(p) \/ Exit(p) \/ Snapshot(p) \/ LatchOff(p)
                                 \/ PreUndo(p) \/ Plan(p)
         PROVE  AsWritten'
    <2>1. \E s \in {"idle", "down", "running", "snapshotted", "planned"} :
             pc' = [pc EXCEPT ![p] = s]
      BY <1>10 DEF Start, Exit, Snapshot, LatchOff, PreUndo, Plan, Steps
    <2>2. UNCHANGED <<disk, ledger, written>> /\ \A q \in Procs \ {p} : job'[q] = job[q]
      BY <1>10 DEF Start, Exit, Snapshot, LatchOff, PreUndo, Plan
    <2>3. /\ pc'[p] \notin {"wrote", "recording", "applying"}
          /\ \A q \in Procs \ {p} : pc'[q] = pc[q]
      BY <2>1
    <2> QED
      BY <2>2, <2>3, AsBefore
  <1>11. CASE UNCHANGED vars
    BY <1>11 DEF vars, Vouches
  <1> QED
    BY <1>1, <1>2, <1>3, <1>4, <1>5, <1>6, <1>7, <1>8, <1>9, <1>10, <1>11 DEF Next

-----------------------------------------------------------------------------
(* The theorems.                                                           *)

LEMMA StepInv == IInv /\ [Next]_vars => IInv'
  <1> SUFFICES ASSUME IInv, [Next]_vars
               PROVE  IInv'
    OBVIOUS
  <1>1. faults' = faults
    <2>1. ASSUME NEW p \in Procs, \/ Start(p) \/ Exit(p) \/ CallTool(p) \/ Snapshot(p)
                                  \/ LatchOff(p) \/ WriteFile(p) \/ ShellOrFailure(p)
          PROVE  faults' = faults
      BY <2>1 DEF Start, Exit, CallTool, Snapshot, LatchOff, WriteFile, ShellOrFailure
    <2>2. ASSUME NEW p \in Procs, \/ LedgerRead(p) \/ LedgerWrite(p) \/ Undo(p)
                                  \/ RestoreCommit(p) \/ PreUndo(p)
          PROVE  faults' = faults
      BY <2>2 DEF LedgerRead, LedgerWrite, Undo, RestoreCommit, BeginRestore, PreUndo
    <2>3. ASSUME NEW p \in Procs, Plan(p) \/ Recheck(p) \/ Apply(p)
          PROVE  faults' = faults
      BY <2>3 DEF Plan, Recheck, Apply
    <2>4. CASE Edit \/ UNCHANGED vars
      BY <2>4 DEF Edit, vars
    <2> QED
      BY <2>1, <2>2, <2>3, <2>4 DEF Next
  <1>2. Apart'
    BY <1>1 DEF IInv, Apart
  <1> QED
    BY <1>2, TypeStep, EquippedStep, AloneStep, KeptStep, AsWrittenStep DEF IInv

\* The step that ends a restore is Apply, and nothing else looks like it.
LEMMA OnlyApplyEnds ==
  ASSUME IInv, [Next]_vars, NEW p \in Procs, pc[p] = "applying", pc'[p] = "idle"
  PROVE  Apply(p)
  <1> USE DEF IInv, TypeOK
  <1>1. ASSUME NEW q \in Procs, CallTool(q)
        PROVE  FALSE
    BY <1>1, CallToolEffect
  <1>2. ASSUME NEW q \in Procs, \/ Start(q) \/ Exit(q) \/ Snapshot(q) \/ LatchOff(q)
                                \/ WriteFile(q) \/ ShellOrFailure(q) \/ LedgerRead(q)
                                \/ LedgerWrite(q) \/ Undo(q) \/ RestoreCommit(q)
                                \/ PreUndo(q) \/ Plan(q) \/ Recheck(q)
        PROVE  FALSE
    <2>1. pc' = [pc EXCEPT ![q] = "idle"] => pc[q] # "applying"
      BY <1>2 DEF Start, Exit, Snapshot, LatchOff, WriteFile, ShellOrFailure, LedgerRead,
                  LedgerWrite, Undo, RestoreCommit, BeginRestore, PreUndo, Plan, Recheck, Steps
    <2>2. \E s : pc' = [pc EXCEPT ![q] = s]
      BY <1>2 DEF Start, Exit, Snapshot, LatchOff, WriteFile, ShellOrFailure, LedgerRead,
                  LedgerWrite, Undo, RestoreCommit, BeginRestore, PreUndo, Plan, Recheck, Steps
    <2> QED
      BY <2>1, <2>2
  <1>3. ASSUME NEW q \in Procs, Apply(q)
        PROVE  Apply(p)
    BY <1>3 DEF Apply, Steps
  <1>4. ~Edit /\ ~UNCHANGED vars
    BY DEF Edit, vars
  <1> QED
    BY <1>1, <1>2, <1>3, <1>4 DEF Next

\* The inductive invariant holds of every behaviour whose git commands do not
\* interleave.
THEOREM Invariance == Spec /\ Apart => []IInv
  BY InitInv, StepInv, PTL DEF Spec

\* "Restoring is never the operation that loses work" (checkpoint.ts:654): the
\* worktree a restore began with is in a commit of the session's ref when it ends.
THEOREM RestoreLosesNothing == Spec /\ Apart => NothingLostByRestore
  <1>1. IInv /\ [Next]_vars
          => (\A p \in Procs : pc[p] = "applying" /\ pc'[p] = "idle" => began[p] \in ref'[p])
    <2> SUFFICES ASSUME IInv, [Next]_vars, NEW p \in Procs, pc[p] = "applying", pc'[p] = "idle"
                 PROVE  began[p] \in ref'[p]
      OBVIOUS
    <2>1. ref' = ref
      BY OnlyApplyEnds DEF Apply
    <2> QED
      BY <2>1 DEF IInv, Kept, Restoring
  <1> QED
    BY <1>1, Invariance, PTL DEF Spec, NothingLostByRestore

\* A file that a restore removes held what write_file wrote to it (writeLedger.ts:64),
\* whoever came between the plan and the checkout.
THEOREM RestoreRemovesOwn == Spec /\ Apart => OnlyOwnWritesRemoved
  <1>1. IInv /\ [Next]_vars
          => (\A p \in Procs : pc[p] = "applying" /\ pc'[p] = "idle" =>
                \A q \in Paths : disk[q] # Absent /\ disk'[q] = Absent
                   => disk[q] \in written[q])
    <2> SUFFICES ASSUME IInv, [Next]_vars, NEW p \in Procs, pc[p] = "applying", pc'[p] = "idle",
                        NEW q \in Paths, disk[q] # Absent, disk'[q] = Absent
                 PROVE  disk[q] \in written[q]
      OBVIOUS
    <2>1. q \in job[p].delete
      BY OnlyApplyEnds DEF Apply
    <2> QED
      BY <2>1 DEF IInv, AsWritten
  <1> QED
    BY <1>1, Invariance, PTL DEF Spec, OnlyOwnWritesRemoved

-----------------------------------------------------------------------------
(* The log and the checkpointer: what /undo goes back to.                  *)

Records == [kind : {"tool", "pre-undo"}, tree : Trees \cup {None}]
Checkpointers == [enabled : BOOLEAN, started : BOOLEAN, snapped : BOOLEAN,
                  tree : Trees \cup {None}, commit : SUBSET Trees]

StoreTypeOK ==
    /\ log \in [Procs -> Seq(Records)]
    /\ cp \in [Procs -> Checkpointers]
    /\ before \in [Procs -> [tree : Trees \cup {None}, due : BOOLEAN]]
    /\ ref \in [Procs -> SUBSET Trees]

\* The newest tool record of the session has this tree.
Newest(p, tree) ==
    \E i \in ToolRecords(p) :
        log[p][i].tree = tree /\ \A j \in ToolRecords(p) : j <= i

\* While a snapshot is under way the index is the worktree it is taken of.  No
\* tree is reused that is not the newest record's: a process that has not made
\* a snapshot since it started, or since a restore, makes one.
Undoable(p) ==
    Alive(p) /\ cp[p].enabled =>
        /\ pc[p] = "staged" => index = before[p].tree /\ ~before[p].due
        /\ pc[p] # "staged" =>
              /\ ~before[p].due => Newest(p, before[p].tree)
              /\ cp[p].snapped => ~before[p].due /\ cp[p].tree = before[p].tree

UndoInv == IInv /\ StoreTypeOK /\ \A p \in Procs : Undoable(p)

\* A record at the end of a log: of a tool call it is the newest, of a restore it
\* leaves the newest the newest.
LEMMA Recorded ==
  ASSUME StoreTypeOK, NEW p \in Procs, NEW kind \in {"tool", "pre-undo"},
         NEW tree \in Trees \cup {None}, Record(p, kind, tree)
  PROVE  /\ log' \in [Procs -> Seq(Records)]
         /\ \A q \in Procs \ {p} : log'[q] = log[q]
         /\ kind = "tool" => Newest(p, tree)'
         /\ kind = "pre-undo" => \A t : Newest(p, t) => Newest(p, t)'
  <1> DEFINE r == [kind |-> kind, tree |-> tree]
             n == Len(log[p])
  <1>1. r \in Records /\ r.kind = kind /\ r.tree = tree
    BY DEF Records
  <1>2. log[p] \in Seq(Records)
    BY DEF StoreTypeOK
  <1>3. log' = [log EXCEPT ![p] = Append(log[p], r)]
    BY DEF Record
  <1> HIDE DEF r
  <1>4. /\ Append(log[p], r) \in Seq(Records) /\ n \in Nat
        /\ Len(Append(log[p], r)) = n + 1
        /\ Append(log[p], r)[n + 1] = r
        /\ \A i \in 1..n : Append(log[p], r)[i] = log[p][i]
    BY <1>1, <1>2
  <1>5. log'[p] = Append(log[p], r)
    BY <1>3 DEF StoreTypeOK
  <1>6. /\ log' \in [Procs -> Seq(Records)]
        /\ \A q \in Procs \ {p} : log'[q] = log[q]
    BY <1>3, <1>4 DEF StoreTypeOK
  <1>7. /\ DOMAIN log[p] = 1..n /\ DOMAIN log'[p] = 1..(n + 1)
        /\ log'[p][n + 1] = r /\ \A i \in 1..n : log'[p][i] = log[p][i]
    BY <1>2, <1>4, <1>5
  <1>8. CASE kind = "tool"
    <2>1. n + 1 \in ToolRecords(p)' /\ \A j \in ToolRecords(p)' : j <= n + 1
      BY <1>1, <1>4, <1>7, <1>8 DEF ToolRecords
    <2> QED
      BY <1>1, <1>6, <1>7, <1>8, <2>1 DEF Newest
  <1>9. CASE kind = "pre-undo"
    <2>1. ToolRecords(p)' = ToolRecords(p)
      <3>1. \A i \in 1..(n + 1) : i \in 1..n \/ i = n + 1
        BY <1>4
      <3>2. \A i \in 1..n : i \in 1..(n + 1)
        BY <1>4
      <3> QED
        BY <1>1, <1>7, <1>9, <3>1, <3>2 DEF ToolRecords
    <2>2. \A i \in ToolRecords(p) : log'[p][i] = log[p][i]
      BY <1>7 DEF ToolRecords
    <2> QED
      BY <1>6, <1>9, <2>1, <2>2 DEF Newest
  <1> QED
    BY <1>6, <1>8, <1>9

\* What an earlier process of the session left is picked up.
LEMMA StartedType ==
  ASSUME StoreTypeOK, NEW p \in Procs
  PROVE  Started(p) \in Checkpointers /\ Started(p).enabled = cp[p].enabled
  <1>1. cp[p] \in Checkpointers /\ ref[p] \in SUBSET Trees /\ log[p] \in Seq(Records)
    BY DEF StoreTypeOK
  <1>2. CASE cp[p].started
    BY <1>1, <1>2 DEF Started
  <1>3. CASE ~cp[p].started
    <2> DEFINE tree == IF Anchored(p) = {} THEN None ELSE log[p][Max(Anchored(p))].tree
    <2>1. tree \in Trees \cup {None}
      <3>1. CASE Anchored(p) = {}
        BY <3>1
      <3>2. CASE Anchored(p) # {}
        <4>1. Len(log[p]) \in Nat /\ DOMAIN log[p] = 1..Len(log[p])
              /\ \A i \in 1..Len(log[p]) : log[p][i] \in Records
          BY <1>1
        <4>2. Anchored(p) = 1..Len(log[p])
          BY <4>1 DEF Anchored, Records
        <4>3. Len(log[p]) \in Anchored(p) /\ \A i \in Anchored(p) : Len(log[p]) >= i
          BY <3>2, <4>1, <4>2
        <4>4. Max(Anchored(p)) \in Anchored(p)
          BY <4>3 DEF Max
        <4> QED
          BY <3>2, <4>1, <4>2, <4>4 DEF Records
      <3> QED
        BY <3>1, <3>2
    <2>2. Started(p) = [cp[p] EXCEPT !.started = TRUE, !.tree = tree, !.commit = ref[p]]
      BY <1>3 DEF Started
    <2> QED
      BY <1>1, <2>1, <2>2 DEF Checkpointers
  <1> QED
    BY <1>2, <1>3

\* A call, seen by its session and by the others.
LEMMA CallToolStore ==
  ASSUME UndoInv, NEW p \in Procs, CallTool(p)
  PROVE  StoreTypeOK' /\ Undoable(p)'
         /\ \A q \in Procs \ {p} :
               UNCHANGED <<cp[q], before[q]>> /\ (Alive(q) => log'[q] = log[q])
  <1> USE DEF UndoInv
  <1>1. PICK tool \in Tools, path \in Paths :
          Stage(p, tool, path) \/ Reuse(p, tool, path) \/ NotCheckpointed(p)
    BY DEF CallTool
  <1>2. /\ pc[p] = "idle" /\ disk \in Trees /\ pc \in [Procs -> States]
        /\ cp[p] \in Checkpointers /\ before \in [Procs -> [tree : Trees \cup {None}, due : BOOLEAN]]
    BY DEF CallTool, IInv, TypeOK, StoreTypeOK
  <1>3. CASE Stage(p, tool, path)
    <2>1. PICK pruned \in SUBSET Procs :
             /\ \A q \in pruned : ~Alive(q)
             /\ ref' = [q \in Procs |-> IF q \in pruned THEN {} ELSE ref[q]]
             /\ log' = [q \in Procs |-> IF q \in pruned THEN <<>> ELSE log[q]]
      <3>1. \A old \in Pruned(p) : old \in SUBSET Procs /\ \A q \in old : ~Alive(q)
        BY DEF Pruned, Prunable, Others
      <3> QED
        BY <1>3, <3>1 DEF Stage
    <2>2. /\ cp' = [cp EXCEPT ![p] = Started(p)] /\ index' = disk
          /\ before' = [before EXCEPT ![p] = [tree |-> disk, due |-> FALSE]]
          /\ pc' = [pc EXCEPT ![p] = "staged"]
      BY <1>3 DEF Stage
    <2>3. ref' \in [Procs -> SUBSET Trees] /\ log' \in [Procs -> Seq(Records)]
      <3>1. <<>> \in Seq(Records)
        OBVIOUS
      <3> QED
        BY <2>1, <3>1 DEF StoreTypeOK
    <2>4. /\ before' \in [Procs -> [tree : Trees \cup {None}, due : BOOLEAN]]
          /\ before'[p].tree = disk /\ before'[p].due = FALSE
          /\ \A q \in Procs \ {p} : before'[q] = before[q]
      BY <1>2, <2>2
    <2>5. /\ cp' \in [Procs -> Checkpointers]
          /\ \A q \in Procs \ {p} : cp'[q] = cp[q]
      BY <2>2, StartedType DEF StoreTypeOK
    <2>6. pc'[p] = "staged"
      BY <1>2, <2>2
    <2> QED
      BY <2>1, <2>2, <2>3, <2>4, <2>5, <2>6 DEF StoreTypeOK, Undoable
  <1>4. CASE Reuse(p, tool, path)
    <2>1. /\ cp[p].enabled /\ cp[p].snapped /\ Record(p, "tool", cp[p].tree)
          /\ before' = IF before[p].due
                       THEN [before EXCEPT ![p] = [tree |-> disk, due |-> FALSE]]
                       ELSE before
          /\ pc' = [pc EXCEPT ![p] = "running"] /\ UNCHANGED <<index, ref, cp>>
      BY <1>4 DEF Reuse, MustSnapshot
    <2>2. ~before[p].due /\ cp[p].tree = before[p].tree
      BY <1>2, <2>1 DEF Undoable, Alive
    <2>3. before' = before /\ cp' = cp /\ ref' = ref /\ pc'[p] = "running"
      BY <1>2, <2>1, <2>2
    <2>4. /\ log' \in [Procs -> Seq(Records)] /\ Newest(p, cp[p].tree)'
          /\ \A q \in Procs \ {p} : log'[q] = log[q]
      <3>1. cp[p].tree \in Trees \cup {None}
        BY <1>2 DEF Checkpointers
      <3> QED
        BY <2>1, <3>1, Recorded
    <2>5. Newest(p, before[p].tree)'
      BY <2>2, <2>3, <2>4 DEF Newest
    <2> QED
      BY <2>2, <2>3, <2>4, <2>5 DEF StoreTypeOK, Undoable
  <1>5. CASE NotCheckpointed(p)
    <2>1. UNCHANGED <<ref, log, cp, before>> /\ ~cp[p].enabled
      BY <1>5 DEF NotCheckpointed
    <2> QED
      BY <2>1 DEF StoreTypeOK, Undoable
  <1> QED
    BY <1>1, <1>3, <1>4, <1>5

\* The other steps that touch a session's log, its checkpointer or what its
\* newest checkpoint should have.
LEMMA SnapshotStore ==
  ASSUME UndoInv, NEW p \in Procs, Snapshot(p)
  PROVE  StoreTypeOK' /\ Undoable(p)'
         /\ \A q \in Procs \ {p} : UNCHANGED <<cp[q], before[q], log[q]>>
  <1> USE DEF UndoInv
  <1> DEFINE commit == IF index # cp[p].tree \/ cp[p].commit = {}
                       THEN CommitTree(index, cp[p].commit) ELSE cp[p].commit
  <1>1. /\ pc[p] = "staged" /\ pc' = [pc EXCEPT ![p] = "running"]
        /\ cp' = [cp EXCEPT ![p].snapped = TRUE, ![p].tree = index, ![p].commit = commit]
        /\ ref' = [ref EXCEPT ![p] = IF commit = cp[p].commit THEN @ ELSE commit]
        /\ Record(p, "tool", index) /\ UNCHANGED <<index, before>>
    BY DEF Snapshot, Steps
  <1>2. /\ index \in Trees /\ cp \in [Procs -> Checkpointers] /\ cp[p] \in Checkpointers
        /\ pc \in [Procs -> States] /\ ref \in [Procs -> SUBSET Trees]
    BY DEF IInv, TypeOK, StoreTypeOK
  <1>3. commit \in SUBSET Trees
    BY <1>2 DEF CommitTree, Checkpointers
  <1> HIDE DEF commit
  <1>4. /\ log' \in [Procs -> Seq(Records)] /\ Newest(p, index)'
        /\ \A q \in Procs \ {p} : log'[q] = log[q]
    BY <1>1, <1>2, Recorded
  <1>5. /\ cp' \in [Procs -> Checkpointers]
        /\ cp'[p].enabled = cp[p].enabled /\ cp'[p].tree = index
        /\ \A q \in Procs \ {p} : cp'[q] = cp[q]
    <2>1. [cp[p] EXCEPT !.snapped = TRUE, !.tree = index, !.commit = commit] \in Checkpointers
      BY <1>2, <1>3 DEF Checkpointers
    <2>2. cp' = [cp EXCEPT ![p] = [cp[p] EXCEPT !.snapped = TRUE, !.tree = index,
                                               !.commit = commit]]
      BY <1>1, <1>2
    <2> QED
      BY <1>2, <2>1, <2>2 DEF Checkpointers
  <1>6. ref' \in [Procs -> SUBSET Trees]
    BY <1>1, <1>2, <1>3
  <1>7. StoreTypeOK'
    BY <1>1, <1>4, <1>5, <1>6 DEF StoreTypeOK
  <1>8. cp'[p].enabled => index = before'[p].tree /\ ~before'[p].due
    BY <1>1, <1>5 DEF Undoable, Alive
  <1> QED
    BY <1>1, <1>2, <1>4, <1>5, <1>7, <1>8 DEF Undoable, Newest

LEMMA PreUndoStore ==
  ASSUME UndoInv, NEW p \in Procs, PreUndo(p)
  PROVE  StoreTypeOK' /\ Undoable(p)'
         /\ \A q \in Procs \ {p} : UNCHANGED <<cp[q], before[q], log[q]>>
  <1> USE DEF UndoInv
  <1>1. /\ pc[p] = "staged restore" /\ pc' = [pc EXCEPT ![p] = "snapshotted"]
        /\ ref' = [ref EXCEPT ![p] = ref[p] \cup {index}]
        /\ Record(p, "pre-undo", index) /\ UNCHANGED <<cp, before>>
    BY DEF PreUndo, Steps, PreUndoTree, PreUndoParent, CommitTree
  <1>2. /\ index \in Trees /\ pc \in [Procs -> States] /\ ref \in [Procs -> SUBSET Trees]
    BY DEF IInv, TypeOK, StoreTypeOK
  <1>3. /\ log' \in [Procs -> Seq(Records)]
        /\ \A q \in Procs \ {p} : log'[q] = log[q]
        /\ \A t : Newest(p, t) => Newest(p, t)'
    <2>1. index \in Trees \cup {None}
      BY <1>2
    <2> QED
      BY <1>1, <2>1, Recorded
  <1>4. ref' \in [Procs -> SUBSET Trees]
    BY <1>1, <1>2
  <1>5. StoreTypeOK'
    BY <1>1, <1>3, <1>4 DEF StoreTypeOK
  <1>6. Alive(p) /\ pc[p] # "staged" /\ pc'[p] = "snapshotted"
    BY <1>1, <1>2 DEF Alive
  <1>7. Newest(p, before[p].tree) => Newest(p, before[p].tree)'
    <2> DEFINE tree == before[p].tree
    <2>1. Newest(p, tree) => \E i \in ToolRecords(p)' :
             log'[p][i].tree = tree /\ \A j \in ToolRecords(p)' : j <= i
      <3> HIDE DEF tree
      <3>1. \A t : Newest(p, t) => \E i \in ToolRecords(p)' :
             log'[p][i].tree = t /\ \A j \in ToolRecords(p)' : j <= i
        BY <1>3 DEF Newest
      <3> QED
        BY <3>1
    <2> QED
      BY <1>1, <2>1 DEF Newest
  <1> QED
    BY <1>1, <1>3, <1>5, <1>6, <1>7 DEF Undoable

\* Steps that leave the log: a start, a restore that ends, an exit, a checkpointer
\* that turns itself off.
LEMMA CheckpointerStore ==
  ASSUME UndoInv, NEW p \in Procs, Start(p) \/ Apply(p) \/ Exit(p) \/ LatchOff(p)
  PROVE  StoreTypeOK' /\ Undoable(p)'
         /\ \A q \in Procs \ {p} : UNCHANGED <<cp[q], before[q], log[q]>>
  <1> USE DEF UndoInv
  <1>1. /\ cp \in [Procs -> Checkpointers] /\ cp[p] \in Checkpointers
        /\ before \in [Procs -> [tree : Trees \cup {None}, due : BOOLEAN]]
        /\ pc \in [Procs -> States] /\ ref \in [Procs -> SUBSET Trees]
    BY DEF IInv, TypeOK, StoreTypeOK
  <1>2. UNCHANGED <<log, ref>>
    BY DEF Start, Apply, Exit, LatchOff
  <1>3. /\ Checkpointer \in Checkpointers /\ ~Checkpointer.snapped
        /\ Invalidate(p) \in Checkpointers /\ ~Invalidate(p).snapped
        /\ [cp[p] EXCEPT !.enabled = FALSE] \in Checkpointers
        /\ ~[cp[p] EXCEPT !.enabled = FALSE].enabled
    BY <1>1 DEF Checkpointer, Invalidate, Checkpointers
  <1>4. CASE Start(p) \/ Apply(p)
    <2>1. PICK c \in {Checkpointer, Invalidate(p)} : cp' = [cp EXCEPT ![p] = c]
      BY <1>4 DEF Start, Apply
    <2>2. before' = [before EXCEPT ![p].due = TRUE] /\ pc' = [pc EXCEPT ![p] = "idle"]
      BY <1>4 DEF Start, Apply, Steps
    <2>3. /\ before' \in [Procs -> [tree : Trees \cup {None}, due : BOOLEAN]]
          /\ before'[p].due /\ \A q \in Procs \ {p} : before'[q] = before[q]
      BY <1>1, <2>2
    <2>4. /\ cp' \in [Procs -> Checkpointers] /\ ~cp'[p].snapped
          /\ \A q \in Procs \ {p} : cp'[q] = cp[q]
      BY <1>1, <1>3, <2>1
    <2>5. pc'[p] = "idle"
      BY <1>1, <2>2
    <2> QED
      BY <1>1, <1>2, <2>3, <2>4, <2>5 DEF StoreTypeOK, Undoable
  <1>5. CASE Exit(p)
    <2>1. /\ cp' = [cp EXCEPT ![p] = Checkpointer] /\ before' = before
          /\ pc' = [pc EXCEPT ![p] = "down"]
      BY <1>5 DEF Exit
    <2> QED
      BY <1>1, <1>2, <1>3, <2>1 DEF StoreTypeOK, Undoable, Alive
  <1>6. CASE LatchOff(p)
    <2>1. /\ cp' = [cp EXCEPT ![p] = [cp[p] EXCEPT !.enabled = FALSE]] /\ before' = before
      BY <1>1, <1>6 DEF LatchOff
    <2>2. /\ cp' \in [Procs -> Checkpointers] /\ ~cp'[p].enabled
          /\ \A q \in Procs \ {p} : cp'[q] = cp[q]
      BY <1>1, <1>3, <2>1
    <2> QED
      BY <1>1, <1>2, <2>1, <2>2 DEF StoreTypeOK, Undoable
  <1> QED
    BY <1>4, <1>5, <1>6

\* The steps of a tool, and those of a restore that only look.
LEMMA PlainStore ==
  ASSUME UndoInv, NEW p \in Procs,
         \/ WriteFile(p) \/ ShellOrFailure(p) \/ LedgerRead(p) \/ LedgerWrite(p)
         \/ Undo(p) \/ RestoreCommit(p) \/ Plan(p) \/ Recheck(p)
  PROVE  StoreTypeOK' /\ Undoable(p)'
         /\ \A q \in Procs \ {p} : UNCHANGED <<cp[q], before[q], log[q]>>
  <1> USE DEF UndoInv
  <1>1. /\ UNCHANGED <<log, cp, before, ref>>
        /\ pc[p] \notin {"down", "staged"}
        /\ \E s \in States \ {"staged"} : pc' = [pc EXCEPT ![p] = s]
    BY DEF WriteFile, ShellOrFailure, LedgerRead, LedgerWrite, Undo, RestoreCommit,
           BeginRestore, Plan, Recheck, Steps, States
  <1>2. pc'[p] # "staged"
    BY <1>1 DEF IInv, TypeOK
  <1>4. StoreTypeOK'
    BY <1>1 DEF StoreTypeOK
  <1>5. Undoable(p)'
    BY <1>1, <1>2 DEF Undoable, Alive, Newest, ToolRecords
  <1> QED
    BY <1>1, <1>4, <1>5

\* A session nobody steps for.
LEMMA Undisturbed ==
  ASSUME UndoInv, NEW q \in Procs, UNCHANGED <<pc[q], cp[q], before[q]>>,
         Alive(q) => log'[q] = log[q], pc[q] = "staged" => index' = index
  PROVE  Undoable(q)'
  <1>1. Undoable(q)
    BY DEF UndoInv
  <1> QED
    BY <1>1 DEF Undoable, Alive, Newest, ToolRecords

LEMMA UndoStep == UndoInv /\ [Next]_vars => UndoInv'
  <1> SUFFICES ASSUME UndoInv, [Next]_vars
               PROVE  StoreTypeOK' /\ \A q \in Procs : Undoable(q)'
    BY StepInv DEF UndoInv
  <1>0. IInv /\ pc \in [Procs -> States]
    BY DEF UndoInv, IInv, TypeOK
  <1>1. CASE Edit
    <2>1. UNCHANGED <<pc, cp, before, log, ref, index>>
      BY <1>1 DEF Edit
    <2> QED
      BY <2>1, Undisturbed DEF UndoInv, StoreTypeOK
  <1>2. ASSUME NEW p \in Procs, CallTool(p)
        PROVE  StoreTypeOK' /\ \A q \in Procs : Undoable(q)'
    <2>1. /\ StoreTypeOK' /\ Undoable(p)'
          /\ \A q \in Procs \ {p} :
                UNCHANGED <<cp[q], before[q]>> /\ (Alive(q) => log'[q] = log[q])
      BY <1>2, CallToolStore
    <2>2. PICK s \in {"staged", "running"} :
             /\ pc' = [pc EXCEPT ![p] = s]
             /\ s = "staged" => Free(p)
             /\ s # "staged" => index' = index
      BY <1>0, <1>2, CallToolEffect
    <2>3. \A q \in Procs \ {p} : pc'[q] = pc[q] /\ (pc[q] = "staged" => index' = index)
      BY <1>0, <2>2, Exclusive DEF Midway
    <2> QED
      BY <2>1, <2>3, Undisturbed
  <1>3. ASSUME NEW p \in Procs,
               \/ Snapshot(p) \/ PreUndo(p)
               \/ Start(p) \/ Apply(p) \/ Exit(p) \/ LatchOff(p)
               \/ WriteFile(p) \/ ShellOrFailure(p) \/ LedgerRead(p) \/ LedgerWrite(p)
               \/ Undo(p) \/ RestoreCommit(p) \/ Plan(p) \/ Recheck(p)
        PROVE  StoreTypeOK' /\ \A q \in Procs : Undoable(q)'
    <2>1. /\ StoreTypeOK' /\ Undoable(p)'
          /\ \A q \in Procs \ {p} : UNCHANGED <<cp[q], before[q], log[q]>>
      BY <1>3, SnapshotStore, PreUndoStore, CheckpointerStore, PlainStore
    <2>2. (\E s : pc' = [pc EXCEPT ![p] = s]) /\ (index' = index \/ Free(p))
      BY <1>3 DEF Snapshot, PreUndo, Start, Apply, Exit, LatchOff, WriteFile,
                  ShellOrFailure, LedgerRead, LedgerWrite, Undo, RestoreCommit,
                  BeginRestore, Plan, Recheck, Steps
    <2>3. \A q \in Procs \ {p} : pc'[q] = pc[q] /\ (pc[q] = "staged" => index' = index)
      BY <1>0, <2>2, Exclusive DEF Midway
    <2> QED
      BY <2>1, <2>3, Undisturbed
  <1>4. CASE UNCHANGED vars
    <2>1. UNCHANGED <<pc, cp, before, log, ref, index>>
      BY <1>4 DEF vars
    <2> QED
      BY <2>1, Undisturbed DEF UndoInv, StoreTypeOK
  <1> QED
    BY <1>1, <1>2, <1>3, <1>4 DEF Next

LEMMA InitUndo == Init /\ Apart => UndoInv
  <1> SUFFICES ASSUME Init, Apart PROVE StoreTypeOK /\ \A p \in Procs : Undoable(p)
    BY InitInv DEF UndoInv
  <1>1. <<>> \in Seq(Records)
    OBVIOUS
  <1>2. StoreTypeOK
    BY <1>1 DEF Init, StoreTypeOK, Checkpointers, Checkpointer
  <1>3. \A p \in Procs : ~Alive(p)
    BY DEF Init, Alive
  <1> QED
    BY <1>2, <1>3 DEF Undoable

\* The first step back is to the newest tool record.
LEMMA FirstStep ==
  ASSUME StoreTypeOK, NEW p \in Procs, NEW i \in Targets(p), StepsTo(p, i) = 1,
         NEW tree, Newest(p, tree)
  PROVE  log[p][i].tree = tree
  <1>1. PICK m \in ToolRecords(p) :
          log[p][m].tree = tree /\ \A j \in ToolRecords(p) : j <= m
    BY DEF Newest
  <1>2. ToolRecords(p) \subseteq 1..Len(log[p]) /\ Len(log[p]) \in Nat
    BY DEF ToolRecords, StoreTypeOK
  <1>3. m \in Targets(p) /\ i \in ToolRecords(p)
    BY <1>1, <1>2 DEF Targets
  <1> DEFINE from == {j \in Targets(p) : j >= i}
  <1>4. i \in from /\ m \in from
    BY <1>1, <1>2, <1>3
  <1>5. IsFiniteSet(from)
    <2>1. from \subseteq 1..Len(log[p])
      BY <1>2 DEF Targets
    <2>2. IsFiniteSet(1..Len(log[p]))
      BY <1>2, FS_Interval
    <2> HIDE DEF from
    <2> QED
      BY <2>1, <2>2, FS_Subset
  <1>6. Cardinality(from) = 1
    BY DEF StepsTo
  <1>7. \E x : from = {x}
    BY <1>5, <1>6, FS_Singleton
  <1> QED
    BY <1>1, <1>4, <1>7

\* /undo 1 goes back over the newest call, for any number of sessions in one project
\* whose git commands do not interleave: whatever is pruned, restored, edited or
\* killed, no call's checkpoint is missing and none shows a worktree the user has
\* left by a restore.
THEOREM UndoGoesBack == Spec /\ Apart => []UndoOneGoesBack
  <1>1. UndoInv => UndoOneGoesBack
    <2> SUFFICES ASSUME UndoInv, NEW p \in Procs, pc[p] = "idle", cp[p].enabled,
                        ~before[p].due, NEW i \in Targets(p), StepsTo(p, i) = 1
                 PROVE  log[p][i].tree = before[p].tree
      BY DEF UndoOneGoesBack
    <2>1. Newest(p, before[p].tree)
      BY DEF UndoInv, Undoable, Alive
    <2> QED
      BY <2>1, FirstStep DEF UndoInv
  <1>2. Spec /\ Apart => []UndoInv
    BY InitUndo, UndoStep, PTL DEF Spec
  <1> QED
    BY <1>1, <1>2, PTL
=============================================================================
