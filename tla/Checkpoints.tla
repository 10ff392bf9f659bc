----------------------------- MODULE Checkpoints -----------------------------
(***************************************************************************)
(* The file half of the checkpoint store: snapshots before tool calls, the *)
(* write ledger, /undo and /restore, for several sessions in one project   *)
(* (apps/cli/src/checkpoint/checkpoint.ts, shadowGit.ts, wrapTools.ts,     *)
(* writeLedger.ts).                                                        *)
(*                                                                         *)
(* All sessions of a project share one shadow repository: its object       *)
(* store, its index and the ledger.  Each has its own ref and log.  A tree *)
(* maps the paths to contents; a commit is the set of the trees it reaches *)
(* and there is none where the set is empty.                               *)
(*                                                                         *)
(* Every git command is a step; the code between two of them runs          *)
(* without another command of the same process, but not without another    *)
(* process, a shell command still running or the user's editor.            *)
(***************************************************************************)
EXTENDS Integers, Sequences, SequencesExt, FiniteSets

CONSTANTS
    Procs,          \* seri processes, each on a session of its own
    Paths,          \* files of the worktree that are not ignored
    Contents,       \* what a file may hold
    Absent,         \* the file is not there
    None,           \* undefined
    MaxRetained,    \* MAX_RETAINED_SESSIONS
    FaultSets,      \* the sets of faults looked into, one by one
    MaxCalls,       \* bound: tool calls
    MaxEdits,       \* bound: edits by hand
    MaxRestores,    \* bound: /undo and /restore commands
    MaxStarts,      \* bound: processes started
    Budget          \* bound: all of these together

VARIABLES
    faults,     \* what may go wrong
    disk,       \* the worktree
    index,      \* the shadow repository's index file
    ref,        \* refs/seri/sessions/<id>, a commit
    log,        \* <id>.jsonl, no records when there is no such file
    ledger,     \* ledger.json: the content written last through write_file
    cp,         \* each process's Checkpointer
    pc,         \* where each process is
    job,        \* what it works on
    spent,      \* calls, edits, restores and starts so far
    written,    \* history: what write_file ever wrote to a path
    before,     \* history: the worktree as the newest checkpoint should have it
    began       \* history: the worktree when the running restore began

vars == <<faults, disk, index, ref, log, ledger, cp, pc, job, spent,
          written, before, began>>

Trees == [Paths -> Contents \cup {Absent}]
Tools == {"write_file", "destructive", "harmless", "unrecognised"}

\* "index": git commands of another process may come between those of one;
\* "git": a git command may fail, which turns the checkpointer off.
ASSUME FaultKinds == FaultSets \subseteq SUBSET {"index", "git"}
ASSUME Bounds ==
    {MaxRetained, MaxCalls, MaxEdits, MaxRestores, MaxStarts, Budget} \subseteq Nat

Alive(p) == pc[p] # "down"
\* Records are named by their positions in the log.
ToolRecords(p) == {i \in DOMAIN log[p] : log[p][i].kind = "tool"}

CommitTree(tree, parent) == parent \cup {tree}

Limit == [calls |-> MaxCalls, edits |-> MaxEdits, restores |-> MaxRestores,
          starts |-> MaxStarts]
Spend(what) ==
    /\ spent[what] < Limit[what]
    /\ spent.calls + spent.edits + spent.restores + spent.starts < Budget
    /\ spent' = [spent EXCEPT ![what] = @ + 1]

\* A process between two git commands of one operation.
Midway == {"staged", "staged restore", "snapshotted", "planned", "applying"}
Free(p) == \A q \in Procs \ {p} : pc[q] \in Midway => "index" \in faults

Steps(p, from, to) == pc[p] = from /\ pc' = [pc EXCEPT ![p] = to]

----------------------------------------------------------------------------
(* createCheckpointer.                                                     *)

Checkpointer ==
    [enabled |-> TRUE, started |-> FALSE, snapped |-> FALSE,
     tree |-> None, commit |-> {}]

Idle == [tool |-> "harmless", path |-> None, tree |-> None, delete |-> {},
         entries |-> None, hash |-> None]

Start(p) ==
    /\ pc[p] = "down"
    /\ pc' = [pc EXCEPT ![p] = "idle"]
    /\ cp' = [cp EXCEPT ![p] = Checkpointer]
    /\ before' = [before EXCEPT ![p].due = TRUE]
    /\ Spend("starts")
    /\ UNCHANGED <<faults, disk, index, ref, log, ledger, job, written, began>>

\* pruneSessions: all refs but the MaxRetained newest, the session's own not
\* counted.  Which are the newest is left open; a session another process has
\* open is taken to be among them.
Others(p) == {q \in Procs \ {p} : ref[q] # {}}
Prunable(p) == {q \in Others(p) : ~Alive(q)}
Pruned(p) ==
    {old \in SUBSET Prunable(p) :
        LET retained == Cardinality(Others(p) \ old) IN
        \/ retained = MaxRetained
        \/ retained > MaxRetained /\ old = Prunable(p)
        \/ retained < MaxRetained /\ old = {}}

\* start: what an earlier process of the session left behind is picked up,
\* the parent from the ref and the tree from the log.
Anchored(p) == {i \in DOMAIN log[p] : log[p][i].kind \in {"tool", "pre-undo"}}
Started(p) ==
    IF cp[p].started THEN cp[p]
    ELSE [cp[p] EXCEPT !.started = TRUE,
              !.tree = IF Anchored(p) = {} THEN None
                       ELSE log[p][Max(Anchored(p))].tree,
              !.commit = ref[p]]

MustSnapshot(p, tool) ==
    tool \in {"write_file", "destructive"} \/ ~cp[p].snapped

\* Append a record; its commit is one that the ref reaches.
Record(p, kind, tree) ==
    log' = [log EXCEPT ![p] = Append(@, [kind |-> kind, tree |-> tree])]

\* onBeforeMutation up to `git add -A'.  The first one of a process starts
\* the store and prunes the sessions beyond those retained.
Stage(p, tool, path) ==
    /\ cp[p].enabled /\ MustSnapshot(p, tool)
    /\ Free(p)
    /\ \E pruned \in IF cp[p].started THEN {{}} ELSE Pruned(p) :
          /\ ref' = [q \in Procs |-> IF q \in pruned THEN {} ELSE ref[q]]
          /\ log' = [q \in Procs |-> IF q \in pruned THEN <<>> ELSE log[q]]
    /\ cp' = [cp EXCEPT ![p] = Started(p)]
    /\ index' = disk
    /\ before' = [before EXCEPT ![p] = [tree |-> disk, due |-> FALSE]]
    /\ pc' = [pc EXCEPT ![p] = "staged"]

\* A command none of the patterns matches reuses the tree of the snapshot
\* before it.
Reuse(p, tool, path) ==
    /\ cp[p].enabled /\ ~MustSnapshot(p, tool)
    /\ Record(p, "tool", cp[p].tree)
    /\ before' = IF before[p].due
                 THEN [before EXCEPT ![p] = [tree |-> disk, due |-> FALSE]]
                 ELSE before
    /\ pc' = [pc EXCEPT ![p] = "running"]
    /\ UNCHANGED <<index, ref, cp>>

NotCheckpointed(p) ==
    /\ ~cp[p].enabled
    /\ pc' = [pc EXCEPT ![p] = "running"]
    /\ UNCHANGED <<index, ref, log, cp, before>>

CallTool(p) ==
    /\ pc[p] = "idle"
    /\ \E tool \in Tools, path \in Paths :
          /\ Stage(p, tool, path) \/ Reuse(p, tool, path) \/ NotCheckpointed(p)
          /\ job' = [job EXCEPT ![p] = [Idle EXCEPT !.tool = tool, !.path = path]]
    /\ Spend("calls")
    /\ UNCHANGED <<faults, disk, ledger, written, began>>

\* `git write-tree': the index as it is now.  The same tree as before makes
\* no commit.
Snapshot(p) ==
    /\ Steps(p, "staged", "running") /\ Free(p)
    /\ LET commit == IF index # cp[p].tree \/ cp[p].commit = {}
                     THEN CommitTree(index, cp[p].commit) ELSE cp[p].commit
       IN  /\ cp' = [cp EXCEPT ![p].snapped = TRUE, ![p].tree = index,
                               ![p].commit = commit]
           /\ ref' = [ref EXCEPT ![p] = IF commit = cp[p].commit THEN @ ELSE commit]
    /\ Record(p, "tool", index)
    /\ UNCHANGED <<faults, disk, index, ledger, job, spent, written, before,
                   began>>

\* The one error policy of the handler: a warning, off for the rest of the
\* session, and the tool runs all the same.
LatchOff(p) ==
    /\ "git" \in faults
    /\ Steps(p, "staged", "running")
    /\ cp' = [cp EXCEPT ![p].enabled = FALSE]
    /\ UNCHANGED <<faults, disk, index, ref, log, ledger, job, spent, written,
                   before, began>>

----------------------------------------------------------------------------
(* The tool itself, and the ledger (onAfterMutation, recordWrite).         *)

\* The two instants in which the files must stand still: between a restore's
\* last look at them and its checkout, and between a write and its reading
\* back for the ledger.
Unapplied == \A q \in Procs : pc[q] # "applying"
Unread == \A q \in Procs : pc[q] # "wrote"
Unwatched == Unapplied /\ Unread

WriteFile(p) ==
    /\ job[p].tool = "write_file" /\ Steps(p, "running", "wrote")
    /\ Unapplied
    /\ \E c \in Contents :
          /\ disk' = [disk EXCEPT ![job[p].path] = c]
          /\ written' = [written EXCEPT ![job[p].path] = @ \cup {c}]
    /\ UNCHANGED <<faults, index, ref, log, ledger, cp, job, spent, before,
                   began>>

\* A shell command changes what it likes, unless it is harmless indeed; a
\* tool that throws changes nothing and is not recorded.
ShellOrFailure(p) ==
    /\ Steps(p, "running", "idle") /\ Unwatched
    /\ \/ /\ job[p].tool \in {"destructive", "unrecognised"}
          /\ \E c \in Contents \cup {Absent} :
                disk' = [disk EXCEPT ![job[p].path] = c]
       \/ UNCHANGED disk
    /\ job' = [job EXCEPT ![p] = Idle]
    /\ UNCHANGED <<faults, index, ref, log, ledger, cp, spent, written, before,
                   began>>

\* The file is read back and the ledger loaded...
LedgerRead(p) ==
    /\ Steps(p, "wrote", IF cp[p].enabled THEN "recording" ELSE "idle")
    /\ job' = [job EXCEPT ![p].entries = ledger,
                          ![p].hash = disk[job[p].path]]
    /\ UNCHANGED <<faults, disk, index, ref, log, ledger, cp, spent, written,
                   before, began>>

\* ...and written with the new entry, over whatever another process put
\* there meanwhile.
LedgerWrite(p) ==
    /\ Steps(p, "recording", "idle")
    /\ ledger' = IF job[p].hash = Absent THEN ledger
                 ELSE [job[p].entries EXCEPT ![job[p].path] = job[p].hash]
    /\ job' = [job EXCEPT ![p] = Idle]
    /\ UNCHANGED <<faults, disk, index, ref, log, cp, spent, written, before,
                   began>>

----------------------------------------------------------------------------
(* undoFiles, restoreCommit, restoreTo.                                    *)

\* newestDistinct: the newest tool record of each tree.
Targets_OldestFirst(p) ==             \* variant: distinct first, reversed then
    {i \in ToolRecords(p) :
        \A j \in ToolRecords(p) : j < i => log[p][j].tree # log[p][i].tree}
Targets(p) ==
    {i \in ToolRecords(p) :
        \A j \in ToolRecords(p) : j > i => log[p][j].tree # log[p][i].tree}

\* The n of the /undo that goes to a target.
StepsTo(p, i) == Cardinality({j \in Targets(p) : j >= i})

\* restoreTo up to the `git add -A' of its own snapshot.
BeginRestore(p, tree) ==
    /\ tree \in Trees
    /\ Steps(p, "idle", "staged restore") /\ Free(p)
    /\ index' = disk
    /\ job' = [job EXCEPT ![p] = [Idle EXCEPT !.tree = tree]]
    /\ began' = [began EXCEPT ![p] = disk]
    /\ Spend("restores")
    /\ UNCHANGED <<faults, disk, ref, log, ledger, cp, written, before>>

Undo(p) == \E i \in Targets(p) : BeginRestore(p, log[p][i].tree)

\* /restore takes the commit of an earlier restore, or of a checkpoint.
RestoreCommit(p) == \E t \in ref[p] : BeginRestore(p, t)

\* write-tree, and a commit on top of the session's ref.
PreUndoParent(p) == ref[p]
PreUndoTree_Live(p) == cp[p].tree         \* variant: the checkpointer's tree
PreUndoTree(p) == index

PreUndo(p) ==
    /\ Steps(p, "staged restore", "snapshotted") /\ Free(p)
    /\ ref' = [ref EXCEPT ![p] = CommitTree(PreUndoTree(p), PreUndoParent(p))]
    /\ Record(p, "pre-undo", PreUndoTree(p))
    /\ UNCHANGED <<faults, disk, index, ledger, cp, job, spent, written, before,
                   began>>

\* filterSafeToDelete: the ledger vouches for what the file holds now.
SafeToDelete_Listed(paths) == {q \in paths : ledger[q] # None}     \* variant
SafeToDelete(paths) ==
    {q \in paths : ledger[q] # None /\ disk[q] = ledger[q]}

\* planRestore's read-tree, and the files the target tree does not have.
Plan(p) ==
    /\ Steps(p, "snapshotted", "planned") /\ Free(p)
    /\ index' = job[p].tree
    /\ job' = [job EXCEPT ![p].delete =
                  SafeToDelete({q \in Paths : disk[q] # Absent
                                              /\ job[p].tree[q] = Absent})]
    /\ UNCHANGED <<faults, disk, ref, log, ledger, cp, spent, written, before,
                   began>>

\* The plan is shown, and its deletions are checked against the ledger again.
Recheck(p) ==
    /\ Steps(p, "planned", "applying") /\ Free(p)
    /\ job' = [job EXCEPT ![p].delete = SafeToDelete(@)]
    /\ UNCHANGED <<faults, disk, index, ref, log, ledger, cp, spent, written,
                   before, began>>

\* invalidate: the tree is forgotten, the parent is the ref's commit.
Invalidate(p) == [cp[p] EXCEPT !.tree = None, !.snapped = FALSE, !.commit = ref[p]]

\* checkout-index, then the deletions, of which a file in use may stop the
\* rest.  The checkpointer is told either way.
Apply(p) ==
    /\ Steps(p, "applying", "idle") /\ Free(p) /\ Unread
    /\ \E gone \in SUBSET job[p].delete :
          disk' = [q \in Paths |-> IF index[q] # Absent THEN index[q]
                                   ELSE IF q \in gone THEN Absent ELSE disk[q]]
    /\ cp' = [cp EXCEPT ![p] = Invalidate(p)]
    /\ job' = [job EXCEPT ![p] = Idle]
    /\ before' = [before EXCEPT ![p].due = TRUE]
    /\ began' = [began EXCEPT ![p] = None]
    /\ UNCHANGED <<faults, index, ref, log, ledger, spent, written>>

----------------------------------------------------------------------------
(* The rest of the world.                                                  *)

Edit ==
    /\ Unwatched
    /\ \E q \in Paths, c \in Contents \cup {Absent} :
          disk[q] # c /\ disk' = [disk EXCEPT ![q] = c]
    /\ Spend("edits")
    /\ UNCHANGED <<faults, index, ref, log, ledger, cp, pc, job, written,
                   before, began>>

\* The process ends, or is killed between two commands.
Exit(p) ==
    /\ Alive(p)
    /\ pc' = [pc EXCEPT ![p] = "down"]
    /\ cp' = [cp EXCEPT ![p] = Checkpointer]
    /\ job' = [job EXCEPT ![p] = Idle]
    /\ began' = [began EXCEPT ![p] = None]
    /\ UNCHANGED <<faults, disk, index, ref, log, ledger, spent, written,
                   before>>

Init ==
    /\ faults \in FaultSets
    /\ disk \in [Paths -> {Absent}] /\ index = disk
    /\ ref = [p \in Procs |-> {}] /\ log = [p \in Procs |-> <<>>]
    /\ ledger = [q \in Paths |-> None]
    /\ cp = [p \in Procs |-> Checkpointer]
    /\ pc = [p \in Procs |-> "down"]
    /\ job = [p \in Procs |-> Idle]
    /\ spent = [calls |-> 0, edits |-> 0, restores |-> 0, starts |-> 0]
    /\ written = [q \in Paths |-> {}]
    /\ before = [p \in Procs |-> [tree |-> None, due |-> TRUE]]
    /\ began = [p \in Procs |-> None]

Next ==
    \/ Edit
    \/ \E p \in Procs :
          \/ Start(p) \/ Exit(p)
          \/ CallTool(p) \/ Snapshot(p) \/ LatchOff(p)
          \/ WriteFile(p) \/ ShellOrFailure(p) \/ LedgerRead(p) \/ LedgerWrite(p)
          \/ Undo(p) \/ RestoreCommit(p)
          \/ PreUndo(p) \/ Plan(p) \/ Recheck(p) \/ Apply(p)

Spec == Init /\ [][Next]_vars

----------------------------------------------------------------------------
(* Properties.                                                             *)

\* "Restoring is never the operation that loses work": when a restore has
\* been applied, the whole worktree it began with is in a commit the
\* session's ref reaches.
NothingLostByRestore ==
    [][\A p \in Procs : pc[p] = "applying" /\ pc'[p] = "idle"
         => began[p] \in ref'[p]]_vars

\* A restore removes a file only if what it held was written by write_file:
\* never what the user or a shell command put there, even when it was put
\* there after the plan was made, and whatever the ledger lost to races.
OnlyOwnWritesRemoved ==
    [][\A p \in Procs : pc[p] = "applying" /\ pc'[p] = "idle" =>
         \A q \in Paths : disk[q] # Absent /\ disk'[q] = Absent
            => disk[q] \in written[q]]_vars

\* /undo 1 goes back to the worktree as it was before the newest call that
\* could change it - or the first call after a restart or a restore - and
\* never forward onto one the user has already reverted.
UndoOneGoesBack ==
    \A p \in Procs : pc[p] = "idle" /\ cp[p].enabled /\ ~before[p].due =>
        \A i \in Targets(p) :
            StepsTo(p, i) = 1 => log[p][i].tree = before[p].tree
=============================================================================
