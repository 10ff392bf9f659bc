# A verification project for seri

seri is a coding-agent command line client, the gateway it calls its models
through, and the portal its users pay on. This directory holds TLA+ modules
that model the parts of it whose correctness hangs on the order of things, the
TLC configurations that check them on small instances, and theorems that TLAPS
proves for instances of any size. `PROJECT.json` is the machine-readable
index: components, runs, mutants, the map from every definition to the lines
it models, hazards and theorems. All source paths below are relative to the
repository.

To repeat a run: `tlc -config <file>.cfg <module>` with the pairs of the table
under "Runs". To repeat the proofs: `tlapm <module>.tla` for `AgentLoopProofs`,
`SessionProofs`, `CheckpointsProofs`, `MemoryProofs`, `AuthProofs`, `TuiProofs`,
`AccountProofs` and `GatewayProofs`.


## 1. Inventory

### How the system is put together

    user -- tui / stdin -- cli.ts -- runLoop -- gate, tools, subagents, model
                             |          |
                       session store   compaction
                       checkpoints     verification
                       permissions
                       memory, archivist
                             |
              auth (device flow, refresh)   provider routing
                             |                    |
    ------------------------ HTTP --------------------------------------
                             |                    |
             WorkOS     gateway route  -- OpenRouter
                             |
        account status, provisioning, quota, buckets, slot, usage rows
                             |
                 Supabase (Postgres)   Polar (billing)
                             |            |  webhooks
                          portal pages and their billing actions

The client is one process of cooperative code: between two awaits nothing else
runs, at an await anything may: a key, a signal, a stream part, a child's exit.
Several clients may be open on one machine and share its files. Gateway and
portal are stateless handlers, any number at once, and share only the database
and Polar, each of whose statements is atomic alone.

### Components

| component | state | operations | hard because | what makes it correct | module |
|---|---|---|---|---|---|
| agent loop (`loop/loop.ts`, `gate/gate.ts`) | transcript, the open tool batch, denial streak, run's allowlist, abort signal | model answer, gate a call, ask, run a tool, close or cancel a batch | aborts and mode changes at any await | calls and rows paired, denials end a run on time, a cancel is no denial, no write under read-only | `AgentLoop`, `Conversation` |
| compaction (`loop/compaction.ts`) | none of its own | choose a boundary, summarise, replace | any shape of transcript, failing summariser | no pair cut, the recent part unchanged | `AgentLoop` |
| non-interactive run (`cli.ts`, `signals.ts`) | session, cancel slot, denial and tool flags | load, drive, save, archive, exit | two kinds of signal anywhere | saved = announced, resumable, honest exit status | `CliRun` |
| session store (`session/session.ts`, `atomicWriteFile.ts`) | file; what this process last wrote (count, header, size) | load, save by append, by rewrite, or not at all | torn writes, failing writes, a second process | a save is exact, a file never becomes unreadable | `SessionStore` |
| free-tier provisioning (`packages/provisioning`, `entitlement.ts`, portal `provisioning.ts`) | claim row; Polar's customer and subscriptions | read, claim, create, release | concurrent requests, slow calls, deaths | one creator at a time, no lock-out | `Provisioning`, `Lease` |
| gateway request (`route.ts`, `quota.ts`, `rateLimit.ts`, `usageLedger.ts`) | usage rows, buckets, slot | count, debit, claim, insert, forward, release | concurrent requests, fail-open limits, streams that outlive the handler | bounded burst, one stream for Free, slots come back | `Gateway`, `RateBucket`, `Lease` |
| account status and webhooks (`webhooks/polar/route.ts`, `accountStatus.ts`) | account row | event by event conditional upsert | late, repeated, reordered delivery; ids that differ between deployments | a paid plan is not lost to a free event, events of one change agree | `Account` |
| portal billing (`lib/billing.ts`, its actions) | Polar's subscriptions | select, change, cancel, resume, check out | each acts on what it read an await before | what was paid for is kept | `Account` |
| checkpoints and undo (`checkpoint/`) | shadow commits, refs, logs, write ledger | snapshot, undo, restore, prune | shell commands, failing git, other processes, edits by hand | a restore loses nothing and removes only seri's own files | `Checkpoints` |
| rewind and archivist (`checkpoint.ts`, `memory/archivist.ts`) | anchors in the log, the archivist's cursor | rewind, barrier, archive | positions in a transcript that compaction and rewinds rewrite | an anchor names its place, nothing is skipped | `Rewind` |
| permission store | grants file | allow, revoke, read | unlocked read-modify-write | no grant invented | `Panels` (removal), `AgentLoop` (a run's allowlist) |
| memory (`memory/`) | memory files, staged writes, temporary files | write, stage, approve, reject | a kill or another process between two file calls | a write lands as computed, a staged one is not lost | `Memory` |
| authentication (`auth/`) | stored session, shared refreshes, attempts | login, refresh, logout | rotating tokens, dismissed logins, deadlines | a token used once, a usable session, no hanging request | `Auth` |
| terminal interface (`tui/`, `runTui` in `cli.ts`) | reducer state, React's copy of it, prompts, panels | keys, commands, picks, quit | late renders, saves as effects, commands beside turns | nothing chosen or announced is taken back, everything ends | `Tui`, `Screen`, `Panels` |
| configuration (`config/`) | `config.json` | set a key, a setting, a default | other processes' writes | the entry named and no other | `Panels`, `Tui` |
| subagents | children | dispatch | parallel readers, one writer | the parent's mode bounds the child | - |
| verification after writes | none | run the user's check | timeouts | advisory only | - |
| child processes of tools | children | spawn, time out, abort, reap | races for one child | one outcome, no stray signal | - |
| file tools | end-of-line cache | edit, write, search | text algorithms | out of a model checker's reach, mostly | - |
| providers, routing, cost, catalog | none | resolve a route | - | a pure function | - |
| output, web sites | none to speak of | - | - | - | - |

Which of them are modelled, partly or not, and why, is in "components" of
`PROJECT.json`; the hazards each is exposed to, at their lines, are in
"hazards", each with the properties that watch it.

### Interactions that matter

- `runLoop` yields to `driveLoop`, which saves at every `messages-updated`;
  the generator does not go on until the consumer has saved. `CliRun` composes
  the two.
- What the loop shows its consumer is `Conversation`, and the proof that
  `AgentLoop` implements it is what lets `Rewind` and `Tui` see a turn as whole
  exchanges.
- The signal handler and the loop share one abort signal; the permission mode
  is a getter the user's keys change under a running loop.
- In the terminal interface the loop announces a transcript, React renders it
  later, and an effect of the render saves it: `Tui` has the three copies apart.
- Compaction, `/rewind` and the archivist hold positions in one transcript:
  `Rewind` has all three.
- Processes of one machine share session files, the shadow repository, memory
  and `auth.json`, each with its own protocol and none with a lock.
- Gateway and portal both provision Free and share the claim row only. That row
  and the slot below are the same protocol under two names: both are a `Lease`.
- Every gateway request of an account reads the usage rows others insert, and
  a Free account's requests share one slot.


## 2. Plan

1. *Done.* `AgentLoop` with the gate and compaction, `CliRun` over it,
   `Provisioning`, `SessionStore`, `Gateway`, `RateBucket`; proofs for
   `AgentLoop`, `Provisioning`, `Gateway`, `RateBucket`.
2. *Done.* `Conversation` and the proof that `AgentLoop` implements it;
   `Account` (webhooks and billing), `Checkpoints`, `Rewind`, `Memory`, `Auth`,
   and the terminal interface (`Tui` over `Screen` and `Panels`).
3. *Done.* Proofs of every safety and action property of the runs but
   `ReaderStays` (section 5 says why).
4. *Done.* `Lease`, which both `Provisioning`'s claim and `Gateway`'s slot
   implement. *Left:* `RateBucket` as a serial bucket; a session file as an
   append-or-replace register.
5. *Left: models.* A subagent's dispatch (readers side by side, one writer) over
   `AgentLoop`; a tool's child, with close, timeout and abort racing for it;
   the two-tier permission file between two writers.


## 3. Modules and how they correspond to the code

Every module models one process or one account with its environment; an `MC`
module beside it gives its constants small values. A comment at the head of a
module says what it stands for, and one before an action which handler it is.

### AgentLoop

`phase` names the await at which the generator is suspended; one action is all
the code runs from there to the next await.

| action | code in `loop/loop.ts` |
|---|---|
| `BeginIteration` | the head of the `for`, the abort check and the compaction condition |
| `CompactionSucceeds`, `CompactionFails` | `compactMessages` and what follows it, or its catch |
| `StreamEndsTurn`, `StreamCallsTools`, `StreamFails` | the end of the model's stream, by what it holds, and its two ways of failing |
| `GateCall` | `checkPermission` and the branches for allow, block and nobody to ask |
| `AnswerPrompt` | the branch after `approvalPrompt`: once, always, no; an answer that comes after an abort does not count |
| `ToolReturns`, `ToolThrows` | `execute` resolving, or rejecting while the turn runs |
| `CancelBatch` | the three breaks an abort can take, with the rows made up for what was skipped |
| `CloseBatch` | the tool message, the weighing of the streak and the next iteration |
| `Abort`, `CycleMode` | the signal handler, and `/mode` during a turn |

A message (`Transcripts`) keeps its role, calls and rows; texts and arguments
are left out. A call is identified by its iteration and position, as the
provider's id does. `events` holds what the step yielded, in order, for the
consumer.

### Conversation, and the refinement

`Conversation` is what a run promises its consumers, with no batch, prompt,
tool or streak in it: the transcript grows by whole exchanges or by closing
words, is shortened by a compaction that keeps its newest part and does not cut
an exchange, and after a cancel takes in one exchange at most. The mapping is
in `AgentLoop`: `Complete` is the transcript without the open batch's assistant
message, `Standing` is going, cancelled or over. `ImplementsConversation` is
checked by `loop_gate` and proved in `AgentLoopProofs`.

### CliRun

Extends `AgentLoop` with the process around it. `StartRun` is `prepareSession`;
`DriveLoop` is one loop step with the body of `driveLoop`'s `for await` in the
same step, since the generator waits for it; `EndRun` is the end of the
archivist and of `driveLoop`; `Interrupt` is a Ctrl-C, which takes the cancel
slot or, if it is spent, kills; `Terminate` is a SIGTERM. `killedInBatch` and
`outcomes`, of the rows a run has collected, are history, read by properties
alone.

### SessionStore

`file` is "none yet" (`None`) or a header and lines, each with or without its
newline. `known` is the three tracking maps of `session.ts` for this session, in
each process. A save is two steps, `SaveStat` (up to and including the choice
between append, rewrite and nothing) and one of `SaveAppends`, `SaveRewrites`,
`SaveWritesNothing`, because another process can write in between; a kill
(`Killed`) or a failing write (`SaveThrows`) may stand in for the second. What
may go wrong is drawn in `Init` from `FaultSets`, so that one run looks at
several combinations.

### Provisioning

One account, any number of gateway requests (`Servers`) and portal renders
(`Portals`). The specification is `ClaimSpec`; `awaited` names the awaited call.
`claim` is the row of `provisioning_claims`; `customer`, `free` and `other` are
Polar's state. A call with a `timeoutMs` is given `left` ticks and time does not
pass beyond them; calls without one take as long as they like. One of those is
made under a claim, the gateway's WorkOS lookup (`fetchUserEmail`): a caller
that is still in it when the stale window has room for the Polar calls alone
(`LookupRoom`) is put into `late`, which is history, and goes on all the same.
`Punctual` are the creators that are not. A claim whose answer is lost is a claim
won by a request that then dies.

### Gateway and RateBucket

`Gateway` is `handlePost` of the chat completions route for the requests of one
account. `pc` names the awaited call, `stamp` is the `started_at` a request's
release closes over, `slot` the row of `active_requests`, `recorded` the
account's usage rows of the day and `forwarded` the calls made for them. The
conditional upsert of `claim_concurrency_slot` is one statement and so one step.
`Faults` says which of an errored claim, a failed release and a killed
invocation may happen. The buckets are a choice here (`Admit`, `Refuse`);
`RateBucket` (`BucketSpec`) is the database function behind them, with its three
statements apart, its row lock, two readings of the clock, first use and
rollback.

### Lease

What both rows are for, without ages, tokens or calls: one party at a time works
under a grant, which is taken when it is free or has lapsed, and which neither
lapses nor is given back while somebody works. The mappings stand at the end of
the two modules. In `Provisioning` (`Claim`) those at work are the callers that
create under a claim and were not late (`Punctual`), the grant is the row's token, and lapsed is
`Expired`; in `Gateway` (`Slot`) they are the requests that hold a slot and are
not done (`Holds`), its stamp, and `Stale`. A claim whose answer is lost is
`TakeUnheard`, a death is `Stop`.

### Account

One account's subscription at Polar, its `account_status` row and the portal's
forms. Polar is external: it keeps one active subscription at most and posts
one or two events for each change (`Changes`); an event, once posted, may be
handled at any time and again. `Upsert` is the webhook's unconditional write
(what costs, or is sold as paid); a zero-cost write is `InsertFree` and then
`UpdateFree`, two statements with others between them. A form (`Post`) reads
Polar (`ReadState`) and acts one await later (`Change`, `Cancel`, `Resume`,
`RevokeFree`, `OpenCheckout`) on what it saw, or answers without acting
(`Refuse`). `env` is what the `POLAR_PRODUCT_*` variables of both apps name,
which a `Redeploy` may change, so that a plan's label and its price disagree.

### Checkpoints

Sessions of one project over one shadow repository. A tree maps paths to
contents, a commit is the set of the trees it reaches, which is what becomes of
a tree when a ref moves or is deleted. A log is a sequence of records named by
their positions; `Targets` are the positions `/undo` counts. A tool call is
`CallTool` (which stages with `git add -A`, reuses the last tree for a command
that does not look destructive, or is not checkpointed), `Snapshot` or
`LatchOff`, then the tool (`WriteFile`, `ShellOrFailure`) and, for a write,
`LedgerRead` and `LedgerWrite`. `/undo` and `/restore` begin with a snapshot of
their own (`Undo` or `RestoreCommit`, `PreUndo`), plan (`Plan`), look again at
what they would delete (`Recheck`) and apply (`Apply`, which a file in use may
stop half way). Other processes, the user's editor (`Edit`) and kills (`Exit`)
come between any two git commands. `before`, `began` and `written` are history.

### Rewind

The other half of the store: positions in one transcript. The specification is
`RewindSpec`. `records` is the log; an anchor carries, as history, the messages
it was taken after, and is usable while no barrier follows it. `messages` is
what memory holds, `unsaved` what was dispatched and not yet seen by
`onSessionChange`, `saved` the file. `CallTool` may leave an anchor;
`LoopCompacts` cuts the transcript, resets the archivist's cursor and appends a
barrier before the new transcript is announced (`AnnounceCompacted`);
`DecideRewind`, the save it waits for (`Persist`) and `EndRewind` are three
steps. `EndTurn`, `Archived` and `NotArchived` are `maybeRunArchivist`. A failed
save or barrier (`PersistFails`, `BarrierFails`) sets `warned`, which is what
the user is told. A process may end anywhere (`Kill`), also where the log is
ahead of the file: after the record of a call that answers a new message and
before the effect that saves both, and after a rewind's save and before its
barrier. The anchors that then point past the end of the file are put into
`orphans`, which is history: no resume brings back what they were taken after,
nothing bars them, and the session grows over them again.

### Memory

The memory files, the staged writes and the temporary files, in several
processes. A call or command runs without yielding, so `proc` holds one place:
`LoadFile` reads and computes (`computeWrite`), `WriteTmp` writes the temporary
file and sweeps orphans, `Rename` lands it, `Unlink` removes the staged file.
Another process or a kill may come between any two. An entry is the set of the
words on its line, which is what `findMatches` and the cap look at. `decided`
and `overtaken` are history.

### Auth

`auth.json`, the refreshes that requests answered 401 share, and the device-flow
logins. A token is the login it descends from and the number of exchanges since;
the provider is external and exchanges each once. `Unauthorized` joins the
refresh in flight or starts one; `Exchanged`, `BeginSave`, `EndSave` are its
answer and the two halves of `writeFileSync` (truncated, then written), during
which its process does nothing else; `TimesOut` is the deadline of
`fetchWithTimeout`. `Login`, `CodeArrives`, `PollSucceeds`, `SaveLogin`,
`Dismiss` are an attempt of the terminal interface, whose number must still be
the newest to reach the screen. `lost` is history: an exchanged token that was
never saved.

### Tui, Screen, Panels

`Tui` is `runTui` and the closures it hands to `App`. Every dispatch changes
`live` at once; `Render` copies it to `rendered` some time later, and
`SessionEffect` saves what that render showed and settles the commands that
await a save. A turn (`SubmitTask`, `Announce`, `Stream`, `Report`, `Prompt`,
`Answer`, `EndTurn`), commands (`SubmitCommand`, `CommandReturns`), picks,
panels, Ctrl-C (`CtrlC`) and quitting (`Quit`, `Exit`, `End`) go on beside each
other; which of the box, a panel and the input has the keyboard is computed as
in `App.tsx`. A behaviour is one run of the interface, to its end.

`Screen` is the reducer's transcript part: entries counted in cells, rows by
wrapping, the offset from the bottom and the visible page. `Panels` is the
setup, configuration and permissions panels over files that other processes
write and damage.


## 4. Runs

Twelve runs, all passing. "States" are distinct states; each run takes between
some seconds and two or three minutes with two workers.

| run | module, cfg | instance | states |
|---|---|---|---|
| loop_gate | MCAgentLoop, `_gate` | two answers of up to two calls of an editable, a shell and an undefined tool, all modes, a window of one message | 981 000 |
| cli_run | MCCliRun | two processes, two answers each, Ctrl-C once and twice, SIGTERM | 590 000 |
| session | MCSessionStore | two processes, four messages, kills; kills and throws; concurrent writers | 1 106 000 |
| provisioning | MCProvisioning | two gateway requests and a portal render, calls of one tick, lookups of any length, a window of four | 404 000 |
| gateway | MCGateway | three requests, cap of two, window of two, every fault | 285 000 |
| rate_bucket | MCRateBucket | two callers, a bucket of two debits, six units of time | 512 000 |
| account | MCAccount | four changes at Polar, one form at a time, three deployments, one redeploy | 1 266 000 |
| checkpoint | MCCheckpoints | two sessions, two files, two contents, six calls, edits, restores and starts in all, failing git | 1 708 000 |
| rewind | MCRewind | seven messages, two rewinds, a compaction, kills anywhere and a resume | 2 886 000 |
| memory | MCMemory | two processes, one file of two words, two writes, one edit, one kill | 1 224 000 |
| auth | MCAuth | two requests in one process or two, two logins, a logout, a kill | 157 000 |
| tui | MCTui | four small instances: turns and commands, picks, reading, editing | 153 000 |

What they show:

- **loop_gate**: `ImplementsConversation`: every call gets its row, a cancel
  adds the open exchange and nothing after it, no compaction cuts an exchange.
  `DenialLimit`: denials in a row stop the run at the limit, also across
  batches, and a cancelled batch is none. `NothingNewAfterAbort`: an abort
  starts nothing and is never counted as a refusal. `NoWriteStartsReadOnly`:
  leaving a write mode in the middle of a batch takes effect on the very next
  call. `AbortEndsRun` (liveness).
- **cli_run**: `ResumableUnlessKilled`: what is on disk can be resumed unless a
  second Ctrl-C or a SIGTERM fell into a tool batch.
  `ExitZeroMeansAccomplished`: exit status 0 means that the model had the last
  word and that, if the user refused anything, something else did run, be its
  row still in the transcript or evicted by a compaction.
  `CancelEndsInSignal` (liveness).
- **session**: `SaveIsExact` where only kills happen; `NeverUnreadable` and
  `KillLosesNothingSaved` under all three sets of faults.
- **provisioning**: `ClaimIsALease`: of the callers whose lookup left the
  window room for their other calls one creates at a time, and no deletion or
  takeover robs it, whatever callers with a late lookup do beside it; and
  `NoLockOut` (liveness): claims left behind by the dead are taken over.
- **gateway**: `BoundedBurst`; `SlotIsALease`, the same of the slot, and
  `OneStream`; `SlotComesBack` (liveness).
- **rate_bucket**: `WindowBound`.
- **account**: `PaidSurvivesFree`: an active paid row changes only to what an
  event of a paid subscription says, however a free one's two statements fall
  around it and whatever the variables were. `FreshRowIsTrue`: the events of
  one change agree in whatever order they are handled. `PaidForIsKept`: no form
  takes away what was paid for, on any deployment, unless it acts on a plan
  another form has changed since it read (section 7).
- **checkpoint**: `NothingLostByRestore`, `OnlyOwnWritesRemoved` and
  `UndoOneGoesBack`, with sessions of two processes, kills and edits by hand.
- **rewind**: `AnchorsHold` and `RewoundIsPaired`, of all anchors but those that
  a kill left past the end of the file (section 7 says what becomes of these),
  and `NothingSkipped`; each unless a failed save or barrier was reported.
- **memory**: `LandsWhatItComputed` and `GoneMeansDecided`.
- **auth**: `NoTokenUsedTwice`, `SessionStaysUsable`, `DismissedNeverSaved`,
  and `WaitersGoOn` (liveness).
- **tui**: `NothingTakenBack` and `SavedHasAnswered` between the three copies
  of a session; `CheckpointsFollowTheSession`; `ReaderStays`: an answer that
  streams does not move the page a reader has scrolled to; `OwnEntryOnly`;
  `CommandsReturn` and `StopEnds` (liveness).

Every property of these runs has a mutant in `PROJECT.json`: a plausible bug in
a mapped definition that makes the property fail under the same configuration.
The mutated forms stand beside the definitions, marked as variants or plausible
bugs.

Some state formulas are in no run. The modules that have proofs keep a `TypeOK`,
the first conjunct of the proofs' invariants. `PairedBetweenBatches` and
`CompactionKeepsTheRecent`, which the refinement of `Conversation` contains in
other words, and `OnePunctualCreator` and `LostOnlyWhenStale`, which those of
`Lease` contain, are proved by themselves; `AppendsOnlyGrow` is what
`MCSessionStore_diskfull.cfg` refutes, `AtMostOneCreator` and `NoStaleAnchor`
what `MCProvisioning_lookup.cfg` and `MCRewind_killed.cfg` do.

### Bounds and why they are enough

Every bound is a constant that stands in a guard: `MaxIterations` is the code's
own option; all others named `Max...`, `Budget` and `Limits` are the models'.

- *loop*: two answers with two calls have every order of allow, block, ask,
  decline, unknown, fail and cancel within a batch and across two; the limit of
  two denials (three in the code) is reached within a batch, at its end and
  across batches. A window of one message, against twenty, lets the first
  exchange be evicted before the second answer, with a boundary that would fall
  on its rows.
- *cli*: the second process starts from whatever the first left behind, which
  is the only thing runs share.
- *session*: four messages are enough for an append of two after an append of
  one, a compaction or rewind of what was saved, and a third save on top.
- *provisioning, gateway*: a violation of exclusion needs two parties and a
  takeover a third. One tick per call and a window of four are the code's
  proportions (`POLAR_CALL_TIMEOUT_MS` is a quarter of `STALE_CLAIM_MS`); they
  leave a lookup one tick (`LookupRoom`), with nothing to spare. Three tokens
  are two that slow callers still hold and the row's. In `gateway` the window
  equals the longest request, again with nothing to spare; a cap of two and three requests have bursts of every size.
- *rate_bucket*: six units of time are three refills of a debit each, with
  windows opening anywhere.
- *account*: four changes are Free, an upgrade, a scheduled end and one more,
  such as its undoing; the events of all of them may come in any order and
  again. One form is enough for a stale read, since Polar's own changes and a
  redeploy come between its read and its act; two forms at once are the
  exception named in `Outdated`. The three deployments are a complete one, one
  that misses a variable, and one whose free product costs.
- *checkpoint*: a lost tree needs a snapshot, a change and a restore of another
  session's or an older tree; six events hold two of each. `MaxRetained` is
  nought, against twenty, so that pruning happens at the second session.
- *rewind*: seven messages are two exchanges with a summary and a task between;
  a stale anchor or cursor needs one rewrite of the transcript after it was
  taken, and there may be three.
- *memory*: two words fill the cap; a lost write needs two processes on one
  file, a lost staged write one kill.
- *auth*: two requests race for one refresh within a process, and two processes
  for one token; two logins are one that is dismissed and one after it.
- *tui*: the record `limit`, drawn in `Init`, says which part of the interface
  a behaviour exercises: `Turns` has two sessions, a rewind and two commands at
  once beside a turn; `Picking` two models and the picker; `Reading` three
  lines, an answer of three cells and pages of two sizes in both directions;
  `Editing` the three panels over one or two rows each, written by others. The
  parts share only the keyboard's precedence and the run's end, which all four
  have.

Symmetry (of processes, contents, paths, tokens or callers, as the `MC` modules
define) is used where a configuration says so, and never where liveness is
checked. Deadlock is checked except where the environment may stop for good:
`CHECK_DEADLOCK FALSE` in `checkpoint`, `rewind`, `memory`, `auth` and `tui`,
whose bounded processes may all have ended.

### Fairness, and why the code justifies it

- `AgentLoop`: weak fairness of `Settles`. Code not parked at an await runs
  (the event loop), and every await the abort signal was handed to settles once
  it is aborted: the model stream, the summary, the prompt and the tools all
  get the signal. Nothing obliges a model, a tool or a user to answer
  otherwise, and nothing does in the model.
- `CliRun`: the same, and that an aborted archivist returns, being handed the
  same signal.
- `Provisioning` and `Gateway`: weak fairness of `Tick`, and per request of
  `Settle \/ Die`: a handler goes on or the platform ends it. Weak fairness of
  the disjunction obliges neither branch.
- `Auth`: weak fairness of `TimesOut \/ EndSave` and of `SaveLogin`: a timer
  that was armed fires and a synchronous write ends. No answer of the provider
  is owed.
- `Tui`: weak fairness of `Render` and `SessionEffect` (React renders what was
  dispatched and runs its effects) and, per command, of `CommandReturns` (a
  settled promise is gone on with); and that a cancelled turn which waits for
  nobody ends, which is `AgentLoop`'s `AbortEndsRun`. No user and no model is
  obliged to anything.


## 5. What is proved

Every safety and action property of the runs but one is a theorem, for any
number of processes, requests, callers, files and messages. The theorems assume
what the modules assume of their constants (section 6) and, where the table says
so, one of four hypotheses:

- `MarginHolds` (`Gateway`): what is done under a slot is over before it goes
  stale.
- `LadderHolds` (`Account`): the paid plans' prices at Polar are in the order of
  the ladder in the code, on every deployment.
- `Apart` (`Checkpoints`): git commands of two processes do not come between
  each other's.
- `Calm` (`SessionStore`), of every set of faults: no torn append loses just its
  newline, and where another process may write between a save's stat and its
  write nothing is torn.

The configurations of the runs satisfy all four; section 7 says what happens
where one does not hold.

| module | theorem | says |
|---|---|---|
| AgentLoopProofs | `TypeCorrect` | `Spec => []TypeOK` |
| | `TranscriptPaired` | `Spec => []PairedBetweenBatches` |
| | `DenialsEndTheRun` | `Spec => []DenialLimit` |
| | `AbortIsFinal` | `Spec => NothingNewAfterAbort` |
| | `ReadOnlyHolds` | `Spec => NoWriteStartsReadOnly` |
| | `RecentMessagesSurvive` | `Spec => CompactionKeepsTheRecent` |
| | `Implements` | `Spec => ImplementsConversation` |
| | `SessionsResume` | `CliSpec => []ResumableUnlessKilled` |
| | `StatusTellsTheTruth` | `CliSpec => []ExitZeroMeansAccomplished` |
| SessionProofs | `SavesAreExact` | `Spec => []SaveIsExact` |
| | `AlwaysLoads` | with `Calm`: `Spec => []NeverUnreadable` |
| | `KillsLoseNothing` | with `Calm`: `Spec => KillLosesNothingSaved` |
| | `RewindsToItsPlace` | `RewindSpec => []AnchorsHold` |
| | `RewindKeepsPairs` | `RewindSpec => RewoundIsPaired` |
| | `ArchivistSkipsNothing` | `RewindSpec => []NothingSkipped` |
| CheckpointsProofs | `RestoreLosesNothing` | with `Apart`: `NothingLostByRestore` |
| | `RestoreRemovesOwn` | with `Apart`: `OnlyOwnWritesRemoved` |
| | `UndoGoesBack` | with `Apart`: `[]UndoOneGoesBack` |
| MemoryProofs | `WriteLands` | `Spec => LandsWhatItComputed` |
| | `StagedUntilDecided` | `Spec => []GoneMeansDecided` |
| AuthProofs | `TokensOfferedOnce` | `Spec => []NoTokenUsedTwice` |
| | `SessionUsable` | `Spec => []SessionStaysUsable` |
| | `DismissedStaysOut` | `Spec => []DismissedNeverSaved` |
| TuiProofs | `BothAreKept` | `Spec => []NothingTakenBack` |
| | `OnlyAnsweredIsSaved` | `Spec => []SavedHasAnswered` |
| | `TurnsAreBound` | `Spec => []CheckpointsFollowTheSession` |
| | `PanelsKeepToTheirEntry` | `Spec => OwnEntryOnly` |
| AccountProofs | `TypeCorrect` | `Spec => []TypeOK` |
| | `RowIsTrue` | `Spec => []FreshRowIsTrue` |
| | `PaidSurvives` | `Spec => PaidSurvivesFree` |
| | `PaidIsKept` | with `LadderHolds`: `Spec => PaidForIsKept` |
| | `ClaimTypeCorrect`, `ClaimBars` | types, and `ClaimSpec => []OnePunctualCreator` |
| | `ClaimLeases` | `ClaimSpec => ClaimIsALease` |
| GatewayProofs | `TypeCorrect` | `Spec => []TypeOK` |
| | `BurstIsBounded` | `Spec => []BoundedBurst`, for Free and paid plans |
| | `SlotsAreKept` | `Spec => LostOnlyWhenStale`, without the margin |
| | `SlotBars` | with `MarginHolds`: `Spec => []OneStream` |
| | `SlotLeases` | with `MarginHolds`: `Spec => SlotIsALease` |
| | `BucketTypeCorrect`, `WindowsAreBounded` | types, and `BucketSpec => []WindowBound` |

The arguments:

- **AgentLoop.** Pairing is not inductive. While a batch is open the transcript
  is a paired one followed by the assistant message of that batch
  (`OpenBatch`), and the rows so far answer its first calls in order
  (`RowsFollowCalls`); then the tool message that closes the batch, complete or
  cancelled, answers that message. A compaction keeps pairing because the
  boundary never stands before a tool message (`BoundaryIsSafe`), which on a
  paired transcript is at most one message off. The denial limit needs that a
  batch closed for denials has no cancelled rows; silence after an abort is
  read off the guards. That no write starts under read-only needs that
  nobody is asked under it and that the mode cannot be changed while a prompt is
  up (`AskedInWriteMode`).
- **The refinement.** A step inside a batch changes neither the transcript nor
  the abort signal, so it is a stutter (`BatchStepHidden`). Opening a batch
  adds a message that `Complete` takes off again (`OpenBatchHidden`). Closing
  one, cancelled or not, adds two messages to `Complete` of which the second
  answers the first: that is `RowsFollowCalls` with `ClosedRows` or `results`
  for all calls (`ClosingIsExchange`). A compaction is `Compact` by what is
  proved of the boundary.
- **Provisioning.** Two punctual creators are excluded because the claim of
  each *is* the row's (`claim.token = token[c]`), and tokens are distinct. The
  row stays its own because it is young: its age and the time left for the
  pending call add up to no more than all calls made so far may take (`Budget`),
  and `LookupRoom` and three calls are the window. Of a late creator only its
  token is known, which is nobody else's: it deletes no successor's row.
- **Gateway.** A request passes the count only while there are fewer rows than
  the cap, and those between the count and their row (`Pending`) are at most
  all others; rows and pending requests together never exceed the cap by more
  than that. The slot is as in `Provisioning`, with `age + left <= HoldLimit`.
- **The leases.** By the same invariants. A claim or slot that can be taken finds
  nobody at work, since who works keeps it young; a row that is deleted is its
  deleter's own, who no longer works, and so nobody does; and time stops short
  of the window while somebody works, so it lapses under nobody. The tick that
  makes a lookup late is a `Stop`, long before the claim lapses. That a row
  without a token has no age (`NoRowNoAge`, `Empty`) is what makes the removal of
  nothing a stutter.
- **CliRun.** While no batch is open what was saved is paired, since the loop
  announces at every place where a batch closes (`ClosingAnnounces`) and does
  not go on until it is saved; a process is dead in a batch only if
  `killedInBatch`. For the exit status, the outcomes a run collects, the flags
  `driveLoop` derives from the events it sees and the tools that ran agree at
  every event (`Judged`), unless the run was aborted, which is never status 0.
- **RateBucket.** The bucket's worth - what a caller would read now - pays for
  what is admitted. It is at most `Capacity` when a window opens, grows by
  `Rate` a tick and falls by `Cost` a debit, since the caller that holds the
  lock found in it at most what is still there when it writes.

- **SessionStore.** A torn line is the last of the file and never in anything a
  process tracks, because whoever finds one tracks nothing and rewrites
  (`Sound`). So an append goes to a whole file and what it leaves is whole but
  for its end. That a save is exact (`Exact`) needs besides that what is tracked
  is what the transcript begins with: between two saves a transcript grows, or
  becomes shorter than what was tracked (`Changes`), and the latter is rewritten.
- **Rewind.** Only anchors behind the last barrier count (`Usable`). Each holds
  the length of a paired transcript (`Anchored`) which, if it is no orphan, the
  interface's transcript, those still to be saved and the file all begin with
  (`InPlace`), but for two gaps: from a call's record to its save (`Opening`),
  and from a rewind to its barrier (`Cut`), when no message is added and no
  rewind begins. In the gaps too, file and unsaved transcripts either begin with
  it or end before it (`Fitting`), so that a kill orphans every anchor the file
  does not have; for a new anchor that is because the file is at most behind the
  interface (`Behind`). The cursor stays within the transcript (`WithinBounds`).
- **Checkpoints.** A restore's first tree is still in the index when it becomes a
  commit, and refs only grow while their session is open (`Kept`). A ledger
  entry, read or about to be written, is content `write_file` wrote to that path
  (`AsWritten`, `Vouches`); races lose entries and invent none. `/undo 1` goes
  back by one snapshotted tool call, not by one prompt: to the newest record of
  the newest tree, which is that of the newest call because a tree is only reused by a process that has made a snapshot since it
  started and since its last restore (`Undoable`).
- **Memory.** A temporary file is its writer's own, since its name holds the pid
  and the sweep takes those of dead processes only (`OwnTmp`); what is computed
  still follows from the file unless another write landed (`Fresh`).
- **Auth.** Both properties of tokens follow from one fact about the newest
  exchange of a login (`Newest`): while its answer is under way the file and all
  other requests have older tokens, so only a refresh of another process can be
  refused. A login that may still be dismissed has left no trace (`Traceless`):
  nothing was exchanged for it, and neither the file nor a refresh has it.
- **Tui.** A session that is not bound is owed to a command under way, which
  began on another (`Owes`, `Bound`); a turn begun with no command under way has
  no such command beside it (`Alone`). A panel's pending answer finds it where
  it was left (`Verifying`).
- **Account.** All that tells of Polar's newest change, in events, half-done
  writes and the row, agrees with the subscription (`Agreed`). What was paid for
  is kept because a subscription of no cost is as it was created (`Untouched`),
  so that what a checkout found free still is (`StillFree`); a paid one is only
  ever switched upwards, which is where the ladder comes in.

### Checked but not proved

- Liveness (`AbortEndsRun`, `CancelEndsInSignal`, `NoLockOut`, `SlotComesBack`,
  `WaitersGoOn`, `CommandsReturn`, `StopEnds`): fairness and `ENABLED` are beyond
  the prover.
- `ReaderStays`: the rows of the page are a fold over the entries
  (`VisualRows`, `RowsFrom`), and what a fold gives for every sequence needs
  induction over data, which the installed provers cannot do. The same stands in
  the way of the size `Memory`'s cap looks at.

No module declares a `RECURSIVE` operator.


## 6. What is assumed

Of the gateway and the portal:

- One database clock; statements on one row are atomic; tokens and stamps are
  unique (UUIDs, and `clock_timestamp` at microseconds).
- Supabase round trips take no time in `Provisioning`: a call made under the
  claim starts when the previous one has settled. The code leaves a quarter of
  the window for them.
- The longest a gateway request serves is at most `CONCURRENCY_STALE_SECONDS`.
  The migration asks for it ("must sit comfortably above realistic max stream
  duration"); no `maxDuration` in the route or in `vercel.json` states it.
- An RPC that errors may have been carried out.
- Inserting the usage row and calling OpenRouter is one step: a midnight that
  falls between them is not told apart.
- Paid plans cost at Polar what the ladder says (`LadderHolds`); the code never
  compares the two.
- Tokens of a bucket are integers; the rounding of `numeric(18,8)` is left out.
- In `Account`, creating Free is one step (`Provisioning` has it in detail), an
  event is never used up, a request finishes under the deployment that took it,
  and `ultra` differs from `max` in nothing.

Of the client:

- A header line of a session is whole, since only a rename writes it; two
  different files of equal size are not told apart (sizes are compared as
  contents).
- `SessionStore`: kills and another process's writes within a save are looked
  into apart, not together (section 7).
- `Checkpoints`: between a restore's last look and its checkout, and between a
  write and its reading back for the ledger, the files stand still for editors,
  shell commands and other sessions' checkouts (`Unapplied`, `Unread`,
  `Unwatched`); two processes do not work on the shared index at once unless
  `"index"` is among the faults; a session another process has open is not
  pruned. Section 7 says what becomes of each when it is not so.
- `Rewind` has one process of a session at a time. Its kills are anywhere; what
  `AnchorsHold` and `RewoundIsPaired` leave out are the anchors in `orphans`.
- `Memory` and `Auth` write files that can be written: a full disk is looked
  into in `SessionStore` alone.
- `Memory`: the patterns of the injection scan are one predicate on words, and
  a line counts one character a word.
- `Auth`: a request answered otherwise than by a 401 changes nothing; a start
  signed out is one of the states a logout leads to.
- The names for "none" (`None`, `NoSub`, `NoModel`, `NoCaller` and the like) are
  none of the values (`NoneIsNone`, `AccountAssumption`, `TuiNames`,
  `RowNames`).
- `Tui`: the read-modify-write of `config.json` and `permissions.yaml` is
  atomic against other processes; other processes write only while a panel
  over the files is open (a bound); a resize is its effect's dispatch, the
  frame in between being left out; two permission modes stand for three; a
  refused command's own line is left out.


## 7. Disagreements found

### With a configuration that shows it

Six configurations are no runs of the project, since TLC ends them with a
violation of the named property; the counterexample is the run's output.

| module, cfg | property | what happens |
|---|---|---|
| MCProvisioning, `_duplicate` | `OneFreeSubscription` | A request reads "no subscription", another claims, creates and releases, then the first claims and creates again: `entitlement.ts` never reads again under the claim, although its line 218 and `provisioningClaim.ts` line 119 speak of one creation. |
| MCProvisioning, `_lookup` | `AtMostOneCreator` | The WorkOS lookup under the claim has no time limit (`workosUser.ts` line 15); when it outlasts the window, two requests create, although `provisioningClaim.ts` lines 29 and 36 call it a guarantee that a stale claim's calls have settled. |
| MCRewind, `_killed` | `NoStaleAnchor` | A process is killed after a call's record is appended and before the effect that saves the call (`cli.ts` line 2014), or after a rewind's save and before its barrier (`checkpoint.ts` line 779). The log keeps anchors past the end of the file; the resumed session grows over them and a later `/rewind` takes them, to a place that is not the one they name and may be between a call and its rows. |
| MCSessionStore, `_newline` | `NeverUnreadable` | A torn append that loses only its newline leaves a line that parses; the next append joins it and the session never loads again (`session.ts` line 153). |
| MCSessionStore, `_diskfull` | `AppendsOnlyGrow` | After a save that threw, a compaction is taken for an append or for no change, and the file keeps the old transcript (`session.ts` line 107, `cli.ts` line 2031). |
| MCGateway, `_orphan` | `SlotsAreHeld` | A slot claim whose answer is lost is treated as not made (`rateLimit.ts` line 98, against the comment at 192); the account's other requests are refused until the slot is stale. |

### Met while modelling

Each is kept out of the models by an assumption of section 6 or by a clause of
the property that says so.

Provisioning and runs: `provisioningClaim.ts` line 44 speaks of two calls and
half the window, but a failed `customers.create` is followed by a re-read, which
makes it three calls and three quarters (`LookupRoom` counts all three, and the
proof needs no more). Two processes that resume one session may both pass the
stat of a save; killed half way, one leaves a torn line which the other appends
to, and the session never loads again (`session.ts` lines 97-153): the proof of
`AlwaysLoads` fails there, and `Calm` leaves it out. A second Ctrl-C during a
tool batch leaves an unpaired transcript on disk, which is why
`ResumableUnlessKilled` has its exception.

Checkpoints and rewind:

- Two processes of one project share the shadow repository's index
  (`checkpoint.ts` line 655); overlapping, one commits what the other staged and
  a restore can lose work. `MCCheckpoints`' `Overlapping` is that fault set.
- A session open in another process but outside the twenty newest can be pruned;
  `seri --resume <id> /undo` beside a live terminal interface leaves that one's
  checkpointer as it was.
- An edit between a write and its reading back for the ledger is vouched for as
  seri's own (lines 519-531), and so is another session's restore that falls
  there, which the proof of `RestoreRemovesOwn` met; what a restore left alone
  because it is ignored is not reported (line 617).
- When the save or the barrier of a `/rewind` fails, `resetArchivistForRewind` is
  skipped too; the user is told of the failure only.
- `awaitNextPersist` can be settled by the effect of an earlier render.
- The archivist's cursor starts behind a task given on the command line
  (`cli.ts` line 1268, `archivist.ts` line 66), which it therefore never reads.

Memory:

- Approving while another process rejects applies the write and then reports a
  failure (`pending.ts` lines 225-232); a kill between landing and unlinking
  makes a second approval apply the write again.
- Two processes' writes overlap without a lock and one entry is lost: the
  exception in `LandsWhatItComputed`.
- A file edited by hand beyond the cap refuses every replacement that does not
  bring it below at once (`store.ts` lines 190-196).

Authentication: a logout while a refresh is under way is undone by its save
(`refresh.ts` line 138, `handlers.ts` lines 258-261); the plan shown stays that
of the account that logged out (`cli.ts` lines 2573-2596).

Portal and webhooks:

- "Keep pro", read before another tab's upgrade to max, takes the plan down at
  once and invoices it (`billing.ts` line 217): `Outdated` in `PaidForIsKept`.
- Cancelling a subscription that is already scheduled to end is answered 403 by
  Polar and reported as "already ended" (lines 97 and 263-278, against the
  comments at 66-70 and 178-183).
- Of a past-due subscription being cancelled one event writes "canceled", the
  other "past_due" (`route.ts` lines 112-113); `FreshRowIsTrue` only tells
  active rows from others.
- A late "updated" of a paid subscription handled after its "revoked" revives
  an ended plan (line 137): `FreshRowIsTrue` is about the newest change's
  events.

Terminal interface and configuration:

- A task submitted while a `/clear` waits for its save runs on the old
  checkpointer and archivist, and the clear then wipes what it streams: `alone`
  in `CheckpointsFollowTheSession`.
- A reader scrolled to rows of the answer that is still streaming is shifted
  when a command's echo is put before them (`reducer.ts` lines 586-622):
  `ReaderStays` is about committed rows.
- An approval box that appears while the user types unmounts the input; what was
  typed is lost and the next keys answer the box.
- `/setup` and its remove say "Removed" also when another process already had.
- A tool allowed "always" is asked about again in the next turn, as the grants
  are read once per process (`cli.ts` line 1348); two writers of
  `permissions.yaml` can lose a grant (`store.ts` line 201).


## 8. What is not modelled, and why

- **Subagents.** A child is a run of `AgentLoop` without a prompt
  (`HasApprovalPrompt = FALSE`); the order of readers and writers in a dispatch
  is left to the plan.
- **Child processes of tools.** Close, timeout and abort race for one child
  inside one await of the loop; which wins decides the text of a row.
- **Verification after writes.** Advice appended to a tool's text.
- **File tools.** String algorithms over unbounded text; their effect on files
  is a step of `Checkpoints`.
- **Providers, routing, cost, catalog.** Pure lookups and adapters of third
  parties; the failures they pass on are `StreamFails`.
- **Of modelled parts**: identity, pricing and the later update of a usage row
  (`Gateway`), which no other request looks at; signature checks and the status
  route (`Account`); the choice of the session to resume (`SessionStore`);
  ignored paths and size limits (`Checkpoints`); opening a browser and the
  banner (`Auth`); the guided first setup, the splash screen, colours and layout
  (`Tui`); the one-shot subcommands of `cli.ts`; the two tiers of
  `permissions.yaml`; paths and profiles, which are string building.
- **Output, web sites, shared components** keep no state.
