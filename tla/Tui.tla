-------------------------------- MODULE Tui ---------------------------------
(***************************************************************************)
(* A run of the terminal interface: runTui and the closures it hands to    *)
(* the App component (apps/cli/src/cli.ts, tui/App.tsx, tui/reducer.ts).   *)
(*                                                                         *)
(* Every dispatch takes a copy of the reducer's state kept by the closures *)
(* to the next one at once; React renders its own copy later, and later    *)
(* still an effect of that render saves the session and settles the        *)
(* commands that await a save.  A turn, the commands, the panels, the      *)
(* approval box, Ctrl-C and quitting go on beside each other.              *)
(*                                                                         *)
(* A transcript is the number of times it has been replaced.               *)
(***************************************************************************)
EXTENDS Screen, Panels, FiniteSets

CONSTANTS
    Models,         \* what a session can be set to, and be routed to
    NoModel,
    Commands,       \* places for the commands that are under way at once
    Limits          \* bounds: a run keeps to one of these records

ASSUME TuiNames == NoModel \notin Models
ASSUME LimitsAreBounds == \A l \in Limits :
    /\ {l.sessions, l.versions, l.entries, l.streaming} \subseteq Nat
    /\ l.sessions > 0 /\ l.models \subseteq Models /\ l.models # {}

VARIABLES
    limit,      \* the bounds of this run
    live,       \* liveState.session: id, mode, model and transcript
    rendered,   \* the session of React's last render
    stale,      \* a session has been dispatched since
    due,        \* that render's effect has not run
    disk,       \* the model in the session file written last
    default,    \* the model in config.json
    confirmed,  \* confirmedModel
    persisted,  \* lastPersistedModel
    turn,       \* the turn in flight
    box,        \* pendingApproval and its resolver
    command,    \* [Commands -> what is under way there]
    bound,      \* the session of prepared.checkpointer, prepared.tools, archivistState
    quitting,
    over,       \* the run has ended
    screen,     \* what the reducer keeps of the transcript
    history     \* ghost: what the user chose, which models have answered, a failed rebind

vars == <<limit, live, rendered, stale, due, disk, default, confirmed, persisted, turn,
          box, command, bound, quitting, over, screen, history, panelVars>>
sessionVars == <<live, rendered, stale, due, disk, default, confirmed, persisted>>

Sessions == 1..limit.sessions
NoTurn == [phase |-> "idle", id |-> 0, model |-> NoModel, version |-> 0, bound |-> 0,
           aborted |-> FALSE, tried |-> FALSE, alone |-> FALSE]
NoCommand == [what |-> "none", at |-> "none", before |-> 0]

InFlight == turn.phase # "idle"
Running == ~over

\* The render ternary: the approval box over the panels over the input box.
BoxHasKeyboard == Running /\ box
PanelHasKeyboard == Running /\ ~box /\ panel # NoPanel
InputHasKeyboard == Running /\ ~box /\ panel = NoPanel

Init ==
    /\ limit \in Limits
    /\ \E m \in limit.models, start \in limit.models :
          /\ live = [id |-> 1, mode |-> "approve-each", model |-> m, version |-> 0]
          /\ confirmed = start /\ persisted = start
          /\ history = [mode |-> "approve-each", model |-> m, worked |-> {start},
                        unbound |-> FALSE]
    /\ rendered = live /\ stale = FALSE /\ due = FALSE
    /\ disk = NoModel /\ default = NoModel
    /\ turn = NoTurn /\ box = FALSE /\ bound = 1
    /\ command = [c \in Commands |-> NoCommand]
    /\ quitting = FALSE /\ over = FALSE
    /\ \E w \in limit.widths, h \in limit.heights : screen = InitialScreen(w, h)
    /\ PanelsInit

-----------------------------------------------------------------------------
(* Dispatching, rendering and saving.                                      *)

\* The session the closures read.  A plausible bug: the one last rendered.
LiveSession_Rendered == rendered

LiveSession == live

Dispatch(session) == live' = session /\ stale' = TRUE

\* A run that is not about the screen does not keep what is drawn.
Draw(s) == screen' = IF limit.entries = 0 THEN screen ELSE s
MayDraw == limit.entries = 0 \/ Len(screen.transcript) < limit.entries

Render ==
    /\ Running /\ stale /\ ~due
    /\ rendered' = live /\ stale' = FALSE /\ due' = TRUE
    /\ UNCHANGED <<limit, live, disk, default, confirmed, persisted, turn, box, command,
                   bound, quitting, over, screen, history, panelVars>>

\* The model saved with a session.  A plausible bug: the one it asks for.
PersistedModel_Requested == rendered.model

PersistedModel == confirmed

Settled(at) ==
    [c \in Commands |-> IF command[c].at = "waiting" THEN [command[c] EXCEPT !.at = at]
                        ELSE command[c]]

Save ==
    /\ disk' = PersistedModel
    /\ command' = Settled("saved")

\* A plausible bug: whoever awaits the save is not told.
SaveFails_Silent == UNCHANGED <<disk, command>>

SaveFails == command' = Settled("failed") /\ UNCHANGED disk

\* onSessionChange, the effect of the last render.
SessionEffect ==
    /\ Running /\ due /\ due' = FALSE
    /\ Save \/ SaveFails
    /\ UNCHANGED <<limit, live, rendered, stale, default, confirmed, persisted, turn, box,
                   bound, quitting, over, screen, history, panelVars>>

-----------------------------------------------------------------------------
(* Turns.                                                                  *)

\* onSubmit of a task: echoed, and run unless a turn is in flight or no route is found;
\* that needs a config.json that can be read.
SubmitTask ==
    /\ InputHasKeyboard /\ MayDraw
    /\ Draw(Echo(screen, 1))
    /\ \/ /\ ~InFlight /\ ~Damaged("setup")
          /\ \E m \in limit.models :
                turn' = [phase |-> "running", id |-> LiveSession.id, model |-> m,
                         version |-> LiveSession.version, bound |-> bound,
                         aborted |-> FALSE, tried |-> FALSE,
                         alone |-> \A c \in Commands : command[c] = NoCommand]
       \/ UNCHANGED turn
    /\ UNCHANGED <<limit, sessionVars, box, command, bound, quitting, over, history, panelVars>>

\* A messages-updated joins the session the reducer holds.
Merged(version) == [live EXCEPT !.version = version]

\* The default model is written once a turn, if it is another, and again by a later turn
\* if that failed.
PersistDefault ==
    \/ /\ ~turn.tried /\ persisted # turn.model /\ ~Damaged("setup")
       /\ default' = turn.model /\ persisted' = turn.model
    \/ UNCHANGED <<default, persisted>>

\* The loop announces its transcript: a model has answered.
Announce ==
    /\ Running /\ turn.phase = "running" /\ live.version < limit.versions
    /\ Dispatch(Merged(live.version + 1))
    /\ confirmed' = turn.model
    /\ PersistDefault
    /\ turn' = [turn EXCEPT !.version = live.version + 1,
                            !.tried = @ \/ persisted # turn.model]
    /\ history' = [history EXCEPT !.worked = @ \cup {turn.model}]
    /\ UNCHANGED <<limit, rendered, due, disk, box, command, bound, quitting, over, screen,
                   panelVars>>

\* A text-delta.
Stream ==
    /\ Running /\ turn.phase = "running" /\ screen.streaming < limit.streaming
    /\ Draw(TextDelta(screen, 2))
    /\ UNCHANGED <<limit, sessionVars, turn, box, command, bound, quitting, over, history,
                   panelVars>>

\* A tool's call or result, a notice, an error.
Report ==
    /\ Running /\ turn.phase = "running" /\ limit.entries > 0 /\ MayDraw
    /\ \E cells \in {1, 3} : Draw(PushLine(screen, cells))
    /\ UNCHANGED <<limit, sessionVars, turn, box, command, bound, quitting, over, history,
                   panelVars>>

\* tuiApprovalPrompt: a turn that has been cancelled does not prompt.
Prompt ==
    /\ Running /\ turn.phase = "running" /\ ~turn.aborted
    /\ turn' = [turn EXCEPT !.phase = "asking"] /\ box' = TRUE
    /\ UNCHANGED <<limit, sessionVars, command, bound, quitting, over, screen, history,
                   panelVars>>

Answer ==
    /\ BoxHasKeyboard
    /\ turn' = [turn EXCEPT !.phase = "running"] /\ box' = FALSE
    /\ UNCHANGED <<limit, sessionVars, command, bound, quitting, over, screen, history,
                   panelVars>>

\* The loop returns.
EndTurn ==
    /\ Running /\ turn.phase = "running" /\ ~quitting
    /\ turn' = NoTurn
    /\ Draw(PushLine(screen, 1))
    /\ UNCHANGED <<limit, sessionVars, box, command, bound, quitting, over, history, panelVars>>

-----------------------------------------------------------------------------
(* Ctrl-C and quitting.                                                    *)

\* What the cancel does to the prompt.  A plausible bug: nothing listens.
OnAbort_Unheard == turn' = [turn EXCEPT !.aborted = TRUE] /\ UNCHANGED box

OnAbort == turn' = [turn EXCEPT !.aborted = TRUE, !.phase = "running"] /\ box' = FALSE

\* deliverSignal: one turn takes one cancel.
Deliver == InFlight /\ ~turn.aborted /\ OnAbort

\* Ctrl-C, in a turn.
CtrlC ==
    /\ Running
    /\ Deliver
    /\ UNCHANGED <<limit, sessionVars, command, bound, quitting, over, screen, history, panelVars>>

\* /exit, or Ctrl-D on the input box or the approval box, in a turn.
Quit ==
    /\ InputHasKeyboard \/ BoxHasKeyboard
    /\ ~quitting /\ quitting' = TRUE
    /\ Deliver
    /\ UNCHANGED <<limit, sessionVars, command, bound, over, screen, history, panelVars>>

\* What a process keeps for itself is gone with it.
Gone ==
    /\ over' = TRUE
    /\ live' = [id |-> 1, mode |-> "approve-each", model |-> confirmed, version |-> 0]
    /\ rendered' = live' /\ stale' = FALSE /\ due' = FALSE
    /\ turn' = NoTurn /\ box' = FALSE /\ bound' = 1 /\ quitting' = FALSE
    /\ command' = [c \in Commands |-> NoCommand]
    /\ screen' = InitialScreen(screen.columns, screen.rows)
    /\ history' = [history EXCEPT !.mode = "approve-each", !.model = confirmed]
    /\ panel' = NoPanel /\ verifying' = NoRow
    /\ UNCHANGED <<limit, disk, default, confirmed, persisted, entries, damaged>>

\* The turn the user quit in has ended.
Exit == Running /\ quitting /\ turn.phase = "running" /\ Gone

\* Quitting, or Ctrl-C, while no turn takes it; a loop that throws.
End == Running /\ (~InFlight \/ turn.aborted \/ turn.phase = "running") /\ Gone

-----------------------------------------------------------------------------
(* Commands.                                                               *)

\* mutatesRunState.
Refused(what) == what # "mode" /\ InFlight

\* Two modes stand for the three that cycleMode goes round.
OtherMode(mode) == IF mode = "auto" THEN "approve-each" ELSE "auto"

\* decideModeCycle, decideRewind and decideClear.
Decided(what) ==
    CASE what = "mode" -> [LiveSession EXCEPT !.mode = OtherMode(@)]
      [] what = "rewind" -> [LiveSession EXCEPT !.version = @ + 1]
      [] what = "clear" -> [LiveSession EXCEPT !.id = @ + 1, !.version = 0]

InLimits(session) == session.id \in Sessions /\ session.version <= limit.versions

\* onSubmit of a command that changes the session, up to its wait for the save.
SubmitCommand(c, what) ==
    /\ InputHasKeyboard /\ command[c] = NoCommand /\ what \in limit.commands /\ MayDraw
    /\ ~Refused(what) /\ InLimits(Decided(what))
    /\ Dispatch(Decided(what))
    /\ command' = [command EXCEPT ![c] = [what |-> what, at |-> "waiting", before |-> live.id]]
    /\ history' = IF what = "mode" THEN [history EXCEPT !.mode = OtherMode(@)] ELSE history
    /\ Draw(Echo(screen, 1))
    /\ UNCHANGED <<limit, rendered, due, disk, default, confirmed, persisted, turn, box, bound,
                   quitting, over, panelVars>>

\* bindSession, when the session is another now; it may throw.  A plausible bug: only
\* after a command that succeeded.
Rebinds_IfSaved(c) == live.id # command[c].before /\ command[c].at = "saved"

Rebinds(c) == live.id # command[c].before

Rebind(c) ==
    \/ Rebinds(c) /\ bound' = live.id /\ history' = [history EXCEPT !.unbound = FALSE]
    \/ Rebinds(c) /\ UNCHANGED bound /\ history' = [history EXCEPT !.unbound = TRUE]
    \/ ~Rebinds(c) /\ UNCHANGED <<bound, history>>

\* The command goes on after the save, or its failure; then onSubmit's finally.
CommandReturns(c) ==
    /\ Running /\ c \in Commands /\ command[c].at \in {"saved", "failed"}
    /\ command' = [command EXCEPT ![c] = NoCommand]
    /\ LET said == IF command[c].what = "clear" THEN Cleared(screen) ELSE screen IN
       Draw(IF command[c].at = "saved" THEN PushLine(said, 1) ELSE screen)
    /\ Rebind(c)
    /\ UNCHANGED <<limit, sessionVars, turn, box, quitting, over, panelVars>>

-----------------------------------------------------------------------------
(* Panels and the picker.                                                  *)

Opens(kind) ==
    /\ InputHasKeyboard /\ kind \in limit.panels /\ OpenPanel(kind)
    /\ UNCHANGED <<limit, sessionVars, turn, box, command, bound, quitting, over, screen, history>>

Keystroke ==
    /\ PanelHasKeyboard /\ PanelKey
    /\ UNCHANGED <<limit, sessionVars, turn, box, command, bound, quitting, over, screen, history>>

Verdict ==
    /\ Running
    /\ KeyAccepted \/ KeyRefused
    /\ UNCHANGED <<limit, sessionVars, turn, box, command, bound, quitting, over, screen, history>>

\* Bound: the files change while a panel over them is open.
FilesChange ==
    /\ Running /\ panel.kind \in {"setup", "config", "permissions"} /\ Elsewhere
    /\ UNCHANGED <<limit, sessionVars, turn, box, command, bound, quitting, over, screen, history>>

\* A pick is what the next turn asks for, and no more until one has answered.
PickModel(m) ==
    /\ PanelHasKeyboard /\ panel.kind = "models" /\ m \in limit.models
    /\ Dispatch([live EXCEPT !.model = m]) /\ panel' = NoPanel
    /\ history' = [history EXCEPT !.model = m]
    /\ UNCHANGED <<limit, rendered, due, disk, default, confirmed, persisted, turn, box, command,
                   bound, quitting, over, screen, verifying, entries, damaged>>

-----------------------------------------------------------------------------
(* Reading.                                                                *)

\* Page keys, Home and End scroll while the input box has the keyboard.
Scroll ==
    /\ InputHasKeyboard /\ limit.entries > 0
    /\ LET page == IF screen.rows > 1 THEN screen.rows - 1 ELSE 1 IN
       screen' \in {ScrolledBy(screen, page), ScrolledBy(screen, 0 - page),
                    ScrolledTo(screen, Top(screen)), ScrolledTo(screen, 0)}
    /\ UNCHANGED <<limit, sessionVars, turn, box, command, bound, quitting, over, history,
                   panelVars>>

Resize ==
    /\ Running /\ limit.entries > 0
    /\ \E w \in limit.widths, h \in limit.heights : screen' = Resized(screen, w, h)
    /\ UNCHANGED <<limit, sessionVars, turn, box, command, bound, quitting, over, history,
                   panelVars>>

-----------------------------------------------------------------------------
Next ==
    \/ Render \/ SessionEffect
    \/ SubmitTask \/ Announce \/ Stream \/ Report \/ Prompt \/ Answer \/ EndTurn
    \/ CtrlC \/ Quit \/ Exit \/ End
    \/ \E c \in Commands, what \in {"mode", "rewind", "clear"} : SubmitCommand(c, what)
    \/ \E c \in Commands : CommandReturns(c)
    \/ \E kind \in {"models", "setup", "config", "permissions"} : Opens(kind)
    \/ Keystroke \/ Verdict \/ FilesChange
    \/ \E m \in Models : PickModel(m)
    \/ Scroll \/ Resize

Spec == Init /\ [][Next]_vars

\* React renders and runs its effects; a promise that is settled is gone on with; the
\* loop unwinds a cancelled turn once nothing is asked (AgentLoop).
Fairness ==
    /\ WF_vars(Render) /\ WF_vars(SessionEffect)
    /\ \A c \in Commands : WF_vars(CommandReturns(c))
    /\ WF_vars(turn.aborted /\ (EndTurn \/ Exit))

FairSpec == Spec /\ Fairness

-----------------------------------------------------------------------------
(* Types.  What is drawn is left to Screen.                                *)

Modes == {"approve-each", "auto"}
SessionStates == [id : Nat, mode : Modes, model : Models, version : Nat]
TurnStates == [phase : {"idle", "running", "asking"}, id : Nat, model : Models \cup {NoModel},
               version : Nat, bound : Nat, aborted : BOOLEAN, tried : BOOLEAN, alone : BOOLEAN]
CommandStates == [what : {"none", "mode", "rewind", "clear"},
                  at : {"none", "waiting", "saved", "failed"}, before : Nat]
Histories == [mode : Modes, model : Models, worked : SUBSET Models, unbound : BOOLEAN]

TypeOK ==
    /\ limit \in Limits
    /\ live \in SessionStates /\ rendered \in SessionStates
    /\ {disk, default} \subseteq Models \cup {NoModel}
    /\ {confirmed, persisted} \subseteq Models
    /\ turn \in TurnStates /\ (InFlight => turn.model \in Models)
    /\ command \in [Commands -> CommandStates] /\ bound \in Nat /\ history \in Histories
    /\ {stale, due, box, quitting, over} \subseteq BOOLEAN
    /\ PanelsTypeOK

-----------------------------------------------------------------------------
(* Properties.                                                             *)

\* What the user chose and what the turn announced are both there whatever the order
\* they came in: a mode or a model set in the middle of a turn is not taken back by the
\* turn's next announcement, nor the transcript by the mode; and no command moves the
\* session or its transcript away under a turn.
NothingTakenBack ==
    /\ live.mode = history.mode /\ live.model = history.model
    /\ InFlight => live.id = turn.id /\ live.version = turn.version

\* A session file and config.json only ever name a model that has answered, or the one
\* the run was started with, however picks, turns and late saves overlap: the next run
\* can be resumed on it.
SavedHasAnswered ==
    /\ disk \in history.worked \cup {NoModel}
    /\ default \in history.worked \cup {NoModel}

\* The checkpoints and the archivist of a turn are those of its own session, unless a
\* command was under way when it was submitted or the rebind's failure was reported;
\* also after a /clear whose save failed.
CheckpointsFollowTheSession ==
    InFlight /\ turn.alone /\ ~history.unbound => turn.bound = turn.id

\* A command that awaits a save returns, whatever becomes of the save.
CommandsReturn ==
    \A c \in Commands : command[c] # NoCommand ~> command[c] = NoCommand \/ ~Running

\* A cancelled turn ends though it was waiting for the user, and who quits in the middle
\* of one gets out.
StopEnds == turn.aborted \/ quitting ~> (~InFlight /\ ~quitting) \/ ~Running

\* A reader who has scrolled up to committed lines keeps the same page before them, a
\* full one, while the answer streams, is committed and is followed by others.
ReaderStays ==
    [][LET seen == VisibleTranscript(screen)
           sees == VisibleTranscript(screen')
       IN  /\ screen.offset > 0 /\ Last(seen)[1] <= Len(screen.transcript)
           /\ screen'.transcript # screen.transcript \/ screen'.streaming # screen.streaming
           /\ IsPrefix(screen.transcript, screen'.transcript)
           => sees = seen /\ Len(sees) = screen.rows]_vars

\* A panel changes the entry it names and no other, whatever other processes did to the
\* file since it was opened, and removes only what it has asked about.
OwnEntryOnly ==
    [][entries' # entries /\ panel' # panel =>
          LET changed == (entries \ entries') \cup (entries' \ entries) IN
          /\ Cardinality(changed) = 1
          /\ panel.step = "list" \/ changed = {panel.row}
          /\ entries' \subseteq entries => panel.step = "confirm"]_vars
=============================================================================
