------------------------------- MODULE TuiProofs -------------------------------
(***************************************************************************)
(* Four facts about a run of the terminal interface, for any number of     *)
(* commands under way, any models, panels and bounds:                      *)
(*   - what the user chose and what a turn announced are both kept;        *)
(*   - only models that have answered are saved;                           *)
(*   - a turn's checkpoints are those of its own session;                  *)
(*   - a panel changes the entry it names and no other.                    *)
(*                                                                         *)
(* The first two nearly stand alone.  The third is about a time when       *)
(* nothing is under way and rests on what holds in between: a session that *)
(* is not bound is owed to a command under way, which began on another     *)
(* session, or its rebind has failed; and none of the commands that begin  *)
(* during a turn is of that kind.  The fourth needs that an answer about a *)
(* key finds the panel where it was left.                                  *)
(***************************************************************************)
EXTENDS Tui, FiniteSetTheorems, TLAPS

Pending(c) == command[c] # NoCommand

\* Begun on another session than there is now.
Owes(c) == Pending(c) /\ command[c].before # live.id

Bound == bound = live.id \/ history.unbound \/ \E c \in Commands : Owes(c)

Alone ==
    InFlight /\ turn.alone =>
        /\ \A c \in Commands : ~Owes(c)
        /\ turn.bound = turn.id \/ history.unbound

Answered == confirmed \in history.worked

\* The box is up only while its turn asks.
Asking == box => turn.phase = "asking"

Verifying ==
    verifying # NoRow => /\ panel.kind = "setup" /\ panel.step = "busy"
                         /\ panel.row = verifying

IInv == /\ TypeOK /\ Asking
        /\ NothingTakenBack /\ Answered /\ SavedHasAnswered
        /\ Bound /\ Alone
        /\ Verifying

----------------------------------------------------------------------------
(* Types.                                                                  *)

LEMMA LimitModels == TypeOK => limit.models \subseteq Models
  BY LimitsAreBounds DEF TypeOK

LEMMA NoneTyped ==
    /\ NoTurn \in TurnStates /\ NoTurn.phase = "idle"
    /\ NoCommand \in CommandStates
  BY DEF NoTurn, TurnStates, NoCommand, CommandStates

LEMMA PanelsInitTyped == PanelsInit => PanelsTypeOK /\ verifying = NoRow
  BY DEF PanelsInit, PanelsTypeOK, NoPanel, PanelStates

LEMMA InitIInv == Init => IInv
<1> SUFFICES ASSUME Init PROVE IInv
  OBVIOUS
<1>1. limit \in Limits /\ limit.models \subseteq Models
  BY LimitsAreBounds DEF Init
<1>2. PICK m \in limit.models, start \in limit.models :
         /\ live = [id |-> 1, mode |-> "approve-each", model |-> m, version |-> 0]
         /\ confirmed = start /\ persisted = start
         /\ history = [mode |-> "approve-each", model |-> m, worked |-> {start},
                       unbound |-> FALSE]
  BY DEF Init
<1>3. m \in Models /\ start \in Models
  BY <1>1
<1>4. live \in SessionStates /\ history \in Histories
  BY <1>2, <1>3 DEF SessionStates, Histories, Modes
<1>5. TypeOK
  BY <1>1, <1>2, <1>3, <1>4, NoneTyped, PanelsInitTyped DEF Init, TypeOK, InFlight
<1>6. Asking /\ NothingTakenBack /\ Answered /\ SavedHasAnswered /\ Bound /\ Alone
  BY <1>2, NoneTyped
     DEF Init, Asking, NothingTakenBack, Answered, SavedHasAnswered, Bound, Alone,
         InFlight
<1>7. Verifying
  BY PanelsInitTyped DEF Init, Verifying
<1> QED BY <1>5, <1>6, <1>7 DEF IInv

\* The panels.
LEMMA ListTyped ==
    ASSUME NEW kind \in {"setup", "config", "permissions", "models"},
           NEW held \in SUBSET AllRows
    PROVE  /\ ListStep(kind, held) \in PanelStates
           /\ ListStep(kind, held).step = "list"
           /\ Listed(kind) \subseteq AllRows \/ ~(entries \subseteq AllRows)
  BY DEF ListStep, PanelStates, RowsOfKind, AllRows, Listed

LEMMA NoPanelTyped ==
    /\ NoPanel \in PanelStates /\ NoPanel.step = "none" /\ NoPanel.kind = "none"
  BY DEF NoPanel, PanelStates

LEMMA StepTyped ==
    ASSUME PanelsTypeOK, NEW row \in AllRows,
           NEW step \in {"enter", "busy", "confirm"}, Step(step, row)
    PROVE  /\ panel' \in PanelStates /\ panel'.row = row /\ panel'.step = step
           /\ panel'.kind = panel.kind
  BY DEF Step, PanelsTypeOK, PanelStates

\* A panel that is open is of a kind.
LEMMA PanelKeyTyped ==
    ASSUME PanelsTypeOK, PanelKey
    PROVE  PanelsTypeOK'
<1> USE DEF PanelsTypeOK
<1>1. CASE ClosePanel
  BY <1>1, NoPanelTyped DEF ClosePanel
<1>2. CASE Back
  <2>1. panel.kind \in {"setup", "config", "permissions", "models", "none"}
        /\ Listed(panel.kind) \subseteq AllRows
    BY DEF PanelStates, Listed
  <2>2. Relisted(panel.kind) \in PanelStates
        /\ Relisted(panel.kind).step \in {"none", "list"}
    BY <2>1, NoPanelTyped
       DEF Relisted, ListStep, PanelStates, RowsOfKind, AllRows
  <2> QED BY <1>2, <2>2 DEF Back
<1>3. CASE EnterValue
  BY <1>3, ListTyped DEF EnterValue, Write, Reread
<1>4. CASE EnterKey
  BY <1>4, StepTyped DEF EnterKey
<1>5. CASE RemoveRow
  BY <1>5 DEF RemoveRow, Write, Reread, ListStep, PanelStates, RowsOfKind, AllRows
<1>6. CASE RemoveRefused
  BY <1>6, NoPanelTyped DEF RemoveRefused
<1>7. ASSUME NEW row \in Settings, ToggleSwitch(row) PROVE PanelsTypeOK'
  <2>1. Reread \cup {row} \in SUBSET AllRows
    BY DEF Reread, AllRows
  <2> QED BY <1>7, <2>1, ListTyped DEF ToggleSwitch, Write
<1>8. ASSUME NEW row \in ProviderKeys \cup Settings, SelectRow(row)
      PROVE  PanelsTypeOK'
  <2>1. row \in AllRows
    BY DEF AllRows
  <2> QED BY <1>8, <2>1, StepTyped DEF SelectRow
<1>9. ASSUME NEW row \in ProviderKeys \cup Settings \cup GrantTools, AskRemove(row)
      PROVE  PanelsTypeOK'
  BY <1>9, StepTyped DEF AskRemove, AllRows
<1> QED
  BY <1>1, <1>2, <1>3, <1>4, <1>5, <1>6, <1>7, <1>8, <1>9 DEF PanelKey

LEMMA VerdictTyped ==
    ASSUME PanelsTypeOK, KeyAccepted \/ KeyRefused
    PROVE  PanelsTypeOK'
<1> USE DEF PanelsTypeOK
<1>1. CASE KeyAccepted
  BY <1>1, ListTyped DEF KeyAccepted, Reread
<1>2. CASE KeyRefused
  BY <1>2 DEF KeyRefused, PanelStates
<1> QED BY <1>1, <1>2

\* The session a command decides on, and what becomes of the others.
LEMMA DecidedSession ==
    ASSUME TypeOK, NEW what \in {"mode", "rewind", "clear"}
    PROVE  /\ Decided(what) \in SessionStates
           /\ Decided(what).model = live.model
           /\ what = "mode" =>
                /\ Decided(what).id = live.id
                /\ Decided(what).version = live.version
                /\ Decided(what).mode = OtherMode(live.mode)
           /\ what # "mode" => Decided(what).mode = live.mode
           /\ what = "rewind" => Decided(what).id = live.id
<1>1. live \in SessionStates /\ OtherMode(live.mode) \in Modes
  BY DEF TypeOK, OtherMode, Modes
<1>2. CASE what = "mode"
  <2>1. Decided(what) = [live EXCEPT !.mode = OtherMode(live.mode)]
    BY <1>2 DEF Decided, LiveSession
  <2> QED BY <1>1, <1>2, <2>1 DEF SessionStates
<1>3. CASE what = "rewind"
  <2>1. Decided(what) = [live EXCEPT !.version = live.version + 1]
    BY <1>3 DEF Decided, LiveSession
  <2> QED BY <1>1, <1>3, <2>1 DEF SessionStates
<1>4. CASE what = "clear"
  <2>1. Decided(what) = [live EXCEPT !.id = live.id + 1, !.version = 0]
    BY <1>4 DEF Decided, LiveSession
  <2>2. live.id + 1 \in Nat /\ 0 \in Nat
    BY <1>1 DEF SessionStates
  <2>3. Decided(what) \in SessionStates /\ Decided(what).model = live.model
        /\ Decided(what).mode = live.mode
    BY <1>1, <2>1, <2>2 DEF SessionStates
  <2> QED BY <1>4, <2>3
<1> QED BY <1>2, <1>3, <1>4

LEMMA SettledCommands ==
    ASSUME TypeOK, NEW at \in {"saved", "failed"}
    PROVE  /\ Settled(at) \in [Commands -> CommandStates]
           /\ \A c \in Commands :
                 /\ Settled(at)[c].before = command[c].before
                 /\ Settled(at)[c].what = command[c].what
                 /\ Settled(at)[c] = NoCommand => command[c] = NoCommand
                 /\ command[c] = NoCommand => Settled(at)[c] = NoCommand
  BY DEF TypeOK, Settled, CommandStates, NoCommand

LEMMA StepTypeOK == TypeOK /\ Asking /\ [Next]_vars => TypeOK'
<1> SUFFICES ASSUME TypeOK, Asking, [Next]_vars PROVE TypeOK'
  OBVIOUS
<1> USE DEF sessionVars, panelVars
<1>1. CASE Render
  BY <1>1 DEF Render, TypeOK, InFlight, PanelsTypeOK
<1>2. CASE SessionEffect
  <2>1. confirmed \in Models
    BY DEF TypeOK
  <2> QED
    BY <1>2, <2>1, SettledCommands
       DEF SessionEffect, Save, SaveFails, PersistedModel, TypeOK, InFlight, PanelsTypeOK
<1>3. CASE SubmitTask
  <2>1. CASE UNCHANGED turn
    BY <1>3, <2>1 DEF SubmitTask, TypeOK, InFlight, PanelsTypeOK
  <2>2. CASE turn' # turn
    <3> DEFINE none == \A c \in Commands : command[c] = NoCommand
    <3>1. PICK m \in limit.models :
             turn' = [phase |-> "running", id |-> live.id, model |-> m,
                      version |-> live.version, bound |-> bound,
                      aborted |-> FALSE, tried |-> FALSE, alone |-> none]
      BY <1>3, <2>2 DEF SubmitTask, LiveSession
    <3>2. none \in BOOLEAN
      OBVIOUS
    <3>3. m \in Models /\ live.id \in Nat /\ live.version \in Nat /\ bound \in Nat
      BY LimitModels DEF TypeOK, SessionStates
    <3> HIDE DEF none
    <3>4. turn' \in TurnStates /\ turn'.model \in Models
      BY <3>1, <3>2, <3>3 DEF TurnStates
    <3> QED BY <1>3, <3>4 DEF SubmitTask, TypeOK, PanelsTypeOK
  <2> QED BY <2>1, <2>2
<1>4. CASE Announce
  <2>1. turn.model \in Models /\ live.version + 1 \in Nat
    BY <1>4 DEF Announce, InFlight, TypeOK, SessionStates
  <2>2. live' \in SessionStates /\ stale' = TRUE
    BY <1>4, <2>1 DEF Announce, Dispatch, Merged, TypeOK, SessionStates
  <2>3. turn' \in TurnStates /\ turn'.model \in Models
    <3> DEFINE tried == turn.tried \/ persisted # turn.model
    <3>1. tried \in BOOLEAN
      BY DEF TypeOK, TurnStates
    <3>2. turn' = [turn EXCEPT !.version = live.version + 1, !.tried = tried]
      BY <1>4 DEF Announce
    <3> HIDE DEF tried
    <3> QED BY <2>1, <3>1, <3>2 DEF TypeOK, TurnStates
  <2>4. history' \in Histories
    BY <1>4, <2>1 DEF Announce, TypeOK, Histories
  <2>5. /\ {default', persisted', confirmed'} \subseteq Models \cup {NoModel}
        /\ {persisted', confirmed'} \subseteq Models
    BY <1>4, <2>1 DEF Announce, PersistDefault, TypeOK
  <2> QED
    BY <1>4, <2>2, <2>3, <2>4, <2>5 DEF Announce, TypeOK, InFlight, PanelsTypeOK
<1>5. CASE Stream \/ Report \/ Scroll \/ Resize
  BY <1>5 DEF Stream, Report, Scroll, Resize, TypeOK, InFlight, PanelsTypeOK
<1>6. CASE Prompt \/ Answer \/ CtrlC \/ Quit
  <2>1. /\ turn' \in TurnStates /\ turn'.model = turn.model
        /\ InFlight /\ box' \in BOOLEAN /\ quitting' \in BOOLEAN
    <3>1. turn \in TurnStates /\ box \in BOOLEAN /\ quitting \in BOOLEAN
      BY DEF TypeOK
    <3>2. CASE Prompt
      BY <3>1, <3>2 DEF Prompt, TurnStates, InFlight
    <3>3. CASE Answer
      BY <3>1, <3>3 DEF Answer, BoxHasKeyboard, Asking, TurnStates, InFlight
    <3>4. CASE CtrlC
      BY <3>1, <3>4 DEF CtrlC, Deliver, OnAbort, TurnStates, InFlight
    <3>5. CASE Quit
      BY <3>1, <3>5 DEF Quit, Deliver, OnAbort, TurnStates, InFlight
    <3> QED BY <1>6, <3>2, <3>3, <3>4, <3>5
  <2> QED
    BY <1>6, <2>1 DEF Prompt, Answer, CtrlC, Quit, TypeOK, InFlight, PanelsTypeOK
<1>7. CASE EndTurn
  BY <1>7, NoneTyped DEF EndTurn, TypeOK, InFlight, PanelsTypeOK
<1>8. CASE Exit \/ End
  <2>1. Gone
    BY <1>8 DEF Exit, End
  <2>2. live' \in SessionStates /\ history' \in Histories
    BY <2>1 DEF Gone, TypeOK, SessionStates, Histories, Modes
  <2>3. PanelsTypeOK'
    BY <2>1, NoPanelTyped DEF Gone, TypeOK, PanelsTypeOK
  <2> QED BY <2>1, <2>2, <2>3, NoneTyped DEF Gone, TypeOK, InFlight
<1>9. ASSUME NEW c \in Commands, NEW what \in {"mode", "rewind", "clear"},
             SubmitCommand(c, what)
      PROVE  TypeOK'
  <2>1. live' \in SessionStates /\ stale' = TRUE
    BY <1>9, DecidedSession DEF SubmitCommand, Dispatch
  <2>2. [what |-> what, at |-> "waiting", before |-> live.id] \in CommandStates
    BY DEF TypeOK, SessionStates, CommandStates
  <2>3. command' \in [Commands -> CommandStates]
    BY <1>9, <2>2 DEF SubmitCommand, TypeOK
  <2>4. history' \in Histories
    BY <1>9 DEF SubmitCommand, TypeOK, Histories, OtherMode, Modes
  <2> QED BY <1>9, <2>1, <2>3, <2>4 DEF SubmitCommand, TypeOK, InFlight, PanelsTypeOK
<1>10. ASSUME NEW c \in Commands, CommandReturns(c) PROVE TypeOK'
  <2>1. command' \in [Commands -> CommandStates]
    BY <1>10, NoneTyped DEF CommandReturns, TypeOK
  <2>2. bound' \in Nat /\ history' \in Histories
    BY <1>10 DEF CommandReturns, Rebind, TypeOK, SessionStates, Histories
  <2> QED BY <1>10, <2>1, <2>2 DEF CommandReturns, TypeOK, InFlight, PanelsTypeOK
<1>11. ASSUME NEW kind \in {"models", "setup", "config", "permissions"}, Opens(kind)
       PROVE  TypeOK'
  <2>1. PanelsTypeOK'
    BY <1>11, ListTyped DEF Opens, OpenPanel, TypeOK, PanelsTypeOK
  <2> QED BY <1>11, <2>1 DEF Opens, TypeOK, InFlight
<1>12. CASE Keystroke
  BY <1>12, PanelKeyTyped DEF Keystroke, TypeOK, InFlight
<1>13. CASE Verdict
  BY <1>13, VerdictTyped DEF Verdict, TypeOK, InFlight
<1>14. CASE FilesChange
  BY <1>14 DEF FilesChange, Elsewhere, TypeOK, InFlight, PanelsTypeOK, AllRows
<1>15. ASSUME NEW m \in Models, PickModel(m) PROVE TypeOK'
  <2>1. live' \in SessionStates /\ history' \in Histories /\ stale' = TRUE
    BY <1>15 DEF PickModel, Dispatch, TypeOK, SessionStates, Histories
  <2>2. PanelsTypeOK'
    BY <1>15, NoPanelTyped DEF PickModel, TypeOK, PanelsTypeOK
  <2> QED BY <1>15, <2>1, <2>2 DEF PickModel, TypeOK, InFlight
<1>16. CASE UNCHANGED vars
  BY <1>16 DEF vars, TypeOK, InFlight, PanelsTypeOK
<1> QED
  BY <1>1, <1>2, <1>3, <1>4, <1>5, <1>6, <1>7, <1>8, <1>9, <1>10, <1>11, <1>12,
     <1>13, <1>14, <1>15, <1>16 DEF Next

LEMMA StepAsking == TypeOK /\ Asking /\ [Next]_vars => Asking'
<1> SUFFICES ASSUME TypeOK, Asking, [Next]_vars PROVE Asking'
  OBVIOUS
<1>1. CASE SubmitTask \/ Announce \/ EndTurn
  BY <1>1 DEF SubmitTask, InputHasKeyboard, Announce, EndTurn, Asking
<1>2. CASE Prompt \/ Answer \/ CtrlC \/ Quit \/ Exit \/ End
  BY <1>2 DEF Prompt, Answer, CtrlC, Quit, Deliver, OnAbort, Exit, End, Gone, Asking,
              TypeOK, TurnStates
<1>3. ASSUME UNCHANGED <<turn, box>> PROVE Asking'
  BY <1>3 DEF Asking
<1> QED
  BY <1>1, <1>2, <1>3
     DEF Next, Render, SessionEffect, Stream, Report, SubmitCommand, CommandReturns,
         Opens, Keystroke, Verdict, FilesChange, PickModel, Scroll, Resize, vars

----------------------------------------------------------------------------
(* What was chosen and what was announced.                                 *)

\* A turn goes on from step to step under one session and one transcript.
LEMMA TurnGoesOn ==
    ASSUME TypeOK, Prompt \/ Answer \/ CtrlC \/ Quit
    PROVE  /\ turn'.id = turn.id /\ turn'.version = turn.version
           /\ turn'.bound = turn.bound /\ turn'.alone = turn.alone
           /\ UNCHANGED <<live, command, bound, history>>
<1>1. turn \in TurnStates
  BY DEF TypeOK
<1> QED
  BY <1>1 DEF Prompt, Answer, CtrlC, Quit, Deliver, OnAbort, TurnStates, sessionVars

LEMMA StepNothingTakenBack ==
    TypeOK /\ Asking /\ NothingTakenBack /\ [Next]_vars => NothingTakenBack'
<1> SUFFICES ASSUME TypeOK, Asking, NothingTakenBack, [Next]_vars
             PROVE  NothingTakenBack'
  OBVIOUS
<1> USE DEF sessionVars
<1>1. CASE SubmitTask
  BY <1>1 DEF SubmitTask, LiveSession, NothingTakenBack, InFlight
<1>2. CASE Announce
  <2>1. /\ live' = [live EXCEPT !.version = live.version + 1]
        /\ turn'.version = live.version + 1 /\ turn'.id = turn.id
        /\ history'.mode = history.mode /\ history'.model = history.model
    BY <1>2 DEF Announce, Dispatch, Merged, TypeOK, TurnStates, Histories
  <2>2. InFlight
    BY <1>2 DEF Announce, InFlight
  <2> QED BY <2>1, <2>2 DEF NothingTakenBack, TypeOK, SessionStates
<1>3. CASE Prompt \/ Answer \/ CtrlC \/ Quit
  <2>1. InFlight
    BY <1>3 DEF Prompt, Answer, BoxHasKeyboard, Asking, CtrlC, Quit, Deliver, InFlight
  <2> QED BY <1>3, <2>1, TurnGoesOn DEF NothingTakenBack
<1>4. CASE EndTurn
  BY <1>4, NoneTyped DEF EndTurn, NothingTakenBack, InFlight
<1>5. CASE Exit \/ End
  <2>1. Gone
    BY <1>5 DEF Exit, End
  <2>2. live'.mode = history'.mode /\ live'.model = history'.model
    BY <2>1 DEF Gone, TypeOK, Histories
  <2>3. ~InFlight'
    BY <2>1, NoneTyped DEF Gone, InFlight
  <2> QED BY <2>2, <2>3 DEF NothingTakenBack
<1>6. ASSUME NEW c \in Commands, NEW what \in {"mode", "rewind", "clear"},
             SubmitCommand(c, what)
      PROVE  NothingTakenBack'
  <2>1. live' = Decided(what) /\ UNCHANGED turn
    BY <1>6 DEF SubmitCommand, Dispatch
  <2>2. history' = IF what = "mode" THEN [history EXCEPT !.mode = OtherMode(history.mode)]
                   ELSE history
    BY <1>6 DEF SubmitCommand
  <2>3. live'.mode = history'.mode /\ live'.model = history'.model
    BY <2>1, <2>2, DecidedSession DEF NothingTakenBack, TypeOK, Histories
  <2>4. InFlight' => live'.id = turn'.id /\ live'.version = turn'.version
    BY <1>6, <2>1, DecidedSession DEF SubmitCommand, Refused, NothingTakenBack, InFlight
  <2> QED BY <2>3, <2>4 DEF NothingTakenBack
<1>7. ASSUME NEW c \in Commands, CommandReturns(c) PROVE NothingTakenBack'
  <2>1. history'.mode = history.mode /\ history'.model = history.model
    BY <1>7 DEF CommandReturns, Rebind, TypeOK, Histories
  <2> QED BY <1>7, <2>1 DEF CommandReturns, NothingTakenBack, InFlight
<1>8. ASSUME NEW m \in Models, PickModel(m) PROVE NothingTakenBack'
  BY <1>8 DEF PickModel, Dispatch, NothingTakenBack, InFlight, TypeOK, SessionStates,
              Histories
<1>9. ASSUME UNCHANGED <<live, turn, history>> PROVE NothingTakenBack'
  BY <1>9 DEF NothingTakenBack, InFlight
<1> QED
  BY <1>1, <1>2, <1>3, <1>4, <1>5, <1>6, <1>7, <1>8, <1>9
     DEF Next, Render, SessionEffect, Stream, Report, Opens, Keystroke, Verdict,
         FilesChange, Scroll, Resize, vars

----------------------------------------------------------------------------
(* What is saved.                                                          *)

Saved == Answered /\ SavedHasAnswered

LEMMA StepSaved == TypeOK /\ Saved /\ [Next]_vars => Saved'
<1> SUFFICES ASSUME TypeOK, Saved, [Next]_vars PROVE Saved'
  OBVIOUS
<1> USE DEF sessionVars, Saved, Answered, SavedHasAnswered
<1>1. CASE SessionEffect
  BY <1>1 DEF SessionEffect, Save, SaveFails, PersistedModel
<1>2. CASE Announce
  <2>1. history'.worked = history.worked \cup {turn.model}
    BY <1>2 DEF Announce, TypeOK, Histories
  <2> QED BY <1>2, <2>1 DEF Announce, PersistDefault
<1>3. ASSUME history'.worked = history.worked, UNCHANGED <<disk, default, confirmed>>
      PROVE  Saved'
  BY <1>3
<1>4. CASE Exit \/ End
  BY <1>3, <1>4 DEF Exit, End, Gone, TypeOK, Histories
<1>5. ASSUME NEW c \in Commands, NEW what \in {"mode", "rewind", "clear"},
             SubmitCommand(c, what)
      PROVE  Saved'
  BY <1>3, <1>5 DEF SubmitCommand, TypeOK, Histories
<1>6. ASSUME NEW c \in Commands, CommandReturns(c) PROVE Saved'
  BY <1>3, <1>6 DEF CommandReturns, Rebind, TypeOK, Histories
<1>7. ASSUME NEW m \in Models, PickModel(m) PROVE Saved'
  BY <1>3, <1>7 DEF PickModel, TypeOK, Histories
<1> QED
  BY <1>1, <1>2, <1>3, <1>4, <1>5, <1>6, <1>7
     DEF Next, Render, SubmitTask, Stream, Report, Prompt, Answer, EndTurn, CtrlC, Quit,
         Opens, Keystroke, Verdict, FilesChange, Scroll, Resize, vars

----------------------------------------------------------------------------
(* Whose checkpoints.                                                      *)

Followed == Bound /\ Alone

LEMMA StepFollowed ==
    TypeOK /\ Asking /\ NothingTakenBack /\ Followed /\ [Next]_vars => Followed'
<1> SUFFICES ASSUME TypeOK, Asking, NothingTakenBack, Followed, [Next]_vars
             PROVE  Followed'
  OBVIOUS
<1> USE DEF sessionVars, Followed
\* A step that leaves the session's id, what is bound and the commands.
<1>1. ASSUME live'.id = live.id, UNCHANGED <<command, bound>>,
             history'.unbound = history.unbound
      PROVE  Bound' /\ \A c \in Commands : Owes(c)' <=> Owes(c)
  BY <1>1 DEF Bound, Owes, Pending
<1>2. CASE SubmitTask
  <2>1. Bound' /\ \A c \in Commands : Owes(c)' <=> Owes(c)
    BY <1>1, <1>2 DEF SubmitTask
  <2>2. CASE UNCHANGED turn
    BY <1>2, <2>1, <2>2 DEF SubmitTask, Alone, InFlight
  <2>3. CASE turn' # turn
    <3> DEFINE none == \A c \in Commands : command[c] = NoCommand
    <3>1. /\ turn'.id = live.id /\ turn'.bound = bound
          /\ turn'.alone = none
      <4>1. \E m \in limit.models :
               turn' = [phase |-> "running", id |-> live.id, model |-> m,
                        version |-> live.version, bound |-> bound,
                        aborted |-> FALSE, tried |-> FALSE, alone |-> none]
        BY <1>2, <2>3 DEF SubmitTask, LiveSession
      <4> HIDE DEF none
      <4> QED BY <4>1
    <3>2. none => \A c \in Commands : ~Owes(c)
      BY DEF Owes, Pending
    <3> HIDE DEF none
    <3>3. none => bound = live.id \/ history.unbound
      BY <3>2 DEF Bound
    <3>4. UNCHANGED history
      BY <1>2 DEF SubmitTask
    <3> QED BY <2>1, <3>1, <3>2, <3>3, <3>4 DEF Alone
  <2> QED BY <2>2, <2>3
<1>3. CASE Announce
  <2>1. /\ live'.id = live.id /\ history'.unbound = history.unbound
        /\ turn'.alone = turn.alone /\ turn'.bound = turn.bound /\ turn'.id = turn.id
    BY <1>3 DEF Announce, Dispatch, Merged, TypeOK, SessionStates, Histories, TurnStates
  <2>2. InFlight /\ UNCHANGED <<command, bound>>
    BY <1>3 DEF Announce, InFlight
  <2> QED BY <1>1, <2>1, <2>2 DEF Alone
<1>4. CASE Prompt \/ Answer \/ CtrlC \/ Quit
  <2>1. InFlight
    BY <1>4 DEF Prompt, Answer, BoxHasKeyboard, Asking, CtrlC, Quit, Deliver, InFlight
  <2> QED BY <1>1, <1>4, <2>1, TurnGoesOn DEF Alone
<1>5. CASE EndTurn
  <2>1. ~InFlight'
    BY <1>5, NoneTyped DEF EndTurn, InFlight
  <2> QED BY <1>1, <1>5, <2>1 DEF EndTurn, Alone
<1>6. CASE Exit \/ End
  <2>1. Gone
    BY <1>6 DEF Exit, End
  <2>2. bound' = live'.id /\ ~InFlight'
    BY <2>1, NoneTyped DEF Gone, InFlight
  <2> QED BY <2>2 DEF Bound, Alone
<1>7. ASSUME NEW c \in Commands, NEW what \in {"mode", "rewind", "clear"},
             SubmitCommand(c, what)
      PROVE  Followed'
  <2>1. /\ live' = Decided(what) /\ UNCHANGED <<turn, bound>>
        /\ command[c] = NoCommand /\ (what = "mode" \/ ~InFlight)
    BY <1>7 DEF SubmitCommand, Dispatch, Refused
  <2>2. /\ command'[c].before = live.id
        /\ command'[c].what = what
        /\ \A d \in Commands \ {c} : command'[d] = command[d]
    BY <1>7 DEF SubmitCommand, TypeOK
  <2>3. command'[c] # NoCommand
    BY <2>2 DEF NoCommand
  <2>4. history'.unbound = history.unbound
    BY <1>7 DEF SubmitCommand, TypeOK, Histories
  <2>5. CASE live'.id = live.id
    <3>1. \A d \in Commands : Owes(d)' <=> Owes(d)
      BY <2>1, <2>2, <2>5 DEF Owes, Pending
    <3>2. Bound'
      BY <2>1, <2>4, <2>5, <3>1 DEF Bound
    <3>3. Alone'
      BY <2>1, <2>4, <3>1 DEF Alone, InFlight
    <3> QED BY <3>2, <3>3
  <2>6. CASE live'.id # live.id
    <3>1. Owes(c)'
      BY <2>2, <2>3, <2>6 DEF Owes, Pending
    <3>2. ~InFlight'
      BY <2>1, <2>6, DecidedSession DEF InFlight
    <3> QED BY <3>1, <3>2 DEF Bound, Alone
  <2> QED BY <2>5, <2>6
<1>8. ASSUME NEW c \in Commands, CommandReturns(c) PROVE Followed'
  <2>1. /\ UNCHANGED <<live, turn>> /\ command'[c] = NoCommand
        /\ \A d \in Commands \ {c} : command'[d] = command[d]
        /\ command[c].at \in {"saved", "failed"}
    BY <1>8 DEF CommandReturns, TypeOK
  <2>2. ~Owes(c)' /\ \A d \in Commands \ {c} : Owes(d)' <=> Owes(d)
    BY <2>1 DEF Owes, Pending
  <2>3. Pending(c)
    BY <2>1 DEF Pending, NoCommand
  <2>4. CASE Owes(c)
    <3>1. bound' = live.id \/ history'.unbound
      BY <1>8, <2>4 DEF CommandReturns, Rebind, Rebinds, Owes, TypeOK, Histories
    <3>2. Bound'
      BY <2>1, <3>1 DEF Bound
    <3>3. ~(InFlight /\ turn.alone)
      BY <2>4 DEF Alone
    <3> QED BY <2>1, <3>2, <3>3 DEF Alone, InFlight
  <2>5. CASE ~Owes(c)
    <3>1. UNCHANGED <<bound, history>>
      BY <1>8, <2>3, <2>5 DEF CommandReturns, Rebind, Rebinds, Owes
    <3> QED BY <2>1, <2>2, <2>5, <3>1 DEF Bound, Alone, InFlight
  <2> QED BY <2>4, <2>5
<1>9. CASE SessionEffect
  <2>1. UNCHANGED <<live, turn, bound, history>>
    BY <1>9 DEF SessionEffect
  <2>2. command' = command \/ command' \in {Settled("saved"), Settled("failed")}
    BY <1>9 DEF SessionEffect, Save, SaveFails
  <2>3. \A c \in Commands : Owes(c)' <=> Owes(c)
    BY <2>1, <2>2, SettledCommands DEF Owes, Pending
  <2> QED BY <2>1, <2>3 DEF Bound, Alone, InFlight
<1>10. ASSUME NEW m \in Models, PickModel(m) PROVE Followed'
  <2>1. live'.id = live.id /\ history'.unbound = history.unbound
    BY <1>10 DEF PickModel, Dispatch, TypeOK, SessionStates, Histories
  <2> QED BY <1>1, <1>10, <2>1 DEF PickModel, Alone, InFlight
<1>11. ASSUME UNCHANGED <<live, turn, command, bound, history>> PROVE Followed'
  BY <1>1, <1>11 DEF Alone, InFlight
<1> QED
  BY <1>2, <1>3, <1>4, <1>5, <1>6, <1>7, <1>8, <1>9, <1>10, <1>11
     DEF Next, Render, Stream, Report, Opens, Keystroke, Verdict, FilesChange, Scroll,
         Resize, vars

----------------------------------------------------------------------------
(* The panels.                                                             *)

LEMMA StepVerifying == TypeOK /\ Verifying /\ [Next]_vars => Verifying'
<1> SUFFICES ASSUME TypeOK, Verifying, [Next]_vars PROVE Verifying'
  OBVIOUS
<1> USE DEF sessionVars, panelVars
<1>1. CASE Keystroke
  <2>1. CASE EnterKey
    <3>1. panel \in PanelStates
      BY DEF TypeOK, PanelsTypeOK
    <3> QED BY <2>1, <3>1 DEF EnterKey, Step, PanelStates, Verifying
  <2>2. CASE ~EnterKey
    <3>1. verifying' = verifying /\ verifying = NoRow
      BY <1>1, <2>2
         DEF Keystroke, PanelKey, ClosePanel, Back, EnterValue, RemoveRow, RemoveRefused,
             ToggleSwitch, SelectRow, AskRemove, Verifying
    <3> QED BY <3>1 DEF Verifying
  <2> QED BY <2>1, <2>2
<1>2. CASE Verdict
  BY <1>2 DEF Verdict, KeyAccepted, KeyRefused, Verifying
<1>3. CASE Exit \/ End
  BY <1>3 DEF Exit, End, Gone, Verifying
<1>4. ASSUME NEW kind \in {"models", "setup", "config", "permissions"}, Opens(kind)
      PROVE  Verifying'
  BY <1>4, NoPanelTyped DEF Opens, OpenPanel, Verifying
<1>5. ASSUME NEW m \in Models, PickModel(m) PROVE Verifying'
  BY <1>5 DEF PickModel, Verifying
<1>6. ASSUME UNCHANGED <<panel, verifying>> PROVE Verifying'
  BY <1>6 DEF Verifying
<1> QED
  BY <1>1, <1>2, <1>3, <1>4, <1>5, <1>6
     DEF Next, Render, SessionEffect, SubmitTask, Announce, Stream, Report, Prompt,
         Answer, EndTurn, CtrlC, Quit, SubmitCommand, CommandReturns, FilesChange,
         Elsewhere, Scroll, Resize, vars

\* One entry comes or goes.
LEMMA OneEntry ==
    ASSUME NEW row, NEW held, held \in {entries \cup {row}, entries \ {row}},
           held # entries
    PROVE  LET changed == (entries \ held) \cup (held \ entries) IN
           /\ changed = {row} /\ Cardinality(changed) = 1
<1>1. (entries \ held) \cup (held \ entries) = {row}
  OBVIOUS
<1> QED BY <1>1, FS_Singleton

LEMMA EntrySteps ==
    ASSUME TypeOK, Verifying, Next, entries' # entries, panel' # panel
    PROVE  \E row :
              /\ \/ entries' = entries \cup {row}
                 \/ entries' = entries \ {row} /\ panel.step = "confirm"
              /\ panel.step = "list" \/ row = panel.row
<1>1. CASE Keystroke
  <2>1. EnterValue \/ RemoveRow \/ \E row \in Settings : ToggleSwitch(row)
    BY <1>1 DEF Keystroke, PanelKey, ClosePanel, Back, EnterKey, RemoveRefused,
                SelectRow, AskRemove
  <2> QED BY <2>1 DEF EnterValue, RemoveRow, ToggleSwitch, Write, Reread
<1>2. CASE Verdict
  BY <1>2 DEF Verdict, KeyAccepted, KeyRefused, Reread, Verifying
<1> QED
  BY <1>1, <1>2
     DEF Next, Render, SessionEffect, SubmitTask, Announce, Stream, Report, Prompt,
         Answer, EndTurn, CtrlC, Quit, Exit, End, Gone, SubmitCommand, CommandReturns,
         Opens, OpenPanel, FilesChange, Elsewhere, PickModel, Scroll, Resize, panelVars

----------------------------------------------------------------------------
(* The theorems.                                                           *)

LEMMA StepIInv == IInv /\ [Next]_vars => IInv'
  BY StepTypeOK, StepAsking, StepNothingTakenBack, StepSaved, StepFollowed, StepVerifying
     DEF IInv, Saved, Followed

THEOREM Invariance == Spec => []IInv
  BY InitIInv, StepIInv, PTL DEF Spec

\* A mode or a model chosen in the middle of a turn is not taken back by what the turn
\* announces next, nor the transcript by the mode, in whatever order any number of
\* commands, panels and turns overlap; and no command moves the session or its
\* transcript away under a turn.
THEOREM BothAreKept == Spec => []NothingTakenBack
<1>1. IInv => NothingTakenBack
  BY DEF IInv
<1> QED BY <1>1, Invariance, PTL

\* A session file and config.json only ever name a model that has answered, or the one
\* the run was started with.
THEOREM OnlyAnsweredIsSaved == Spec => []SavedHasAnswered
<1>1. IInv => SavedHasAnswered
  BY DEF IInv
<1> QED BY <1>1, Invariance, PTL

\* A turn that began with no command under way has the checkpoints and the archivist of
\* its own session, unless a rebind that failed was reported.
THEOREM TurnsAreBound == Spec => []CheckpointsFollowTheSession
<1>1. IInv => CheckpointsFollowTheSession
  BY DEF IInv, Alone, CheckpointsFollowTheSession
<1> QED BY <1>1, Invariance, PTL

\* A panel changes one entry, the one it names, and removes only what it asked about:
\* also when the provider's answer about a key arrives late, and whatever other
\* processes and editors make of the file meanwhile.
THEOREM PanelsKeepToTheirEntry == Spec => OwnEntryOnly
<1> DEFINE changed == (entries \ entries') \cup (entries' \ entries)
<1> DEFINE Own == entries' # entries /\ panel' # panel =>
                     /\ Cardinality(changed) = 1
                     /\ panel.step = "list" \/ changed = {panel.row}
                     /\ entries' \subseteq entries => panel.step = "confirm"
<1>1. IInv /\ [Next]_vars => Own
  <2> SUFFICES ASSUME IInv, [Next]_vars, entries' # entries, panel' # panel
               PROVE  Own
    OBVIOUS
  <2>1. Next
    BY DEF vars, panelVars
  <2>2. PICK row :
           /\ \/ entries' = entries \cup {row}
              \/ entries' = entries \ {row} /\ panel.step = "confirm"
           /\ panel.step = "list" \/ row = panel.row
    BY <2>1, EntrySteps DEF IInv
  <2>3. changed = {row} /\ Cardinality(changed) = 1
    BY <2>2, OneEntry
  <2>4. entries' \subseteq entries => panel.step = "confirm"
    BY <2>2
  <2> QED BY <2>2, <2>3, <2>4
<1> QED BY <1>1, Invariance, PTL DEF Spec, OwnEntryOnly
=============================================================================
