------------------------------- MODULE Panels -------------------------------
(***************************************************************************)
(* The panels of the terminal interface that edit what is stored on disk:  *)
(* /setup and /config over config.json, /permissions over the project's    *)
(* part of permissions.yaml (tui/handlers.ts, tui/panels, config/config.ts,*)
(* permissions/store.ts).  Other seri processes and editors change the same*)
(* files while a panel is open.  Tui opens the panels and decides which of *)
(* them has the keyboard.                                                  *)
(*                                                                         *)
(* A file is the set of its entries; what is typed is left out.            *)
(***************************************************************************)
EXTENDS Integers

CONSTANTS
    ProviderKeys,   \* API keys, the rows of /setup
    Settings,       \* the rows of /config
    Switches,       \* those that are on or off
    GrantTools      \* tools that can be approved for good, the rows of /permissions

ASSUME RowNames ==
    /\ Switches \subseteq Settings
    /\ "no row" \notin ProviderKeys \cup Settings \cup GrantTools

VARIABLES
    panel,      \* the open panel: its kind, step, row, and what its list last showed
    verifying,  \* the API key whose provider is being asked, or NoRow
    entries,    \* what config.json and permissions.yaml hold
    damaged     \* the files that do not parse

panelVars == <<panel, verifying, entries, damaged>>

NoRow == "no row"
RowsOfKind(kind) == CASE kind = "setup" -> ProviderKeys
                      [] kind = "config" -> Settings
                      [] kind = "permissions" -> GrantTools
                      [] OTHER -> {}
FileOfKind(kind) == IF kind = "permissions" THEN "permissions.yaml" ELSE "config.json"
Damaged(kind) == FileOfKind(kind) \in damaged

NoPanel == [kind |-> "none", step |-> "none", row |-> NoRow, listed |-> {}]
Step(step, row) == panel' = [panel EXCEPT !.step = step, !.row = row]

PanelsInit ==
    /\ panel = NoPanel /\ verifying = NoRow
    /\ entries = {} /\ damaged = {}

-----------------------------------------------------------------------------
(* The list.                                                               *)

\* What the list shows: a grant store that cannot be read is an empty one.
Listed(kind) == IF Damaged(kind) THEN {} ELSE entries \cap RowsOfKind(kind)

ListStep(kind, held) ==
    [kind |-> kind, step |-> "list", row |-> NoRow, listed |-> held \cap RowsOfKind(kind)]

\* A config.json that cannot be read is a command error: the panel does not open.
OpenPanel(kind) ==
    /\ panel = NoPanel
    /\ kind = "permissions" \/ ~Damaged(kind)
    /\ panel' = ListStep(kind, Listed(kind))
    /\ UNCHANGED <<verifying, entries, damaged>>

\* ...and after an operation, or on the way back, it is closed.
Relisted(kind) ==
    IF Damaged(kind) /\ kind # "permissions" THEN NoPanel ELSE ListStep(kind, Listed(kind))

ClosePanel ==
    /\ panel.step \in {"list", "enter"}
    /\ panel' = NoPanel
    /\ UNCHANGED <<verifying, entries, damaged>>

Back ==
    /\ panel.step \in {"enter", "confirm"}
    /\ panel' = Relisted(panel.kind)
    /\ UNCHANGED <<verifying, entries, damaged>>

-----------------------------------------------------------------------------
(* Entering.                                                               *)

\* What a write starts from.  A plausible bug: what the panel listed.
Reread_Listed == (entries \ RowsOfKind(panel.kind)) \cup panel.listed

Reread == entries

\* A write that throws leaves the panel where it was.
Write(held) == ~Damaged(panel.kind) /\ entries' = held /\ panel' = ListStep(panel.kind, held)

ToggleSwitch(row) ==
    /\ panel.kind = "config" /\ panel.step = "list" /\ row \in Switches
    /\ Write(Reread \cup {row})
    /\ UNCHANGED <<verifying, damaged>>

SelectRow(row) ==
    /\ panel.kind \in {"setup", "config"} /\ panel.step = "list"
    /\ row \in RowsOfKind(panel.kind) \ Switches
    /\ Step("enter", row)
    /\ UNCHANGED <<verifying, entries, damaged>>

EnterValue ==
    /\ panel.kind = "config" /\ panel.step = "enter"
    /\ Write(Reread \cup {panel.row})
    /\ UNCHANGED <<verifying, damaged>>

\* The provider is asked; the keyboard is dead meanwhile.
EnterKey ==
    /\ panel.kind = "setup" /\ panel.step = "enter"
    /\ Step("busy", panel.row) /\ verifying' = panel.row
    /\ UNCHANGED <<entries, damaged>>

\* It refuses the key, or config.json cannot be read or written.
KeyRefused ==
    /\ verifying # NoRow /\ verifying' = NoRow
    /\ panel' = [kind |-> "setup", step |-> "enter", row |-> verifying, listed |-> panel.listed]
    /\ UNCHANGED <<entries, damaged>>

KeyAccepted ==
    /\ verifying # NoRow /\ verifying' = NoRow
    /\ ~Damaged("setup") /\ entries' = Reread \cup {verifying}
    /\ panel' = ListStep("setup", entries')
    /\ UNCHANGED damaged

-----------------------------------------------------------------------------
(* Removing.                                                               *)

\* A row that can be removed when it was listed, and still when it is read again.
AskRemove(row) ==
    /\ panel.step = "list" /\ row \in panel.listed
    /\ row \in Listed(panel.kind)
    /\ Step("confirm", row)
    /\ UNCHANGED <<verifying, entries, damaged>>

\* The row on screen, whatever the file has become.
RemoveRow ==
    /\ panel.step = "confirm"
    /\ Write(Reread \ {panel.row})
    /\ UNCHANGED <<verifying, damaged>>

\* A grant store that cannot be read: the panel is closed with the warning.
RemoveRefused ==
    /\ panel.step = "confirm" /\ panel.kind = "permissions" /\ Damaged(panel.kind)
    /\ panel' = NoPanel
    /\ UNCHANGED <<verifying, entries, damaged>>

\* Another process or an editor.
Elsewhere ==
    /\ \/ \E row \in ProviderKeys \cup Settings \cup GrantTools :
             /\ entries' \in {entries \cup {row}, entries \ {row}}
             /\ UNCHANGED damaged
       \/ \E file \in {"config.json", "permissions.yaml"} :
             /\ damaged' \in {damaged \cup {file}, damaged \ {file}}
             /\ UNCHANGED entries
    /\ UNCHANGED <<panel, verifying>>

PanelKey ==
    \/ ClosePanel \/ Back \/ EnterValue \/ EnterKey \/ RemoveRow \/ RemoveRefused
    \/ \E row \in Settings : ToggleSwitch(row)
    \/ \E row \in ProviderKeys \cup Settings : SelectRow(row)
    \/ \E row \in ProviderKeys \cup Settings \cup GrantTools : AskRemove(row)

-----------------------------------------------------------------------------
AllRows == ProviderKeys \cup Settings \cup GrantTools

PanelStates == [kind : {"none", "models", "setup", "config", "permissions"},
                step : {"none", "list", "enter", "busy", "confirm"},
                row : AllRows \cup {NoRow}, listed : SUBSET AllRows]

\* A step that is about a row names one.
PanelsTypeOK ==
    /\ panel \in PanelStates
    /\ panel.step \in {"enter", "busy", "confirm"} => panel.row \in AllRows
    /\ verifying \in AllRows \cup {NoRow}
    /\ entries \subseteq AllRows
    /\ damaged \subseteq {"config.json", "permissions.yaml"}
=============================================================================
