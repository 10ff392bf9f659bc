------------------------------- MODULE MCTui --------------------------------
(* A small instance of Tui.  Each run is about one concern, within its own *)
(* bounds: the commands and the turns, the models, the screen, the panels. *)
EXTENDS Tui

CONSTANTS m1, m2

Turns == [sessions |-> 2, versions |-> 1, entries |-> 0, streaming |-> 0, models |-> {m1},
          commands |-> {"mode", "rewind", "clear"}, panels |-> {},
          widths |-> {3}, heights |-> {2}]
Picking == [sessions |-> 1, versions |-> 2, entries |-> 0, streaming |-> 0, models |-> {m1, m2},
            commands |-> {}, panels |-> {"models"},
            widths |-> {3}, heights |-> {2}]
Reading == [sessions |-> 2, versions |-> 0, entries |-> 3, streaming |-> 3, models |-> {m1},
            commands |-> {"clear"}, panels |-> {},
            widths |-> {2, 3}, heights |-> {2, 3}]
Editing == [sessions |-> 1, versions |-> 0, entries |-> 0, streaming |-> 0, models |-> {m1},
            commands |-> {}, panels |-> {"setup", "config", "permissions"},
            widths |-> {3}, heights |-> {2}]

Limited == {Turns, Picking, Reading, Editing}
=============================================================================
