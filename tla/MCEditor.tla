------------------------------ MODULE MCEditor ------------------------------
(***************************************************************************)
(* Instances of Editor: a drag with a wheel in it, and two keys that        *)
(* overlap with a scroll of two notches.                                    *)
(***************************************************************************)
EXTENDS Editor

Ev(id, kind, what, at) == [id |-> id, kind |-> kind, what |-> what, at |-> at, mark |-> 0]

Drag == <<Ev(1, "press", "left", 0), Ev(2, "wheel", "y", 1),
          Ev(3, "move", "", 1), Ev(4, "release", "left", 2)>>
Keys == <<Ev(5, "down", "a", 0), Ev(6, "down", "b", 1), Ev(7, "up", "a", 1),
          Ev(8, "wheel", "y", 2), Ev(9, "wheel", "y", 3), Ev(10, "up", "b", 4)>>

Macros == {Drag, Keys}
Drags == {Drag}
Names == {"left", "y", "", "a", "b", "text", "wait", "color"}
Ordinary == {}
CapturesInDialogs == {"F6 in a dialog"}
LateAppends == {"late append"}
MergesTwice == {"merge twice"}

=============================================================================
