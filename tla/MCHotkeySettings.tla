-------------------------- MODULE MCHotkeySettings --------------------------
(***************************************************************************)
(* Instances of HotkeySettings: one runtime and one quick-run action, three *)
(* keys, so that a key may be exchanged, kept and changed for a new one.    *)
(***************************************************************************)
EXTENDS HotkeySettings

Keys == {"F6", "F7", "F8"}
Contents == {"empty", "filled"}
Defaults == [s \in 0 .. NAction |->
    CASE s = 0 -> "empty" [] s = 1 -> "F6" [] OTHER -> "F7"]
AnyCall == Refusal
NoField == {}
Field == {"edit_while_recording"}
=============================================================================
