----------------------------- MODULE MCRecorder -----------------------------
(***************************************************************************)
(* Instances of Recorder for TLC: up to three inputs and recordings of     *)
(* a few clock readings.                                                   *)
(***************************************************************************)
EXTENDS Recorder

CONSTANTS a, b, esc

NoInput == {}
OneKey == {a}
EscOnly == {esc}
NoGroup == {}
TwoKeys == {a, b}
CtrlKeys == {{a, b}}            \* the one fence the window sets: all Ctrl keys
KeysAndEsc == {a, b, esc}

InjectionsAndFailures == {"pause", "text", "color", "restart",
    "hook_fails", "thread_fails", "unhook_fails", "join_fails"}
Fences == {"pause", "fence"}
MovesAndFences == {"move", "pause", "fence"}
Colors == {"move", "color"}
TextPause == {"pause", "text"}
Nothing == {}

=============================================================================
