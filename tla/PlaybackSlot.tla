---------------------------- MODULE PlaybackSlot ----------------------------
(***************************************************************************)
(* What src/macroflow/player.py promises its callers, without threads,     *)
(* locks or program points: one slot, in which at most one playback runs.  *)
(* A playback runs once.  A stop signal stays until the playback it was    *)
(* meant for is over.  Only a running playback presses anything.           *)
(***************************************************************************)
CONSTANTS Worker, Input, None

VARIABLES
    running,    \* the playback in the slot, or None
    used,       \* the playbacks that were ever started
    stopping,   \* the stop signal
    down        \* the inputs held down

vars == <<running, used, stopping, down>>

Init == running = None /\ used = {} /\ stopping = FALSE /\ down = {}

Play(w) ==
    /\ running = None /\ ~stopping /\ w \notin used
    /\ running' = w /\ used' = used \cup {w}
    /\ UNCHANGED <<stopping, down>>

End == running # None /\ running' = None /\ UNCHANGED <<used, stopping, down>>

Stop == stopping' = TRUE /\ UNCHANGED <<running, used, down>>

Rearm == running = None /\ stopping' = FALSE /\ UNCHANGED <<running, used, down>>

Press(i) ==
    /\ running # None
    /\ down' = down \cup {i}
    /\ UNCHANGED <<running, used, stopping>>

Release == down' \subseteq down /\ UNCHANGED <<running, used, stopping>>

Next ==
    \/ \E w \in Worker : Play(w)
    \/ \E i \in Input : Press(i)
    \/ End \/ Stop \/ Rearm \/ Release

Spec == Init /\ [][Next]_vars

=============================================================================
