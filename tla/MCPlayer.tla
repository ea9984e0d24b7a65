------------------------------ MODULE MCPlayer ------------------------------
(***************************************************************************)
(* Instances of Player for TLC: two playbacks, and macros that between     *)
(* them hold every kind of event.                                          *)
(***************************************************************************)
EXTENDS Player

CONSTANTS ui, rw, w1, w2, key, btn

MCCtl == {ui, rw}
MCWorker == {w1, w2}
MCSingle == {w1}
MCInput == {key, btn}

Ev(type, in) == [type |-> type, in |-> in, mismatch |-> "wait", inner |-> FALSE]
Checked(in, mismatch) == [Ev("checked_down", in) EXCEPT !.mismatch = mismatch]
Inner(e) == [e EXCEPT !.inner = TRUE]

(* A chord with a drag in it, a drag, a checked click in a block, and what *)
(* may wait or fail.                                                       *)
Chord == <<Ev("key_down", key), Ev("mouse_down", btn), Ev("mouse_up", btn),
           Ev("key_up", key)>>
Drag == <<Ev("mouse_down", btn), Ev("mouse_up", btn), Ev("wait", key)>>
Block == <<Ev("block", key), Inner(Checked(btn, "skip")), Inner(Ev("move", btn)),
           Inner(Ev("mouse_up", btn)), Ev("end", key)>>
FailsHolding == <<Ev("key_down", key), Ev("text", key)>>
Fails == <<Ev("key_down", key), Ev("text", key), Ev("trigger", key),
           Checked(btn, "stop"), Ev("wheel", btn)>>

Waits == {Drag, Block, Fails}
Gestures == {Chord, FailsHolding}

(* The user's thread pauses, resumes and stops; a second thread (the       *)
(* repeat worker, the flow engine) plays and stops.                        *)
TwoCallers == [t \in Thread |->
    IF t = ui THEN {"stop", "pause", "resume"} ELSE IF t = rw THEN {"play", "stop"} ELSE {}]

(* Nobody stops: every playback runs to its end or to an error. *)
NoStop == [t \in Thread |->
    IF t = ui THEN {"pause", "resume"} ELSE IF t = rw THEN {"play"} ELSE {}]

(* The workers' callbacks call the player as well. *)
Reentrant == [t \in Thread |->
    IF t = ui THEN {"play", "stop"} ELSE IF t = rw THEN {} ELSE {"play", "stop", "pause"}]

(* A second thread plays and the user stops, as do the callbacks: one may  *)
(* wait for the lock under which a play() joins its worker.                *)
CallingBack == [t \in Thread |->
    IF t = ui THEN {"stop"} ELSE IF t = rw THEN {"play"} ELSE {"play", "stop"}]

OneProgram == {TwoCallers}
PausesAndCallbacks == {TwoCallers, CallingBack}
Programs == {TwoCallers, NoStop, Reentrant}

=============================================================================
