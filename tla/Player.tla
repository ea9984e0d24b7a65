------------------------------- MODULE Player -------------------------------
(***************************************************************************)
(* The playback engine, src/macroflow/player.py.                           *)
(*                                                                         *)
(* A worker thread (_play_loop) replays a macro through SendInput while    *)
(* other threads call play, stop, pause and resume.  The module globals    *)
(* are the variables below.  A region under _input_state_lock, and one     *)
(* under _playback_lifecycle_lock that does not block, is a single action; *)
(* play() joins the old worker inside its region, so the lifecycle lock    *)
(* itself is a variable, and a call that finds it held waits at its entry. *)
(* Everything between two regions interleaves.                             *)
(*                                                                         *)
(* Time is abstracted: a deadline wait may be over at any moment the clock *)
(* is not paused, and a join may time out.                                 *)
(***************************************************************************)
EXTENDS Naturals, Sequences, FiniteSets

CONSTANTS
    Ctl,        \* threads other than the workers that call the player
    Worker,     \* the playback threads that may be created
    None,       \* Python's None
    Input,      \* the keys and the mouse buttons a macro presses
    Macros,     \* the macros play() may be given: sequences of events
    May         \* the programs to consider: thread |-> the operations it calls

Thread == Ctl \cup Worker
Ops == {"play", "stop", "pause", "resume"}

EventType == {"key_down", "key_up", "mouse_down", "checked_down", "mouse_up",
              "move", "wheel", "text", "wait", "trigger", "block", "end"}
Mismatch == {"skip", "stop", "wait"}

(* One event of a flattened macro.  A Condition or a Loop is a "block", the *)
(* inner events it runs, and an "end".                                      *)
Event == [type : EventType, in : Input, mismatch : Mismatch, inner : BOOLEAN]

ASSUME PlayerAssumption ==
    /\ None \notin Thread \cup Input
    /\ Ctl \cap Worker = {}
    /\ Macros \subseteq Seq(Event)
    /\ May \subseteq [Thread -> SUBSET Ops]

VARIABLES
    thread,         \* _playback_thread
    session,        \* _playback_session (named by the worker it was made for)
    lock,           \* holder of _playback_lifecycle_lock
    stopInProgress, \* _playback_stop_in_progress
    stopFlag,       \* _stop_flag
    paused,         \* _PlaybackClock._paused
    pending,        \* _pause_pending
    pauseEvent,     \* the caller's event behind start_pause_requested
    active,         \* _active_play_state (named by its worker)
    pressed,        \* worker |-> pressed_keys and pressed_mouse of its state
    osDown,         \* the inputs the operating system sees held down
    canDrag,        \* worker |-> pending_down is set and no move came since
    skip,           \* worker |-> color_check_skip_button
    macro,          \* worker |-> the events it plays
    wpc, idx,       \* worker |-> where _play_loop stands, and at which event
    position,       \* _current_event_position
    dropped,        \* a pause dropped the event in hand (history)
    pc,             \* thread |-> where its call of the player stands
    may,            \* which of the programs this is
    arg, target     \* thread |-> stop()'s argument, and the worker it captured

lifecycle == <<thread, session, lock, stopInProgress, stopFlag>>
clock == <<paused, pending, pauseEvent>>
inputs == <<active, pressed, osDown, canDrag, skip>>
loop == <<idx, position, dropped>>
work == <<wpc, macro, loop>>
calls == <<pc, arg, target>>
vars == <<lifecycle, clock, inputs, work, calls, may>>

Alive(w) == wpc[w] \notin {"new", "dead"}
IsPlaying == thread # None /\ Alive(thread)
Current(w) == macro[w][idx[w]]

Init ==
    /\ thread = None /\ session = None /\ lock = None
    /\ stopInProgress = FALSE /\ stopFlag = FALSE
    /\ paused = FALSE /\ pending = FALSE /\ pauseEvent = FALSE
    /\ active = None
    /\ pressed = [w \in Worker |-> {}] /\ osDown = {}
    /\ canDrag = [w \in Worker |-> FALSE]
    /\ skip = [w \in Worker |-> None]
    /\ macro = [w \in Worker |-> <<>>]
    /\ wpc = [w \in Worker |-> "new"] /\ idx = [w \in Worker |-> 1]
    /\ position = 0 /\ dropped = FALSE
    /\ pc = [t \in Thread |-> "idle"] /\ may \in May
    /\ arg = [t \in Thread |-> None] /\ target = [t \in Thread |-> None]

-----------------------------------------------------------------------------
(* Helpers of the actions.                                                 *)

(* Worker w moves from one program point to the next ... *)
Goto(w, from, to) ==
    /\ wpc[w] = from
    /\ wpc' = [wpc EXCEPT ![w] = to]
    /\ UNCHANGED <<lifecycle, macro, calls>>

(* ... and does nothing else. *)
Stay == UNCHANGED <<clock, inputs, loop>>

(* The caller t moves from one point of its call to the next. *)
Step(t, from, to) == pc[t] = from /\ pc' = [pc EXCEPT ![t] = to]

(* _release_active_inputs: key-up and button-up for all the active state   *)
(* holds, whichever thread calls it.                                       *)
ReleaseActive ==
    /\ osDown' = IF active = None THEN osDown ELSE osDown \ pressed[active]
    /\ pressed' = [w \in Worker |-> IF w = active THEN {} ELSE pressed[w]]
    /\ canDrag' = [w \in Worker |-> w # active /\ canDrag[w]]
    /\ UNCHANGED <<active, skip>>

(* A worker inside a callback of its caller may call the player again.     *)
InCallback == {"cb", "oncb", "complete", "error"}
MayCall(t, op) ==
    /\ pc[t] = "idle" /\ op \in may[t]
    /\ t \in Worker => wpc[t] \in InCallback

-----------------------------------------------------------------------------
(* The worker: _play_loop.                                                 *)

(* The new _PlayState becomes the active one. *)
Begin(w) ==
    /\ Goto(w, "start", "askpause")
    /\ active' = w
    /\ UNCHANGED <<clock, pressed, osDown, canDrag, skip, loop>>

(* start_pause_requested() is read first; a later step pauses the clock. *)
AskPause(w) == Goto(w, "askpause", IF pauseEvent THEN "startpause" ELSE "reset") /\ Stay

StartPause(w) ==
    /\ Goto(w, "startpause", "reset")
    /\ paused' = TRUE
    /\ UNCHANGED <<pending, pauseEvent, inputs, loop>>

ResetProgress(w) ==
    /\ Goto(w, "reset", "top")
    /\ position' = 0 /\ dropped' = FALSE
    /\ UNCHANGED <<clock, inputs, idx>>

(* Mutant of Top: the wait at the loop head does not look at the stop flag. *)
TopDeafToStop(w) ==
    /\ wpc[w] = "top"
    /\ CASE idx[w] > Len(macro[w]) -> Goto(w, "top", IF stopFlag THEN "ending" ELSE "finish")
         [] idx[w] <= Len(macro[w]) /\ Current(w).type = "end" -> Goto(w, "top", "after")
         [] OTHER -> ~paused /\ Goto(w, "top", IF stopFlag THEN "ending" ELSE "due")
    /\ dropped' = FALSE
    /\ UNCHANGED <<clock, inputs, idx, position>>

(* The loop head: the end of the macro, the end of a block (which waits    *)
(* for nothing), or wait_until_resumed for the next event.                 *)
Top(w) ==
    /\ wpc[w] = "top"
    /\ CASE idx[w] > Len(macro[w]) -> Goto(w, "top", IF stopFlag THEN "ending" ELSE "finish")
         [] idx[w] <= Len(macro[w]) /\ Current(w).type = "end" -> Goto(w, "top", "after")
         [] OTHER -> /\ paused => stopFlag
                     /\ Goto(w, "top", IF stopFlag THEN "ending" ELSE "due")
    /\ dropped' = FALSE
    /\ UNCHANGED <<clock, inputs, idx, position>>

(* The wait for the event's target time.  A late event does not wait, and  *)
(* sees neither pause nor stop; inner events have no start callback.       *)
Due(w) ==
    /\ \/ Goto(w, "due", IF Current(w).inner THEN "exec" ELSE "cb")
       \/ stopFlag /\ Goto(w, "due", "ending")
    /\ Stay

(* on_event_start returns, or raises. *)
StartCallback(w) ==
    /\ pc[w] = "idle"
    /\ Goto(w, "cb", "cbstop") \/ Goto(w, "cb", "raise")
    /\ Stay

(* The stop check, then wait_until_resumed again. *)
CallbackStopCheck(w) == Goto(w, "cbstop", IF stopFlag THEN "ending" ELSE "cbwait") /\ Stay

CallbackWait(w) ==
    /\ paused => stopFlag
    /\ Goto(w, "cbwait", IF stopFlag THEN "ending" ELSE "exec")
    /\ Stay

-----------------------------------------------------------------------------
(* The worker: _execute_event.                                             *)

IsSkippedUp(w) == Current(w).type = "mouse_up" /\ skip[w] = Current(w).in

(* Where an event that passed the stop check goes next.  A mouse-up is a   *)
(* drag if the recorded distance or time passes its threshold, which the   *)
(* recorded data decides; a paste may fail.                                *)
Dispatch(w) ==
    LET e == Current(w) IN
    CASE e.type \in {"key_down", "key_up", "mouse_down"} -> {"locked"}
      [] e.type = "checked_down" -> {"color"}
      [] e.type = "mouse_up" -> IF canDrag[w] THEN {"locked", "drag"} ELSE {"locked"}
      [] e.type \in {"move", "wheel"} -> {"after"}
      [] e.type = "text" -> {"after", "raise"}
      [] e.type = "wait" -> {"waiting"}
      [] e.type = "trigger" -> {"watching"}
      [] OTHER -> {"top"}

ExecuteStopped(w) == stopFlag /\ Goto(w, "exec", "after") /\ Stay

(* The mouse-up of a click that the colour check skipped. *)
ExecuteSkippedUp(w) ==
    /\ Goto(w, "exec", "after")
    /\ ~stopFlag /\ IsSkippedUp(w)
    /\ skip' = [skip EXCEPT ![w] = None]
    /\ UNCHANGED <<clock, active, pressed, osDown, canDrag, loop>>

(* Every other event; a block goes on with its first inner event. *)
Execute(w) ==
    /\ wpc[w] = "exec" /\ ~stopFlag /\ ~IsSkippedUp(w)
    /\ \E to \in Dispatch(w) : Goto(w, "exec", to)
    /\ canDrag' = [canDrag EXCEPT ![w] = @ /\ Current(w).type # "move"]
    /\ idx' = [idx EXCEPT ![w] = IF Current(w).type = "block" THEN @ + 1 ELSE @]
    /\ UNCHANGED <<clock, active, pressed, osDown, skip, position, dropped>>

(* The colour check of a click ends: by a stop, with a match (or a "wait"  *)
(* timeout, which clicks anyway), or with a timeout that skips or raises.  *)
ColorCheckStopped(w) == stopFlag /\ Goto(w, "color", "after") /\ Stay

ColorCheck(w) ==
    /\ ~stopFlag
    /\ \/ Goto(w, "color", "locked") /\ UNCHANGED skip
       \/ /\ Goto(w, "color", "after")
          /\ Current(w).mismatch = "skip"
          /\ skip' = [skip EXCEPT ![w] = Current(w).in]
       \/ /\ Goto(w, "color", "raise")
          /\ Current(w).mismatch = "stop"
          /\ UNCHANGED skip
    /\ UNCHANGED <<clock, active, pressed, osDown, canDrag, loop>>

IsDown(e) == e.type \in {"key_down", "mouse_down", "checked_down"}
IsMouse(e) == e.type \notin {"key_down", "key_up"}

(* Under _input_state_lock: a paused clock drops the event (never a        *)
(* mouse-up), otherwise the input is sent and the state keeps track of it. *)
DropPaused(w) ==
    /\ Goto(w, "locked", "after")
    /\ paused /\ Current(w).type # "mouse_up"
    /\ dropped' = TRUE
    /\ UNCHANGED <<clock, inputs, idx, position>>

SendDown(w) ==
    LET e == Current(w) IN
    /\ Goto(w, "locked", "after")
    /\ ~paused /\ IsDown(e)
    /\ osDown' = osDown \cup {e.in}
    /\ pressed' = [pressed EXCEPT ![w] = @ \cup {e.in}]
    /\ canDrag' = [canDrag EXCEPT ![w] = @ \/ IsMouse(e)]
    /\ UNCHANGED <<clock, active, skip, loop>>

SendUp(w) ==
    LET e == Current(w) IN
    /\ Goto(w, "locked", "after")
    /\ ~IsDown(e)
    /\ paused => e.type = "mouse_up"
    /\ osDown' = osDown \ {e.in}
    /\ pressed' = [pressed EXCEPT ![w] = @ \ {e.in}]
    /\ canDrag' = [canDrag EXCEPT ![w] = @ /\ ~IsMouse(e)]
    /\ UNCHANGED <<clock, active, skip, loop>>

(* send_mouse_drag is one SendInput batch from down to up, outside the     *)
(* lock; the state forgets the button in a later region.                   *)
SendDrag(w) ==
    /\ Goto(w, "drag", "dragpop")
    /\ osDown' = osDown \ {Current(w).in}
    /\ UNCHANGED <<clock, active, pressed, canDrag, skip, loop>>

PopDragged(w) ==
    /\ Goto(w, "dragpop", "after")
    /\ pressed' = [pressed EXCEPT ![w] = @ \ {Current(w).in}]
    /\ canDrag' = [canDrag EXCEPT ![w] = FALSE]
    /\ UNCHANGED <<clock, active, osDown, skip, loop>>

(* A WaitEvent: active time runs out only while the clock runs. *)
WaitEnds(w) == (paused => stopFlag) /\ Goto(w, "waiting", "after") /\ Stay

(* A colour or window trigger: a stop ends it, else the screen shows what  *)
(* it waits for, or its timeout skips or raises.                           *)
TriggerStopped(w) == stopFlag /\ Goto(w, "watching", "after") /\ Stay

TriggerEnds(w) ==
    /\ ~stopFlag
    /\ Goto(w, "watching", "after") \/ Goto(w, "watching", "raise")
    /\ Stay

(* _apply_pending_pause_if_safe: the deferred pause takes hold once no     *)
(* gesture of this worker is open.                                         *)
ApplyPendingPause(w) ==
    /\ Goto(w, "after", "check")
    /\ IF pending /\ pressed[w] = {}
       THEN pending' = FALSE /\ paused' = TRUE
       ELSE UNCHANGED <<pending, paused>>
    /\ UNCHANGED <<pauseEvent, inputs, loop>>

(* The stop check after an event.  A top-level event then counts as done.  *)
EventDone(w) ==
    /\ \/ stopFlag /\ Goto(w, "check", "ending") /\ UNCHANGED <<idx, position>>
       \/ /\ Goto(w, "check", "top")
          /\ ~stopFlag /\ Current(w).inner
          /\ idx' = [idx EXCEPT ![w] = @ + 1]
          /\ UNCHANGED position
       \/ /\ Goto(w, "check", "oncb")
          /\ ~stopFlag /\ ~Current(w).inner
          /\ position' = position + 1
          /\ UNCHANGED idx
    /\ UNCHANGED <<clock, inputs, dropped>>

(* on_event returns, or raises. *)
DoneCallback(w) ==
    /\ pc[w] = "idle"
    /\ \/ Goto(w, "oncb", "top") /\ idx' = [idx EXCEPT ![w] = @ + 1]
       \/ Goto(w, "oncb", "raise") /\ UNCHANGED idx
    /\ UNCHANGED <<clock, inputs, position, dropped>>

(* Mutant of ReleaseAtEnd: the error path does not release. *)
ReleaseAtEndForgotten(w) ==
    /\ \/ Goto(w, "raise", "error") /\ UNCHANGED inputs
       \/ Goto(w, "finish", "complete") /\ ReleaseActive
    /\ UNCHANGED <<clock, loop>>

(* The release on an error or at the natural end, before the last callback. *)
ReleaseAtEnd(w) ==
    /\ Goto(w, "raise", "error") \/ Goto(w, "finish", "complete")
    /\ ReleaseActive
    /\ UNCHANGED <<clock, loop>>

(* on_error or on_complete. *)
LastCallback(w) ==
    /\ pc[w] = "idle"
    /\ Goto(w, "error", "ending") \/ Goto(w, "complete", "ending")
    /\ Stay

(* _play_loop has returned; is_alive() turns false later. *)
Die(w) == Goto(w, "ending", "dead") /\ Stay

-----------------------------------------------------------------------------
(* play().                                                                 *)

(* While another play() has the lock, the call waits for it.               *)
PlayWait(t) ==
    /\ MayCall(t, "play") /\ lock # None
    /\ Step(t, "idle", "p_enter")
    /\ UNCHANGED <<lifecycle, clock, inputs, work, arg, target>>

(* A stop in progress, or a call from the worker itself, raises            *)
(* PlaybackError and changes nothing.                                      *)
CannotPlay(t) == stopInProgress \/ (IsPlaying /\ thread = t)

PlayRefused(t) ==
    /\ lock = None /\ CannotPlay(t)
    /\ Step(t, "p_enter", "idle")
    /\ UNCHANGED <<lifecycle, clock, inputs, work, arg, target>>

(* The entry of the locked region. *)
PlayEnter(t) ==
    /\ MayCall(t, "play") \/ pc[t] = "p_enter"
    /\ lock = None /\ ~CannotPlay(t)
    /\ lock' = t
    /\ pc' = [pc EXCEPT ![t] = IF IsPlaying THEN "p_join" ELSE "p_clear"]
    /\ UNCHANGED <<thread, session, stopInProgress, stopFlag, clock, inputs, work,
                   arg, target>>

(* Mutant of PlayJoin: the worker is not looked at again after the join. *)
PlayJoinIgnoresTimeout(t) ==
    /\ Step(t, "p_join", "p_clear")
    /\ UNCHANGED <<lifecycle, clock, inputs, work, arg, target>>

(* Mutant of PlayJoin: a join without a timeout. *)
PlayJoinForEver(t) ==
    /\ ~IsPlaying
    /\ Step(t, "p_join", "p_clear")
    /\ UNCHANGED <<lifecycle, clock, inputs, work, arg, target>>

(* join(timeout=0.1): the old worker is dead, or still alive and play raises. *)
PlayJoin(t) ==
    /\ Step(t, "p_join", IF IsPlaying THEN "idle" ELSE "p_clear")
    /\ lock' = IF IsPlaying THEN None ELSE lock
    /\ UNCHANGED <<thread, session, stopInProgress, stopFlag, clock, inputs, work,
                   arg, target>>

(* Mutant of PlayClear: only the clock is reset. *)
PlayClearKeepsStop(t) ==
    /\ Step(t, "p_clear", "p_pending")
    /\ paused' = FALSE
    /\ UNCHANGED <<lifecycle, pending, pauseEvent, inputs, work, arg, target>>

(* _stop_flag.clear() and the clock's reset.  No worker is alive to see the *)
(* moment between the two.                                                  *)
PlayClear(t) ==
    /\ Step(t, "p_clear", "p_pending")
    /\ stopFlag' = FALSE /\ paused' = FALSE
    /\ UNCHANGED <<thread, session, lock, stopInProgress, pending, pauseEvent, inputs,
                   work, arg, target>>

PlayClearPending(t) ==
    /\ Step(t, "p_pending", "p_spawn")
    /\ pending' = FALSE
    /\ UNCHANGED <<lifecycle, paused, pauseEvent, inputs, work, arg, target>>

(* The new worker and its session are published and the thread starts, or  *)
(* Thread.start raises and both are withdrawn.                             *)
PlaySpawn(t) ==
    /\ Step(t, "p_spawn", "idle")
    /\ lock' = None
    /\ \/ \E w \in Worker, m \in Macros :
             /\ wpc[w] = "new"
             /\ wpc' = [wpc EXCEPT ![w] = "start"]
             /\ macro' = [macro EXCEPT ![w] = m]
             /\ thread' = w /\ session' = w
       \/ thread' = None /\ session' = None /\ UNCHANGED <<wpc, macro>>
    /\ UNCHANGED <<stopInProgress, stopFlag, clock, inputs, loop, arg, target>>

-----------------------------------------------------------------------------
(* stop(session).                                                          *)

(* While a play() has the lock, the call waits for it; the session it was   *)
(* given may be an old one by then.  The main window clears its pause event *)
(* before it calls.                                                         *)
StopWait(t) ==
    /\ MayCall(t, "stop") /\ lock # None
    /\ Step(t, "idle", "s_enter")
    /\ \E s \in {session, None} : arg' = [arg EXCEPT ![t] = s]
    /\ pauseEvent' = FALSE
    /\ UNCHANGED <<lifecycle, paused, pending, inputs, work, target>>

(* Another stop in progress, a session that is not the current one, or an   *)
(* owned worker already dead returns False and changes nothing.             *)
CannotStop(s) == stopInProgress \/ (s # None /\ (s # session \/ ~IsPlaying))

StopRefused(t) ==
    /\ lock = None /\ CannotStop(arg[t])
    /\ Step(t, "s_enter", "idle")
    /\ arg' = [arg EXCEPT ![t] = None]
    /\ UNCHANGED <<lifecycle, clock, inputs, work, target>>

(* The first locked region. *)
StopEnter(t) ==
    \E s \in IF pc[t] = "s_enter" THEN {arg[t]} ELSE {session, None} :
    /\ MayCall(t, "stop") \/ pc[t] = "s_enter"
    /\ lock = None /\ ~CannotStop(s)
    /\ stopInProgress' = TRUE /\ stopFlag' = TRUE
    /\ pc' = [pc EXCEPT ![t] = "s_pending"]
    /\ arg' = [arg EXCEPT ![t] = s]
    /\ target' = [target EXCEPT ![t] = thread]
    /\ pauseEvent' = FALSE
    /\ UNCHANGED <<thread, session, lock, paused, pending, inputs, work>>

(* notify_stop wakes the waits, which read stopFlag; then the pending pause *)
(* is dropped.                                                              *)
StopClearPending(t) ==
    /\ Step(t, "s_pending", "s_release")
    /\ pending' = FALSE
    /\ UNCHANGED <<lifecycle, paused, pauseEvent, inputs, work, arg, target>>

(* Mutant of StopRelease: stop only joins, and leaves the release to the worker. *)
StopReleaseForgotten(t) ==
    /\ Step(t, "s_release", IF target[t] \in {None, t} THEN "s_final" ELSE "s_join")
    /\ UNCHANGED <<lifecycle, clock, inputs, work, arg, target>>

StopRelease(t) ==
    /\ Step(t, "s_release", IF target[t] \in {None, t} THEN "s_final" ELSE "s_join")
    /\ ReleaseActive
    /\ UNCHANGED <<lifecycle, clock, work, arg, target>>

(* join(timeout=3.0) returns with the worker dead or alive. *)
StopJoin(t) ==
    /\ Step(t, "s_join", "s_final")
    /\ UNCHANGED <<lifecycle, clock, inputs, work, arg, target>>

(* Mutant of StopFinal: the signal is taken back after the join, dead or not. *)
StopFinalAlwaysClears(t) ==
    /\ lock = None
    /\ Step(t, "s_final", "idle")
    /\ stopInProgress' = FALSE /\ stopFlag' = FALSE /\ paused' = FALSE
    /\ session' = None
    /\ arg' = [arg EXCEPT ![t] = None] /\ target' = [target EXCEPT ![t] = None]
    /\ UNCHANGED <<thread, lock, pending, pauseEvent, inputs, work>>

(* The last locked region.  The stop signal of a worker that is still      *)
(* alive is kept, so that it cannot come back to life.                     *)
StopFinal(t) ==
    /\ lock = None
    /\ Step(t, "s_final", "idle")
    /\ stopInProgress' = FALSE
    /\ IF target[t] # None /\ Alive(target[t])
       THEN UNCHANGED <<session, stopFlag, paused>>
       ELSE /\ session' = IF arg[t] \in {None, session} THEN None ELSE session
            /\ stopFlag' = FALSE /\ paused' = FALSE
    /\ arg' = [arg EXCEPT ![t] = None]
    /\ target' = [target EXCEPT ![t] = None]
    /\ UNCHANGED <<thread, lock, pending, pauseEvent, inputs, work>>

-----------------------------------------------------------------------------
(* pause() and resume(), as the main window's toggle calls them: its pause *)
(* event first, then the player.                                           *)

PauseEnter(t) ==
    /\ MayCall(t, "pause") /\ ~pauseEvent
    /\ pauseEvent' = TRUE
    /\ Step(t, "idle", IF IsPlaying THEN "a_lock" ELSE "idle")
    /\ UNCHANGED <<lifecycle, paused, pending, inputs, work, arg, target>>

(* Mutant of PauseLocked: open gestures do not defer the pause. *)
PauseLockedAtOnce(t) ==
    /\ Step(t, "a_lock", "idle")
    /\ paused' = TRUE
    /\ UNCHANGED <<lifecycle, pending, pauseEvent, inputs, work, arg, target>>

(* Under the input lock: an open gesture defers the pause. *)
PauseLocked(t) ==
    /\ Step(t, "a_lock", "idle")
    /\ IF pending \/ paused THEN UNCHANGED <<pending, paused>>
       ELSE IF active # None /\ pressed[active] # {}
            THEN pending' = TRUE /\ UNCHANGED paused
            ELSE paused' = TRUE /\ UNCHANGED pending
    /\ UNCHANGED <<lifecycle, pauseEvent, inputs, work, arg, target>>

ResumeEnter(t) ==
    /\ MayCall(t, "resume") /\ pauseEvent
    /\ pauseEvent' = FALSE
    /\ Step(t, "idle", IF IsPlaying THEN "r_lock" ELSE "idle")
    /\ UNCHANGED <<lifecycle, paused, pending, inputs, work, arg, target>>

ResumeLocked(t) ==
    /\ Step(t, "r_lock", "idle")
    /\ pending' = FALSE
    /\ paused' = (pending /\ paused)
    /\ UNCHANGED <<lifecycle, pauseEvent, inputs, work, arg, target>>

-----------------------------------------------------------------------------
WorkerStep(w) ==
    \/ Begin(w) \/ AskPause(w) \/ StartPause(w) \/ ResetProgress(w)
    \/ Top(w) \/ Due(w) \/ StartCallback(w) \/ CallbackStopCheck(w) \/ CallbackWait(w)
    \/ ExecuteStopped(w) \/ ExecuteSkippedUp(w) \/ Execute(w)
    \/ ColorCheckStopped(w) \/ DropPaused(w) \/ SendDown(w) \/ SendUp(w)
    \/ SendDrag(w) \/ PopDragged(w) \/ WaitEnds(w) \/ TriggerStopped(w)
    \/ ApplyPendingPause(w) \/ EventDone(w) \/ DoneCallback(w)
    \/ ReleaseAtEnd(w) \/ LastCallback(w) \/ Die(w)

(* What the screen decides, and when. *)
ScreenStep(w) == ColorCheck(w) \/ TriggerEnds(w)

CallStep(t) ==
    \/ PlayJoin(t) \/ PlayClear(t) \/ PlayClearPending(t) \/ PlaySpawn(t)
    \/ StopClearPending(t) \/ StopRelease(t) \/ StopJoin(t) \/ StopFinal(t)
    \/ PauseLocked(t) \/ ResumeLocked(t)

NewCall(t) == PlayEnter(t) \/ StopEnter(t) \/ PauseEnter(t) \/ ResumeEnter(t)

(* The wait for the lifecycle lock, and the calls that get it in vain.     *)
LockCall(t) == PlayWait(t) \/ StopWait(t) \/ PlayRefused(t) \/ StopRefused(t)

Next ==
    /\ \/ \E w \in Worker : WorkerStep(w) \/ ScreenStep(w)
       \/ \E t \in Thread : CallStep(t) \/ NewCall(t) \/ LockCall(t)
    /\ UNCHANGED may

(* The scheduler runs every thread that can run; nobody has to call the    *)
(* player, and the screen need not ever show what a macro waits for.  A    *)
(* call that waits for the lifecycle lock gets it, if it is free again and *)
(* again: every play() that fails takes it and gives it back.              *)
Waiting == {"p_enter", "s_enter"}
GetsLock(t) == pc[t] \in Waiting /\ (NewCall(t) \/ LockCall(t))

Fairness ==
    /\ \A w \in Worker : WF_vars(WorkerStep(w) /\ UNCHANGED may)
    /\ \A t \in Thread : WF_vars(CallStep(t) /\ UNCHANGED may)
    /\ \A t \in Thread : SF_vars(GetsLock(t) /\ UNCHANGED may)

Spec == Init /\ [][Next]_vars
FairSpec == Spec /\ Fairness

-----------------------------------------------------------------------------
(* Properties.                                                             *)

WorkerPoint ==
    {"new", "start", "askpause", "startpause", "reset", "top", "due", "cb", "cbstop",
     "cbwait", "exec", "color", "locked", "drag", "dragpop", "waiting", "watching",
     "after", "check", "oncb", "raise", "error", "finish", "complete", "ending", "dead"}

PlayPoint == {"p_join", "p_clear", "p_pending", "p_spawn"}
StopPoint == {"s_pending", "s_release", "s_join", "s_final"}
CallPoint == PlayPoint \cup StopPoint \cup Waiting \cup {"idle", "a_lock", "r_lock"}

(* Every variable ranges over the values the code can give it.             *)
TypeOK ==
    /\ thread \in Worker \cup {None} /\ session \in Worker \cup {None}
    /\ lock \in Thread \cup {None}
    /\ stopInProgress \in BOOLEAN /\ stopFlag \in BOOLEAN
    /\ paused \in BOOLEAN /\ pending \in BOOLEAN /\ pauseEvent \in BOOLEAN
    /\ active \in Worker \cup {None}
    /\ pressed \in [Worker -> SUBSET Input] /\ osDown \in SUBSET Input
    /\ canDrag \in [Worker -> BOOLEAN]
    /\ skip \in [Worker -> Input \cup {None}]
    /\ macro \in [Worker -> Seq(Event)]
    /\ wpc \in [Worker -> WorkerPoint]
    /\ idx \in [Worker -> Nat] /\ position \in Nat /\ dropped \in BOOLEAN
    /\ pc \in [Thread -> CallPoint]
    /\ arg \in [Thread -> Worker \cup {None}]
    /\ target \in [Thread -> Worker \cup {None}]

(* play() rejects a live worker under the lifecycle lock, so two workers   *)
(* never drive the one mouse and keyboard at the same time.                *)
OneWorker == \A v, w \in Worker : Alive(v) /\ Alive(w) => v = w

(* "old worker stop clear 후 재개되는 race를 막는다" (stop): the stop signal  *)
(* is only taken back when no worker is alive, whatever stop and play do   *)
(* around a join that timed out; a stopped worker never comes back to life. *)
StopClearedOnlyWhenDead ==
    [][stopFlag /\ ~stopFlag' => \A w \in Worker : ~Alive(w)]_vars

(* A pause takes hold only at a boundary where no gesture is open: while   *)
(* the clock is paused, a worker that is alive holds no key and no button. *)
PausedMeansReleased ==
    paused => \A w \in Worker : Alive(w) => pressed[w] = {}

(* Whatever the system holds down because of a macro is recorded in a play *)
(* state, so that a release can still find it.                             *)
HeldIsTracked == osDown \subseteq UNION {pressed[w] : w \in Worker}

(* Once stop() has released the inputs, the worker has at most the one     *)
(* input held that it was sending when the stop came.                      *)
StopLeavesAtMostInFlight ==
    \A t \in Thread :
        pc[t] \in {"s_join", "s_final"} /\ active # None =>
            Cardinality(pressed[active]) <= 1

(* "stop/error/ESC 종료 시에만 남아 있는 key/button을 정확히 한 번 release":    *)
(* no input is left held once no worker is alive and no stop is under way. *)
NothingHeldAtRest ==
    (~stopInProgress /\ \A w \in Worker : ~Alive(w)) => osDown = {}

(* When nobody stops it, a playback that ends, of itself or by an error,   *)
(* leaves nothing held, however often it was paused and resumed.           *)
EndReleases ==
    (\A t \in Thread : "stop" \notin may[t]) => NothingHeldAtRest

(* get_progress() counts "실행 완료된 이벤트": an event that is counted was   *)
(* carried out, not dropped by a pause that came between the last check    *)
(* and the input lock.                                                     *)
ProgressCountsExecuted ==
    [][\A w \in Worker : position' > position => ~dropped]_vars

(* F8 resumes: with no call under way, a playback the user has resumed is  *)
(* not paused.                                                             *)
ResumeTakesHold ==
    (IsPlaying /\ ~stopFlag /\ ~pauseEvent /\ \A t \in Thread : pc[t] = "idle")
        => ~paused

(* "F7/중지 버튼/ESC×3은 pause 상태에서도 즉시 전체 중지": a worker told to stop *)
(* dies, paused or not, whatever it waits for.  (A callback that calls the *)
(* player without end would keep its worker.)                              *)
StoppedWorkerDies ==
    \A w \in Worker : (stopFlag /\ Alive(w) /\ may[w] = {}) ~> ~Alive(w)

(* Every call of the player returns: no join, no wait for the lifecycle    *)
(* lock and no callback that itself calls the player waits for another     *)
(* for ever (the timeouts of the joins in play and stop).                  *)
CallsReturn == \A t \in Thread : (pc[t] # "idle") ~> (pc[t] = "idle")

(* The whole of it, seen from the callers' side: every step of the threads *)
(* is a step of PlaybackSlot.                                              *)
Slot == INSTANCE PlaybackSlot WITH
    running <- IF IsPlaying THEN thread ELSE None,
    used <- {w \in Worker : wpc[w] # "new"},
    stopping <- stopFlag,
    down <- osDown

ImplementsSlot == Slot!Spec

=============================================================================
