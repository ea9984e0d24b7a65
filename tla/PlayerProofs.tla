---------------------------- MODULE PlayerProofs ----------------------------
(***************************************************************************)
(* Theorems about Player, for any number of threads, workers and inputs,   *)
(* any macros and any assignment of operations to threads.                 *)
(***************************************************************************)
EXTENDS Player, FiniteSetTheorems, TLAPS

(* Between the loop head and the callback after an event, the worker is at *)
(* an event of its macro.                                                  *)
AtEvent == {"due", "cb", "cbstop", "cbwait", "exec", "color", "locked", "drag",
            "dragpop", "waiting", "watching", "after", "check", "oncb"}

IndexInv ==
    \A w \in Worker :
        /\ idx[w] >= 1
        /\ wpc[w] \in AtEvent => idx[w] <= Len(macro[w])

(* The event in hand is an event. *)
LEMMA CurrentIsEvent ==
    ASSUME TypeOK, IndexInv, NEW w \in Worker, wpc[w] \in AtEvent
    PROVE  Current(w) \in Event /\ Current(w).in \in Input
  <1>1. macro[w] \in Seq(Event) /\ idx[w] \in 1 .. Len(macro[w])
    BY DEF TypeOK, IndexInv
  <1>2. Current(w) \in Event
    BY <1>1 DEF Current
  <1>. QED
    BY <1>2 DEF Event

LEMMA InitInv == Init => TypeOK /\ IndexInv
  <1> SUFFICES ASSUME Init PROVE TypeOK /\ IndexInv
    OBVIOUS
  <1>1. "new" \in WorkerPoint /\ "new" \notin AtEvent /\ "idle" \in CallPoint
    BY DEF WorkerPoint, AtEvent, CallPoint
  <1>2. <<>> \in Seq(Event)
    OBVIOUS
  <1>3. TypeOK
    BY <1>1, <1>2 DEF Init, TypeOK
  <1>4. IndexInv
    BY <1>1 DEF Init, IndexInv
  <1>. QED
    BY <1>3, <1>4

(* A step of a worker that only moves it, and to an event only from one.   *)
LEMMA MoveTypes ==
    ASSUME TypeOK, IndexInv, NEW w \in Worker,
           NEW from, NEW to \in WorkerPoint, to \in AtEvent => from \in AtEvent,
           Goto(w, from, to), Stay
    PROVE  TypeOK' /\ IndexInv'
  BY DEF TypeOK, IndexInv, Goto, Stay, lifecycle, clock, inputs, loop, calls

(* A step to or from the top of the loop, to an event if one is left.      *)
LEMMA TopTypes ==
    ASSUME TypeOK, IndexInv, NEW w \in Worker,
           NEW from, NEW to \in WorkerPoint, to \in AtEvent => idx[w] <= Len(macro[w]),
           Goto(w, from, to), dropped' = FALSE, position' \in Nat,
           UNCHANGED <<clock, inputs, idx>>
    PROVE  TypeOK' /\ IndexInv'
  <1>1. TypeOK'
    BY DEF TypeOK, Goto, lifecycle, clock, inputs, calls
  <1>2. IndexInv'
    <2> SUFFICES ASSUME NEW v \in Worker
                 PROVE  idx'[v] >= 1 /\ (wpc'[v] \in AtEvent => idx'[v] <= Len(macro'[v]))
      BY DEF IndexInv
    <2>1. idx' = idx /\ macro' = macro /\ wpc' = [wpc EXCEPT ![w] = to]
      BY DEF Goto
    <2>2. wpc \in [Worker -> WorkerPoint]
      BY DEF TypeOK
    <2>. QED
      BY <2>1, <2>2 DEF IndexInv
  <1>. QED
    BY <1>1, <1>2

(* The steps of a worker, one by one. *)
LEMMA WorkerTypes ==
    ASSUME TypeOK, IndexInv, NEW w \in Worker, WorkerStep(w) \/ ScreenStep(w)
    PROVE  TypeOK' /\ IndexInv'
  <1> USE DEF AtEvent, WorkerPoint
  <1>1. CASE Begin(w)
    BY <1>1 DEF Begin, TypeOK, IndexInv, Goto, lifecycle, clock, loop, calls
  <1>2. CASE AskPause(w)
    BY <1>2, MoveTypes DEF AskPause
  <1>3. CASE StartPause(w)
    BY <1>3 DEF StartPause, TypeOK, IndexInv, Goto, lifecycle, inputs, loop, calls
  <1>4. CASE ResetProgress(w)
    <2>1. Goto(w, "reset", "top") /\ dropped' = FALSE /\ position' \in Nat
      BY <1>4 DEF ResetProgress
    <2>2. UNCHANGED <<clock, inputs, idx>>
      BY <1>4 DEF ResetProgress
    <2>. QED
      BY <2>1, <2>2, TopTypes
  <1>5. CASE Top(w)
    <2>1. dropped' = FALSE /\ position' \in Nat /\ UNCHANGED <<clock, inputs, idx>>
      BY <1>5 DEF Top, TypeOK
    <2>2. idx[w] \in Nat /\ Len(macro[w]) \in Nat
      BY DEF TypeOK
    <2>3. CASE idx[w] > Len(macro[w])
      <3>1. PICK to \in {"ending", "finish"} : Goto(w, "top", to)
        BY <1>5, <2>2, <2>3 DEF Top
      <3>. QED
        BY <2>1, <3>1, TopTypes
    <2>4. CASE idx[w] <= Len(macro[w])
      <3>1. PICK to \in {"after", "ending", "due"} : Goto(w, "top", to)
        BY <1>5, <2>2, <2>4 DEF Top
      <3>. QED
        BY <2>1, <2>4, <3>1, TopTypes
    <2>. QED
      BY <2>2, <2>3, <2>4
  <1>6. CASE Due(w)
    <2>1. Stay
      BY <1>6 DEF Due
    <2>2. PICK to \in {"exec", "cb", "ending"} : Goto(w, "due", to)
      BY <1>6 DEF Due
    <2>. QED
      BY <2>1, <2>2, MoveTypes
  <1>7. CASE StartCallback(w)
    <2>1. PICK to \in {"cbstop", "raise"} : Goto(w, "cb", to) /\ Stay
      BY <1>7 DEF StartCallback
    <2>. QED
      BY <2>1, MoveTypes
  <1>8. CASE CallbackStopCheck(w)
    BY <1>8, MoveTypes DEF CallbackStopCheck
  <1>9. CASE CallbackWait(w)
    BY <1>9, MoveTypes DEF CallbackWait
  <1>10. CASE ExecuteStopped(w)
    BY <1>10, MoveTypes DEF ExecuteStopped
  <1>11. CASE ExecuteSkippedUp(w)
    BY <1>11
       DEF ExecuteSkippedUp, TypeOK, IndexInv, Goto, lifecycle, clock, loop, calls
  <1>12. CASE Execute(w)
    <2>1. PICK to \in Dispatch(w) : Goto(w, "exec", to)
      BY <1>12 DEF Execute
    <2>2. to \in WorkerPoint /\ (Current(w).type = "block" => to = "top")
      BY <2>1 DEF Dispatch
    <2>. QED
      BY <1>12, <2>1, <2>2
         DEF Execute, TypeOK, IndexInv, Goto, lifecycle, clock, calls
  <1>13. CASE ColorCheckStopped(w)
    BY <1>13, MoveTypes DEF ColorCheckStopped
  <1>14. CASE DropPaused(w)
    BY <1>14 DEF DropPaused, TypeOK, IndexInv, Goto, lifecycle, clock, inputs, calls
  <1>15. CASE SendDown(w)
    BY <1>15, CurrentIsEvent
       DEF SendDown, IsMouse, TypeOK, IndexInv, Goto, lifecycle, clock, loop, calls
  <1>16. CASE SendUp(w)
    BY <1>16 DEF SendUp, IsMouse, TypeOK, IndexInv, Goto, lifecycle, clock, loop, calls
  <1>17. CASE SendDrag(w)
    BY <1>17 DEF SendDrag, TypeOK, IndexInv, Goto, lifecycle, clock, loop, calls
  <1>18. CASE PopDragged(w)
    BY <1>18 DEF PopDragged, TypeOK, IndexInv, Goto, lifecycle, clock, loop, calls
  <1>19. CASE WaitEnds(w)
    BY <1>19, MoveTypes DEF WaitEnds
  <1>20. CASE TriggerStopped(w)
    BY <1>20, MoveTypes DEF TriggerStopped
  <1>21. CASE ApplyPendingPause(w)
    <2>1. Goto(w, "after", "check") /\ UNCHANGED <<pauseEvent, inputs, loop>>
      BY <1>21 DEF ApplyPendingPause
    <2>2. paused' \in BOOLEAN /\ pending' \in BOOLEAN
      BY <1>21 DEF ApplyPendingPause, TypeOK
    <2>. QED
      BY <2>1, <2>2 DEF TypeOK, IndexInv, Goto, lifecycle, inputs, loop, calls
  <1>22. CASE EventDone(w)
    <2>1. UNCHANGED <<clock, inputs, dropped>>
      BY <1>22 DEF EventDone
    <2>2. CASE Goto(w, "check", "ending") /\ UNCHANGED <<idx, position>>
      BY <2>1, <2>2 DEF TypeOK, IndexInv, Goto, lifecycle, clock, inputs, calls
    <2>3. CASE Goto(w, "check", "top") /\ idx' = [idx EXCEPT ![w] = @ + 1] /\ UNCHANGED position
      BY <2>1, <2>3 DEF TypeOK, IndexInv, Goto, lifecycle, clock, inputs, calls
    <2>4. CASE Goto(w, "check", "oncb") /\ position' = position + 1 /\ UNCHANGED idx
      BY <2>1, <2>4 DEF TypeOK, IndexInv, Goto, lifecycle, clock, inputs, calls
    <2>. QED
      BY <1>22, <2>2, <2>3, <2>4 DEF EventDone
  <1>23. CASE DoneCallback(w)
    <2>1. UNCHANGED <<clock, inputs, position, dropped>>
      BY <1>23 DEF DoneCallback
    <2>2. CASE Goto(w, "oncb", "top") /\ idx' = [idx EXCEPT ![w] = @ + 1]
      BY <2>1, <2>2 DEF TypeOK, IndexInv, Goto, lifecycle, clock, inputs, calls
    <2>3. CASE Goto(w, "oncb", "raise") /\ UNCHANGED idx
      BY <2>1, <2>3 DEF TypeOK, IndexInv, Goto, lifecycle, clock, inputs, calls
    <2>. QED
      BY <1>23, <2>2, <2>3 DEF DoneCallback
  <1>24. CASE ReleaseAtEnd(w)
    <2>1. PICK to \in {"error", "complete"}, from \in {"raise", "finish"} : Goto(w, from, to)
      BY <1>24 DEF ReleaseAtEnd
    <2>2. ReleaseActive /\ UNCHANGED <<clock, loop>>
      BY <1>24 DEF ReleaseAtEnd
    <2>. QED
      BY <2>1, <2>2 DEF ReleaseActive, TypeOK, IndexInv, Goto, lifecycle, clock, loop, calls
  <1>25. CASE LastCallback(w)
    <2>1. PICK from \in {"error", "complete"} : Goto(w, from, "ending") /\ Stay
      BY <1>25 DEF LastCallback
    <2>. QED
      BY <2>1, MoveTypes
  <1>26. CASE Die(w)
    BY <1>26, MoveTypes DEF Die
  <1>27. CASE ColorCheck(w)
    <2>1. UNCHANGED <<clock, active, pressed, osDown, canDrag, loop>>
      BY <1>27 DEF ColorCheck
    <2>2. CASE Goto(w, "color", "locked") /\ UNCHANGED skip
      BY <2>1, <2>2 DEF TypeOK, IndexInv, Goto, lifecycle, clock, loop, calls
    <2>3. CASE Goto(w, "color", "after") /\ skip' = [skip EXCEPT ![w] = Current(w).in]
      <3>1. Current(w).in \in Input
        BY <2>3, CurrentIsEvent DEF Goto
      <3>. QED
        BY <2>1, <2>3, <3>1 DEF TypeOK, IndexInv, Goto, lifecycle, clock, loop, calls
    <2>4. CASE Goto(w, "color", "raise") /\ UNCHANGED skip
      BY <2>1, <2>4 DEF TypeOK, IndexInv, Goto, lifecycle, clock, loop, calls
    <2>. QED
      BY <1>27, <2>2, <2>3, <2>4 DEF ColorCheck
  <1>28. CASE TriggerEnds(w)
    <2>1. PICK to \in {"after", "raise"} : Goto(w, "watching", to) /\ Stay
      BY <1>28 DEF TriggerEnds
    <2>. QED
      BY <2>1, MoveTypes
  <1>. QED
    BY <1>1, <1>2, <1>3, <1>4, <1>5, <1>6, <1>7, <1>8, <1>9, <1>10, <1>11, <1>12,
       <1>13, <1>14, <1>15, <1>16, <1>17, <1>18, <1>19, <1>20, <1>21, <1>22, <1>23,
       <1>24, <1>25, <1>26, <1>27, <1>28
       DEF WorkerStep, ScreenStep

(* A step of a call that changes nothing but the clock. *)
LEMMA ClockTypes ==
    ASSUME TypeOK, IndexInv, NEW t \in Thread, NEW from, NEW to \in CallPoint,
           Step(t, from, to),
           paused' \in BOOLEAN, pending' \in BOOLEAN, pauseEvent' \in BOOLEAN,
           UNCHANGED <<lifecycle, inputs, work, arg, target>>
    PROVE  TypeOK' /\ IndexInv'
  <1>1. pc' \in [Thread -> CallPoint]
    BY DEF Step, TypeOK
  <1>2. TypeOK'
    BY <1>1 DEF TypeOK, lifecycle, inputs, work, loop
  <1>3. IndexInv'
    BY DEF IndexInv, work, loop
  <1>. QED
    BY <1>2, <1>3

(* Waiting for the lifecycle lock, and getting it in vain, moves the call   *)
(* only; a stop takes its session along and clears the pause event.        *)
LEMMA LockFrame ==
    ASSUME NEW t \in Thread, LockCall(t)
    PROVE  /\ \/ pc[t] = "idle" /\ pc' = [pc EXCEPT ![t] = "p_enter"]
              \/ pc[t] = "p_enter" /\ pc' = [pc EXCEPT ![t] = "idle"]
              \/ "stop" \in may[t] /\ pc[t] = "idle" /\ pc' = [pc EXCEPT ![t] = "s_enter"]
              \/ pc[t] = "s_enter" /\ pc' = [pc EXCEPT ![t] = "idle"]
           /\ arg' = arg \/ \E s \in {session, None} : arg' = [arg EXCEPT ![t] = s]
           /\ pauseEvent' = pauseEvent \/ pauseEvent' = FALSE
           /\ UNCHANGED <<lifecycle, paused, pending, inputs, work, target>>
  BY DEF LockCall, PlayWait, PlayRefused, StopWait, StopRefused, MayCall, Step, clock

LEMMA LockTypes ==
    ASSUME TypeOK, IndexInv, NEW t \in Thread, LockCall(t)
    PROVE  TypeOK' /\ IndexInv'
  <1>1. pc' \in [Thread -> CallPoint]
    <2>1. PICK to \in {"idle", "p_enter", "s_enter"} : pc' = [pc EXCEPT ![t] = to]
      BY LockFrame
    <2>. QED
      BY <2>1 DEF TypeOK, CallPoint, Waiting
  <1>2. arg' \in [Thread -> Worker \cup {None}]
    <2>1. arg' = arg \/ \E s \in {session, None} : arg' = [arg EXCEPT ![t] = s]
      BY LockFrame
    <2>. QED
      BY <2>1 DEF TypeOK
  <1>3. pauseEvent' \in BOOLEAN
    BY LockFrame DEF TypeOK
  <1>4. UNCHANGED <<lifecycle, paused, pending, inputs, work, target>>
    BY LockFrame
  <1>5. TypeOK'
    BY <1>1, <1>2, <1>3, <1>4 DEF TypeOK, lifecycle, inputs, work, loop
  <1>6. IndexInv'
    BY <1>4 DEF IndexInv, work, loop
  <1>. QED
    BY <1>5, <1>6

(* The steps of a call.  Only PlaySpawn gives a worker its macro, and that  *)
(* worker is new.                                                           *)
LEMMA CallTypes ==
    ASSUME TypeOK, IndexInv, NEW t \in Thread, CallStep(t) \/ NewCall(t) \/ LockCall(t)
    PROVE  TypeOK' /\ IndexInv'
  <1> USE DEF CallPoint, PlayPoint, StopPoint, Waiting, AtEvent, WorkerPoint, Step, clock,
              inputs, work, loop
  <1>1. CASE PlayJoin(t)
    BY <1>1 DEF PlayJoin, TypeOK, IndexInv
  <1>2. CASE PlayClear(t)
    BY <1>2 DEF PlayClear, TypeOK, IndexInv
  <1>3. CASE PlayClearPending(t)
    <2>1. PICK to \in {"p_spawn"} : Step(t, pc[t], to)
      BY <1>3 DEF PlayClearPending
    <2>2. paused' \in BOOLEAN /\ pending' \in BOOLEAN /\ pauseEvent' \in BOOLEAN
      BY <1>3 DEF PlayClearPending, TypeOK
    <2>3. UNCHANGED <<lifecycle, inputs, work, arg, target>>
      BY <1>3 DEF PlayClearPending
    <2>. QED
      BY <2>1, <2>2, <2>3, ClockTypes
  <1>4. CASE PlaySpawn(t)
    <2>1. CASE thread' = None /\ session' = None /\ UNCHANGED <<wpc, macro>>
      BY <1>4, <2>1 DEF PlaySpawn, TypeOK, IndexInv
    <2>2. ASSUME NEW w \in Worker, NEW m \in Macros,
                 wpc[w] = "new", wpc' = [wpc EXCEPT ![w] = "start"],
                 macro' = [macro EXCEPT ![w] = m], thread' = w, session' = w
          PROVE  TypeOK' /\ IndexInv'
      <3>1. m \in Seq(Event)
        BY PlayerAssumption
      <3>. QED
        BY <1>4, <2>2, <3>1 DEF PlaySpawn, TypeOK, IndexInv
    <2>. QED
      BY <1>4, <2>1, <2>2 DEF PlaySpawn
  <1>5. CASE StopClearPending(t)
    <2>1. PICK to \in {"s_release"} : Step(t, pc[t], to)
      BY <1>5 DEF StopClearPending
    <2>2. paused' \in BOOLEAN /\ pending' \in BOOLEAN /\ pauseEvent' \in BOOLEAN
      BY <1>5 DEF StopClearPending, TypeOK
    <2>3. UNCHANGED <<lifecycle, inputs, work, arg, target>>
      BY <1>5 DEF StopClearPending
    <2>. QED
      BY <2>1, <2>2, <2>3, ClockTypes
  <1>6. CASE StopRelease(t)
    BY <1>6 DEF StopRelease, ReleaseActive, TypeOK, IndexInv, lifecycle
  <1>7. CASE StopJoin(t)
    <2>1. TypeOK'
      BY <1>7 DEF StopJoin, TypeOK, lifecycle
    <2>. QED
      BY <1>7, <2>1 DEF StopJoin, IndexInv
  <1>8. CASE StopFinal(t)
    BY <1>8 DEF StopFinal, TypeOK, IndexInv
  <1>9. CASE PauseLocked(t)
    <2>1. PICK to \in {"idle"} : Step(t, pc[t], to)
      BY <1>9 DEF PauseLocked
    <2>2. paused' \in BOOLEAN /\ pending' \in BOOLEAN /\ pauseEvent' \in BOOLEAN
      BY <1>9 DEF PauseLocked, TypeOK
    <2>3. UNCHANGED <<lifecycle, inputs, work, arg, target>>
      BY <1>9 DEF PauseLocked
    <2>. QED
      BY <2>1, <2>2, <2>3, ClockTypes
  <1>10. CASE ResumeLocked(t)
    <2>1. PICK to \in {"idle"} : Step(t, pc[t], to)
      BY <1>10 DEF ResumeLocked
    <2>2. paused' \in BOOLEAN /\ pending' \in BOOLEAN /\ pauseEvent' \in BOOLEAN
      BY <1>10 DEF ResumeLocked, TypeOK
    <2>3. UNCHANGED <<lifecycle, inputs, work, arg, target>>
      BY <1>10 DEF ResumeLocked
    <2>. QED
      BY <2>1, <2>2, <2>3, ClockTypes
  <1>11. CASE PlayEnter(t)
    BY <1>11 DEF PlayEnter, TypeOK, IndexInv
  <1>12. CASE StopEnter(t)
    <2>0. (IF pc[t] = "s_enter" THEN {arg[t]} ELSE {session, None})
             \subseteq {session, None, arg[t]}
      OBVIOUS
    <2>1. PICK s \in {session, None, arg[t]} : arg' = [arg EXCEPT ![t] = s]
      BY <1>12, <2>0 DEF StopEnter
    <2>2. arg' \in [Thread -> Worker \cup {None}]
      BY <2>1 DEF TypeOK
    <2>3. /\ stopInProgress' = TRUE /\ stopFlag' = TRUE /\ pauseEvent' = FALSE
          /\ pc' = [pc EXCEPT ![t] = "s_pending"]
          /\ target' = [target EXCEPT ![t] = thread]
          /\ UNCHANGED <<thread, session, lock, paused, pending, inputs, work>>
      BY <1>12 DEF StopEnter
    <2>. QED
      BY <2>2, <2>3 DEF TypeOK, IndexInv
  <1>13. CASE PauseEnter(t)
    <2>1. PICK to \in {"a_lock", "idle"} : Step(t, pc[t], to)
      BY <1>13 DEF PauseEnter
    <2>2. paused' \in BOOLEAN /\ pending' \in BOOLEAN /\ pauseEvent' \in BOOLEAN
      BY <1>13 DEF PauseEnter, TypeOK
    <2>3. UNCHANGED <<lifecycle, inputs, work, arg, target>>
      BY <1>13 DEF PauseEnter
    <2>. QED
      BY <2>1, <2>2, <2>3, ClockTypes
  <1>14. CASE ResumeEnter(t)
    <2>1. PICK to \in {"r_lock", "idle"} : Step(t, pc[t], to)
      BY <1>14 DEF ResumeEnter
    <2>2. paused' \in BOOLEAN /\ pending' \in BOOLEAN /\ pauseEvent' \in BOOLEAN
      BY <1>14 DEF ResumeEnter, TypeOK
    <2>3. UNCHANGED <<lifecycle, inputs, work, arg, target>>
      BY <1>14 DEF ResumeEnter
    <2>. QED
      BY <2>1, <2>2, <2>3, ClockTypes
  <1>15. CASE LockCall(t)
    BY <1>15, LockTypes
  <1>. QED
    BY <1>1, <1>2, <1>3, <1>4, <1>5, <1>6, <1>7, <1>8, <1>9, <1>10, <1>11, <1>12,
       <1>13, <1>14, <1>15
       DEF CallStep, NewCall

(* Every reachable state is well typed, and an event a worker executes is  *)
(* an event of its macro.                                                  *)
THEOREM Typing == Spec => [](TypeOK /\ IndexInv)
  <1>1. TypeOK /\ IndexInv /\ [Next]_vars => TypeOK' /\ IndexInv'
    <2> SUFFICES ASSUME TypeOK, IndexInv, [Next]_vars
                 PROVE  TypeOK' /\ IndexInv'
      OBVIOUS
    <2>1. CASE Next
      BY <2>1, WorkerTypes, CallTypes DEF Next
    <2>2. CASE UNCHANGED vars
      BY <2>2 DEF TypeOK, IndexInv, vars, lifecycle, clock, inputs, work, loop, calls
    <2>. QED
      BY <2>1, <2>2
  <1>. QED
    BY <1>1, InitInv, PTL DEF Spec

-----------------------------------------------------------------------------
(* The lifecycle.                                                          *)

(* While a call of play holds the lock there is no stop in progress, and   *)
(* after its join no worker; while a stop is in progress, nobody replaces  *)
(* the worker it captured.                                                 *)
LifecycleInv ==
    /\ \A w \in Worker : Alive(w) => w = thread
    /\ \A t \in Thread : pc[t] \in PlayPoint => lock = t /\ ~stopInProgress
    /\ \A t \in Thread : pc[t] \in PlayPoint \ {"p_join"} => \A w \in Worker : ~Alive(w)
    /\ \A t \in Thread : pc[t] \in {"p_pending", "p_spawn"} => ~stopFlag
    /\ \A t \in Thread : pc[t] \in StopPoint => stopInProgress /\ target[t] = thread
    /\ \A t, u \in Thread : pc[t] \in StopPoint /\ pc[u] \in StopPoint => t = u

(* A worker's step brings no worker to life and touches no call. *)
LEMMA WorkerFrame ==
    ASSUME NEW w \in Worker, WorkerStep(w) \/ ScreenStep(w)
    PROVE  /\ wpc[w] \notin {"new", "dead"}
           /\ \E to \in WorkerPoint \ {"new"} :
                 wpc' = [wpc EXCEPT ![w] = to] /\ (to = "dead" => Die(w))
           /\ UNCHANGED <<lifecycle, macro, calls>>
  <1>1. \E from \in WorkerPoint \ {"new", "dead"}, to \in WorkerPoint \ {"new"} :
           Goto(w, from, to) /\ (to = "dead" => Die(w))
    <2> USE DEF WorkerPoint
    <2>1. CASE Begin(w) \/ AskPause(w) \/ StartPause(w) \/ ResetProgress(w)
      BY <2>1 DEF Begin, AskPause, StartPause, ResetProgress
    <2>2. CASE Top(w)
      BY <2>2 DEF Top
    <2>3. CASE Due(w) \/ StartCallback(w) \/ CallbackStopCheck(w) \/ CallbackWait(w)
      BY <2>3 DEF Due, StartCallback, CallbackStopCheck, CallbackWait
    <2>4. CASE ExecuteStopped(w) \/ ExecuteSkippedUp(w) \/ ColorCheckStopped(w)
      BY <2>4 DEF ExecuteStopped, ExecuteSkippedUp, ColorCheckStopped
    <2>5. CASE Execute(w)
      BY <2>5 DEF Execute, Dispatch
    <2>6. CASE DropPaused(w) \/ SendDown(w) \/ SendUp(w) \/ SendDrag(w) \/ PopDragged(w)
      BY <2>6 DEF DropPaused, SendDown, SendUp, SendDrag, PopDragged
    <2>7. CASE WaitEnds(w) \/ TriggerStopped(w) \/ ApplyPendingPause(w)
      BY <2>7 DEF WaitEnds, TriggerStopped, ApplyPendingPause
    <2>8. CASE EventDone(w) \/ DoneCallback(w)
      BY <2>8 DEF EventDone, DoneCallback
    <2>9. CASE ReleaseAtEnd(w) \/ LastCallback(w) \/ Die(w)
      BY <2>9 DEF ReleaseAtEnd, LastCallback, Die
    <2>10. CASE ColorCheck(w) \/ TriggerEnds(w)
      BY <2>10 DEF ColorCheck, TriggerEnds
    <2>. QED
      BY <2>1, <2>2, <2>3, <2>4, <2>5, <2>6, <2>7, <2>8, <2>9, <2>10
         DEF WorkerStep, ScreenStep
  <1>. QED
    BY <1>1 DEF Goto

LEMMA LifecycleInit == Init => LifecycleInv
  BY DEF Init, LifecycleInv, Alive, PlayPoint, StopPoint

LEMMA LifecycleStep ==
    ASSUME TypeOK, LifecycleInv, [Next]_vars
    PROVE  LifecycleInv'
  <1> USE DEF PlayPoint, StopPoint, CallPoint, Step, Alive
  <1>1. CASE \E w \in Worker : WorkerStep(w) \/ ScreenStep(w)
    <2>1. PICK w \in Worker, to \in WorkerPoint \ {"new"} :
              /\ wpc[w] \notin {"new", "dead"}
              /\ wpc' = [wpc EXCEPT ![w] = to]
              /\ UNCHANGED <<lifecycle, macro, calls>>
      BY <1>1, WorkerFrame
    <2>2. \A v \in Worker : Alive(v)' => Alive(v)
      BY <2>1 DEF TypeOK
    <2>. QED
      BY <2>1, <2>2 DEF LifecycleInv, lifecycle, calls
  <1>2. ASSUME NEW t \in Thread, CallStep(t)
        PROVE  LifecycleInv'
    <2>1. CASE PlayJoin(t)
      <3>1. CASE IsPlaying
        BY <2>1, <3>1 DEF PlayJoin, LifecycleInv, TypeOK, work
      <3>2. CASE ~IsPlaying
        <4>1. \A w \in Worker : ~Alive(w)
          BY <3>2, PlayerAssumption DEF IsPlaying, LifecycleInv, Thread
        <4>. QED
          BY <2>1, <3>2, <4>1 DEF PlayJoin, LifecycleInv, TypeOK, work
      <3>. QED
        BY <3>1, <3>2
    <2>2. CASE PlayClear(t)
      BY <2>2 DEF PlayClear, LifecycleInv, TypeOK, work
    <2>3. CASE PlayClearPending(t)
      <3>1. /\ pc[t] = "p_pending" /\ pc' = [pc EXCEPT ![t] = "p_spawn"]
            /\ UNCHANGED <<thread, lock, stopInProgress, stopFlag, wpc, target>>
        BY <2>3 DEF PlayClearPending, work, lifecycle
      <3>2. \A u \in Thread : pc'[u] = IF u = t THEN "p_spawn" ELSE pc[u]
        BY <3>1 DEF TypeOK
      <3>3. lock = t /\ ~stopInProgress /\ ~stopFlag /\ \A w \in Worker : ~Alive(w)
        BY <3>1 DEF LifecycleInv
      <3>. QED
        BY <3>1, <3>2, <3>3 DEF LifecycleInv
    <2>4. CASE PlaySpawn(t)
      BY <2>4 DEF PlaySpawn, LifecycleInv, TypeOK
    <2>5. CASE StopClearPending(t)
      BY <2>5 DEF StopClearPending, LifecycleInv, TypeOK, work, lifecycle
    <2>6. CASE StopRelease(t)
      BY <2>6 DEF StopRelease, LifecycleInv, TypeOK, work, lifecycle
    <2>7. CASE StopJoin(t)
      BY <2>7 DEF StopJoin, LifecycleInv, TypeOK, work, lifecycle
    <2>8. CASE StopFinal(t)
      BY <2>8 DEF StopFinal, LifecycleInv, TypeOK, work
    <2>9. CASE PauseLocked(t) \/ ResumeLocked(t)
      <3>1. /\ pc' = [pc EXCEPT ![t] = "idle"]
            /\ UNCHANGED <<lifecycle, wpc, target>>
        BY <2>9 DEF PauseLocked, ResumeLocked, work
      <3>. QED
        BY <3>1 DEF LifecycleInv, TypeOK, lifecycle
    <2>. QED
      BY <1>2, <2>1, <2>2, <2>3, <2>4, <2>5, <2>6, <2>7, <2>8, <2>9 DEF CallStep
  <1>3. ASSUME NEW t \in Thread, NewCall(t)
        PROVE  LifecycleInv'
    <2>1. CASE PlayEnter(t)
      <3>1. /\ lock = None /\ ~stopInProgress /\ lock' = t
            /\ pc' = [pc EXCEPT ![t] = IF IsPlaying THEN "p_join" ELSE "p_clear"]
            /\ UNCHANGED <<thread, stopInProgress, stopFlag, wpc, target>>
        BY <2>1 DEF PlayEnter, CannotPlay, work
      <3>2. \A u \in Thread : pc[u] \notin PlayPoint \cup StopPoint
        BY <3>1, PlayerAssumption DEF LifecycleInv
      <3>3. CASE IsPlaying
        BY <3>1, <3>2, <3>3 DEF LifecycleInv, TypeOK
      <3>4. CASE ~IsPlaying
        <4>1. \A w \in Worker : ~Alive(w)
          BY <3>4, PlayerAssumption DEF IsPlaying, LifecycleInv, Thread
        <4>. QED
          BY <3>1, <3>2, <3>4, <4>1 DEF LifecycleInv, TypeOK
      <3>. QED
        BY <3>3, <3>4
    <2>2. CASE StopEnter(t)
      <3>1. /\ lock = None /\ ~stopInProgress /\ stopInProgress'
            /\ pc' = [pc EXCEPT ![t] = "s_pending"]
            /\ target' = [target EXCEPT ![t] = thread]
            /\ UNCHANGED <<thread, lock, wpc>>
        BY <2>2 DEF StopEnter, CannotStop, work
      <3>2. \A u \in Thread : pc[u] \notin PlayPoint \cup StopPoint
        BY <3>1, PlayerAssumption DEF LifecycleInv
      <3>. QED
        BY <3>1, <3>2 DEF LifecycleInv, TypeOK
    <2>3. CASE PauseEnter(t) \/ ResumeEnter(t)
      <3>1. PICK to \in {"idle", "a_lock", "r_lock"} : pc' = [pc EXCEPT ![t] = to]
        BY <2>3 DEF PauseEnter, ResumeEnter
      <3>2. UNCHANGED <<lifecycle, wpc, target>>
        BY <2>3 DEF PauseEnter, ResumeEnter, work
      <3>. QED
        BY <3>1, <3>2 DEF LifecycleInv, TypeOK, lifecycle
    <2>. QED
      BY <1>3, <2>1, <2>2, <2>3 DEF NewCall
  <1>4. ASSUME NEW t \in Thread, LockCall(t)
        PROVE  LifecycleInv'
    <2>1. PICK to \in {"idle", "p_enter", "s_enter"} : pc' = [pc EXCEPT ![t] = to]
      BY <1>4, LockFrame
    <2>2. UNCHANGED <<lifecycle, wpc, target>>
      BY <1>4, LockFrame DEF work
    <2>. QED
      BY <2>1, <2>2 DEF LifecycleInv, TypeOK, lifecycle
  <1>5. CASE UNCHANGED vars
    BY <1>5 DEF vars, lifecycle, work, calls, LifecycleInv
  <1>. QED
    BY <1>1, <1>2, <1>3, <1>4, <1>5 DEF Next

(* LifecycleInv holds in every reachable state. *)
THEOREM Lifecycle == Spec => []LifecycleInv
  <1>. QED
    BY Typing, LifecycleInit, LifecycleStep, PTL DEF Spec

(* At most one playback worker is alive, whoever plays and stops, and      *)
(* however often a join times out.                                         *)
THEOREM SingleWorker == Spec => []OneWorker
  <1>1. LifecycleInv => OneWorker
    BY DEF LifecycleInv, OneWorker
  <1>. QED
    BY <1>1, Lifecycle, PTL

(* A stop signal is taken back only when no worker is alive: a worker that  *)
(* was told to stop, and outlived the join, is never let run on.            *)
THEOREM StopSticks == Spec => StopClearedOnlyWhenDead
  <1>1. TypeOK /\ LifecycleInv /\ [Next]_vars
            => [stopFlag /\ ~stopFlag' => \A w \in Worker : ~Alive(w)]_vars
    <2> SUFFICES ASSUME TypeOK, LifecycleInv, Next, stopFlag, ~stopFlag'
                 PROVE  \A w \in Worker : ~Alive(w)
      OBVIOUS
    <2>1. CASE \E w \in Worker : WorkerStep(w) \/ ScreenStep(w)
      BY <2>1, WorkerFrame DEF lifecycle
    <2>2. ASSUME NEW t \in Thread, CallStep(t)
          PROVE  \A w \in Worker : ~Alive(w)
      <3>1. CASE PlayClear(t)
        BY <3>1 DEF PlayClear, Step, LifecycleInv, PlayPoint
      <3>2. CASE StopFinal(t)
        <4>1. target[t] = thread /\ ~(target[t] # None /\ Alive(target[t]))
          BY <3>2 DEF StopFinal, Step, LifecycleInv, StopPoint
        <4>. QED
          BY <4>1, PlayerAssumption DEF LifecycleInv, Thread
      <3>. QED
        BY <2>2, <3>1, <3>2
           DEF CallStep, PlayJoin, PlayClearPending, PlaySpawn, StopClearPending,
               StopRelease, StopJoin, PauseLocked, ResumeLocked, lifecycle
    <2>3. ASSUME NEW t \in Thread, NewCall(t)
          PROVE  \A w \in Worker : ~Alive(w)
      BY <2>3 DEF NewCall, PlayEnter, StopEnter, PauseEnter, ResumeEnter, lifecycle
    <2>4. ASSUME NEW t \in Thread, LockCall(t)
          PROVE  \A w \in Worker : ~Alive(w)
      BY <2>4, LockFrame DEF lifecycle
    <2>. QED
      BY <2>1, <2>2, <2>3, <2>4 DEF Next
  <1>. QED
    BY <1>1, Typing, Lifecycle, PTL DEF Spec, StopClearedOnlyWhenDead

-----------------------------------------------------------------------------
(* The inputs.                                                             *)

FreshPoint == {"new", "start", "askpause", "startpause", "reset"}

(* The live worker's state is the active one, from its first step on; it   *)
(* starts with nothing pressed; and a button between the drag batch and    *)
(* its removal from the state is already up.                               *)
InputInv ==
    /\ \A w \in Worker : Alive(w) /\ wpc[w] # "start" => active = w
    /\ \A w \in Worker : wpc[w] \in FreshPoint => pressed[w] = {}
    /\ \A w \in Worker : wpc[w] = "dragpop" => Current(w).in \notin osDown
    /\ PausedMeansReleased
    /\ HeldIsTracked

LEMMA InputInit == Init => InputInv
  BY PlayerAssumption
     DEF Init, InputInv, Alive, FreshPoint, PausedMeansReleased, HeldIsTracked

(* A release takes the inputs of one state away from both sides.           *)
LEMMA ReleaseTracked ==
    ASSUME TypeOK, InputInv, ReleaseActive
    PROVE  /\ osDown' \subseteq osDown
           /\ \A w \in Worker : pressed'[w] \subseteq pressed[w]
           /\ HeldIsTracked'
  <1>1. \A w \in Worker : pressed'[w] = IF w = active THEN {} ELSE pressed[w]
    BY DEF ReleaseActive
  <1>2. osDown' = IF active = None THEN osDown ELSE osDown \ pressed[active]
    BY DEF ReleaseActive
  <1>3. \A i \in osDown' : \E w \in Worker : i \in pressed'[w]
    <2> SUFFICES ASSUME NEW i \in osDown'
                 PROVE  \E w \in Worker : i \in pressed'[w]
      OBVIOUS
    <2>1. PICK w \in Worker : i \in pressed[w]
      BY <1>2 DEF InputInv, HeldIsTracked
    <2>2. w # active
      BY <1>2, <2>1, PlayerAssumption DEF Thread
    <2>. QED
      BY <1>1, <2>1, <2>2
  <1>. QED
    BY <1>1, <1>2, <1>3 DEF HeldIsTracked

(* The steps of a worker that neither send nor pause. *)
QuietStep(w) ==
    \/ AskPause(w) \/ ResetProgress(w) \/ Top(w) \/ Due(w) \/ StartCallback(w)
    \/ CallbackStopCheck(w) \/ CallbackWait(w) \/ ExecuteStopped(w)
    \/ ExecuteSkippedUp(w) \/ Execute(w) \/ ColorCheckStopped(w) \/ ColorCheck(w)
    \/ DropPaused(w) \/ WaitEnds(w) \/ TriggerStopped(w) \/ TriggerEnds(w)
    \/ EventDone(w) \/ DoneCallback(w) \/ LastCallback(w) \/ Die(w)

LEMMA QuietFrame ==
    ASSUME NEW w \in Worker, QuietStep(w)
    PROVE  /\ \E from \in WorkerPoint \ {"new", "start", "dead"},
                 to \in WorkerPoint \ {"new", "start", "dragpop"} :
                 /\ Goto(w, from, to)
                 /\ to \in FreshPoint => from \in FreshPoint
           /\ UNCHANGED <<paused, active, pressed, osDown>>
  <1> USE DEF WorkerPoint, FreshPoint, Stay, clock, inputs
  <1>1. CASE AskPause(w) \/ ResetProgress(w) \/ Top(w)
    BY <1>1 DEF AskPause, ResetProgress, Top
  <1>2. CASE Due(w) \/ StartCallback(w) \/ CallbackStopCheck(w) \/ CallbackWait(w)
    BY <1>2 DEF Due, StartCallback, CallbackStopCheck, CallbackWait
  <1>3. CASE ExecuteStopped(w) \/ ExecuteSkippedUp(w) \/ ColorCheckStopped(w)
    BY <1>3 DEF ExecuteStopped, ExecuteSkippedUp, ColorCheckStopped
  <1>4. CASE Execute(w)
    BY <1>4 DEF Execute, Dispatch
  <1>5. CASE ColorCheck(w) \/ DropPaused(w) \/ WaitEnds(w)
    BY <1>5 DEF ColorCheck, DropPaused, WaitEnds
  <1>6. CASE TriggerStopped(w) \/ TriggerEnds(w)
    BY <1>6 DEF TriggerStopped, TriggerEnds
  <1>7. CASE EventDone(w) \/ DoneCallback(w) \/ LastCallback(w) \/ Die(w)
    BY <1>7 DEF EventDone, DoneCallback, LastCallback, Die
  <1>. QED
    BY <1>1, <1>2, <1>3, <1>4, <1>5, <1>6, <1>7 DEF QuietStep

LEMMA InputWorkerStep ==
    ASSUME TypeOK, IndexInv, LifecycleInv, InputInv,
           NEW w \in Worker, WorkerStep(w) \/ ScreenStep(w)
    PROVE  InputInv'
  <1> USE DEF Alive, FreshPoint, WorkerPoint
  <1>1. wpc[w] \notin {"new", "dead"} /\ \A v \in Worker \ {w} : ~Alive(v)
    BY WorkerFrame DEF LifecycleInv
  <1>2. \A v \in Worker \ {w} : wpc'[v] = wpc[v]
    BY WorkerFrame DEF TypeOK
  <1>3. CASE QuietStep(w)
    <2>1. PICK from \in WorkerPoint \ {"new", "start", "dead"},
               to \in WorkerPoint \ {"new", "start", "dragpop"} :
               /\ wpc[w] = from /\ wpc'[w] = to
               /\ to \in FreshPoint => from \in FreshPoint
      BY <1>3, QuietFrame DEF Goto, TypeOK
    <2>2. UNCHANGED <<paused, active, pressed, osDown>>
      BY <1>3, QuietFrame
    <2>. QED
      BY <1>1, <1>2, <2>1, <2>2 DEF InputInv, PausedMeansReleased, HeldIsTracked
  <1>4. CASE Begin(w)
    <2>1. /\ wpc[w] = "start" /\ wpc'[w] = "askpause" /\ active' = w
          /\ UNCHANGED <<paused, osDown, pressed>>
      BY <1>4 DEF Begin, Goto, TypeOK, clock
    <2>. QED
      BY <1>1, <1>2, <2>1 DEF InputInv, PausedMeansReleased, HeldIsTracked
  <1>5. CASE StartPause(w)
    <2>1. /\ wpc[w] = "startpause" /\ wpc'[w] = "reset"
          /\ UNCHANGED <<active, osDown, pressed>>
      BY <1>5 DEF StartPause, Goto, TypeOK, inputs
    <2>. QED
      BY <1>1, <1>2, <2>1 DEF InputInv, PausedMeansReleased, HeldIsTracked
  <1>6. CASE SendDown(w)
    <2>1. ~paused' /\ wpc'[w] = "after" /\ active' = active /\ wpc[w] = "locked"
      BY <1>6 DEF SendDown, Goto, TypeOK, clock
    <2>2. /\ osDown' = osDown \cup {Current(w).in}
          /\ pressed' = [pressed EXCEPT ![w] = @ \cup {Current(w).in}]
      BY <1>6 DEF SendDown
    <2>3. HeldIsTracked'
      BY <2>2 DEF InputInv, HeldIsTracked, TypeOK
    <2>. QED
      BY <1>1, <1>2, <2>1, <2>2, <2>3 DEF InputInv, PausedMeansReleased, TypeOK
  <1>7. CASE SendUp(w)
    <2>1. paused' = paused /\ wpc'[w] = "after" /\ active' = active /\ wpc[w] = "locked"
      BY <1>7 DEF SendUp, Goto, TypeOK, clock
    <2>2. /\ osDown' = osDown \ {Current(w).in}
          /\ pressed' = [pressed EXCEPT ![w] = @ \ {Current(w).in}]
      BY <1>7 DEF SendUp
    <2>3. HeldIsTracked'
      BY <2>2 DEF InputInv, HeldIsTracked, TypeOK
    <2>. QED
      BY <1>1, <1>2, <2>1, <2>2, <2>3 DEF InputInv, PausedMeansReleased, TypeOK
  <1>8. CASE SendDrag(w)
    <2>1. /\ wpc[w] = "drag" /\ wpc'[w] = "dragpop"
          /\ UNCHANGED <<paused, active, pressed, macro, idx>>
          /\ osDown' = osDown \ {Current(w).in}
      BY <1>8 DEF SendDrag, Goto, TypeOK, clock, loop
    <2>. QED
      BY <1>1, <1>2, <2>1 DEF InputInv, PausedMeansReleased, HeldIsTracked, Current
  <1>9. CASE PopDragged(w)
    <2>1. /\ wpc[w] = "dragpop" /\ wpc'[w] = "after"
          /\ UNCHANGED <<paused, active, osDown>>
          /\ pressed' = [pressed EXCEPT ![w] = @ \ {Current(w).in}]
      BY <1>9 DEF PopDragged, Goto, TypeOK, clock
    <2>2. \A i \in osDown : i # Current(w).in
      BY <2>1 DEF InputInv
    <2>3. \A i \in osDown : \E v \in Worker : i \in pressed[v]
      BY DEF InputInv, HeldIsTracked
    <2>4. \A v \in Worker : \A i \in pressed[v] : i # Current(w).in => i \in pressed'[v]
      BY <2>1 DEF TypeOK
    <2>5. HeldIsTracked'
      BY <2>1, <2>2, <2>3, <2>4 DEF HeldIsTracked
    <2>. QED
      BY <1>1, <1>2, <2>1, <2>5 DEF InputInv, PausedMeansReleased, TypeOK
  <1>10. CASE ApplyPendingPause(w)
    <2>1. /\ wpc[w] = "after" /\ wpc'[w] = "check"
          /\ UNCHANGED <<active, osDown, pressed>>
          /\ paused' => paused \/ pressed[w] = {}
      BY <1>10 DEF ApplyPendingPause, Goto, TypeOK, inputs
    <2>. QED
      BY <1>1, <1>2, <2>1 DEF InputInv, PausedMeansReleased, HeldIsTracked
  <1>11. CASE ReleaseAtEnd(w)
    <2>1. /\ wpc[w] \in {"raise", "finish"} /\ wpc'[w] \in {"error", "complete"}
          /\ UNCHANGED <<paused, active>> /\ ReleaseActive
      BY <1>11 DEF ReleaseAtEnd, ReleaseActive, Goto, TypeOK, clock
    <2>. QED
      BY <1>1, <1>2, <2>1, ReleaseTracked DEF InputInv, PausedMeansReleased
  <1>. QED
    BY <1>3, <1>4, <1>5, <1>6, <1>7, <1>8, <1>9, <1>10, <1>11
       DEF WorkerStep, ScreenStep, QuietStep

LEMMA InputCallStep ==
    ASSUME TypeOK, IndexInv, LifecycleInv, InputInv,
           NEW t \in Thread, CallStep(t) \/ NewCall(t) \/ LockCall(t)
    PROVE  InputInv'
  <1> USE DEF Alive, FreshPoint
  <1>1. CASE PlaySpawn(t)
    <2>1. UNCHANGED <<paused, active, pressed, osDown>>
      BY <1>1 DEF PlaySpawn, clock, inputs
    <2>2. \A v \in Worker : ~Alive(v)
      BY <1>1 DEF PlaySpawn, Step, LifecycleInv, PlayPoint
    <2>3. \A v \in Worker : wpc'[v] = wpc[v] \/ (wpc[v] = "new" /\ wpc'[v] = "start")
      BY <1>1 DEF PlaySpawn, TypeOK
    <2>. QED
      BY <2>1, <2>2, <2>3 DEF InputInv, PausedMeansReleased, HeldIsTracked
  <1>2. CASE StopRelease(t)
    <2>1. ReleaseActive /\ UNCHANGED <<paused, active, wpc, macro, idx>>
      BY <1>2 DEF StopRelease, ReleaseActive, clock, work, loop
    <2>. QED
      BY <2>1, ReleaseTracked DEF InputInv, PausedMeansReleased, Current
  <1>3. CASE PauseLocked(t)
    <2>1. /\ UNCHANGED <<active, pressed, osDown, wpc, macro, idx>>
          /\ paused' => paused \/ active = None \/ pressed[active] = {}
      BY <1>3 DEF PauseLocked, inputs, work, loop
    <2>2. \A v \in Worker : Alive(v) => active = v \/ pressed[v] = {}
      BY DEF InputInv
    <2>3. PausedMeansReleased'
      BY <2>1, <2>2, PlayerAssumption DEF InputInv, PausedMeansReleased, Thread
    <2>. QED
      BY <2>1, <2>3 DEF InputInv, HeldIsTracked, Current
  <1>4. CASE PlayClear(t) \/ StopFinal(t) \/ ResumeLocked(t)
    <2>1. /\ UNCHANGED <<active, pressed, osDown, wpc, macro, idx>>
          /\ paused' => paused
      BY <1>4 DEF PlayClear, StopFinal, ResumeLocked, inputs, work, loop
    <2>. QED
      BY <2>1 DEF InputInv, PausedMeansReleased, HeldIsTracked, Current
  <1>5. CASE \/ PlayJoin(t) \/ PlayClearPending(t) \/ StopClearPending(t) \/ StopJoin(t)
             \/ NewCall(t) \/ LockCall(t)
    <2>1. UNCHANGED <<paused, active, pressed, osDown, wpc, macro, idx>>
      BY <1>5, LockFrame
         DEF NewCall, PlayJoin, PlayClearPending, StopClearPending, StopJoin, PlayEnter,
             StopEnter, PauseEnter, ResumeEnter, clock, inputs, work, loop
    <2>. QED
      BY <2>1 DEF InputInv, PausedMeansReleased, HeldIsTracked, Current
  <1>. QED
    BY <1>1, <1>2, <1>3, <1>4, <1>5 DEF CallStep

(* InputInv holds in every reachable state. *)
THEOREM Inputs == Spec => []InputInv
  <1>1. TypeOK /\ IndexInv /\ LifecycleInv /\ InputInv /\ [Next]_vars => InputInv'
    <2> SUFFICES ASSUME TypeOK, IndexInv, LifecycleInv, InputInv, [Next]_vars
                 PROVE  InputInv'
      OBVIOUS
    <2>1. CASE Next
      BY <2>1, InputWorkerStep, InputCallStep DEF Next
    <2>2. CASE UNCHANGED vars
      BY <2>2 DEF vars, clock, inputs, work, loop, InputInv, PausedMeansReleased,
                  HeldIsTracked, Alive, Current
    <2>. QED
      BY <2>1, <2>2
  <1>. QED
    BY <1>1, Typing, Lifecycle, InputInit, PTL DEF Spec

(* A pause never takes hold while the macro holds a key or a button: the    *)
(* open gesture is first played to its release.                             *)
THEOREM PauseAtBoundary == Spec => []PausedMeansReleased
  <1>1. InputInv => PausedMeansReleased
    BY DEF InputInv
  <1>. QED
    BY <1>1, Inputs, PTL

(* Every input the system holds down for a macro is in some play state.     *)
THEOREM Tracked == Spec => []HeldIsTracked
  <1>1. InputInv => HeldIsTracked
    BY DEF InputInv
  <1>. QED
    BY <1>1, Inputs, PTL

-----------------------------------------------------------------------------
(* The ends of a playback.                                                 *)

StopRequested == \E t \in Thread : "stop" \in may[t]
EndPoint == {"error", "complete", "ending", "dead"}

(* Without a stop a worker reaches its end through a release only.         *)
EndInv ==
    ~StopRequested =>
        /\ ~stopInProgress /\ ~stopFlag
        /\ \A t \in Thread : pc[t] \notin StopPoint \cup {"s_enter"}
        /\ \A w \in Worker : wpc[w] \in EndPoint => pressed[w] = {}

LEMMA EndInit == Init => EndInv
  BY DEF Init, EndInv, StopPoint

(* Where no stop is signalled, the end comes after an error or the last    *)
(* event, and a step of a worker changes what it alone has pressed.        *)
LEMMA EndFrame ==
    ASSUME TypeOK, IndexInv, ~stopFlag, NEW w \in Worker, WorkerStep(w) \/ ScreenStep(w)
    PROVE  /\ ReleaseAtEnd(w) \/ (wpc'[w] \in EndPoint => wpc[w] \in EndPoint)
           /\ wpc[w] \in EndPoint => UNCHANGED pressed
           /\ ReleaseAtEnd(w) \/ \A v \in Worker \ {w} : pressed'[v] = pressed[v]
  <1> USE DEF Goto, EndPoint, Stay, inputs, TypeOK
  <1>1. CASE Begin(w) \/ AskPause(w) \/ StartPause(w) \/ ResetProgress(w)
    BY <1>1 DEF Begin, AskPause, StartPause, ResetProgress
  <1>2. CASE Top(w)
    BY <1>2 DEF Top
  <1>3. CASE Due(w) \/ StartCallback(w) \/ CallbackStopCheck(w) \/ CallbackWait(w)
    BY <1>3 DEF Due, StartCallback, CallbackStopCheck, CallbackWait
  <1>4. CASE ExecuteStopped(w) \/ ExecuteSkippedUp(w) \/ ColorCheckStopped(w)
    BY <1>4 DEF ExecuteStopped, ExecuteSkippedUp, ColorCheckStopped
  <1>5. CASE Execute(w)
    BY <1>5 DEF Execute, Dispatch
  <1>6. CASE DropPaused(w) \/ SendDown(w) \/ SendUp(w)
    BY <1>6 DEF DropPaused, SendDown, SendUp
  <1>7. CASE SendDrag(w) \/ PopDragged(w) \/ WaitEnds(w) \/ TriggerStopped(w)
    BY <1>7 DEF SendDrag, PopDragged, WaitEnds, TriggerStopped
  <1>8. CASE ApplyPendingPause(w) \/ EventDone(w) \/ DoneCallback(w)
    BY <1>8 DEF ApplyPendingPause, EventDone, DoneCallback
  <1>9. CASE ReleaseAtEnd(w)
    BY <1>9 DEF ReleaseAtEnd
  <1>10. CASE LastCallback(w) \/ Die(w) \/ ColorCheck(w) \/ TriggerEnds(w)
    BY <1>10 DEF LastCallback, Die, ColorCheck, TriggerEnds
  <1>. QED
    BY <1>1, <1>2, <1>3, <1>4, <1>5, <1>6, <1>7, <1>8, <1>9, <1>10
       DEF WorkerStep, ScreenStep

LEMMA EndStep ==
    ASSUME TypeOK, IndexInv, LifecycleInv, InputInv, EndInv, Next
    PROVE  EndInv'
  <1>. SUFFICES ASSUME ~StopRequested
                PROVE  EndInv'
    BY DEF EndInv, StopRequested, Next
  <1>0. /\ ~stopInProgress /\ ~stopFlag
        /\ \A t \in Thread : pc[t] \notin StopPoint \cup {"s_enter"}
        /\ \A w \in Worker : wpc[w] \in EndPoint => pressed[w] = {}
    BY DEF EndInv
  <1>1. ASSUME NEW w \in Worker, WorkerStep(w) \/ ScreenStep(w)
        PROVE  EndInv'
    <2>1. UNCHANGED <<stopInProgress, stopFlag, pc>>
      BY <1>1, WorkerFrame DEF lifecycle, calls
    <2>2. \A v \in Worker \ {w} : wpc'[v] = wpc[v]
      BY <1>1, WorkerFrame DEF TypeOK
    <2>3. CASE ReleaseAtEnd(w)
      <3>1. wpc[w] \in {"raise", "finish"} /\ ReleaseActive
        BY <2>3 DEF ReleaseAtEnd, Goto
      <3>2. active = w
        BY <3>1 DEF InputInv, Alive
      <3>3. pressed'[w] = {} /\ \A v \in Worker \ {w} : pressed'[v] = pressed[v]
        BY <3>1, <3>2 DEF ReleaseActive
      <3>. QED
        BY <1>0, <2>1, <2>2, <3>3 DEF EndInv
    <2>4. CASE ~ReleaseAtEnd(w)
      <3>1. /\ wpc'[w] \in EndPoint => wpc[w] \in EndPoint
            /\ wpc[w] \in EndPoint => UNCHANGED pressed
            /\ \A v \in Worker \ {w} : pressed'[v] = pressed[v]
        BY <1>0, <1>1, <2>4, EndFrame
      <3>. QED
        BY <1>0, <2>1, <2>2, <3>1 DEF EndInv
    <2>. QED
      BY <2>3, <2>4
  <1>2. ASSUME NEW t \in Thread, CallStep(t) \/ NewCall(t)
        PROVE  EndInv'
    <2>1. ~StopEnter(t)
      BY <1>0 DEF StopEnter, MayCall, StopRequested
    <2>2. ~(StopClearPending(t) \/ StopRelease(t) \/ StopJoin(t) \/ StopFinal(t))
      BY <1>0 DEF StopClearPending, StopRelease, StopJoin, StopFinal, Step, StopPoint
    <2>3. /\ UNCHANGED <<stopInProgress, pressed>> /\ (stopFlag' => stopFlag)
          /\ \E to \in PlayPoint \cup {"idle", "a_lock", "r_lock"} :
                pc' = [pc EXCEPT ![t] = to]
          /\ \A w \in Worker : wpc'[w] \in EndPoint => wpc[w] \in EndPoint
      <3> USE DEF Step, PlayPoint, EndPoint, lifecycle, inputs, work
      <3>1. CASE PlayEnter(t) \/ PlayJoin(t) \/ PlayClear(t) \/ PlayClearPending(t)
        BY <3>1 DEF PlayEnter, PlayJoin, PlayClear, PlayClearPending
      <3>2. CASE PlaySpawn(t)
        BY <3>2 DEF PlaySpawn, TypeOK
      <3>3. CASE PauseEnter(t) \/ PauseLocked(t) \/ ResumeEnter(t) \/ ResumeLocked(t)
        BY <3>3 DEF PauseEnter, PauseLocked, ResumeEnter, ResumeLocked
      <3>. QED
        BY <1>2, <2>1, <2>2, <3>1, <3>2, <3>3 DEF CallStep, NewCall
    <2>. QED
      BY <1>0, <2>3 DEF EndInv, PlayPoint, StopPoint, TypeOK
  <1>3. ASSUME NEW t \in Thread, LockCall(t)
        PROVE  EndInv'
    <2>1. /\ UNCHANGED <<stopInProgress, stopFlag, pressed, wpc>>
          /\ \E to \in {"idle", "p_enter"} : pc' = [pc EXCEPT ![t] = to]
      BY <1>3, LockFrame DEF lifecycle, inputs, work, StopRequested
    <2>. QED
      BY <1>0, <2>1 DEF EndInv, StopPoint, TypeOK
  <1>. QED
    BY <1>1, <1>2, <1>3 DEF Next

(* A playback that nobody stops, and that ends of itself or by an error,   *)
(* leaves no key and no button held, however often it was paused.          *)
THEOREM EndsReleased == Spec => []EndReleases
  <1>1. TypeOK /\ IndexInv /\ LifecycleInv /\ InputInv /\ EndInv /\ [Next]_vars => EndInv'
    <2>1. EndInv /\ UNCHANGED vars => EndInv'
      BY DEF EndInv, StopRequested, vars, lifecycle, inputs, work, calls
    <2>. QED
      BY <2>1, EndStep
  <1>2. InputInv /\ EndInv => EndReleases
    <2> SUFFICES ASSUME InputInv, EndInv, ~StopRequested,
                        \A w \in Worker : ~Alive(w)
                 PROVE  osDown = {}
      BY DEF EndReleases, NothingHeldAtRest, StopRequested
    <2>1. \A w \in Worker : pressed[w] = {}
      BY DEF EndInv, InputInv, Alive, EndPoint, FreshPoint
    <2>. QED
      BY <2>1 DEF InputInv, HeldIsTracked
  <1>. QED
    BY <1>1, <1>2, Typing, Lifecycle, Inputs, EndInit, PTL DEF Spec

-----------------------------------------------------------------------------
(* The input a stop finds in flight.                                       *)

(* Past its release a stop may find one input held: that of a worker which *)
(* had been let through when the stop came, and which is led to its end.   *)
InFlightInv ==
    \A t \in Thread :
        /\ pc[t] \in StopPoint => stopFlag
        /\ pc[t] \in {"s_join", "s_final"} /\ active # None =>
              \/ pressed[active] = {}
              \/ /\ wpc[active] \in {"after", "check", "ending", "dead"}
                 /\ \E i \in Input : pressed[active] = {i}

LEMMA InFlightInit == Init => InFlightInv
  BY DEF Init, InFlightInv, StopPoint

(* Under a stop signal a worker past an event goes to its end, and sends   *)
(* at most the input it was let through with.                              *)
LEMMA StoppedFrame ==
    ASSUME TypeOK, IndexInv, stopFlag, NEW w \in Worker, WorkerStep(w) \/ ScreenStep(w)
    PROVE  \/ Begin(w) \/ ReleaseAtEnd(w)
           \/ /\ active' = active
              /\ wpc[w] \in {"after", "check", "ending", "dead"}
                    => wpc'[w] \in {"after", "check", "ending", "dead"}
              /\ \/ \A v \in Worker : pressed'[v] \subseteq pressed[v]
                 \/ /\ wpc[w] = "locked" /\ wpc'[w] = "after"
                    /\ \E i \in Input :
                          pressed' = [pressed EXCEPT ![w] = @ \cup {i}]
  <1> USE DEF Goto, Stay, inputs, TypeOK
  <1>1. CASE AskPause(w) \/ StartPause(w) \/ ResetProgress(w)
    BY <1>1 DEF AskPause, StartPause, ResetProgress
  <1>2. CASE Top(w)
    BY <1>2 DEF Top
  <1>3. CASE Due(w) \/ StartCallback(w) \/ CallbackStopCheck(w) \/ CallbackWait(w)
    BY <1>3 DEF Due, StartCallback, CallbackStopCheck, CallbackWait
  <1>4. CASE ExecuteStopped(w) \/ ExecuteSkippedUp(w) \/ ColorCheckStopped(w)
    BY <1>4 DEF ExecuteStopped, ExecuteSkippedUp, ColorCheckStopped
  <1>5. CASE Execute(w) \/ DropPaused(w)
    BY <1>5 DEF Execute, DropPaused
  <1>6. CASE SendDown(w)
    <2>1. Current(w).in \in Input
      BY <1>6, CurrentIsEvent DEF SendDown, AtEvent, Event
    <2>. QED
      BY <1>6, <2>1 DEF SendDown
  <1>7. CASE SendUp(w) \/ SendDrag(w) \/ PopDragged(w)
    <2>1. active' = active /\ wpc[w] \in {"locked", "drag", "dragpop"}
      BY <1>7 DEF SendUp, SendDrag, PopDragged
    <2>2. \/ UNCHANGED pressed
          \/ \E i : pressed' = [pressed EXCEPT ![w] = @ \ {i}]
      BY <1>7 DEF SendUp, SendDrag, PopDragged
    <2>3. \A v \in Worker : pressed'[v] \subseteq pressed[v]
      BY <2>2
    <2>. QED
      BY <2>1, <2>3
  <1>8. CASE WaitEnds(w) \/ TriggerStopped(w) \/ ApplyPendingPause(w)
    BY <1>8 DEF WaitEnds, TriggerStopped, ApplyPendingPause
  <1>9. CASE EventDone(w) \/ DoneCallback(w)
    BY <1>9 DEF EventDone, DoneCallback
  <1>10. CASE LastCallback(w) \/ Die(w) \/ ColorCheck(w) \/ TriggerEnds(w)
    BY <1>10 DEF LastCallback, Die, ColorCheck, TriggerEnds
  <1>. QED
    BY <1>1, <1>2, <1>3, <1>4, <1>5, <1>6, <1>7, <1>8, <1>9, <1>10
       DEF WorkerStep, ScreenStep

LEMMA InFlightStep ==
    ASSUME TypeOK, IndexInv, LifecycleInv, InputInv, InFlightInv, Next
    PROVE  InFlightInv'
  <1>1. ASSUME NEW w \in Worker, WorkerStep(w) \/ ScreenStep(w), NEW t \in Thread
        PROVE  /\ pc'[t] \in StopPoint => stopFlag'
               /\ pc'[t] \in {"s_join", "s_final"} /\ active' # None =>
                     \/ pressed'[active'] = {}
                     \/ /\ wpc'[active'] \in {"after", "check", "ending", "dead"}
                        /\ \E i \in Input : pressed'[active'] = {i}
    <2>1. UNCHANGED <<stopFlag, pc>>
      BY <1>1, WorkerFrame DEF lifecycle, calls
    <2>2. \A v \in Worker \ {w} : wpc'[v] = wpc[v]
      BY <1>1, WorkerFrame DEF TypeOK
    <2>3. pc[t] \in StopPoint => stopFlag
      BY DEF InFlightInv
    <2>. SUFFICES ASSUME pc[t] \in {"s_join", "s_final"}, active' # None
                  PROVE  \/ pressed'[active'] = {}
                         \/ /\ wpc'[active'] \in {"after", "check", "ending", "dead"}
                            /\ \E i \in Input : pressed'[active'] = {i}
      BY <2>1, <2>3
    <2>4. stopFlag
      BY <2>3 DEF StopPoint
    <2>5. CASE Begin(w)
      <3>1. active' = w /\ UNCHANGED pressed /\ wpc[w] = "start"
        BY <2>5 DEF Begin, Goto
      <3>. QED
        BY <3>1 DEF InputInv, FreshPoint
    <2>6. CASE ReleaseAtEnd(w)
      <3>1. wpc[w] \in {"raise", "finish"} /\ ReleaseActive
        BY <2>6 DEF ReleaseAtEnd, Goto
      <3>2. active = w
        BY <3>1 DEF InputInv, Alive
      <3>. QED
        BY <3>1, <3>2 DEF ReleaseActive
    <2>7. CASE ~Begin(w) /\ ~ReleaseAtEnd(w)
      <3>1. /\ active' = active
            /\ wpc[w] \in {"after", "check", "ending", "dead"}
                  => wpc'[w] \in {"after", "check", "ending", "dead"}
            /\ \/ \A v \in Worker : pressed'[v] \subseteq pressed[v]
               \/ /\ wpc[w] = "locked" /\ wpc'[w] = "after"
                  /\ \E i \in Input : pressed' = [pressed EXCEPT ![w] = @ \cup {i}]
        BY <1>1, <2>4, <2>7, StoppedFrame
      <3>2. /\ active \in Worker
            /\ \/ pressed[active] = {}
               \/ /\ wpc[active] \in {"after", "check", "ending", "dead"}
                  /\ \E i \in Input : pressed[active] = {i}
        BY <3>1 DEF InFlightInv, TypeOK
      <3>3. wpc[active] \in {"after", "check", "ending", "dead"}
               => wpc'[active] \in {"after", "check", "ending", "dead"}
        BY <2>2, <3>1, <3>2
      <3>4. CASE \A v \in Worker : pressed'[v] \subseteq pressed[v]
        <4>1. pressed'[active] \subseteq pressed[active]
          BY <3>2, <3>4
        <4>. QED
          BY <3>1, <3>2, <3>3, <4>1
      <3>5. ASSUME wpc[w] = "locked", wpc'[w] = "after",
                   NEW i \in Input, pressed' = [pressed EXCEPT ![w] = @ \cup {i}]
            PROVE  \/ pressed'[active'] = {}
                   \/ /\ wpc'[active'] \in {"after", "check", "ending", "dead"}
                      /\ \E j \in Input : pressed'[active'] = {j}
        <4>1. active = w
          BY <3>5 DEF InputInv, Alive
        <4>2. pressed[w] = {}
          BY <3>2, <3>5, <4>1
        <4>3. pressed'[w] = {i}
          BY <3>5, <4>2 DEF TypeOK
        <4>. QED
          BY <3>1, <3>5, <4>1, <4>3
      <3>. QED
        BY <3>1, <3>4, <3>5
    <2>. QED
      BY <2>5, <2>6, <2>7
  <1>2. ASSUME NEW u \in Thread, CallStep(u) \/ NewCall(u), NEW t \in Thread
        PROVE  /\ pc'[t] \in StopPoint => stopFlag'
               /\ pc'[t] \in {"s_join", "s_final"} /\ active' # None =>
                     \/ pressed'[active'] = {}
                     \/ /\ wpc'[active'] \in {"after", "check", "ending", "dead"}
                        /\ \E i \in Input : pressed'[active'] = {i}
    <2> USE DEF StopPoint, PlayPoint, Step, lifecycle, inputs, work
    <2>0. /\ pc \in [Thread -> CallPoint] /\ wpc \in [Worker -> WorkerPoint]
          /\ pc[t] \in StopPoint => stopFlag /\ stopInProgress
          /\ pc[u] \in StopPoint /\ pc[t] \in StopPoint => t = u
          /\ pc[t] \in {"s_join", "s_final"} /\ active # None =>
                \/ pressed[active] = {}
                \/ /\ wpc[active] \in {"after", "check", "ending", "dead"}
                   /\ \E i \in Input : pressed[active] = {i}
      BY DEF TypeOK, LifecycleInv, InFlightInv
    <2>1. CASE PlayEnter(u) \/ PlayJoin(u) \/ PlayClearPending(u)
      BY <2>0, <2>1 DEF PlayEnter, PlayJoin, PlayClearPending
    <2>2. CASE PlayClear(u) \/ PlaySpawn(u)
      <3>1. pc[u] \in PlayPoint
        BY <2>2 DEF PlayClear, PlaySpawn
      <3>2. pc[t] \notin StopPoint
        BY <2>0, <3>1 DEF LifecycleInv
      <3>3. \E to \in PlayPoint \cup {"idle"} : pc' = [pc EXCEPT ![u] = to]
        BY <2>2 DEF PlayClear, PlaySpawn
      <3>. QED
        BY <2>0, <3>2, <3>3
    <2>3. CASE StopEnter(u)
      BY <2>0, <2>3 DEF StopEnter
    <2>4. CASE StopClearPending(u) \/ StopJoin(u)
      BY <2>0, <2>4 DEF StopClearPending, StopJoin
    <2>5. CASE StopRelease(u)
      <3>1. /\ pc[u] = "s_release" /\ UNCHANGED <<active, stopFlag>>
            /\ \E to \in {"s_final", "s_join"} : pc' = [pc EXCEPT ![u] = to]
            /\ \A w \in Worker : w = active => pressed'[w] = {}
        BY <2>5 DEF StopRelease, ReleaseActive
      <3>2. pc'[t] \in StopPoint => pc[t] \in StopPoint
        BY <2>0, <3>1
      <3>. QED
        BY <2>0, <3>1, <3>2 DEF TypeOK
    <2>6. CASE StopFinal(u)
      <3>1. pc[u] = "s_final" /\ pc' = [pc EXCEPT ![u] = "idle"]
        BY <2>6 DEF StopFinal
      <3>2. pc'[t] \notin StopPoint
        BY <2>0, <3>1
      <3>. QED
        BY <3>2
    <2>7. CASE PauseEnter(u) \/ PauseLocked(u) \/ ResumeEnter(u) \/ ResumeLocked(u)
      BY <2>0, <2>7 DEF PauseEnter, PauseLocked, ResumeEnter, ResumeLocked
    <2>. QED
      BY <1>2, <2>1, <2>2, <2>3, <2>4, <2>5, <2>6, <2>7 DEF CallStep, NewCall
  <1>3. ASSUME NEW u \in Thread, LockCall(u), NEW t \in Thread
        PROVE  /\ pc'[t] \in StopPoint => pc[t] \in StopPoint
               /\ pc'[t] \in {"s_join", "s_final"} => pc[t] \in {"s_join", "s_final"}
               /\ UNCHANGED <<stopFlag, active, pressed, wpc>>
    BY <1>3, LockFrame DEF TypeOK, StopPoint, lifecycle, inputs, work
  <1>. QED
    BY <1>1, <1>2, <1>3 DEF Next, InFlightInv

(* Once a stop has released the inputs, whatever the worker was doing when  *)
(* the stop came and however the join ends, it holds at most one of them.   *)
THEOREM AtMostInFlight == Spec => []StopLeavesAtMostInFlight
  <1>1. TypeOK /\ IndexInv /\ LifecycleInv /\ InputInv /\ InFlightInv /\ [Next]_vars
            => InFlightInv'
    <2>1. InFlightInv /\ UNCHANGED vars => InFlightInv'
      BY DEF InFlightInv, vars, lifecycle, inputs, work, calls
    <2>. QED
      BY <2>1, InFlightStep
  <1>2. InFlightInv => StopLeavesAtMostInFlight
    <2> SUFFICES ASSUME InFlightInv, NEW t \in Thread,
                        pc[t] \in {"s_join", "s_final"}, active # None
                 PROVE  Cardinality(pressed[active]) <= 1
      BY DEF StopLeavesAtMostInFlight
    <2>1. CASE pressed[active] = {}
      BY <2>1, FS_EmptySet
    <2>2. ASSUME NEW i \in Input, pressed[active] = {i}
          PROVE  Cardinality(pressed[active]) <= 1
      BY <2>2, FS_Singleton
    <2>. QED
      BY <2>1, <2>2 DEF InFlightInv
  <1>. QED
    BY <1>1, <1>2, Typing, Lifecycle, Inputs, InFlightInit, PTL DEF Spec

-----------------------------------------------------------------------------
(* The refinement.                                                         *)

LEMMA WorkerSends ==
    ASSUME TypeOK, IndexInv, InputInv, NEW w \in Worker, WorkerStep(w) \/ ScreenStep(w)
    PROVE  osDown' \subseteq osDown \/ \E i \in Input : osDown' = osDown \cup {i}
  <1>1. CASE QuietStep(w)
    BY <1>1, QuietFrame
  <1>2. CASE Begin(w) \/ StartPause(w) \/ PopDragged(w) \/ ApplyPendingPause(w)
    BY <1>2 DEF Begin, StartPause, PopDragged, ApplyPendingPause, inputs
  <1>3. CASE SendDown(w)
    BY <1>3, CurrentIsEvent DEF SendDown, Goto, AtEvent
  <1>4. CASE SendUp(w) \/ SendDrag(w)
    BY <1>4 DEF SendUp, SendDrag
  <1>5. CASE ReleaseAtEnd(w)
    BY <1>5, ReleaseTracked DEF ReleaseAtEnd
  <1>. QED
    BY <1>1, <1>2, <1>3, <1>4, <1>5 DEF WorkerStep, ScreenStep, QuietStep

LEMMA SlotInit == Init => Slot!Init
  BY DEF Init, Slot!Init, IsPlaying

LEMMA SlotStep ==
    ASSUME TypeOK, IndexInv, LifecycleInv, InputInv, [Next]_vars
    PROVE  [Slot!Next]_(Slot!vars)
  <1> USE DEF IsPlaying, Alive
  <1> DEFINE Running == IF IsPlaying THEN thread ELSE None
             Used == {w \in Worker : wpc[w] # "new"}
  <1>1. ASSUME NEW w \in Worker, WorkerStep(w) \/ ScreenStep(w)
        PROVE  Slot!Next
    <2>1. PICK to \in WorkerPoint \ {"new"} :
             wpc' = [wpc EXCEPT ![w] = to] /\ (to = "dead" => Die(w))
      BY <1>1, WorkerFrame
    <2>2. /\ wpc[w] \notin {"new", "dead"} /\ w = thread /\ w # None
          /\ UNCHANGED <<thread, stopFlag>>
      BY <1>1, WorkerFrame, PlayerAssumption DEF LifecycleInv, lifecycle, Thread
    <2>3. Running = w /\ Used' = Used
      BY <2>1, <2>2 DEF TypeOK
    <2>4. CASE to = "dead"
      <3>1. Running' = None
        BY <2>1, <2>2, <2>4 DEF TypeOK
      <3>2. osDown' = osDown
        BY <2>1, <2>4 DEF Die, Stay, inputs
      <3>3. Slot!End
        BY <2>2, <2>3, <3>1, <3>2 DEF Slot!End
      <3>. QED
        BY <3>3 DEF Slot!Next
    <2>5. CASE to # "dead"
      <3>1. Running' = Running
        BY <2>1, <2>2, <2>5 DEF TypeOK
      <3>2. CASE osDown' \subseteq osDown
        <4>1. Slot!Release
          BY <2>2, <2>3, <3>1, <3>2 DEF Slot!Release
        <4>. QED
          BY <4>1 DEF Slot!Next
      <3>3. ASSUME NEW i \in Input, osDown' = osDown \cup {i}
            PROVE  Slot!Next
        <4>1. Slot!Press(i)
          BY <2>2, <2>3, <3>1, <3>3 DEF Slot!Press
        <4>. QED
          BY <4>1 DEF Slot!Next
      <3>. QED
        BY <1>1, <3>2, <3>3, WorkerSends
    <2>. QED
      BY <2>4, <2>5
  <1>2. ASSUME NEW t \in Thread, PlaySpawn(t)
        PROVE  [Slot!Next]_(Slot!vars)
    <2>1. ~stopFlag /\ \A v \in Worker : ~Alive(v)
      BY <1>2 DEF PlaySpawn, Step, LifecycleInv, PlayPoint
    <2>2. Running = None /\ UNCHANGED <<stopFlag, osDown>>
      BY <1>2, <2>1 DEF PlaySpawn, inputs, TypeOK
    <2>3. CASE thread' = None /\ UNCHANGED wpc
      BY <2>2, <2>3 DEF Slot!vars
    <2>4. ASSUME NEW w \in Worker, wpc[w] = "new", wpc' = [wpc EXCEPT ![w] = "start"],
                 thread' = w
          PROVE  Slot!Next
      <3>1. Running' = w /\ w \notin Used /\ Used' = Used \cup {w}
        BY <2>4, PlayerAssumption DEF TypeOK, Thread
      <3>2. Slot!Play(w)
        BY <2>1, <2>2, <3>1 DEF Slot!Play
      <3>. QED
        BY <3>2 DEF Slot!Next
    <2>. QED
      BY <1>2, <2>3, <2>4 DEF PlaySpawn
  <1>3. ASSUME NEW t \in Thread,
               (CallStep(t) /\ ~PlaySpawn(t)) \/ NewCall(t) \/ LockCall(t)
        PROVE  [Slot!Next]_(Slot!vars)
    <2>1. UNCHANGED <<thread, wpc>>
      BY <1>3, LockFrame
         DEF CallStep, NewCall, PlayJoin, PlayClear, PlayClearPending, StopClearPending,
             StopRelease, StopJoin, StopFinal, PauseLocked, ResumeLocked, PlayEnter,
             StopEnter, PauseEnter, ResumeEnter, lifecycle, work
    <2>2. Running' = Running /\ Used' = Used
      BY <2>1
    <2>3. CASE StopEnter(t)
      <3>1. stopFlag' = TRUE /\ osDown' = osDown
        BY <2>3 DEF StopEnter, inputs
      <3>2. Slot!Stop
        BY <2>2, <3>1 DEF Slot!Stop
      <3>. QED
        BY <3>2 DEF Slot!Next
    <2>4. CASE PlayClear(t) \/ StopFinal(t)
      <3>1. osDown' = osDown
        BY <2>4 DEF PlayClear, StopFinal, inputs
      <3>2. CASE stopFlag' = stopFlag
        BY <2>2, <3>1, <3>2 DEF Slot!vars
      <3>3. CASE stopFlag' # stopFlag
        <4>1. stopFlag' = FALSE
          BY <2>4, <3>3 DEF PlayClear, StopFinal
        <4>2. Running = None
          <5>1. CASE PlayClear(t)
            BY <5>1 DEF PlayClear, Step, LifecycleInv, PlayPoint, TypeOK
          <5>2. CASE StopFinal(t)
            BY <3>3, <5>2 DEF StopFinal, Step, LifecycleInv, StopPoint, TypeOK
          <5>. QED
            BY <2>4, <5>1, <5>2
        <4>3. Slot!Rearm
          BY <2>2, <3>1, <4>1, <4>2 DEF Slot!Rearm
        <4>. QED
          BY <4>3 DEF Slot!Next
      <3>. QED
        BY <3>2, <3>3
    <2>5. CASE StopRelease(t)
      <3>1. stopFlag' = stopFlag /\ osDown' \subseteq osDown
        BY <2>5, ReleaseTracked DEF StopRelease, lifecycle
      <3>2. Slot!Release
        BY <2>2, <3>1 DEF Slot!Release
      <3>. QED
        BY <3>2 DEF Slot!Next
    <2>6. CASE \/ PlayJoin(t) \/ PlayClearPending(t) \/ StopClearPending(t) \/ StopJoin(t)
               \/ PauseLocked(t) \/ ResumeLocked(t)
               \/ PlayEnter(t) \/ PauseEnter(t) \/ ResumeEnter(t) \/ LockCall(t)
      <3>1. UNCHANGED <<stopFlag, osDown>>
        BY <2>6, LockFrame
           DEF PlayJoin, PlayClearPending, StopClearPending, StopJoin, PauseLocked,
               ResumeLocked, PlayEnter, PauseEnter, ResumeEnter, lifecycle, inputs
      <3>. QED
        BY <2>2, <3>1 DEF Slot!vars
    <2>. QED
      BY <1>3, <2>3, <2>4, <2>5, <2>6 DEF CallStep, NewCall
  <1>4. CASE UNCHANGED vars
    BY <1>4 DEF vars, lifecycle, inputs, work, Slot!vars
  <1>. QED
    BY <1>1, <1>2, <1>3, <1>4 DEF Next, CallStep

(* Every run of the threads is a run of the one-playback slot.             *)
THEOREM Refinement == Spec => ImplementsSlot
  <1>. QED
    BY SlotInit, SlotStep, Typing, Lifecycle, Inputs, PTL
       DEF Spec, ImplementsSlot, Slot!Spec

=============================================================================
