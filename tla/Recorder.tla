------------------------------ MODULE Recorder ------------------------------
(***************************************************************************)
(* The capture engine, src/macroflow/recorder.py.                          *)
(*                                                                         *)
(* The hook thread stamps every input with the clock and pushes it on a    *)
(* queue; the consumer thread pops it later, classifies it against the     *)
(* pauses, and appends it to the event buffer.  The window's thread        *)
(* starts, pauses, resumes and injects; a worker of the window stops.      *)
(* Each region under _pause_lock is one action.  A hook callback (stamp,   *)
(* then push) is one action as well, and so is a projection with the       *)
(* append that follows it.                                                 *)
(*                                                                         *)
(* Time is a count of clock readings since _rec_start_ns: two readings     *)
(* never agree, and only their order and differences matter.               *)
(***************************************************************************)
EXTENDS Integers, Sequences, FiniteSets

CONSTANTS
    Key, Button,    \* the keys and the mouse buttons of the user
    Esc,            \* the ESC key, in Key when the user may press it
    Hotkey,         \* _filtered_hotkey_vk_codes
    Group,          \* the groups of keys suppress_next_key_release may be given
    None,           \* Python's None
    MaxTime,        \* bound: clock readings in one recording
    May             \* what the environment does: see Deed

Input == Key \cup Button
Time == 0 .. MaxTime

(* The window's calls, and what fails: starting the hook or the thread,    *)
(* removing the hook, stop's removal of it after a thread that did not     *)
(* start, the three seconds of the join.                                   *)
Deed == {"move", "pause", "text", "color", "fence", "restart",
         "hook_fails", "thread_fails", "unhook_fails", "cleanup_fails", "join_fails"}

ASSUME RecorderAssumption ==
    /\ Key \cap Button = {} /\ Hotkey \subseteq Key
    /\ None \notin Input \cup Nat
    /\ \A g \in Group : g \cap (Button \cup {None}) = {}
    /\ \A g, h \in Group : g = h \/ g \cap h = {}
    /\ MaxTime \in Nat
    /\ May \subseteq Deed

VARIABLES
    call,           \* where start_recording or stop_recording stands
    recording,      \* _recording
    hooked,         \* the hook thread pushes what the user does
    onEmergency,    \* _on_emergency_stop is set
    stopConsumer,   \* _stop_consumer
    consumer,       \* the consumer thread: where it stands, and its locals
    log, taken,     \* _raw_queue is log without its first taken items
    buffer,         \* _event_buffer: [of |-> place in log, or 0; time |-> ns]
    saved,          \* the events stop_recording returned, or None
    now,            \* the next reading of the clock
    held,           \* what the user holds down
    intervals,      \* _pause_intervals
    pausedAt,       \* _pause_started_ns
    pressed,        \* _recording_pressed_keys and _recording_pressed_mouse
    suppressed,     \* _suppressed_pause_keys and _suppressed_pause_mouse
    fences,         \* _suppressed_release_groups
    escs            \* length of _esc_press_times

session == <<call, recording, hooked, onEmergency, stopConsumer, saved>>
queue == <<log, now, held>>
pauses == <<intervals, pausedAt>>
filter == <<pressed, suppressed>>
vars == <<session, consumer, queue, taken, buffer, pauses, filter, fences, escs>>

Absent == [at |-> "absent"]
Loop == [at |-> "loop"]

-----------------------------------------------------------------------------
(* The pause timeline.                                                     *)

Within(t, i) == intervals[i].from <= t /\ t < intervals[i].to
InClosedPause(t) == \E i \in DOMAIN intervals : Within(t, i)
InOpenPause(t) == pausedAt # None /\ t >= pausedAt
InPause(t) == InClosedPause(t) \/ InOpenPause(t)

(* Mutant of Boundary: the first pause, whichever the reading is in. *)
BoundaryOfFirst(t) == IF InClosedPause(t) THEN intervals[1].from ELSE pausedAt

(* _pause_boundary_for, for a reading inside a pause. *)
Boundary(t) ==
    IF InClosedPause(t)
    THEN intervals[CHOOSE i \in DOMAIN intervals : Within(t, i)].from
    ELSE pausedAt

(* _project_recording_timestamp_ns, for a reading outside every pause: the *)
(* readings before it that no pause swallowed.                             *)
Project(t) == Cardinality({s \in 0 .. t - 1 : ~InClosedPause(s)})

-----------------------------------------------------------------------------
(* The hook thread.                                                        *)

Push(kind, in) ==
    /\ now < MaxTime
    /\ now' = now + 1
    /\ log' = Append(log, [kind |-> kind, input |-> in, time |-> now])

(* The user moves the mouse, presses a key or a button, holds a key until  *)
(* it repeats, or lets go of what was down, perhaps since before the       *)
(* recording.                                                              *)
Capture ==
    /\ hooked
    /\ \/ "move" \in May /\ Push("move", None) /\ UNCHANGED held
       \/ \E i \in (Input \ held) \cup (Key \cap held) :
             Push("down", i) /\ held' = held \cup {i}
       \/ \E i \in held : Push("up", i) /\ held' = held \ {i}
    /\ UNCHANGED <<session, consumer, taken, buffer, pauses, filter, fences, escs>>

-----------------------------------------------------------------------------
(* start_recording.  The window never calls it, or stop_recording, while   *)
(* one of them runs.                                                       *)

StartBegin ==
    /\ call = "idle" /\ ~recording
    /\ consumer = Absent
    /\ saved = None \/ "restart" \in May
    /\ call' = "start_hook"
    /\ onEmergency' = TRUE /\ stopConsumer' = FALSE
    /\ log' = <<>> /\ taken' = 0 /\ buffer' = <<>> /\ saved' = None
    /\ now' = 1 /\ held' \in SUBSET Input
    /\ intervals' = <<>> /\ pausedAt' = None
    /\ pressed' = {} /\ suppressed' = {} /\ fences' = {} /\ escs' = 0
    /\ UNCHANGED <<recording, hooked, consumer>>

StartHook ==
    /\ call = "start_hook"
    /\ \/ /\ ~hooked
          /\ call' = "start_consumer" /\ hooked' = TRUE /\ UNCHANGED onEmergency
       \/ /\ hooked \/ "hook_fails" \in May
          /\ call' = "idle" /\ onEmergency' = FALSE /\ UNCHANGED hooked
    /\ UNCHANGED <<recording, stopConsumer, saved, consumer, queue, taken, buffer,
                   pauses, filter, fences, escs>>

(* Mutant of StartConsumer: the hook stays when the thread does not start. *)
StartConsumerKeepsHook ==
    /\ call = "start_consumer"
    /\ call' = "idle"
    /\ \/ consumer' = Loop /\ recording' = TRUE /\ UNCHANGED onEmergency
       \/ /\ "thread_fails" \in May
          /\ onEmergency' = FALSE /\ UNCHANGED <<consumer, recording>>
    /\ UNCHANGED <<hooked, stopConsumer, saved, queue, taken, buffer, pauses, filter, fences,
                   escs>>

(* Nothing can read _recording between the start of the thread and the     *)
(* assignment that follows it.                                             *)
StartConsumer ==
    /\ call = "start_consumer"
    /\ call' = "idle"
    /\ \/ consumer' = Loop /\ recording' = TRUE /\ UNCHANGED <<hooked, onEmergency>>
       \/ /\ "thread_fails" \in May
          /\ hooked' \in IF "cleanup_fails" \in May THEN BOOLEAN ELSE {FALSE}
          /\ onEmergency' = FALSE /\ UNCHANGED <<consumer, recording>>
    /\ UNCHANGED <<stopConsumer, saved, queue, taken, buffer, pauses, filter, fences, escs>>

-----------------------------------------------------------------------------
(* stop_recording.  A failed step raises, and the window lets the user try *)
(* again.                                                                  *)

StopBegin ==
    /\ call = "idle" /\ recording
    /\ call' = "stop_hook" /\ onEmergency' = FALSE
    /\ UNCHANGED <<recording, hooked, stopConsumer, saved, consumer, queue, taken, buffer,
                   pauses, filter, fences, escs>>

StopHook ==
    /\ call = "stop_hook"
    /\ \/ call' = "close_pause" /\ hooked' = FALSE
       \/ "unhook_fails" \in May /\ call' = "idle" /\ hooked' \in {hooked, FALSE}
    /\ UNCHANGED <<recording, onEmergency, stopConsumer, saved, consumer, queue, taken,
                   buffer, pauses, filter, fences, escs>>

Close ==
    /\ intervals' = Append(intervals, [from |-> pausedAt, to |-> now])
    /\ pausedAt' = None
    /\ now' = now + 1

ClosePause ==
    /\ call = "close_pause"
    /\ call' = "signal"
    /\ IF pausedAt # None THEN Close ELSE UNCHANGED <<pauses, now>>
    /\ UNCHANGED <<recording, hooked, onEmergency, stopConsumer, saved, consumer, log, held,
                   taken, buffer, filter, fences, escs>>

(* Mutant of StopSignal: the consumer is not told. *)
StopSignalForgotten ==
    /\ call = "signal"
    /\ call' = "join"
    /\ UNCHANGED <<recording, hooked, onEmergency, stopConsumer, saved, consumer, queue,
                   taken, buffer, pauses, filter, fences, escs>>

StopSignal ==
    /\ call = "signal"
    /\ call' = "join" /\ stopConsumer' = TRUE
    /\ UNCHANGED <<recording, hooked, onEmergency, saved, consumer, queue, taken, buffer,
                   pauses, filter, fences, escs>>

(* Mutant of StopJoin: the events are taken whether the consumer ended or  *)
(* the join timed out.                                                     *)
StopJoinIgnoresTimeout ==
    /\ call = "join"
    /\ call' = "idle"
    /\ consumer' = Absent /\ recording' = FALSE /\ saved' = buffer
    /\ UNCHANGED <<hooked, onEmergency, stopConsumer, queue, taken, buffer, pauses, filter,
                   fences, escs>>

StopJoin ==
    /\ call = "join"
    /\ call' = "idle"
    /\ \/ /\ consumer.at \in {"ended", "crashed"}
          /\ consumer' = Absent /\ recording' = FALSE /\ saved' = buffer
       \/ /\ "join_fails" \in May /\ consumer.at \notin {"ended", "crashed"}
          /\ UNCHANGED <<consumer, recording, saved>>
    /\ UNCHANGED <<hooked, onEmergency, stopConsumer, queue, taken, buffer, pauses, filter,
                   fences, escs>>

-----------------------------------------------------------------------------
(* What the window does in its state "recording", which the first attempt  *)
(* to stop ends for good.                                                  *)

InUse == call = "idle" /\ recording /\ onEmergency

PauseRecording ==
    /\ InUse /\ "pause" \in May
    /\ pausedAt = None
    /\ now < MaxTime
    /\ pausedAt' = now /\ now' = now + 1
    /\ UNCHANGED <<session, consumer, log, held, taken, buffer, intervals, filter, fences, escs>>

ResumeRecording ==
    /\ InUse
    /\ pausedAt # None
    /\ now < MaxTime
    /\ Close
    /\ UNCHANGED <<session, consumer, log, held, taken, buffer, filter, fences, escs>>

(* The text bears the time of the pause, counted as Project counts it. *)
InjectTextInput ==
    /\ InUse /\ "text" \in May
    /\ pausedAt # None
    /\ Len(log) < MaxTime
    /\ log' = Append(log, [kind |-> "text", input |-> None, time |-> Project(pausedAt)])
    /\ UNCHANGED <<session, consumer, now, held, taken, buffer, pauses, filter, fences, escs>>

InjectColorTrigger ==
    /\ InUse /\ "color" \in May
    /\ ~InPause(now)
    /\ now < MaxTime
    /\ now' = now + 1
    /\ buffer' = Append(buffer, [of |-> 0, time |-> Project(now)])
    /\ UNCHANGED <<session, consumer, log, held, taken, pauses, filter, fences, escs>>

(* The window asks for it just before it resumes. *)
SuppressNextKeyRelease ==
    /\ InUse /\ "fence" \in May
    /\ pausedAt # None
    /\ \E g \in Group : fences' = fences \cup {g}
    /\ UNCHANGED <<session, consumer, queue, taken, buffer, pauses, filter, escs>>

-----------------------------------------------------------------------------
(* The consumer thread.                                                    *)

Raw == log[taken]

(* _check_esc_triple: whether the three presses fall in half a second is   *)
(* not decided here.                                                       *)
IsEscPress(item) == item.kind = "down" /\ item.input = Esc
TripleSeen == escs >= 2

(* The head of either loop of _consumer_loop, down to the first reading of *)
(* the pauses.  Once the stop flag is set nothing looks for ESC any more.  *)
Take ==
    /\ consumer = Loop
    /\ taken < Len(log)
    /\ taken' = taken + 1
    /\ LET item == log[taken + 1] IN
       \/ /\ item.kind = "text"
          /\ buffer' = Append(buffer, [of |-> taken + 1, time |-> item.time])
          /\ UNCHANGED <<consumer, escs>>
       \/ /\ ~stopConsumer /\ IsEscPress(item) /\ TripleSeen
          /\ escs' = 0
          /\ consumer' = IF onEmergency THEN [at |-> "emergency"] ELSE Loop
          /\ UNCHANGED buffer
       \/ /\ item.kind # "text"
          /\ consumer' = [at |-> "judge",
                          boundary |-> IF InPause(item.time) THEN Boundary(item.time) ELSE None]
          /\ escs' = IF ~stopConsumer /\ IsEscPress(item) /\ escs < 3 THEN escs + 1 ELSE escs
          /\ UNCHANGED buffer
    /\ UNCHANGED <<session, queue, pauses, filter, fences>>

(* The callback is read a second time, and stop_recording may have cleared *)
(* it: calling None kills the thread.                                      *)
CallEmergency ==
    /\ consumer.at = "emergency"
    /\ consumer' = IF onEmergency THEN Loop ELSE [at |-> "crashed"]
    /\ UNCHANGED <<session, queue, taken, buffer, pauses, filter, fences, escs>>

Drop == consumer' = Loop
Keep(stamp) == consumer' = [at |-> "record", stamp |-> stamp]

(* Mutant of JudgePaused: every release in a pause is dropped. *)
JudgePausedDropsAll ==
    /\ suppressed' = IF Raw.kind = "down" /\ Raw.input \notin pressed
                     THEN suppressed \cup {Raw.input} ELSE suppressed \ {Raw.input}
    /\ Drop /\ UNCHANGED pressed

(* _process_raw, up to _convert_raw: what it does with a transition that   *)
(* no fence dropped.                                                       *)
JudgePaused ==
    \/ /\ Raw.kind = "down"
       /\ suppressed' = IF Raw.input \in pressed THEN suppressed ELSE suppressed \cup {Raw.input}
       /\ Drop /\ UNCHANGED pressed
    \/ /\ Raw.kind = "up"
       /\ Raw.input \in suppressed
       /\ suppressed' = suppressed \ {Raw.input}
       /\ Drop /\ UNCHANGED pressed
    \/ /\ Raw.kind = "up"
       /\ Raw.input \in pressed \ suppressed
       /\ pressed' = pressed \ {Raw.input}
       /\ Keep(consumer.boundary - 1) /\ UNCHANGED suppressed
    \/ /\ Raw.kind = "move" \/ (Raw.kind = "up" /\ Raw.input \notin pressed \cup suppressed)
       /\ Drop /\ UNCHANGED filter

JudgeRunning ==
    \/ /\ Raw.input \in suppressed
       /\ suppressed' = IF Raw.kind = "up" THEN suppressed \ {Raw.input} ELSE suppressed
       /\ Drop /\ UNCHANGED pressed
    \/ /\ Raw.input \notin suppressed
       /\ Keep(Raw.time) /\ UNCHANGED filter

(* Mutant of Judge: a press is taken for the release the fence waits for.  *)
JudgeFencesPresses ==
    /\ consumer.at = "judge"
    /\ LET hit == {g \in fences : Raw.input \in g} IN
       /\ fences' = fences \ hit
       /\ IF hit # {} /\ pressed \cap UNION hit = {}
          THEN Drop /\ suppressed' = suppressed \ UNION hit /\ UNCHANGED pressed
          ELSE IF consumer.boundary # None THEN JudgePaused ELSE JudgeRunning
    /\ UNCHANGED <<session, queue, taken, buffer, pauses, escs>>

Judge ==
    /\ consumer.at = "judge"
    /\ LET hit == {g \in fences : Raw.input \in g} IN
       /\ fences' = fences \ hit
       /\ IF hit # {} /\ Raw.kind = "up" /\ pressed \cap UNION hit = {}
          THEN Drop /\ suppressed' = suppressed \ UNION hit /\ UNCHANGED pressed
          ELSE IF consumer.boundary # None THEN JudgePaused ELSE JudgeRunning
    /\ UNCHANGED <<session, queue, taken, buffer, pauses, escs>>

(* _convert_raw, the append, and the pressed sets. *)
Record ==
    /\ consumer.at = "record"
    /\ IF Raw.input \in Hotkey \/ InPause(consumer.stamp)
       THEN UNCHANGED <<buffer, pressed>>
       ELSE /\ buffer' = Append(buffer, [of |-> taken, time |-> Project(consumer.stamp)])
            /\ pressed' = IF Raw.kind = "down" THEN pressed \cup {Raw.input}
                                               ELSE pressed \ {Raw.input}
    /\ Drop
    /\ UNCHANGED <<session, queue, taken, pauses, suppressed, fences, escs>>

ConsumerEnd ==
    /\ consumer = Loop
    /\ stopConsumer /\ taken = Len(log)
    /\ consumer' = [at |-> "ended"]
    /\ UNCHANGED <<session, queue, taken, buffer, pauses, filter, fences, escs>>

-----------------------------------------------------------------------------
Init ==
    /\ call = "idle" /\ recording = FALSE /\ hooked = FALSE /\ onEmergency = FALSE
    /\ stopConsumer = FALSE /\ saved = None /\ consumer = Absent
    /\ log = <<>> /\ taken = 0 /\ buffer = <<>>
    /\ now = 0 /\ held = {} /\ intervals = <<>> /\ pausedAt = None
    /\ pressed = {} /\ suppressed = {} /\ fences = {} /\ escs = 0

Start == StartBegin \/ StartHook \/ StartConsumer
StopStep == StopHook \/ ClosePause \/ StopSignal \/ StopJoin
Window == PauseRecording \/ ResumeRecording \/ InjectTextInput \/ InjectColorTrigger
          \/ SuppressNextKeyRelease
Consumer == Take \/ CallEmergency \/ Judge \/ Record \/ ConsumerEnd

Next == Capture \/ Start \/ StopBegin \/ StopStep \/ Window \/ Consumer

Spec == Init /\ [][Next]_vars

(* Threads run; nothing makes the user press keys or stop the recording. *)
FairSpec == Spec /\ WF_vars(Consumer) /\ WF_vars(StopStep) /\ WF_vars(Start)

-----------------------------------------------------------------------------
(* What a recording must be, as a function of what was captured: nothing   *)
(* here knows when the consumer came to an item.                           *)

Same(n) == {m \in 1 .. n - 1 : log[m].input = log[n].input}

(* The press that began the gesture item n belongs to: the first one since *)
(* the input was last let go; none when it was down before the recording.  *)
GestureStarts(n) ==
    {m \in Same(n) \cup {n} :
        /\ log[m].kind = "down"
        /\ \A k \in Same(n) : log[k].kind = "up" => k < m
        /\ \A k \in Same(m) : \/ log[k].kind = "up"
                              \/ \E u \in Same(m) : k < u /\ log[u].kind = "up"}

PausedItem(n) == InPause(log[n].time)

(* A gesture begun in a pause is left out whole.  Of any other, the        *)
(* release is kept even in a pause, at the instant before it.              *)
Wanted(n) ==
    \/ log[n].kind = "text"
    \/ /\ log[n].input \notin Hotkey
       /\ \A s \in GestureStarts(n) : ~PausedItem(s)
       /\ ~PausedItem(n) \/ (log[n].kind = "up" /\ GestureStarts(n) # {})

TimeOf(n) ==
    IF log[n].kind = "text" THEN log[n].time
    ELSE Project(IF PausedItem(n) THEN Boundary(log[n].time) - 1 ELSE log[n].time)

-----------------------------------------------------------------------------
(* Properties.                                                             *)

Entry == [of : Nat, time : Nat]
Item == [kind : {"down", "up"}, input : Input, time : Nat]
            \cup [kind : {"move", "text"}, input : {None}, time : Nat]
Interval == [from : Nat, to : Nat]
At == {Absent, Loop} \cup [at : {"emergency", "crashed", "ended"}]
            \cup [at : {"judge"}, boundary : Nat \cup {None}]
            \cup [at : {"record"}, stamp : Nat]

(* Every variable keeps its type. *)
TypeOK ==
    /\ call \in {"idle", "start_hook", "start_consumer", "stop_hook", "close_pause",
                 "signal", "join"}
    /\ recording \in BOOLEAN /\ hooked \in BOOLEAN /\ onEmergency \in BOOLEAN
    /\ stopConsumer \in BOOLEAN
    /\ saved \in Seq(Entry) \cup {None} /\ buffer \in Seq(Entry)
    /\ consumer \in At
    /\ log \in Seq(Item)
    /\ taken \in 0 .. Len(log)
    /\ now \in Nat /\ held \subseteq Input
    /\ intervals \in Seq(Interval) /\ pausedAt \in Nat \cup {None}
    /\ pressed \subseteq Input /\ suppressed \subseteq Input
    /\ fences \subseteq Group /\ escs \in 0 .. 3

(* However far the consumer lags behind the hook, and wherever pauses and  *)
(* resumes fall between its steps, what it has buffered is exactly what    *)
(* the captured items ask for, in their order, at their times.  (A colour  *)
(* trigger, of no item, comes beside them.)                                *)
Captured == {i \in DOMAIN buffer : buffer[i].of # 0}

Faithful ==
    consumer.at \in {"loop", "ended"} =>
        /\ {buffer[i].of : i \in Captured} = {n \in 1 .. taken : Wanted(n)}
        /\ \A i \in Captured : buffer[i].time = TimeOf(buffer[i].of)
        /\ \A i, j \in Captured : i < j => buffer[i].of < buffer[j].of

(* stop_recording returns everything captured: no item of the queue is     *)
(* left behind when the events are handed over.                            *)
NothingLost == saved # None => taken = Len(log)

(* The buffer is in the order of its timestamps. *)
Chronological ==
    \A i \in 1 .. Len(buffer) - 1 : buffer[i].time <= buffer[i + 1].time

(* Between two calls, a hook or a consumer that runs belongs to a          *)
(* recording, which a stop can still end.                                  *)
NothingLeaks == call = "idle" /\ (hooked \/ consumer # Absent) => recording

(* A fence falls with the first key of its group that is let go, and the   *)
(* pause forgets the others of the group with it.                          *)
Mates(x, y) == x # y /\ \E g \in Group : {x, y} \subseteq g
FenceSplits(s, n) ==
    \E u \in s + 1 .. n - 1 : log[u].kind = "up" /\ Mates(log[u].input, log[n].input)

(* A key pressed inside a pause does not come back as a lone release after *)
(* it, however many presses, fences and pauses lie between them, unless    *)
(* another key of its fence was let go in between.  (Nor does it say       *)
(* anything of ESC, of which the alarm takes out the third press alone.)   *)
OnlyFencesSplitGestures ==
    \A i \in Captured : LET n == buffer[i].of IN
        log[n].kind = "up" /\ log[n].input # Esc =>
            \A s \in GestureStarts(n) : PausedItem(s) => FenceSplits(s, n)

(* "pause 안에서 새로 시작된 key/button 입력과 그 대응 release는 모두 제외":     *)
(* a release is not recorded when its gesture was begun in a pause.        *)
PausedGestureLeftOut ==
    \A i \in Captured : LET n == buffer[i].of IN
        log[n].kind = "up" => \A s \in GestureStarts(n) : ~PausedItem(s)

(* A consumer told to stop after the hook was removed empties the queue    *)
(* and ends, so that this stop, or the next if the join timed out, finds   *)
(* every event in the buffer.                                              *)
StopDelivers == call = "join" ~> consumer.at \in {"ended", "absent"}

=============================================================================
