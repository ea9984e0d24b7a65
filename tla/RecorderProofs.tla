--------------------------- MODULE RecorderProofs ---------------------------
(***************************************************************************)
(* Theorems about Recorder: what it hands over is what was captured, for   *)
(* any keys, buttons and pauses and any lag of the consumer.               *)
(***************************************************************************)
EXTENDS Recorder, SequenceTheorems, FiniteSetTheorems, TLAPS

(* The environments the theorems speak of.  Section 8 of the README says   *)
(* what becomes of the properties in the others.                           *)
NoAlarm == Esc \notin Input
NoFence == "fence" \notin May
NoInjection == {"text", "color"} \cap May = {}
HookComesOff == "cleanup_fails" \notin May

Judging == consumer.at \in {"judge", "record"}
Done == IF Judging THEN taken - 1 ELSE taken

-----------------------------------------------------------------------------
(* The pause timeline: pauses are disjoint, in order, and past.            *)

TimelineInv ==
    /\ recording \/ call # "idle" => now >= 1
    /\ \A i \in DOMAIN intervals :
         1 <= intervals[i].from /\ intervals[i].from < intervals[i].to /\ intervals[i].to < now
    /\ \A i, j \in DOMAIN intervals : i < j => intervals[i].to < intervals[j].from
    /\ pausedAt # None =>
         /\ 1 <= pausedAt /\ pausedAt < now
         /\ \A i \in DOMAIN intervals : intervals[i].to < pausedAt

(* What the consumer is at exists, and is not before the first reading.    *)
ItemInv ==
    /\ Judging => taken >= 1 /\ Raw.kind # "text"
    /\ consumer.at = "judge" /\ consumer.boundary # None => consumer.boundary >= 1

BaseInv == TypeOK /\ TimelineInv /\ ItemInv

LEMMA EmptySeqs == <<>> \in Seq(Item) /\ <<>> \in Seq(Entry) /\ <<>> \in Seq(Interval)
  OBVIOUS

LEMMA BaseInit == Init => BaseInv
  <1> SUFFICES ASSUME Init PROVE BaseInv
    OBVIOUS
  <1>1. log \in Seq(Item) /\ buffer \in Seq(Entry) /\ intervals \in Seq(Interval)
    BY EmptySeqs DEF Init
  <1>2. Len(log) = 0 /\ taken \in 0 .. Len(log) /\ escs \in 0 .. 3
    BY DEF Init
  <1>3. DOMAIN intervals = {}
    BY DEF Init
  <1>4. consumer \in At
    BY DEF Init, At
  <1>5. TypeOK
    BY <1>1, <1>2, <1>4 DEF Init, TypeOK
  <1>6. TimelineInv /\ ItemInv
    BY <1>3 DEF Init, TimelineInv, ItemInv, Judging, Absent
  <1>. QED
    BY <1>5, <1>6 DEF BaseInv

(* What the types say of the members of the variables.                     *)
LEMMA Types ==
    ASSUME BaseInv
    PROVE  /\ now \in Nat /\ pausedAt \in Nat \cup {None} /\ None \notin Nat
           /\ Len(log) \in Nat /\ DOMAIN log = 1 .. Len(log) /\ taken \in 0 .. Len(log)
           /\ \A n \in DOMAIN log : log[n] \in Item /\ log[n].time \in Nat
           /\ Len(intervals) \in Nat /\ DOMAIN intervals = 1 .. Len(intervals)
           /\ \A i \in DOMAIN intervals : intervals[i].from \in Nat /\ intervals[i].to \in Nat
           /\ Len(buffer) \in Nat /\ DOMAIN buffer = 1 .. Len(buffer)
           /\ \A i \in DOMAIN buffer : buffer[i].of \in Nat /\ buffer[i].time \in Nat
  <1>1. /\ now \in Nat /\ pausedAt \in Nat \cup {None} /\ taken \in 0 .. Len(log)
        /\ log \in Seq(Item) /\ intervals \in Seq(Interval) /\ buffer \in Seq(Entry)
    BY Zenon DEF BaseInv, TypeOK
  <1>2. /\ Len(log) \in Nat /\ DOMAIN log = 1 .. Len(log)
        /\ \A n \in DOMAIN log : log[n] \in Item
    BY <1>1
  <1>3. /\ Len(intervals) \in Nat /\ DOMAIN intervals = 1 .. Len(intervals)
        /\ \A i \in DOMAIN intervals : intervals[i] \in Interval
    BY <1>1
  <1>4. /\ Len(buffer) \in Nat /\ DOMAIN buffer = 1 .. Len(buffer)
        /\ \A i \in DOMAIN buffer : buffer[i] \in Entry
    BY <1>1
  <1>5. \A n \in DOMAIN log : log[n].time \in Nat
    BY <1>2 DEF Item
  <1>6. \A i \in DOMAIN intervals : intervals[i].from \in Nat /\ intervals[i].to \in Nat
    BY <1>3 DEF Interval
  <1>7. \A i \in DOMAIN buffer : buffer[i].of \in Nat /\ buffer[i].time \in Nat
    BY <1>4 DEF Entry
  <1>8. None \notin Nat
    BY RecorderAssumption
  <1>. QED
    BY <1>1, <1>2, <1>3, <1>4, <1>5, <1>6, <1>7, <1>8

(* What a number of steps leaves alone.                                    *)
LEMMA TimelineKept ==
    ASSUME BaseInv, UNCHANGED pauses, now' \in Nat, now' >= now,
           recording' \/ call' # "idle" => now' >= 1
    PROVE  TimelineInv'
  <1>1. /\ now \in Nat /\ pausedAt \in Nat \cup {None}
        /\ \A i \in DOMAIN intervals : intervals[i].from \in Nat /\ intervals[i].to \in Nat
    BY Types
  <1>. QED
    BY <1>1 DEF BaseInv, TimelineInv, pauses

LEMMA ItemKept ==
    ASSUME BaseInv, UNCHANGED <<consumer, log, taken>>
    PROVE  ItemInv'
  BY DEF BaseInv, ItemInv, Judging, Raw

LEMMA Pushed ==
    ASSUME BaseInv, NEW item \in Item, log' = Append(log, item)
    PROVE  /\ log' \in Seq(Item) /\ Len(log') = Len(log) + 1
           /\ \A n \in DOMAIN log : n \in DOMAIN log' /\ log'[n] = log[n]
           /\ log'[Len(log) + 1] = item
           /\ DOMAIN log = 1 .. Len(log) /\ DOMAIN log' = 1 .. Len(log) + 1
           /\ taken \in 0 .. Len(log')
           /\ UNCHANGED <<consumer, taken>> => ItemInv'
  <1>1. log \in Seq(Item) /\ taken \in 0 .. Len(log) /\ Len(log) \in Nat
    BY Types, Zenon DEF BaseInv, TypeOK
  <1>2. /\ log' \in Seq(Item) /\ Len(log') = Len(log) + 1
        /\ \A n \in 1 .. Len(log) : log'[n] = log[n]
        /\ log'[Len(log) + 1] = item
    BY <1>1, AppendProperties
  <1>3. DOMAIN log = 1 .. Len(log) /\ DOMAIN log' = 1 .. Len(log')
    BY <1>1, <1>2
  <1>4. ASSUME UNCHANGED <<consumer, taken>> PROVE ItemInv'
    <2>1. Judging => taken \in 1 .. Len(log)
      BY <1>1 DEF BaseInv, ItemInv
    <2>. QED
      BY <1>2, <1>4, <2>1 DEF BaseInv, ItemInv, Judging, Raw
  <1>. QED
    BY <1>1, <1>2, <1>3, <1>4

LEMMA Buffered ==
    ASSUME BaseInv, NEW e \in Entry, buffer' = Append(buffer, e)
    PROVE  /\ buffer' \in Seq(Entry) /\ Len(buffer') = Len(buffer) + 1
           /\ \A n \in DOMAIN buffer : buffer'[n] = buffer[n]
           /\ buffer'[Len(buffer) + 1] = e
           /\ DOMAIN buffer = 1 .. Len(buffer) /\ DOMAIN buffer' = 1 .. Len(buffer) + 1
  <1>1. buffer \in Seq(Entry) /\ Len(buffer) \in Nat
    BY Types, Zenon DEF BaseInv, TypeOK
  <1>2. /\ buffer' \in Seq(Entry) /\ Len(buffer') = Len(buffer) + 1
        /\ \A n \in 1 .. Len(buffer) : buffer'[n] = buffer[n]
        /\ buffer'[Len(buffer) + 1] = e
    BY <1>1, AppendProperties
  <1>. QED
    BY <1>1, <1>2

LEMMA ProjectType ==
    ASSUME NEW t \in Int
    PROVE  Project(t) \in Nat /\ IsFiniteSet({s \in 0 .. t - 1 : ~InClosedPause(s)})
  <1>1. IsFiniteSet(0 .. t - 1)
    BY FS_Interval
  <1>2. {s \in 0 .. t - 1 : ~InClosedPause(s)} \in SUBSET (0 .. t - 1)
    OBVIOUS
  <1>3. IsFiniteSet({s \in 0 .. t - 1 : ~InClosedPause(s)})
    BY <1>1, <1>2, FS_Subset, Zenon
  <1>. QED
    BY <1>3, FS_CardinalityType DEF Project

LEMMA ProjectNat == \A t \in Nat : Project(t) \in Nat
  <1> TAKE t \in Nat
  <1>1. t \in Int
    OBVIOUS
  <1>. QED
    BY <1>1, ProjectType, Zenon

(* A pause is closed by a resume or by a stop.                             *)
LEMMA Closed ==
    ASSUME BaseInv, pausedAt # None, Close
    PROVE  /\ now' \in Nat /\ now' = now + 1 /\ pausedAt' = None
           /\ intervals' \in Seq(Interval)
           /\ DOMAIN intervals = 1 .. Len(intervals) /\ DOMAIN intervals' = 1 .. Len(intervals) + 1
           /\ \A i \in DOMAIN intervals : intervals'[i] = intervals[i]
           /\ intervals'[Len(intervals) + 1] = [from |-> pausedAt, to |-> now]
           /\ Len(intervals) \in Nat
           /\ TimelineInv'
  <1> DEFINE i == [from |-> pausedAt, to |-> now]
             n == Len(intervals)
  <1>1. intervals \in Seq(Interval) /\ now \in Nat /\ pausedAt \in Nat /\ n \in Nat
    BY Types DEF BaseInv, TypeOK
  <1>2. i \in Interval
    BY <1>1 DEF Interval
  <1>3. /\ intervals' \in Seq(Interval) /\ Len(intervals') = n + 1
        /\ \A j \in 1 .. n : intervals'[j] = intervals[j]
        /\ intervals'[n + 1] = i
    <2>1. intervals' = Append(intervals, i)
      BY DEF Close
    <2>. QED
      BY <1>1, <1>2, <2>1, AppendProperties
  <1>4. DOMAIN intervals = 1 .. n /\ DOMAIN intervals' = 1 .. n + 1
    BY <1>1, <1>3
  <1>5. now' = now + 1 /\ pausedAt' = None
    BY DEF Close
  <1>6. TimelineInv'
    <2>1. /\ 1 <= pausedAt /\ pausedAt < now
          /\ \A j \in 1 .. n : /\ 1 <= intervals[j].from /\ intervals[j].from < intervals[j].to
                             /\ intervals[j].to < now /\ intervals[j].to < pausedAt
                             /\ intervals[j].from \in Nat /\ intervals[j].to \in Nat
          /\ \A j, k \in 1 .. n : j < k => intervals[j].to < intervals[k].from
      BY <1>1, <1>4, Types DEF BaseInv, TimelineInv
    <2>2. \A j \in 1 .. n + 1 : j \in Nat /\ (j \in 1 .. n \/ j = n + 1)
      BY <1>1
    <2>3. \A j \in 1 .. n + 1 :
             1 <= intervals'[j].from /\ intervals'[j].from < intervals'[j].to /\ intervals'[j].to < now'
      BY <1>1, <1>3, <1>5, <2>1, <2>2
    <2>4. ASSUME NEW j \in 1 .. n + 1, NEW k \in 1 .. n + 1, j < k
          PROVE  intervals'[j].to < intervals'[k].from
      <3>1. j \in 1 .. n /\ intervals'[j] = intervals[j]
        BY <1>1, <1>3, <2>4
      <3>2. CASE k \in 1 .. n
        BY <1>3, <2>1, <2>4, <3>1, <3>2
      <3>3. CASE k = n + 1
        BY <1>3, <2>1, <3>1, <3>3
      <3>. QED
        BY <2>2, <3>2, <3>3
    <2>5. now' >= 1
      BY <1>1, <1>5
    <2>. QED
      BY <1>4, <1>5, <2>3, <2>4, <2>5 DEF TimelineInv
  <1>. QED
    BY <1>1, <1>3, <1>4, <1>5, <1>6

(* A reading is in one pause at most, and the code finds its boundary.     *)
LEMMA BoundaryIs ==
    ASSUME BaseInv, NEW t \in Nat
    PROVE  /\ \A i \in DOMAIN intervals : Within(t, i) => Boundary(t) = intervals[i].from
           /\ ~InClosedPause(t) => Boundary(t) = pausedAt
           /\ InPause(t) => Boundary(t) \in Nat /\ 1 <= Boundary(t) /\ Boundary(t) <= t
  <1>1. /\ \A i \in DOMAIN intervals :
              /\ intervals[i].from \in Nat /\ intervals[i].to \in Nat
              /\ 1 <= intervals[i].from /\ intervals[i].from < intervals[i].to
        /\ \A i, j \in DOMAIN intervals : i < j => intervals[i].to < intervals[j].from
        /\ \A i \in DOMAIN intervals : i \in Nat
        /\ pausedAt \in Nat \cup {None}
        /\ pausedAt # None => 1 <= pausedAt
    BY Types DEF BaseInv, TimelineInv
  <1>2. \A i, j \in DOMAIN intervals : Within(t, i) /\ Within(t, j) => i = j
    BY <1>1 DEF Within
  <1>3. ASSUME NEW i \in DOMAIN intervals, Within(t, i) PROVE Boundary(t) = intervals[i].from
    <2>1. (CHOOSE j \in DOMAIN intervals : Within(t, j)) = i
      BY <1>2, <1>3
    <2>. QED
      BY <1>3, <2>1 DEF Boundary, InClosedPause
  <1>4. ~InClosedPause(t) => Boundary(t) = pausedAt
    BY DEF Boundary
  <1>5. ASSUME InPause(t) PROVE Boundary(t) \in Nat /\ 1 <= Boundary(t) /\ Boundary(t) <= t
    <2>1. CASE InClosedPause(t)
      <3>1. PICK i \in DOMAIN intervals : Within(t, i)
        BY <2>1 DEF InClosedPause
      <3>. QED
        BY <1>1, <1>3, <3>1 DEF Within
    <2>2. CASE ~InClosedPause(t)
      BY <1>1, <1>4, <1>5, <2>2 DEF InPause, InOpenPause
    <2>. QED
      BY <2>1, <2>2
  <1>. QED
    BY <1>3, <1>4, <1>5

BoundaryFound ==
    \A t \in Nat : \A i \in DOMAIN intervals : Within(t, i) => Boundary(t) = intervals[i].from

LEMMA NextBoundaryIs == BaseInv' => BoundaryFound'
  <1>1. BaseInv => BoundaryFound
    BY BoundaryIs DEF BoundaryFound
  <1>. QED
    BY <1>1, PTL

LEMMA BaseStart ==
    ASSUME BaseInv, Start
    PROVE  BaseInv'
  <1>1. ASSUME StartBegin PROVE BaseInv'
    <2>1. /\ log' = <<>> /\ taken' = 0 /\ buffer' = <<>> /\ saved' = None /\ now' = 1
          /\ held' \in SUBSET Input /\ intervals' = <<>> /\ pausedAt' = None
          /\ pressed' = {} /\ suppressed' = {} /\ fences' = {} /\ escs' = 0
          /\ call' = "start_hook" /\ onEmergency' = TRUE /\ stopConsumer' = FALSE
          /\ UNCHANGED <<recording, hooked, consumer>> /\ consumer' = Absent
      BY <1>1, Zenon DEF StartBegin
    <2>2. /\ log' \in Seq(Item) /\ buffer' \in Seq(Entry) /\ intervals' \in Seq(Interval)
          /\ DOMAIN intervals' = {} /\ taken' \in 0 .. Len(log') /\ escs' \in 0 .. 3 /\ now' \in Nat
      BY <2>1, EmptySeqs
    <2>3. recording \in BOOLEAN /\ hooked \in BOOLEAN /\ Absent \in At
      BY DEF BaseInv, TypeOK, At
    <2>4. TypeOK'
      BY <2>1, <2>2, <2>3 DEF TypeOK
    <2>5. TimelineInv' /\ ItemInv'
      BY <2>1, <2>2 DEF TimelineInv, ItemInv, Judging, Absent
    <2>. QED
      BY <2>4, <2>5 DEF BaseInv
  <1>2. ASSUME StartHook PROVE BaseInv'
    <2>1. TypeOK'
      BY <1>2 DEF BaseInv, TypeOK, StartHook, queue, pauses, filter
    <2>2. UNCHANGED <<consumer, log, taken, pauses, now>> /\ now >= 1 /\ call # "idle"
      BY <1>2 DEF StartHook, queue, BaseInv, TimelineInv
    <2>3. TimelineInv' /\ ItemInv'
      BY <2>2, TimelineKept, ItemKept, Types
    <2>. QED
      BY <2>1, <2>3 DEF BaseInv
  <1>3. ASSUME StartConsumer PROVE BaseInv'
    <2>1. Loop \in At
      BY DEF At
    <2>2. /\ consumer' \in {Loop, consumer} /\ hooked' \in BOOLEAN
          /\ recording' \in BOOLEAN /\ onEmergency' \in BOOLEAN
      BY <1>3 DEF StartConsumer, BaseInv, TypeOK
    <2>3. TypeOK'
      BY <1>3, <2>1, <2>2 DEF BaseInv, TypeOK, StartConsumer, queue, pauses, filter
    <2>4. UNCHANGED <<log, taken, pauses, now>> /\ now >= 1 /\ call # "idle"
      BY <1>3 DEF StartConsumer, queue, BaseInv, TimelineInv
    <2>5. TimelineInv'
      BY <2>4, TimelineKept, Types
    <2>6. ItemInv'
      BY <2>2, <2>4 DEF BaseInv, ItemInv, Judging, Raw, Loop
    <2>. QED
      BY <2>3, <2>5, <2>6 DEF BaseInv
  <1>. QED
    BY <1>1, <1>2, <1>3 DEF Start

LEMMA BaseStop ==
    ASSUME BaseInv, StopBegin \/ StopStep
    PROVE  BaseInv'
  <1>1. now >= 1 /\ now \in Nat
    BY Types DEF BaseInv, TimelineInv, StopBegin, StopStep, StopHook, ClosePause, StopSignal, StopJoin
  <1>2. ASSUME TypeOK', UNCHANGED <<consumer, log, taken, pauses, now>> PROVE BaseInv'
    BY <1>1, <1>2, TimelineKept, ItemKept DEF BaseInv
  <1>3. CASE StopBegin
    <2>1. TypeOK'
      BY <1>3 DEF BaseInv, TypeOK, StopBegin, queue, pauses, filter
    <2>. QED
      BY <1>2, <1>3, <2>1 DEF StopBegin, queue
  <1>4. CASE StopHook
    <2>1. hooked' \in BOOLEAN
      BY <1>4 DEF BaseInv, TypeOK, StopHook
    <2>2. TypeOK'
      BY <1>4, <2>1 DEF BaseInv, TypeOK, StopHook, queue, pauses, filter
    <2>. QED
      BY <1>2, <1>4, <2>2 DEF StopHook, queue
  <1>5. CASE ClosePause
    <2>1. CASE pausedAt = None
      <3>1. UNCHANGED <<pauses, now>>
        BY <1>5, <2>1 DEF ClosePause
      <3>2. TypeOK'
        BY <1>5, <3>1 DEF BaseInv, TypeOK, ClosePause, pauses, filter
      <3>. QED
        BY <1>2, <1>5, <3>1, <3>2 DEF ClosePause
    <2>2. CASE pausedAt # None
      <3>1. Close
        BY <1>5, <2>2 DEF ClosePause
      <3>2. TimelineInv' /\ now' \in Nat /\ intervals' \in Seq(Interval) /\ pausedAt' = None
        BY <2>2, <3>1, Closed
      <3>3. TypeOK'
        BY <1>5, <3>2 DEF BaseInv, TypeOK, ClosePause, filter
      <3>4. ItemInv'
        BY <1>5, ItemKept DEF ClosePause
      <3>. QED
        BY <3>2, <3>3, <3>4 DEF BaseInv
    <2>. QED
      BY <2>1, <2>2
  <1>6. CASE StopSignal
    <2>1. TypeOK'
      BY <1>6 DEF BaseInv, TypeOK, StopSignal, queue, pauses, filter
    <2>. QED
      BY <1>2, <1>6, <2>1 DEF StopSignal, queue
  <1>7. CASE StopJoin
    <2>1. consumer' \in {Absent, consumer} /\ recording' \in BOOLEAN /\ saved' \in {buffer, saved}
      BY <1>7 DEF BaseInv, TypeOK, StopJoin
    <2>2. Absent \in At
      BY DEF At
    <2>3. TypeOK'
      BY <1>7, <2>1, <2>2 DEF BaseInv, TypeOK, StopJoin, queue, pauses, filter
    <2>4. UNCHANGED <<log, taken, pauses, now>>
      BY <1>7 DEF StopJoin, queue
    <2>5. TimelineInv'
      BY <1>1, <2>4, TimelineKept
    <2>6. ItemInv'
      BY <2>1, <2>4 DEF BaseInv, ItemInv, Judging, Raw, Absent
    <2>. QED
      BY <2>3, <2>5, <2>6 DEF BaseInv
  <1>. QED
    BY <1>3, <1>4, <1>5, <1>6, <1>7 DEF StopStep

LEMMA BaseWindow ==
    ASSUME BaseInv, Window
    PROVE  BaseInv'
  <1>1. now >= 1 /\ now \in Nat /\ UNCHANGED session
    BY Types DEF BaseInv, TimelineInv, Window, PauseRecording, ResumeRecording, InjectTextInput,
       InjectColorTrigger, SuppressNextKeyRelease, InUse
  <1>2. CASE PauseRecording
    <2>1. pausedAt' = now /\ now' = now + 1 /\ UNCHANGED intervals
      BY <1>2 DEF PauseRecording
    <2>2. TypeOK'
      BY <1>1, <1>2, <2>1 DEF BaseInv, TypeOK, PauseRecording, session, filter
    <2>3. \A i \in DOMAIN intervals : /\ 1 <= intervals[i].from /\ intervals[i].from < intervals[i].to
                                   /\ intervals[i].to < now
                                   /\ intervals[i].from \in Nat /\ intervals[i].to \in Nat
      BY Types DEF BaseInv, TimelineInv
    <2>4. TimelineInv'
      BY <1>1, <2>1, <2>3 DEF BaseInv, TimelineInv
    <2>. QED
      BY <1>2, <2>2, <2>4, ItemKept DEF BaseInv, PauseRecording
  <1>3. CASE ResumeRecording
    <2>1. pausedAt # None /\ Close
      BY <1>3 DEF ResumeRecording
    <2>2. TimelineInv' /\ now' \in Nat /\ intervals' \in Seq(Interval) /\ pausedAt' = None
      BY <2>1, Closed
    <2>3. TypeOK'
      BY <1>3, <2>2 DEF BaseInv, TypeOK, ResumeRecording, session, filter
    <2>. QED
      BY <1>3, <2>2, <2>3, ItemKept DEF BaseInv, ResumeRecording
  <1>4. CASE InjectTextInput
    <2> DEFINE item == [kind |-> "text", input |-> None, time |-> Project(pausedAt)]
    <2>1. pausedAt \in Nat
      BY <1>4, Types DEF InjectTextInput
    <2>2. Project(pausedAt) \in Nat
      BY <2>1, ProjectNat
    <2>3. item \in Item /\ log' = Append(log, item)
      BY <1>4, <2>2 DEF Item, InjectTextInput
    <2>4. log' \in Seq(Item) /\ taken \in 0 .. Len(log') /\ ItemInv'
      BY <1>4, <2>3, Pushed DEF InjectTextInput
    <2>5. TypeOK'
      BY <1>4, <2>4 DEF BaseInv, TypeOK, InjectTextInput, session, pauses, filter
    <2>6. TimelineInv'
      BY <1>1, <1>4, TimelineKept DEF InjectTextInput
    <2>. QED
      BY <2>4, <2>5, <2>6 DEF BaseInv
  <1>5. CASE InjectColorTrigger
    <2> DEFINE e == [of |-> 0, time |-> Project(now)]
    <2>1. Project(now) \in Nat
      BY <1>1, ProjectNat
    <2>2. e \in Entry /\ buffer' = Append(buffer, e) /\ now' \in Nat /\ now' = now + 1
      BY <1>1, <1>5, <2>1 DEF Entry, InjectColorTrigger
    <2>3. buffer' \in Seq(Entry)
      BY <2>2, Buffered
    <2>4. TypeOK'
      BY <1>5, <2>2, <2>3 DEF BaseInv, TypeOK, InjectColorTrigger, session, pauses, filter
    <2>5. TimelineInv'
      BY <1>1, <1>5, <2>2, TimelineKept DEF InjectColorTrigger
    <2>. QED
      BY <1>5, <2>4, <2>5, ItemKept DEF BaseInv, InjectColorTrigger
  <1>6. CASE SuppressNextKeyRelease
    <2>1. fences' \subseteq Group
      BY <1>6 DEF BaseInv, TypeOK, SuppressNextKeyRelease
    <2>2. UNCHANGED <<session, consumer, queue, taken, buffer, pauses, filter, escs>>
      BY <1>6 DEF SuppressNextKeyRelease
    <2>3. TypeOK'
      BY <2>1, <2>2 DEF BaseInv, TypeOK, session, queue, pauses, filter
    <2>4. TimelineInv'
      BY <1>1, <2>2, TimelineKept DEF queue
    <2>5. ItemInv'
      BY <2>2, ItemKept DEF queue
    <2>. QED
      BY <2>3, <2>4, <2>5 DEF BaseInv
  <1>. QED
    BY <1>2, <1>3, <1>4, <1>5, <1>6 DEF Window

LEMMA BaseCapture ==
    ASSUME BaseInv, Capture
    PROVE  BaseInv'
  <1>1. PICK kind, in : /\ \/ kind = "move" /\ in = None
                           \/ kind \in {"down", "up"} /\ in \in Input
                        /\ Push(kind, in)
                        /\ held' \subseteq Input
    BY DEF Capture, BaseInv, TypeOK, Input
  <1> DEFINE item == [kind |-> kind, input |-> in, time |-> now]
  <1>2. now \in Nat /\ now' = now + 1 /\ log' = Append(log, item)
    BY <1>1, Types DEF Push
  <1>3. item \in Item
    BY <1>1, <1>2 DEF Item
  <1>4. log' \in Seq(Item) /\ taken \in 0 .. Len(log') /\ ItemInv'
    BY <1>2, <1>3, Pushed DEF Capture
  <1>5. UNCHANGED <<session, consumer, taken, buffer, pauses, filter, fences, escs>>
    BY DEF Capture
  <1>6. TypeOK'
    BY <1>1, <1>2, <1>4, <1>5 DEF BaseInv, TypeOK, session, pauses, filter
  <1>7. recording' \/ call' # "idle" => now' >= 1
    BY <1>2
  <1>8. TimelineInv'
    BY <1>2, <1>5, <1>7, TimelineKept
  <1>. QED
    BY <1>4, <1>6, <1>8 DEF BaseInv

(* What the consumer does touches neither the pauses nor the queue.        *)
LEMMA ConsumerFrame ==
    ASSUME Consumer
    PROVE  UNCHANGED <<session, queue, pauses>>
  BY DEF Consumer, Take, CallEmergency, Judge, Record, ConsumerEnd

LEMMA BaseConsumer ==
    ASSUME BaseInv, Consumer
    PROVE  BaseInv'
  <1>1. UNCHANGED <<session, queue, pauses>>
    BY ConsumerFrame
  <1>2. TimelineInv'
    BY <1>1, Types DEF BaseInv, TimelineInv, session, queue, pauses
  <1>3. Loop \in At /\ Loop.at = "loop"
    BY DEF At, Loop
  <1>4. ASSUME TypeOK', ItemInv' PROVE BaseInv'
    BY <1>2, <1>4 DEF BaseInv
  <1>5. CASE Take
    <2> DEFINE item == log[taken + 1]
    <2>1. /\ taken' = taken + 1 /\ taken' \in 0 .. Len(log) /\ taken' >= 1
          /\ item \in Item /\ item.time \in Nat /\ taken' \in Nat
          /\ UNCHANGED <<fences, filter>>
      BY <1>5, Types DEF Take
    <2>2. escs \in 0 .. 3
      BY DEF BaseInv, TypeOK
    <2>3. /\ escs' \in 0 .. 3 /\ consumer' \in At /\ buffer' \in Seq(Entry) /\ ItemInv'
      <3>1. CASE item.kind = "text" /\ buffer' = Append(buffer, [of |-> taken + 1, time |-> item.time])
                 /\ UNCHANGED <<consumer, escs>>
        <4>1. [of |-> taken + 1, time |-> item.time] \in Entry
          BY <2>1 DEF Entry
        <4>2. buffer' \in Seq(Entry)
          BY <3>1, <4>1, Buffered
        <4>3. consumer' = Loop
          BY <1>5, <3>1 DEF Take
        <4>. QED
          BY <1>3, <2>2, <3>1, <4>2, <4>3 DEF ItemInv, Judging
      <3>2. CASE escs' = 0 /\ consumer' \in {Loop, [at |-> "emergency"]} /\ UNCHANGED buffer
        BY <1>3, <3>2 DEF At, ItemInv, Judging, BaseInv, TypeOK
      <3>3. CASE /\ item.kind # "text" /\ UNCHANGED buffer
                 /\ consumer' = [at |-> "judge", boundary |-> IF InPause(item.time) THEN Boundary(item.time) ELSE None]
                 /\ escs' = IF ~stopConsumer /\ IsEscPress(item) /\ escs < 3 THEN escs + 1 ELSE escs
        <4> DEFINE boundary == IF InPause(item.time) THEN Boundary(item.time) ELSE None
        <4>1. boundary \in Nat \cup {None} /\ (boundary # None => boundary >= 1)
          BY <2>1, BoundaryIs
        <4>2. consumer' \in At /\ consumer'.boundary = boundary /\ consumer'.at = "judge"
          BY <3>3, <4>1 DEF At
        <4>3. UNCHANGED log
          BY <1>1 DEF queue
        <4>4. ItemInv'
          BY <2>1, <3>3, <4>1, <4>2, <4>3 DEF ItemInv, Judging, Raw
        <4>5. escs' \in 0 .. 3
          BY <2>2, <3>3
        <4>. QED
          BY <3>3, <4>2, <4>4, <4>5 DEF BaseInv, TypeOK
      <3>. QED
        BY <1>5, <3>1, <3>2, <3>3 DEF Take
    <2>4. TypeOK'
      BY <1>1, <2>1, <2>3 DEF BaseInv, TypeOK, session, queue, pauses, filter
    <2>. QED
      BY <1>4, <2>3, <2>4
  <1>6. CASE CallEmergency
    <2>1. consumer' \in {Loop, [at |-> "crashed"]} /\ UNCHANGED <<taken, buffer, filter, fences, escs>>
      BY <1>6 DEF CallEmergency
    <2>2. consumer' \in At /\ ItemInv'
      BY <1>3, <2>1 DEF At, ItemInv, Judging
    <2>3. TypeOK'
      BY <1>1, <2>1, <2>2 DEF BaseInv, TypeOK, session, queue, pauses, filter
    <2>. QED
      BY <1>4, <2>2, <2>3
  <1>7. CASE Judge
    <2>1. /\ consumer.at = "judge" /\ taken >= 1 /\ Raw \in Item /\ Raw.time \in Nat
          /\ Raw.kind # "text" /\ (consumer.boundary # None => consumer.boundary >= 1)
          /\ UNCHANGED <<taken, buffer, escs, log>>
      BY <1>1, <1>7, Types DEF Judge, BaseInv, ItemInv, Judging, Raw, queue
    <2>2. consumer.boundary \in Nat \cup {None}
      BY <2>1 DEF BaseInv, TypeOK, At, Absent, Loop
    <2>3. Raw.kind = "down" => Raw.input \in Input
      BY <2>1 DEF Item
    <2>4. /\ consumer' = Loop \/ \E stamp \in Nat : consumer' = [at |-> "record", stamp |-> stamp]
          /\ pressed' \subseteq Input /\ suppressed' \subseteq Input /\ fences' \subseteq Group
      BY <1>7, <2>1, <2>2, <2>3 DEF Judge, JudgePaused, JudgeRunning, Drop, Keep, filter, BaseInv, TypeOK
    <2>5. consumer' \in At /\ ItemInv'
      <3>1. CASE consumer' = Loop
        BY <1>3, <3>1 DEF ItemInv, Judging
      <3>2. CASE \E stamp \in Nat : consumer' = [at |-> "record", stamp |-> stamp]
        BY <2>1, <3>2 DEF At, ItemInv, Judging, Raw
      <3>. QED
        BY <2>4, <3>1, <3>2
    <2>6. TypeOK'
      BY <1>1, <2>1, <2>4, <2>5 DEF BaseInv, TypeOK, session, queue, pauses
    <2>. QED
      BY <1>4, <2>5, <2>6
  <1>8. CASE Record
    <2>1. /\ consumer.at = "record" /\ Raw \in Item /\ consumer' = Loop /\ taken \in Nat
          /\ UNCHANGED <<taken, suppressed, fences, escs>>
      BY <1>8, Types DEF Record, Drop, BaseInv, ItemInv, Judging, Raw
    <2>2. consumer.stamp \in Nat
      BY <2>1 DEF BaseInv, TypeOK, At, Absent, Loop
    <2>3. [of |-> taken, time |-> Project(consumer.stamp)] \in Entry
      BY <2>1, <2>2, ProjectNat DEF Entry
    <2>4. buffer' \in Seq(Entry)
      BY <1>8, <2>3, Buffered DEF Record, BaseInv, TypeOK
    <2>5. pressed' \subseteq Input
      BY <1>8, <2>1 DEF Record, Item, BaseInv, TypeOK
    <2>6. ItemInv'
      BY <1>3, <2>1 DEF ItemInv, Judging
    <2>7. TypeOK'
      BY <1>1, <1>3, <2>1, <2>4, <2>5 DEF BaseInv, TypeOK, session, queue, pauses
    <2>. QED
      BY <1>4, <2>6, <2>7
  <1>9. CASE ConsumerEnd
    <2>1. consumer' = [at |-> "ended"] /\ UNCHANGED <<taken, buffer, filter, fences, escs>>
      BY <1>9 DEF ConsumerEnd
    <2>2. consumer' \in At /\ ItemInv'
      BY <2>1 DEF At, ItemInv, Judging
    <2>3. TypeOK'
      BY <1>1, <2>1, <2>2 DEF BaseInv, TypeOK, session, queue, pauses, filter
    <2>. QED
      BY <1>4, <2>2, <2>3
  <1>. QED
    BY <1>5, <1>6, <1>7, <1>8, <1>9 DEF Consumer

LEMMA BaseStep == BaseInv /\ [Next]_vars => BaseInv'
  <1> SUFFICES ASSUME BaseInv, [Next]_vars PROVE BaseInv'
    OBVIOUS
  <1>1. ASSUME UNCHANGED vars PROVE BaseInv'
    BY <1>1 DEF BaseInv, TypeOK, TimelineInv, ItemInv, Judging, Raw, vars, session, queue, pauses, filter
  <1>. QED
    BY <1>1, BaseStart, BaseStop, BaseWindow, BaseCapture, BaseConsumer DEF Next

(* Type correctness: events of the buffer, readings of the clock and what   *)
(* the consumer thread of recorder.py carries between its locks.           *)
THEOREM Typing == Spec => []TypeOK
  <1>1. BaseInv => TypeOK
    BY DEF BaseInv
  <1>. QED
    BY <1>1, BaseInit, BaseStep, PTL DEF Spec

-----------------------------------------------------------------------------
(* Starts and stops.                                                       *)

(* The stop, from its first step to its last: a consumer lives as long as  *)
(* there is a recording; once it is told to stop nothing comes in any more. *)
StopInv ==
    /\ call \in {"start_hook", "start_consumer"} => ~recording /\ ~stopConsumer /\ saved = None
    /\ call \in {"stop_hook", "close_pause", "signal", "join"} => recording /\ ~onEmergency
    /\ call \in {"close_pause", "signal", "join"} => ~hooked
    /\ call = "join" => stopConsumer
    /\ stopConsumer => ~hooked /\ ~onEmergency
    /\ consumer # Absent <=> recording
    /\ consumer.at = "ended" => stopConsumer /\ taken = Len(log)
    /\ saved # None => stopConsumer /\ ~recording

LEMMA StopStarts == Init => StopInv
  BY DEF Init, StopInv, Absent

LEMMA ConsumerAt ==
    ASSUME BaseInv
    PROVE  /\ consumer.at = "absent" <=> consumer = Absent
           /\ consumer.at = "loop" <=> consumer = Loop
           /\ Absent.at = "absent" /\ Loop.at = "loop"
  BY DEF BaseInv, TypeOK, At, Absent, Loop

LEMMA StopSteps ==
    ASSUME BaseInv, StopInv, [Next]_vars
    PROVE  StopInv'
  <1>1. /\ recording \in BOOLEAN /\ stopConsumer \in BOOLEAN /\ hooked \in BOOLEAN /\ onEmergency \in BOOLEAN
        /\ consumer \in At /\ call \in {"idle", "start_hook", "start_consumer", "stop_hook", "close_pause",
                 "signal", "join"}
    BY DEF BaseInv, TypeOK
  <1>2. /\ consumer.at = "absent" <=> consumer = Absent
        /\ consumer.at = "loop" <=> consumer = Loop
        /\ Absent.at = "absent" /\ Loop.at = "loop" /\ Absent # Loop
    BY ConsumerAt
  <1>3. CASE StartBegin
    BY <1>1, <1>2, <1>3 DEF StartBegin, StopInv
  <1>4. CASE StartHook
    BY <1>1, <1>2, <1>4 DEF StartHook, StopInv, queue
  <1>5. CASE StartConsumer
    <2>1. /\ ~recording /\ ~stopConsumer /\ saved = None /\ call' = "idle"
          /\ UNCHANGED <<stopConsumer, saved, log, taken>>
      BY <1>5 DEF StartConsumer, StopInv, queue
    <2>2. CASE consumer' = Loop /\ recording' = TRUE
      BY <1>2, <2>1, <2>2 DEF StopInv
    <2>3. CASE UNCHANGED <<consumer, recording>>
      BY <2>1, <2>3 DEF StopInv
    <2>. QED
      BY <1>5, <2>2, <2>3 DEF StartConsumer
  <1>6. CASE StopBegin
    <2>1. /\ recording = TRUE /\ call' = "stop_hook" /\ onEmergency' = FALSE
          /\ UNCHANGED <<recording, hooked, stopConsumer, consumer, saved, log, taken>>
      BY <1>1, <1>6 DEF StopBegin, queue
    <2>. QED
      BY <1>1, <2>1 DEF StopInv
  <1>7. CASE StopHook
    <2>1. /\ recording = TRUE /\ onEmergency = FALSE /\ call' \in {"idle", "close_pause"}
          /\ call' = "close_pause" => hooked' = FALSE
          /\ hooked' \in {hooked, FALSE}
          /\ UNCHANGED <<recording, onEmergency, stopConsumer, consumer, saved, log, taken>>
      <3>1. recording = TRUE /\ onEmergency = FALSE
        BY <1>1, <1>7 DEF StopHook, StopInv
      <3>. QED
        BY <3>1, <1>7 DEF StopHook, queue
    <2>2. stopConsumer => hooked = FALSE
      BY <1>1 DEF StopInv
    <2>3. stopConsumer => hooked' = FALSE
      BY <2>1, <2>2
    <2>4. (call \in {"start_hook", "start_consumer"} => ~recording /\ ~stopConsumer /\ saved = None)'
      BY <2>1
    <2>5. (call \in {"stop_hook", "close_pause", "signal", "join"} => recording /\ ~onEmergency)'
      BY <2>1
    <2>6. (call \in {"close_pause", "signal", "join"} => ~hooked)'
      BY <2>1
    <2>. QED
      BY <2>1, <2>3, <2>4, <2>5, <2>6 DEF StopInv
  <1>8. CASE ClosePause
    <2>1. /\ call = "close_pause" /\ call' = "signal"
          /\ UNCHANGED <<recording, hooked, onEmergency, stopConsumer, consumer, saved, log, taken>>
      BY <1>8 DEF ClosePause
    <2>. QED
      BY <1>1, <2>1 DEF StopInv
  <1>9. CASE StopSignal
    <2>1. /\ call = "signal" /\ call' = "join" /\ stopConsumer' = TRUE
          /\ UNCHANGED <<recording, hooked, onEmergency, consumer, saved, log, taken>>
      BY <1>9 DEF StopSignal, queue
    <2>. QED
      BY <1>1, <2>1 DEF StopInv
  <1>10. CASE StopJoin
    <2>1. /\ call = "join" /\ call' = "idle" /\ UNCHANGED <<hooked, onEmergency, stopConsumer, log, taken>>
          /\ recording = TRUE /\ ~onEmergency /\ ~hooked
      BY <1>1, <1>10 DEF StopJoin, StopInv, queue
    <2>2. CASE consumer.at \in {"ended", "crashed"} /\ consumer' = Absent /\ recording' = FALSE
      <3>1. consumer'.at # "ended"
        BY <1>2, <2>2
      <3>2. saved' # None => stopConsumer'
        BY <2>1 DEF StopInv
      <3>. QED
        BY <2>1, <2>2, <3>1, <3>2 DEF StopInv
    <2>3. CASE UNCHANGED <<consumer, recording, saved>>
      BY <2>1, <2>3 DEF StopInv
    <2>. QED
      BY <1>10, <2>2, <2>3 DEF StopJoin
  <1>11. CASE Window
    <2>1. UNCHANGED <<session, consumer, taken>> /\ call = "idle" /\ onEmergency = TRUE
      BY <1>11 DEF Window, PauseRecording, ResumeRecording, InjectTextInput, InjectColorTrigger,
         SuppressNextKeyRelease, InUse
    <2>. QED
      BY <1>1, <2>1 DEF StopInv, session
  <1>12. CASE Capture
    BY <1>1, <1>12 DEF Capture, StopInv, session
  <1>13. CASE Consumer
    <2>1. UNCHANGED <<session, log>>
      BY <1>13, ConsumerFrame DEF queue
    <2>2. consumer # Absent /\ consumer.at # "ended" /\ consumer' # Absent
      BY <1>2, <1>13 DEF Consumer, Take, CallEmergency, Judge, JudgePaused, JudgeRunning, Record, ConsumerEnd,
         Drop, Keep, Loop, Absent
    <2>3. consumer'.at = "ended" => stopConsumer /\ taken' = Len(log)
      <3>1. CASE Take \/ CallEmergency \/ Judge \/ Record
        <4>1. consumer'.at \in {"loop", "emergency", "judge", "crashed", "record"}
          BY <1>2, <3>1 DEF Take, CallEmergency, Judge, JudgePaused, JudgeRunning, Record, Drop, Keep
        <4>. QED
          BY <4>1
      <3>2. CASE ConsumerEnd
        BY <3>2 DEF ConsumerEnd
      <3>. QED
        BY <1>13, <3>1, <3>2 DEF Consumer
    <2>. QED
      BY <1>1, <2>1, <2>2, <2>3 DEF StopInv, session
  <1>14. CASE UNCHANGED vars
    BY <1>14 DEF StopInv, vars, session, queue
  <1>. QED
    BY <1>3, <1>4, <1>5, <1>6, <1>7, <1>8, <1>9, <1>10, <1>11, <1>12, <1>13, <1>14 DEF Next, Start, StopStep

(* The consumer neither dies nor is its last item followed by another.     *)
CompleteInv ==
    /\ consumer.at \notin {"emergency", "crashed"}
    /\ saved # None => taken = Len(log)

LEMMA CompleteStep ==
    ASSUME NoAlarm, BaseInv, StopInv, CompleteInv, [Next]_vars
    PROVE  CompleteInv'
  <1>1. /\ recording \in BOOLEAN /\ stopConsumer \in BOOLEAN /\ hooked \in BOOLEAN /\ onEmergency \in BOOLEAN
        /\ consumer.at = "absent" <=> consumer = Absent
        /\ consumer.at = "loop" <=> consumer = Loop
        /\ Absent.at = "absent" /\ Loop.at = "loop" /\ Absent # Loop
    BY ConsumerAt DEF BaseInv, TypeOK
  <1>2. CASE StartBegin
    BY <1>1, <1>2 DEF StartBegin, CompleteInv
  <1>3. CASE StartHook \/ StartConsumer
    BY <1>1, <1>3 DEF StartHook, StartConsumer, CompleteInv, queue
  <1>4. CASE StopBegin \/ StopHook \/ StopSignal
    BY <1>4 DEF StopBegin, StopHook, StopSignal, CompleteInv, queue
  <1>5. CASE ClosePause
    BY <1>5 DEF ClosePause, CompleteInv
  <1>6. CASE StopJoin
    BY <1>1, <1>6 DEF StopJoin, CompleteInv, StopInv, queue
  <1>7. CASE Window
    <2>1. UNCHANGED <<session, consumer, taken>> /\ onEmergency = TRUE
      BY <1>7 DEF Window, PauseRecording, ResumeRecording, InjectTextInput, InjectColorTrigger,
         SuppressNextKeyRelease, InUse
    <2>. QED
      BY <1>1, <2>1 DEF CompleteInv, StopInv, session
  <1>8. CASE Capture
    BY <1>1, <1>8 DEF Capture, CompleteInv, StopInv, session
  <1>9. CASE Take
    <2>1. saved = None /\ UNCHANGED saved
      BY <1>1, <1>9 DEF Take, StopInv, session
    <2>2. log[taken + 1] \in Item
      BY <1>9, Types DEF Take
    <2>3. ~IsEscPress(log[taken + 1])
      BY <2>2 DEF IsEscPress, Item, NoAlarm
    <2>4. consumer'.at \in {"loop", "judge"}
      BY <1>1, <1>9, <2>3 DEF Take
    <2>. QED
      BY <2>1, <2>4 DEF CompleteInv
  <1>10. CASE CallEmergency \/ Judge \/ Record \/ ConsumerEnd
    <2>1. UNCHANGED <<saved, log, taken>>
      BY <1>10 DEF CallEmergency, Judge, Record, ConsumerEnd, session, queue
    <2>2. consumer'.at \in {"loop", "record", "ended"}
      BY <1>1, <1>10 DEF CallEmergency, Judge, JudgePaused, JudgeRunning, Record, ConsumerEnd, Drop, Keep, CompleteInv
    <2>. QED
      BY <2>1, <2>2 DEF CompleteInv
  <1>11. CASE UNCHANGED vars
    BY <1>11 DEF CompleteInv, vars, session, queue
  <1>. QED
    BY <1>2, <1>3, <1>4, <1>5, <1>6, <1>7, <1>8, <1>9, <1>10, <1>11 DEF Next, Start, StopStep, Consumer

(* What stop_recording hands over has everything that was captured, also   *)
(* when a join timed out and the stop was asked for again.                 *)
THEOREM HandedOverWhole == NoAlarm => (Spec => []NothingLost)
  <1> SUFFICES ASSUME NoAlarm PROVE Spec => []NothingLost
    OBVIOUS
  <1> DEFINE Inv == BaseInv /\ StopInv /\ CompleteInv
  <1>1. Init => Inv
    BY BaseInit, StopStarts DEF Init, CompleteInv, Absent
  <1>2. Inv /\ [Next]_vars => Inv'
    BY BaseStep, StopSteps, CompleteStep
  <1>3. Inv => NothingLost
    BY DEF CompleteInv, NothingLost
  <1>. QED
    BY <1>1, <1>2, <1>3, PTL DEF Spec

LeakInv == hooked => recording \/ call = "start_consumer"

LEMMA LeakStep ==
    ASSUME HookComesOff, BaseInv, StopInv, LeakInv, [Next]_vars
    PROVE  LeakInv'
  <1>1. CASE StartBegin
    BY <1>1 DEF StartBegin, LeakInv
  <1>2. CASE StartHook
    BY <1>2 DEF StartHook, LeakInv, StopInv
  <1>3. CASE StartConsumer
    BY <1>3 DEF StartConsumer, LeakInv, HookComesOff
  <1>4. CASE StopBegin \/ StopHook \/ ClosePause \/ StopSignal
    BY <1>4 DEF StopBegin, StopHook, ClosePause, StopSignal, LeakInv, StopInv
  <1>5. CASE StopJoin
    BY <1>5 DEF StopJoin, LeakInv, StopInv
  <1>6. CASE Window \/ Capture \/ Consumer \/ UNCHANGED vars
    <2>1. UNCHANGED session
      BY <1>6, ConsumerFrame DEF Window, PauseRecording, ResumeRecording, InjectTextInput, InjectColorTrigger,
         SuppressNextKeyRelease, Capture, vars
    <2>. QED
      BY <2>1 DEF LeakInv, session
  <1>. QED
    BY <1>1, <1>2, <1>3, <1>4, <1>5, <1>6 DEF Next, Start, StopStep

(* A hook or a consumer that runs while no call is made belongs to a       *)
(* recording, after any failures of starts and stops but one: a hook that  *)
(* cannot be removed after the consumer could not be started.              *)
THEOREM NothingRunsOn == HookComesOff => (Spec => []NothingLeaks)
  <1> SUFFICES ASSUME HookComesOff PROVE Spec => []NothingLeaks
    OBVIOUS
  <1> DEFINE Inv == BaseInv /\ StopInv /\ LeakInv
  <1>1. Init => Inv
    BY BaseInit, StopStarts DEF Init, LeakInv
  <1>2. Inv /\ [Next]_vars => Inv'
    BY BaseStep, StopSteps, LeakStep
  <1>3. Inv => NothingLeaks
    BY DEF StopInv, LeakInv, NothingLeaks
  <1>. QED
    BY <1>1, <1>2, <1>3, PTL DEF Spec

-----------------------------------------------------------------------------
(* Pauses begin and end after everything that was captured: what a reading  *)
(* of the past is to a recording does not change any more.                 *)

(* Where a reading inside a pause is moved to.                             *)
Shifted(t) == IF InPause(t) THEN Boundary(t) - 1 ELSE t

PausesMove ==
    \/ UNCHANGED pauses
    \/ pausedAt = None /\ pausedAt' = now /\ UNCHANGED intervals
    \/ pausedAt # None /\ Close

(* The pauses, as arithmetic wants them. *)
LEMMA Pauses ==
    ASSUME BaseInv
    PROVE  /\ \A i \in DOMAIN intervals :
                /\ i \in Nat /\ intervals[i].from \in Nat /\ intervals[i].to \in Nat
                /\ 1 <= intervals[i].from /\ intervals[i].from < intervals[i].to /\ intervals[i].to < now
           /\ \A i, j \in DOMAIN intervals : i < j => intervals[i].to < intervals[j].from
           /\ pausedAt # None => /\ pausedAt \in Nat /\ 1 <= pausedAt /\ pausedAt < now
                                 /\ \A i \in DOMAIN intervals : intervals[i].to < pausedAt
           /\ now \in Nat
  BY Types DEF BaseInv, TimelineInv

LEMMA ClosedPauses ==
    ASSUME BaseInv, pausedAt # None, Close, NEW t \in Nat
    PROVE  InClosedPause(t)' <=> InClosedPause(t) \/ (pausedAt <= t /\ t < now)
  <1>1. PICK n \in Nat :
            /\ DOMAIN intervals = 1 .. n /\ DOMAIN intervals' = 1 .. n + 1
            /\ \A i \in 1 .. n : intervals'[i] = intervals[i]
            /\ intervals'[n + 1] = [from |-> pausedAt, to |-> now]
    BY Closed
  <1>2. \A i \in 1 .. n : Within(t, i)' <=> Within(t, i)
    BY <1>1 DEF Within
  <1>3. Within(t, n + 1)' <=> pausedAt <= t /\ t < now
    BY <1>1 DEF Within
  <1>4. 1 .. n + 1 = (1 .. n) \cup {n + 1}
    OBVIOUS
  <1>5. (\E i \in 1 .. n + 1 : Within(t, i)') <=> (\E i \in 1 .. n : Within(t, i)') \/ Within(t, n + 1)'
    BY <1>4
  <1>6. InClosedPause(t)' <=> \E i \in 1 .. n + 1 : Within(t, i)'
    BY <1>1 DEF InClosedPause
  <1>7. InClosedPause(t) <=> \E i \in 1 .. n : Within(t, i)
    BY <1>1 DEF InClosedPause
  <1>8. (\E i \in 1 .. n : Within(t, i)') <=> \E i \in 1 .. n : Within(t, i)
    BY <1>2
  <1>. QED
    BY <1>3, <1>5, <1>6, <1>7, <1>8, Zenon

LEMMA ShiftedType ==
    ASSUME BaseInv, NEW t \in Nat
    PROVE  Shifted(t) \in Nat /\ Shifted(t) <= t /\ ~InPause(Shifted(t))
  <1>1. CASE ~InPause(t)
    BY <1>1 DEF Shifted
  <1>2. CASE InPause(t)
    <2> DEFINE b == Boundary(t)
    <2>1. b \in Nat /\ 1 <= b /\ b <= t /\ Shifted(t) = b - 1
      BY <1>2, BoundaryIs DEF Shifted
    <2>2. CASE InClosedPause(t)
      <3>1. PICK i \in DOMAIN intervals : Within(t, i)
        BY <2>2 DEF InClosedPause
      <3>2. b = intervals[i].from
        BY <3>1, BoundaryIs
      <3> HIDE DEF b
      <3>3. ~InOpenPause(b - 1)
        BY <2>1, <3>2, Pauses DEF InOpenPause
      <3>4. ASSUME NEW j \in DOMAIN intervals, Within(b - 1, j) PROVE FALSE
        <4>1. intervals[j].from <= b - 1 /\ b - 1 < intervals[j].to
          BY <3>4 DEF Within
        <4>2. i \in Nat /\ j \in Nat
          BY Pauses
        <4>3. CASE j < i
          BY <2>1, <3>2, <4>1, <4>3, Pauses
        <4>4. CASE i < j
          BY <2>1, <3>2, <4>1, <4>4, Pauses
        <4>5. CASE i = j
          BY <2>1, <3>2, <4>1, <4>5
        <4>. QED
          BY <4>2, <4>3, <4>4, <4>5
      <3>. QED
        BY <2>1, <3>3, <3>4 DEF InPause, InClosedPause
    <2>3. CASE ~InClosedPause(t)
      <3>1. b = pausedAt /\ pausedAt # None
        BY <1>2, <2>3, BoundaryIs DEF InPause, InOpenPause
      <3> HIDE DEF b
      <3>2. ~InOpenPause(b - 1)
        BY <2>1, <3>1 DEF InOpenPause
      <3>3. ASSUME NEW j \in DOMAIN intervals, Within(b - 1, j) PROVE FALSE
        BY <2>1, <3>1, <3>3, Pauses DEF Within
      <3>. QED
        BY <2>1, <3>2, <3>3 DEF InPause, InClosedPause
    <2>. QED
      BY <2>2, <2>3
  <1>. QED
    BY <1>1, <1>2

(* Two readings keep their order, also when they are moved out of a pause. *)
LEMMA ShiftedInOrder ==
    ASSUME BaseInv, NEW s \in Nat, NEW t \in Nat, s <= t
    PROVE  Shifted(s) <= Shifted(t)
  <1>1. Shifted(s) \in Nat /\ Shifted(s) <= s /\ Shifted(t) \in Nat
    BY ShiftedType
  <1>2. CASE ~InPause(t)
    BY <1>1, <1>2 DEF Shifted
  <1>3. CASE InPause(t)
    <2>1. Boundary(t) \in Nat /\ Boundary(t) <= t /\ Shifted(t) = Boundary(t) - 1
      BY <1>3, BoundaryIs DEF Shifted
    <2>2. CASE s < Boundary(t)
      BY <1>1, <2>1, <2>2
    <2>3. CASE s >= Boundary(t)
      <3>1. InPause(s) /\ Boundary(s) = Boundary(t)
        <4>1. CASE InClosedPause(t)
          <5>1. PICK i \in DOMAIN intervals : Within(t, i)
            BY <4>1 DEF InClosedPause
          <5>2. Boundary(t) = intervals[i].from
            BY <5>1, BoundaryIs
          <5>3. intervals[i].to \in Nat
            BY Pauses
          <5>4. Within(s, i)
            BY <2>3, <5>1, <5>2, <5>3 DEF Within
          <5>. QED
            BY <5>2, <5>4, BoundaryIs DEF InPause, InClosedPause
        <4>2. CASE ~InClosedPause(t)
          <5>1. Boundary(t) = pausedAt /\ pausedAt # None
            BY <1>3, <4>2, BoundaryIs DEF InPause, InOpenPause
          <5>2. ~InClosedPause(s)
            BY <2>1, <2>3, <5>1, Pauses DEF InClosedPause, Within
          <5>. QED
            BY <2>3, <5>1, <5>2, BoundaryIs DEF InPause, InOpenPause
        <4>. QED
          BY <4>1, <4>2
      <3>. QED
        BY <1>1, <2>1, <3>1 DEF Shifted
    <2>. QED
      BY <2>1, <2>2, <2>3
  <1>. QED
    BY <1>2, <1>3

LEMMA ProjectInOrder ==
    ASSUME NEW s \in Nat, NEW t \in Nat, s <= t
    PROVE  Project(s) <= Project(t)
  <1> DEFINE S == {r \in 0 .. s - 1 : ~InClosedPause(r)}
             T == {r \in 0 .. t - 1 : ~InClosedPause(r)}
  <1>1. S \in SUBSET T
    OBVIOUS
  <1>2. t \in Int
    OBVIOUS
  <1>3. IsFiniteSet(T)
    BY <1>2, ProjectType, Zenon
  <1>4. Cardinality(S) <= Cardinality(T)
    BY <1>1, <1>3, FS_Subset, Zenon
  <1>. QED
    BY <1>4 DEF Project

(* A reading of the past: its pause, the boundary of it and the time it    *)
(* projects to stay what they are.                                         *)
LEMMA PastIsSettled ==
    ASSUME BaseInv, BaseInv', PausesMove, NEW t \in Nat, t < now
    PROVE  /\ InPause(t)' <=> InPause(t)
           /\ InPause(t) => Boundary(t)' = Boundary(t)
           /\ Shifted(t)' = Shifted(t)
           /\ Project(Shifted(t))' = Project(Shifted(t))
  <1> DEFINE s == Shifted(t)
  <1>1. s \in Nat /\ now \in Nat
    BY ShiftedType, Pauses
  <1>2. ASSUME InPause(t)' <=> InPause(t), InPause(t) => Boundary(t)' = Boundary(t),
               \A r \in 0 .. s - 1 : InClosedPause(r)' <=> InClosedPause(r)
        PROVE  /\ Shifted(t)' = Shifted(t)
               /\ Project(Shifted(t))' = Project(Shifted(t))
    <2>1. Shifted(t)' = s
      BY <1>2 DEF Shifted
    <2>2. Project(Shifted(t))' = Cardinality({r \in 0 .. s - 1 : ~InClosedPause(r)'})
      BY <2>1 DEF Project
    <2> HIDE DEF s
    <2>3. {r \in 0 .. s - 1 : ~InClosedPause(r)'} = {r \in 0 .. s - 1 : ~InClosedPause(r)}
      BY <1>2
    <2>4. Project(s) = Cardinality({r \in 0 .. s - 1 : ~InClosedPause(r)})
      BY DEF Project
    <2>. QED
      BY <2>1, <2>2, <2>3, <2>4 DEF s
  <1>3. CASE UNCHANGED pauses
    BY <1>3 DEF pauses, InPause, InClosedPause, InOpenPause, Within, Boundary, Shifted, Project
  <1>4. CASE pausedAt = None /\ pausedAt' = now /\ UNCHANGED intervals
    <2>1. ~InOpenPause(t) /\ ~InOpenPause(t)'
      BY <1>1, <1>4 DEF InOpenPause
    <2>2. \A r : InClosedPause(r)' <=> InClosedPause(r)
      BY <1>4 DEF InClosedPause, Within
    <2>3. InPause(t)' <=> InPause(t)
      BY <2>1, <2>2 DEF InPause
    <2>4. InPause(t) => Boundary(t)' = Boundary(t)
      BY <1>4, <2>1, <2>2 DEF InPause, Boundary, Within
    <2>. QED
      BY <1>2, <2>2, <2>3, <2>4
  <1>5. CASE pausedAt # None /\ Close
    <2>1. /\ pausedAt \in Nat /\ pausedAt' = None
          /\ \A r \in Nat : InClosedPause(r)' <=> InClosedPause(r) \/ (pausedAt <= r /\ r < now)
      <3>1. \A r \in Nat : InClosedPause(r)' <=> InClosedPause(r) \/ (pausedAt <= r /\ r < now)
        BY <1>5, ClosedPauses, Zenon
      <3>. QED
        BY <1>5, <3>1, Pauses DEF Close
    <2>2. PICK n \in Nat : /\ DOMAIN intervals = 1 .. n /\ DOMAIN intervals' = 1 .. n + 1
                           /\ \A i \in DOMAIN intervals : intervals'[i] = intervals[i]
                           /\ intervals'[n + 1] = [from |-> pausedAt, to |-> now]
      BY <1>5, Closed
    <2>3. InPause(t)' <=> InPause(t)
      BY <1>5, <2>1 DEF InPause, InOpenPause
    <2>4. ASSUME InPause(t) PROVE Boundary(t)' = Boundary(t) /\ s < pausedAt
      <3>1. \A i \in DOMAIN intervals' : Within(t, i)' => Boundary(t)' = intervals'[i].from
        BY NextBoundaryIs DEF BoundaryFound
      <3>2. CASE InClosedPause(t)
        <4>1. PICK i \in DOMAIN intervals : Within(t, i)
          BY <3>2 DEF InClosedPause
        <4>2. Boundary(t) = intervals[i].from
          BY <4>1, BoundaryIs
        <4>3. i \in DOMAIN intervals' /\ intervals'[i] = intervals[i] /\ Within(t, i)'
          BY <2>2, <4>1 DEF Within
        <4>4. intervals[i].from < pausedAt /\ intervals[i].from \in Nat
          BY <1>5, <2>1, Pauses
        <4>. QED
          BY <2>1, <2>4, <3>1, <4>2, <4>3, <4>4 DEF Shifted
      <3>3. CASE ~InClosedPause(t)
        <4>1. Boundary(t) = pausedAt /\ pausedAt <= t
          BY <2>4, <3>3, BoundaryIs DEF InPause, InOpenPause
        <4>2. n + 1 \in DOMAIN intervals' /\ Within(t, n + 1)'
          BY <2>1, <2>2, <4>1 DEF Within
        <4>3. Boundary(t)' = pausedAt
          BY <2>2, <3>1, <4>2
        <4>. QED
          BY <2>1, <2>4, <4>1, <4>3 DEF Shifted
      <3>. QED
        BY <3>2, <3>3
    <2>5. s <= pausedAt
      <3>1. CASE InPause(t)
        BY <1>1, <2>1, <2>4, <3>1
      <3>2. CASE ~InPause(t)
        BY <1>5, <2>1, <3>2 DEF Shifted, InPause, InOpenPause
      <3>. QED
        BY <3>1, <3>2
    <2> HIDE DEF s
    <2>6. \A r \in 0 .. s - 1 : r \in Nat /\ r < pausedAt
      BY <1>1, <2>1, <2>5
    <2>7. \A r \in 0 .. s - 1 : InClosedPause(r)' <=> InClosedPause(r)
      BY <2>1, <2>6
    <2>. QED
      BY <1>2, <2>3, <2>4, <2>7
  <1>. QED
    BY <1>3, <1>4, <1>5 DEF PausesMove

(* Every step but the first of a recording adds to the queue at most.      *)
Adds ==
    \/ UNCHANGED log /\ now' \in Nat /\ now' >= now
    \/ \E item \in Item :
         /\ log' = Append(log, item) /\ now' \in Nat /\ now' >= now
         /\ item.kind = "text" => "text" \in May
         /\ item.kind # "text" => item.time = now /\ now' > now

LEMMA StepMoves ==
    ASSUME BaseInv, [Next]_vars
    PROVE  StartBegin \/ (PausesMove /\ Adds)
  <1>1. now \in Nat /\ now + 1 \in Nat /\ now + 1 > now
    BY Types
  <1>2. ASSUME UNCHANGED <<log, now>> PROVE Adds
    BY <1>1, <1>2 DEF Adds
  <1>3. ASSUME pausedAt # None, Close, UNCHANGED log PROVE PausesMove /\ Adds
    BY <1>1, <1>3 DEF PausesMove, Adds, Close
  <1>4. CASE StartHook \/ StartConsumer \/ StopBegin \/ StopHook \/ StopSignal \/ StopJoin
             \/ SuppressNextKeyRelease \/ Consumer \/ UNCHANGED vars
    <2>1. UNCHANGED <<pauses, queue>>
      BY <1>4, ConsumerFrame DEF StartHook, StartConsumer, StopBegin, StopHook, StopSignal, StopJoin,
         SuppressNextKeyRelease, vars
    <2>. QED
      BY <1>2, <2>1 DEF PausesMove, queue
  <1>5. CASE ClosePause
    <2>1. CASE pausedAt # None
      BY <1>3, <1>5, <2>1 DEF ClosePause
    <2>2. CASE pausedAt = None
      BY <1>2, <1>5, <2>2 DEF ClosePause, PausesMove
    <2>. QED
      BY <2>1, <2>2
  <1>6. CASE PauseRecording
    BY <1>1, <1>6 DEF PauseRecording, PausesMove, Adds
  <1>7. CASE ResumeRecording
    BY <1>3, <1>7 DEF ResumeRecording
  <1>8. CASE InjectTextInput
    <2> DEFINE item == [kind |-> "text", input |-> None, time |-> Project(pausedAt)]
    <2>1. Project(pausedAt) \in Nat
      BY <1>8, Types, ProjectNat DEF InjectTextInput
    <2>2. item \in Item
      BY <2>1 DEF Item
    <2>3. item.kind = "text" /\ log' = Append(log, item) /\ UNCHANGED <<now, pauses>> /\ "text" \in May
      BY <1>8 DEF InjectTextInput
    <2>. QED
      BY <1>1, <2>2, <2>3 DEF PausesMove, Adds
  <1>9. CASE InjectColorTrigger
    BY <1>1, <1>9 DEF InjectColorTrigger, PausesMove, Adds
  <1>10. CASE Capture
    <2>1. PICK kind, in : /\ \/ kind = "move" /\ in = None
                             \/ kind \in {"down", "up"} /\ in \in Input
                          /\ Push(kind, in)
      BY <1>10 DEF Capture, BaseInv, TypeOK, Input
    <2> DEFINE item == [kind |-> kind, input |-> in, time |-> now]
    <2>2. item \in Item
      BY <1>1, <2>1 DEF Item
    <2>3. log' = Append(log, item) /\ now' = now + 1 /\ item.time = now /\ item.kind # "text"
      BY <2>1 DEF Push
    <2> HIDE DEF item
    <2>4. Adds
      BY <1>1, <2>2, <2>3 DEF Adds
    <2>. QED
      BY <1>10, <2>4 DEF Capture, PausesMove
  <1>. QED
    BY <1>4, <1>5, <1>6, <1>7, <1>8, <1>9, <1>10 DEF Next, Start, StopStep, Window

LEMMA Added ==
    ASSUME BaseInv, Adds
    PROVE  /\ \A n \in DOMAIN log : n \in DOMAIN log' /\ log'[n] = log[n]
           /\ \A n \in DOMAIN log' \ DOMAIN log :
                /\ \A m \in DOMAIN log : m < n
                /\ \A m \in DOMAIN log' : m <= n
                /\ log'[n].kind = "text" => "text" \in May
                /\ log'[n].kind # "text" => log'[n].time = now /\ now' > now
           /\ now' \in Nat /\ now' >= now
  <1>1. CASE UNCHANGED log /\ now' \in Nat /\ now' >= now
    BY <1>1
  <1>2. CASE \E item \in Item :
                /\ log' = Append(log, item) /\ now' \in Nat /\ now' >= now
                /\ item.kind = "text" => "text" \in May
                /\ item.kind # "text" => item.time = now /\ now' > now
    <2>1. PICK item \in Item :
                /\ log' = Append(log, item) /\ now' \in Nat /\ now' >= now
                /\ item.kind = "text" => "text" \in May
                /\ item.kind # "text" => item.time = now /\ now' > now
      BY <1>2
    <2>2. /\ \A n \in DOMAIN log : n \in DOMAIN log' /\ log'[n] = log[n]
          /\ log'[Len(log) + 1] = item
          /\ DOMAIN log = 1 .. Len(log) /\ DOMAIN log' = 1 .. Len(log) + 1
      BY <2>1, Pushed
    <2>3. Len(log) \in Nat
      BY Types
    <2>4. \A n \in DOMAIN log' \ DOMAIN log : n = Len(log) + 1
      BY <2>2, <2>3
    <2>5. \A n \in DOMAIN log' \ DOMAIN log :
             (\A m \in DOMAIN log : m < n) /\ (\A m \in DOMAIN log' : m <= n)
      BY <2>2, <2>3, <2>4
    <2>. QED
      BY <2>1, <2>2, <2>4, <2>5
  <1>. QED
    BY <1>1, <1>2 DEF Adds

(* What was captured bears the readings of the clock, in order.            *)
LogInv ==
    /\ \A n \in DOMAIN log : log[n].kind # "text" => log[n].time < now
    /\ \A m, n \in DOMAIN log :
         m < n /\ log[m].kind # "text" /\ log[n].kind # "text" => log[m].time < log[n].time

LEMMA LogStep ==
    ASSUME BaseInv, LogInv, [Next]_vars
    PROVE  LogInv'
  <1>1. CASE StartBegin
    <2>1. DOMAIN log' = {}
      BY <1>1 DEF StartBegin
    <2>. QED
      BY <2>1 DEF LogInv
  <1>2. CASE Adds
    <2> DEFINE old == DOMAIN log
    <2>1. /\ now \in Nat /\ now' \in Nat /\ now' >= now
          /\ \A n \in old : n \in Nat /\ log[n].time \in Nat /\ log'[n] = log[n]
          /\ \A n \in old : log[n].kind # "text" => log[n].time < now
          /\ \A n \in DOMAIN log' \ old :
                log'[n].kind # "text" => log'[n].time = now /\ now' > now
      BY <1>2, Added, Types DEF LogInv
    <2>2. \A n \in DOMAIN log' \ old : \A m \in DOMAIN log' : m \in Nat /\ n \in Nat /\ m <= n
      <3>1. BaseInv'
        BY BaseStep
      <3>2. \A n \in DOMAIN log' : n \in Nat
        BY <3>1 DEF BaseInv, TypeOK
      <3>. QED
        BY <1>2, <3>2, Added
    <2>3. ASSUME NEW n \in DOMAIN log', log'[n].kind # "text" PROVE log'[n].time < now'
      <3>1. CASE n \in old
        BY <2>1, <2>3, <3>1
      <3>2. CASE n \notin old
        BY <2>1, <2>3, <3>2
      <3>. QED
        BY <3>1, <3>2
    <2>4. ASSUME NEW m \in DOMAIN log', NEW n \in DOMAIN log', m < n,
                 log'[m].kind # "text", log'[n].kind # "text"
          PROVE  log'[m].time < log'[n].time
      <3>1. m \in old
        BY <2>2, <2>4
      <3>2. CASE n \in old
        BY <2>1, <2>4, <3>1, <3>2 DEF LogInv
      <3>3. CASE n \notin old
        BY <2>1, <2>4, <3>1, <3>3
      <3>. QED
        BY <3>2, <3>3
    <2>. QED
      BY <2>3, <2>4 DEF LogInv
  <1>. QED
    BY <1>1, <1>2, StepMoves

LEMMA TimeOfItem ==
    ASSUME NEW n \in DOMAIN log, log[n].kind # "text"
    PROVE  TimeOf(n) = Project(Shifted(log[n].time))
  BY DEF TimeOf, PausedItem, Shifted

(* Items keep the order of their times. *)
LEMMA TimesInOrder ==
    ASSUME BaseInv, LogInv, NEW m \in DOMAIN log, NEW n \in DOMAIN log, m < n,
           log[m].kind # "text", log[n].kind # "text"
    PROVE  TimeOf(m) <= TimeOf(n)
  <1> DEFINE s == Shifted(log[m].time)
             t == Shifted(log[n].time)
  <1>1. log[m].time \in Nat /\ log[n].time \in Nat /\ log[m].time < log[n].time
    BY Types DEF LogInv
  <1>2. s \in Nat /\ t \in Nat
    BY <1>1, ShiftedType
  <1>3. s <= t
    BY <1>1, ShiftedInOrder
  <1>4. Project(s) <= Project(t)
    BY <1>2, <1>3, ProjectInOrder
  <1>. QED
    BY <1>4, TimeOfItem

(* What an item is to the recording does not change after it was captured. *)
LEMMA ItemSettled ==
    ASSUME BaseInv, BaseInv', LogInv, PausesMove, Adds, NEW n \in DOMAIN log
    PROVE  /\ n \in DOMAIN log' /\ log'[n] = log[n]
           /\ log[n].kind # "text" => (PausedItem(n)' <=> PausedItem(n))
           /\ TimeOf(n)' = TimeOf(n)
           /\ GestureStarts(n)' = GestureStarts(n)
           /\ Wanted(n)' <=> Wanted(n)
  <1>1. /\ \A m \in DOMAIN log : m \in DOMAIN log' /\ log'[m] = log[m] /\ log[m].time \in Nat
        /\ DOMAIN log = 1 .. Len(log) /\ Len(log) \in Nat
    BY Added, Types
  <1>2. \A m \in 1 .. n : m \in DOMAIN log /\ m \in Nat /\ 1 .. m - 1 \subseteq DOMAIN log
    BY <1>1
  <1>3. n \in 1 .. n /\ 1 .. n - 1 \subseteq 1 .. n
    BY <1>1
  <1>4. ASSUME NEW m \in DOMAIN log, log[m].kind # "text"
        PROVE  (PausedItem(m)' <=> PausedItem(m)) /\ TimeOf(m)' = TimeOf(m)
    <2> DEFINE t == log[m].time
    <2>1. t \in Nat /\ t < now /\ log'[m] = log[m]
      BY <1>1, <1>4 DEF LogInv
    <2>2. PICK r \in Nat : r = t
      BY <2>1
    <2>3. /\ InPause(r)' <=> InPause(r)
          /\ InPause(r) => Boundary(r)' = Boundary(r)
          /\ Project(Shifted(r))' = Project(Shifted(r))
      BY <2>1, <2>2, PastIsSettled
    <2>4. PausedItem(m)' <=> PausedItem(m)
      BY <2>1, <2>2, <2>3 DEF PausedItem
    <2>5. TimeOf(m) = Project(Shifted(r)) /\ TimeOf(m)' = Project(Shifted(r))'
      BY <1>4, <2>1, <2>2 DEF TimeOf, PausedItem, Shifted
    <2>. QED
      BY <2>3, <2>4, <2>5
  <1>5. TimeOf(n)' = TimeOf(n)
    <2>1. CASE log[n].kind = "text"
      BY <1>1, <2>1 DEF TimeOf
    <2>. QED
      BY <1>4, <2>1
  <1>6. \A m \in 1 .. n : Same(m)' = Same(m) /\ Same(m) \subseteq DOMAIN log
    BY <1>1, <1>2 DEF Same
  <1>7. GestureStarts(n)' = GestureStarts(n)
    <2>1. Same(n) \cup {n} \subseteq 1 .. n
      BY <1>3 DEF Same
    <2>2. \A m \in Same(n) \cup {n} :
             /\ (\A k \in Same(m) : \/ log[k].kind = "up"
                                    \/ \E u \in Same(m) : k < u /\ log[u].kind = "up")'
                <=> \A k \in Same(m) : \/ log[k].kind = "up"
                                       \/ \E u \in Same(m) : k < u /\ log[u].kind = "up"
      BY <1>1, <1>6, <2>1
    <2>3. \A m \in Same(n) \cup {n} :
             /\ log'[m].kind = "down" <=> log[m].kind = "down"
             /\ (\A k \in Same(n) : log[k].kind = "up" => k < m)'
                <=> \A k \in Same(n) : log[k].kind = "up" => k < m
      BY <1>1, <1>2, <1>3, <1>6, <2>1
    <2>4. Same(n)' = Same(n)
      BY <1>3, <1>6
    <2>. QED
      BY <2>2, <2>3, <2>4 DEF GestureStarts
  <1>8. \A s \in GestureStarts(n) : s \in DOMAIN log /\ log[s].kind = "down"
    BY <1>2, <1>3, <1>6 DEF GestureStarts
  <1>9. \A s \in GestureStarts(n) : PausedItem(s)' <=> PausedItem(s)
    BY <1>4, <1>8
  <1>10. Wanted(n)' <=> Wanted(n)
    <2>1. CASE log[n].kind = "text"
      BY <1>1, <2>1 DEF Wanted
    <2>2. CASE log[n].kind # "text"
      <3>1. log'[n] = log[n] /\ (PausedItem(n)' <=> PausedItem(n))
        BY <1>1, <1>4, <2>2
      <3>. QED
        BY <1>7, <1>9, <2>2, <3>1 DEF Wanted
    <2>. QED
      BY <2>1, <2>2
  <1>. QED
    BY <1>1, <1>4, <1>5, <1>7, <1>10

(* A step beside the consumer's leaves what the consumer is at.            *)
Beside ==
    /\ PausesMove /\ Adds
    /\ UNCHANGED <<taken, filter>>
    /\ UNCHANGED consumer \/ (~Judging /\ ~Judging')
    /\ \/ UNCHANGED buffer
       \/ "color" \in May /\ \E t \in Nat : buffer' = Append(buffer, [of |-> 0, time |-> t])

LEMMA StepBeside ==
    ASSUME BaseInv, StopInv, [Next]_vars
    PROVE  StartBegin \/ Consumer \/ Beside
  <1>1. /\ consumer.at = "absent" <=> consumer = Absent
        /\ Absent.at = "absent" /\ Loop.at = "loop"
    BY ConsumerAt
  <1>2. CASE StartHook \/ StopBegin \/ StopHook \/ ClosePause \/ StopSignal
    <2>1. UNCHANGED <<taken, filter, consumer, buffer>>
      BY <1>2 DEF StartHook, StopBegin, StopHook, ClosePause, StopSignal
    <2>2. ~StartBegin => Beside
      BY <2>1, StepMoves DEF Beside
    <2>. QED
      BY <2>2
  <1>3. CASE UNCHANGED vars
    <2>1. UNCHANGED <<taken, filter, consumer, buffer>>
      BY <1>3 DEF vars
    <2>. QED
      BY <2>1, StepMoves DEF Beside
  <1>4. CASE StopJoin
    <2>1. UNCHANGED <<taken, filter, buffer>>
      BY <1>4 DEF StopJoin
    <2>2. UNCHANGED consumer \/ (~Judging /\ ~Judging')
      BY <1>1, <1>4 DEF StopJoin, Judging
    <2>. QED
      BY <2>1, <2>2, StepMoves DEF Beside
  <1>5. CASE PauseRecording \/ ResumeRecording \/ InjectTextInput \/ SuppressNextKeyRelease
    <2>1. UNCHANGED <<taken, filter, consumer, buffer>>
      BY <1>5 DEF PauseRecording, ResumeRecording, InjectTextInput, SuppressNextKeyRelease
    <2>. QED
      BY <2>1, StepMoves DEF Beside
  <1>6. CASE InjectColorTrigger
    <2>1. Project(now) \in Nat
      BY Types, ProjectNat
    <2>2. UNCHANGED <<taken, filter, consumer>> /\ "color" \in May
          /\ buffer' = Append(buffer, [of |-> 0, time |-> Project(now)])
      BY <1>6 DEF InjectColorTrigger
    <2>. QED
      BY <2>1, <2>2, StepMoves DEF Beside
  <1>7. CASE Capture
    <2>1. UNCHANGED <<taken, filter, consumer, buffer>>
      BY <1>7 DEF Capture
    <2>. QED
      BY <2>1, StepMoves DEF Beside
  <1>8. CASE StartConsumer
    <2>1. UNCHANGED <<taken, filter, buffer>>
      BY <1>8 DEF StartConsumer
    <2>2. consumer = Absent /\ consumer' \in {Absent, Loop}
      BY <1>8 DEF StartConsumer, StopInv
    <2>. QED
      BY <1>1, <2>1, <2>2, StepMoves DEF Beside, Judging
  <1>. QED
    BY <1>2, <1>3, <1>4, <1>5, <1>6, <1>7, <1>8 DEF Next, Start, StopStep, Window

(* What the consumer has read of the item it is at is still so.            *)
ConsumerInv ==
    /\ consumer.at = "judge" =>
         consumer.boundary = IF InPause(Raw.time) THEN Boundary(Raw.time) ELSE None
    /\ consumer.at = "record" => consumer.stamp = Shifted(Raw.time)

LEMMA ConsumerStep ==
    ASSUME BaseInv, StopInv, LogInv, ConsumerInv, [Next]_vars
    PROVE  ConsumerInv'
  <1>1. /\ consumer.at = "absent" <=> consumer = Absent
        /\ Absent.at = "absent" /\ Loop.at = "loop"
    BY ConsumerAt
  <1>2. CASE StartBegin
    BY <1>1, <1>2 DEF StartBegin, ConsumerInv
  <1>3. CASE Beside
    <2>1. CASE ~Judging'
      BY <2>1 DEF ConsumerInv, Judging
    <2>2. CASE Judging'
      <3>1. UNCHANGED <<consumer, taken>> /\ Judging
        BY <1>3, <2>2 DEF Beside, Judging
      <3>2. taken \in DOMAIN log /\ Raw.kind # "text" /\ Raw.time \in Nat /\ Raw.time < now
        BY <3>1, Types DEF BaseInv, ItemInv, LogInv, Raw
      <3>3. Raw' = Raw
        BY <1>3, <3>1, <3>2, Added DEF Beside, Raw
      <3>4. PICK t \in Nat : t = Raw.time
        BY <3>2
      <3>5. BaseInv'
        BY BaseStep
      <3>6. /\ InPause(t)' <=> InPause(t)
            /\ InPause(t) => Boundary(t)' = Boundary(t)
            /\ Shifted(t)' = Shifted(t)
        BY <1>3, <3>2, <3>4, <3>5, PastIsSettled DEF Beside
      <3>7. Raw'.time = t
        BY <3>3, <3>4
      <3>. QED
        BY <3>1, <3>4, <3>6, <3>7 DEF ConsumerInv
    <2>. QED
      BY <2>1, <2>2
  <1>4. CASE Consumer
    <2>1. UNCHANGED <<log, pauses>>
      BY <1>4, ConsumerFrame DEF queue
    <2>2. \A t : (InPause(t)' <=> InPause(t)) /\ Boundary(t)' = Boundary(t) /\ Shifted(t)' = Shifted(t)
      <3> TAKE t
      <3>1. intervals' = intervals /\ pausedAt' = pausedAt
        BY <2>1 DEF pauses
      <3>2. InClosedPause(t)' <=> InClosedPause(t)
        BY <3>1 DEF InClosedPause, Within
      <3>3. InPause(t)' <=> InPause(t)
        BY <3>1, <3>2 DEF InPause, InOpenPause
      <3>4. Boundary(t)' = Boundary(t)
        BY <3>1, <3>2 DEF Boundary, Within
      <3>. QED
        BY <3>3, <3>4 DEF Shifted
    <2>3. CASE Take
      <3>1. /\ Raw' = log[taken + 1]
            /\ \/ consumer'.at \in {"loop", "emergency"}
               \/ consumer' = [at |-> "judge",
                               boundary |-> IF InPause(log[taken + 1].time)
                                            THEN Boundary(log[taken + 1].time) ELSE None]
        BY <1>1, <2>1, <2>3 DEF Take, Raw
      <3>. QED
        BY <2>2, <3>1 DEF ConsumerInv
    <2>4. CASE Judge
      <3>1. /\ Raw' = Raw /\ consumer.at = "judge" /\ None \notin Nat
            /\ Raw.time \in Nat
        BY <2>1, <2>4, Types DEF Judge, Raw, BaseInv, ItemInv, Judging
      <3>2. InPause(Raw.time) => Boundary(Raw.time) \in Nat
        BY <3>1, BoundaryIs
      <3>3. \/ consumer' = Loop
            \/ consumer.boundary # None /\ consumer' = [at |-> "record", stamp |-> consumer.boundary - 1]
            \/ consumer.boundary = None /\ consumer' = [at |-> "record", stamp |-> Raw.time]
        BY <2>4 DEF Judge, JudgePaused, JudgeRunning, Drop, Keep
      <3>4. consumer' = Loop \/ consumer' = [at |-> "record", stamp |-> Shifted(Raw.time)]
        BY <3>1, <3>2, <3>3 DEF ConsumerInv, Shifted
      <3>5. Shifted(Raw.time)' = Shifted(Raw.time)
        BY <2>2, <3>1
      <3>. QED
        BY <1>1, <3>1, <3>4, <3>5 DEF ConsumerInv
    <2>5. CASE Record \/ CallEmergency \/ ConsumerEnd
      <3>1. consumer'.at \in {"loop", "crashed", "ended"}
        BY <1>1, <2>5 DEF Record, CallEmergency, ConsumerEnd, Drop
      <3>. QED
        BY <3>1 DEF ConsumerInv
    <2>. QED
      BY <1>4, <2>3, <2>4, <2>5 DEF Consumer
  <1>. QED
    BY <1>2, <1>3, <1>4, StepBeside

-----------------------------------------------------------------------------
(* The buffer has items the consumer is done with, at their times and in   *)
(* their order.                                                            *)

StampInv ==
    /\ \A i \in Captured, n \in Nat : buffer[i].of = n => n \in 1 .. Done /\ buffer[i].time = TimeOf(n)
    /\ \A i, j \in Captured : i < j => buffer[i].of < buffer[j].of

(* What a step of the consumer may do to the buffer.                       *)
Writes(n) ==
    /\ n = Done + 1 /\ n \in DOMAIN log /\ Done' = n
    /\ \/ log[n].kind = "text"
       \/ consumer.at = "record" /\ n = taken /\ log[n].input \notin Hotkey
    /\ buffer' = Append(buffer, [of |-> n, time |-> TimeOf(n)])

LEMMA DoneIs ==
    ASSUME BaseInv
    PROVE  /\ Done \in Nat /\ Done <= Len(log) /\ Len(log) \in Nat
           /\ 1 .. Done \subseteq DOMAIN log /\ DOMAIN log = 1 .. Len(log)
           /\ Judging => Done = taken - 1 /\ taken = Done + 1 /\ taken \in DOMAIN log
           /\ ~Judging => Done = taken
  <1>1. taken \in 0 .. Len(log) /\ Len(log) \in Nat /\ DOMAIN log = 1 .. Len(log)
    BY Types
  <1>2. Judging => taken >= 1
    BY DEF BaseInv, ItemInv
  <1>3. Done = IF Judging THEN taken - 1 ELSE taken
    BY DEF Done
  <1>. QED
    BY <1>1, <1>2, <1>3

LEMMA ConsumerBuffers ==
    ASSUME BaseInv, LogInv, ConsumerInv, Consumer
    PROVE  \/ UNCHANGED buffer /\ Done' \in {Done, Done + 1}
           \/ \E n \in Nat : Writes(n)
  <1>1. /\ consumer.at = "loop" <=> consumer = Loop
        /\ Loop.at = "loop"
    BY ConsumerAt
  <1>2. /\ Done \in Nat /\ DOMAIN log = 1 .. Len(log) /\ Len(log) \in Nat /\ taken \in Nat
        /\ Judging => Done = taken - 1 /\ taken = Done + 1 /\ taken \in DOMAIN log
        /\ ~Judging => Done = taken
    BY DoneIs, Types
  <1>3. CASE Take
    <2>1. /\ taken' = taken + 1 /\ ~Judging /\ taken + 1 \in DOMAIN log /\ Done = taken
          /\ consumer = Loop
      BY <1>1, <1>2, <1>3 DEF Take, Judging
    <2>2. CASE /\ log[taken + 1].kind = "text" /\ UNCHANGED consumer
               /\ buffer' = Append(buffer, [of |-> taken + 1, time |-> log[taken + 1].time])
      <3>1. TimeOf(taken + 1) = log[taken + 1].time
        BY <2>2 DEF TimeOf
      <3>2. Done' = taken + 1
        BY <1>1, <2>1, <2>2 DEF Done, Judging
      <3>3. Writes(taken + 1)
        BY <2>1, <2>2, <3>1, <3>2 DEF Writes
      <3>. QED
        BY <1>2, <3>3
    <2>3. CASE UNCHANGED buffer
      <3>1. Done' \in {taken' - 1, taken'}
        BY DEF Done
      <3>. QED
        BY <1>2, <2>1, <2>3, <3>1
    <2>. QED
      BY <1>3, <2>2, <2>3 DEF Take
  <1>4. CASE CallEmergency \/ ConsumerEnd
    <2>1. /\ ~Judging /\ ~Judging' /\ UNCHANGED <<taken, buffer>>
      BY <1>1, <1>4 DEF CallEmergency, ConsumerEnd, Judging
    <2>. QED
      BY <2>1 DEF Done
  <1>5. CASE Judge
    <2>1. Judging /\ UNCHANGED <<taken, buffer>>
      BY <1>5 DEF Judge, Judging
    <2>2. Done' \in {taken - 1, taken}
      BY <2>1 DEF Done
    <2>. QED
      BY <1>2, <2>1, <2>2
  <1>6. CASE Record
    <2>1. Judging /\ ~Judging' /\ UNCHANGED taken /\ consumer.at = "record"
      BY <1>1, <1>6 DEF Record, Judging, Drop
    <2>2. Done' = taken
      BY <2>1 DEF Done
    <2>3. CASE UNCHANGED buffer
      BY <1>2, <2>1, <2>2, <2>3
    <2>4. CASE /\ buffer' = Append(buffer, [of |-> taken, time |-> Project(consumer.stamp)])
               /\ log[taken].input \notin Hotkey
      <3>1. log[taken].kind # "text" /\ taken \in DOMAIN log
        BY <1>2, <2>1 DEF BaseInv, ItemInv, Raw
      <3>2. consumer.stamp = Shifted(log[taken].time)
        BY <2>1 DEF ConsumerInv, Raw
      <3>3. TimeOf(taken) = Project(consumer.stamp)
        BY <3>1, <3>2, TimeOfItem
      <3>4. Writes(taken)
        BY <1>2, <2>1, <2>2, <2>4, <3>1, <3>3 DEF Writes
      <3>. QED
        BY <1>2, <3>4
    <2>. QED
      BY <1>6, <2>3, <2>4 DEF Record, Raw
  <1>. QED
    BY <1>3, <1>4, <1>5, <1>6 DEF Consumer

LEMMA ConsumerMoves ==
    ASSUME BaseInv, Consumer
    PROVE  PausesMove /\ Adds
  <1>1. UNCHANGED <<queue, pauses>> /\ now \in Nat
    BY ConsumerFrame, Types
  <1>. QED
    BY <1>1 DEF PausesMove, Adds, queue

LEMMA CapturedKept ==
    ASSUME BaseInv, \/ UNCHANGED buffer
                    \/ \E t \in Nat : buffer' = Append(buffer, [of |-> 0, time |-> t])
    PROVE  Captured' = Captured /\ \A i \in Captured : buffer'[i] = buffer[i]
  <1>1. CASE UNCHANGED buffer
    BY <1>1 DEF Captured
  <1>2. CASE \E t \in Nat : buffer' = Append(buffer, [of |-> 0, time |-> t])
    <2>1. PICK e \in Entry : e.of = 0 /\ buffer' = Append(buffer, e)
      BY <1>2 DEF Entry
    <2>2. PICK k \in Nat : /\ \A i \in DOMAIN buffer : buffer'[i] = buffer[i]
                           /\ buffer'[k + 1] = e
                           /\ DOMAIN buffer = 1 .. k /\ DOMAIN buffer' = 1 .. k + 1
      <3>1. Len(buffer) \in Nat
        BY Types
      <3>. QED
        BY <2>1, <3>1, Buffered
    <2>3. \A i \in 1 .. k + 1 : i \in 1 .. k \/ i = k + 1
      OBVIOUS
    <2>4. \A i \in DOMAIN buffer' : i \in DOMAIN buffer \/ buffer'[i] = e
      BY <2>2, <2>3
    <2>5. \A i \in DOMAIN buffer : i \in DOMAIN buffer'
      BY <2>2
    <2>. QED
      BY <2>1, <2>2, <2>4, <2>5, Zenon DEF Captured
  <1>. QED
    BY <1>1, <1>2

LEMMA CapturedMore ==
    ASSUME BaseInv, NEW n \in Nat, Writes(n)
    PROVE  \E k \in Nat :
             /\ Captured' = Captured \cup {k} /\ \A i \in Captured : i \in Nat /\ i < k
             /\ \A i \in Captured : buffer'[i] = buffer[i]
             /\ buffer'[k].of = n /\ buffer'[k].time = TimeOf(n)
             /\ DOMAIN buffer' = DOMAIN buffer \cup {k}
  <1>1. Done \in Nat /\ n = Done + 1 /\ n \in DOMAIN log /\ TimeOf(n) \in Nat
    <2>1. Done \in Nat /\ n = Done + 1 /\ n \in DOMAIN log
      BY DoneIs DEF Writes
    <2>2. log[n].time \in Nat
      BY <2>1, Types
    <2>3. Shifted(log[n].time) \in Nat
      BY <2>2, ShiftedType
    <2>4. TimeOf(n) \in Nat
      BY <2>1, <2>2, <2>3, ProjectNat, TimeOfItem DEF TimeOf
    <2>. QED
      BY <2>1, <2>4
  <1> DEFINE e == [of |-> n, time |-> TimeOf(n)]
  <1>2. e \in Entry /\ buffer' = Append(buffer, e) /\ e.of = n /\ e.time = TimeOf(n)
    BY <1>1 DEF Entry, Writes
  <1> HIDE DEF e
  <1>3. /\ \A i \in DOMAIN buffer : buffer'[i] = buffer[i]
        /\ buffer'[Len(buffer) + 1] = e
        /\ DOMAIN buffer = 1 .. Len(buffer) /\ DOMAIN buffer' = 1 .. Len(buffer) + 1
        /\ Len(buffer) \in Nat
    BY <1>2, Buffered, Types
  <1>4. PICK k \in Nat : k = Len(buffer) + 1
    BY <1>3
  <1>5. /\ \A i \in DOMAIN buffer : i \in DOMAIN buffer' /\ i \in Nat /\ i < k
        /\ k \in DOMAIN buffer' /\ \A i \in DOMAIN buffer' : i \in DOMAIN buffer \/ i = k
    BY <1>3, <1>4
  <1>6. buffer'[k].of = n /\ buffer'[k].time = TimeOf(n) /\ n # 0
    BY <1>1, <1>2, <1>3, <1>4
  <1>7. Captured' = Captured \cup {k}
    BY <1>3, <1>5, <1>6 DEF Captured
  <1>. QED
    BY <1>3, <1>5, <1>6, <1>7 DEF Captured

LEMMA StampStep ==
    ASSUME BaseInv, StopInv, LogInv, ConsumerInv, StampInv, [Next]_vars
    PROVE  StampInv'
  <1>1. BaseInv'
    BY BaseStep
  <1>2. /\ Done \in Nat /\ \A n \in 1 .. Done : n \in DOMAIN log /\ n \in Nat
        /\ \A i \in Captured : i \in Nat /\ buffer[i].of \in Nat
    BY DoneIs, Types DEF Captured
  <1>3. ASSUME PausesMove, Adds, NEW n \in DOMAIN log PROVE TimeOf(n)' = TimeOf(n)
    BY <1>1, <1>3, ItemSettled
  <1>4. ASSUME PausesMove, Adds, Captured' = Captured, \A i \in Captured : buffer'[i] = buffer[i],
               Done' \in {Done, Done + 1}
        PROVE  StampInv'
    <2>1. \A n \in 1 .. Done : n \in 1 .. Done' /\ TimeOf(n)' = TimeOf(n)
      BY <1>2, <1>3, <1>4
    <2>. QED
      BY <1>4, <2>1 DEF StampInv
  <1>5. CASE StartBegin
    <2>1. Captured' = {}
      BY <1>5 DEF StartBegin, Captured
    <2>. QED
      BY <2>1 DEF StampInv
  <1>6. CASE Beside
    <2>1. Done' = Done
      BY <1>6 DEF Beside, Done, Judging
    <2>2. Captured' = Captured /\ \A i \in Captured : buffer'[i] = buffer[i]
      BY <1>6, CapturedKept DEF Beside
    <2>. QED
      BY <1>4, <1>6, <2>1, <2>2 DEF Beside
  <1>7. CASE Consumer
    <2>1. PausesMove /\ Adds
      BY <1>7, ConsumerMoves
    <2>2. CASE UNCHANGED buffer /\ Done' \in {Done, Done + 1}
      BY <1>4, <2>1, <2>2, CapturedKept
    <2>3. ASSUME NEW n \in Nat, Writes(n) PROVE StampInv'
      <3>1. PICK k \in Nat :
             /\ Captured' = Captured \cup {k} /\ \A i \in Captured : i \in Nat /\ i < k
             /\ \A i \in Captured : buffer'[i] = buffer[i]
             /\ buffer'[k].of = n /\ buffer'[k].time = TimeOf(n)
        BY <2>3, CapturedMore
      <3>2. Done' = n /\ n = Done + 1 /\ n \in DOMAIN log
        BY <2>3 DEF Writes
      <3>3. TimeOf(n)' = TimeOf(n)
        BY <1>3, <2>1, <3>2
      <3>4. \A m \in 1 .. Done : m \in 1 .. Done' /\ m < n /\ TimeOf(m)' = TimeOf(m)
        BY <1>2, <1>3, <2>1, <3>2
      <3>5. n \in 1 .. Done'
        BY <1>2, <3>2
      <3>6. \A i \in Captured', m \in Nat :
               buffer'[i].of = m => m \in 1 .. Done' /\ buffer'[i].time = TimeOf(m)'
        <4> SUFFICES ASSUME NEW i \in Captured', NEW m \in Nat, buffer'[i].of = m
                     PROVE  m \in 1 .. Done' /\ buffer'[i].time = TimeOf(m)'
          OBVIOUS
        <4>1. CASE i = k
          BY <3>1, <3>3, <3>5, <4>1
        <4>2. CASE i \in Captured
          <5>1. buffer'[i] = buffer[i] /\ m \in 1 .. Done
            BY <3>1, <4>2 DEF StampInv
          <5>2. buffer[i].time = TimeOf(m)
            BY <4>2, <5>1 DEF StampInv
          <5>. QED
            BY <3>4, <5>1, <5>2
        <4>. QED
          BY <3>1, <4>1, <4>2
      <3>7. \A i, j \in Captured' : i < j => buffer'[i].of < buffer'[j].of
        <4> TAKE i, j \in Captured'
        <4>1. CASE i = k
          BY <3>1, <4>1
        <4>2. CASE i \in Captured /\ j = k
          <5>1. buffer'[i] = buffer[i] /\ buffer'[j].of = n
            BY <3>1, <4>2
          <5>2. buffer[i].of \in 1 .. Done
            BY <1>2, <4>2 DEF StampInv
          <5>. QED
            BY <3>4, <5>1, <5>2
        <4>3. CASE i \in Captured /\ j \in Captured
          BY <3>1, <4>3, Zenon DEF StampInv
        <4>. QED
          BY <3>1, <4>1, <4>2, <4>3
      <3>. QED
        BY <3>6, <3>7 DEF StampInv
    <2>. QED
      BY <1>7, <2>2, <2>3, ConsumerBuffers
  <1>. QED
    BY <1>5, <1>6, <1>7, StepBeside

(* Where nothing is injected, what is buffered are keys, buttons and moves. *)
ItemsOnly ==
    /\ \A n \in DOMAIN log : log[n].kind # "text"
    /\ \A i \in DOMAIN buffer : i \in Captured

LEMMA ItemsOnlyStep ==
    ASSUME NoInjection, BaseInv, StopInv, LogInv, ConsumerInv, ItemsOnly, [Next]_vars
    PROVE  ItemsOnly'
  <1>1. CASE StartBegin
    <2>1. DOMAIN log' = {} /\ DOMAIN buffer' = {}
      BY <1>1 DEF StartBegin
    <2>. QED
      BY <2>1 DEF ItemsOnly
  <1>2. ASSUME Adds PROVE \A n \in DOMAIN log' : log'[n].kind # "text"
    BY <1>2, Added DEF NoInjection, ItemsOnly
  <1>3. ASSUME UNCHANGED buffer PROVE \A i \in DOMAIN buffer' : i \in Captured'
    BY <1>3 DEF ItemsOnly, Captured
  <1>4. CASE Beside
    <2>1. UNCHANGED buffer /\ Adds
      BY <1>4 DEF Beside, NoInjection
    <2>. QED
      BY <1>2, <1>3, <2>1 DEF ItemsOnly
  <1>5. CASE Consumer
    <2>1. \A n \in DOMAIN log' : log'[n].kind # "text"
      BY <1>2, <1>5, ConsumerMoves
    <2>2. ASSUME NEW n \in Nat, Writes(n) PROVE \A i \in DOMAIN buffer' : i \in Captured'
      <3>1. PICK k \in Nat : Captured' = Captured \cup {k} /\ DOMAIN buffer' = DOMAIN buffer \cup {k}
        BY <2>2, CapturedMore
      <3>. QED
        BY <3>1 DEF ItemsOnly
    <2>3. \A i \in DOMAIN buffer' : i \in Captured'
      BY <1>3, <1>5, <2>2, ConsumerBuffers
    <2>. QED
      BY <2>1, <2>3 DEF ItemsOnly
  <1>. QED
    BY <1>1, <1>4, <1>5, StepBeside

(* The consumer's invariant, common to what follows.                       *)
EngineInv == BaseInv /\ StopInv /\ LogInv /\ ConsumerInv /\ StampInv

LEMMA EngineInit == Init => EngineInv
  <1> SUFFICES ASSUME Init PROVE EngineInv
    OBVIOUS
  <1>1. BaseInv /\ StopInv
    BY BaseInit, StopStarts
  <1>2. DOMAIN log = {} /\ DOMAIN buffer = {} /\ consumer.at = "absent"
    BY DEF Init, Absent
  <1>. QED
    BY <1>1, <1>2 DEF EngineInv, LogInv, ConsumerInv, StampInv, Captured

LEMMA EngineStep == EngineInv /\ [Next]_vars => EngineInv'
  BY BaseStep, StopSteps, LogStep, ConsumerStep, StampStep DEF EngineInv

(* The buffer is in the order of its timestamps: however long the consumer *)
(* lags, and wherever pauses begin and end, a release that is moved to the *)
(* instant before a pause comes after everything recorded before it.       *)
(* Texts and colours injected at the time of a pause are another matter.   *)
THEOREM BufferInOrder == NoInjection => (Spec => []Chronological)
  <1> SUFFICES ASSUME NoInjection PROVE Spec => []Chronological
    OBVIOUS
  <1> DEFINE Inv == EngineInv /\ ItemsOnly
  <1>1. Init => Inv
    BY EngineInit DEF Init, ItemsOnly
  <1>2. Inv /\ [Next]_vars => Inv'
    BY EngineStep, ItemsOnlyStep DEF EngineInv
  <1>3. Inv => Chronological
    <2> SUFFICES ASSUME Inv, NEW i \in 1 .. Len(buffer) - 1
                 PROVE  buffer[i].time <= buffer[i + 1].time
      BY DEF Chronological
    <2>1. BaseInv /\ LogInv /\ StampInv /\ ItemsOnly
      BY DEF EngineInv
    <2>2. i \in DOMAIN buffer /\ i + 1 \in DOMAIN buffer /\ i < i + 1
      BY <2>1, Types
    <2>3. PICK m \in Nat, n \in Nat : m = buffer[i].of /\ n = buffer[i + 1].of
      BY <2>1, <2>2, Types
    <2>4. m < n
      BY <2>1, <2>2, <2>3 DEF StampInv, ItemsOnly
    <2>5. m \in 1 .. Done /\ buffer[i].time = TimeOf(m)
      BY <2>1, <2>2, <2>3 DEF StampInv, ItemsOnly
    <2>6. n \in 1 .. Done /\ buffer[i + 1].time = TimeOf(n)
      BY <2>1, <2>2, <2>3 DEF StampInv, ItemsOnly
    <2>7. m \in DOMAIN log /\ n \in DOMAIN log
      BY <2>1, <2>5, <2>6, DoneIs
    <2>8. log[m].kind # "text" /\ log[n].kind # "text"
      BY <2>1, <2>7 DEF ItemsOnly
    <2>. QED
      BY <2>1, <2>4, <2>5, <2>6, <2>7, <2>8, TimesInOrder
  <1>. QED
    BY <1>1, <1>2, <1>3, PTL DEF Spec

-----------------------------------------------------------------------------
(* Gestures.  What follows is about the first k items of the queue.        *)

(* The user let go of x after item j.                                      *)
LetGo(x, j, k) == \E u \in 1 .. k : j < u /\ log[u].input = x /\ log[u].kind = "up"

(* No gesture of x goes on; item m began the one that does.                *)
Over(x, k) == \A j \in 1 .. k : log[j].input = x => log[j].kind = "up" \/ LetGo(x, j, k)
Opens(m, x, k) ==
    /\ m \in 1 .. k /\ log[m].input = x /\ log[m].kind = "down"
    /\ ~LetGo(x, m, k) /\ Over(x, m - 1)

HeldBack(x, k) == \E m \in 1 .. k : Opens(m, x, k) /\ PausedItem(m)
GoesOn(x, k) == \E m \in 1 .. k : Opens(m, x, k) /\ ~PausedItem(m)

(* Item m is followed by the release of another key of a fence of x; a      *)
(* gesture begun in a pause and so followed may be forgotten.              *)
Split(x, m, k) == \E u \in 1 .. k : m < u /\ log[u].kind = "up" /\ Mates(log[u].input, x)
Loosed(x, k) ==
    /\ ~NoFence
    /\ \E m \in 1 .. k : Opens(m, x, k) /\ PausedItem(m) /\ Split(x, m, k)

LEMMA LetGoNext ==
    ASSUME NEW x, NEW j \in Nat, NEW k \in Nat, NEW n \in Nat, n = k + 1
    PROVE  LetGo(x, j, n) <=>
             LetGo(x, j, k) \/ (j < n /\ log[n].input = x /\ log[n].kind = "up")
  <1>1. \A u \in 1 .. n : u \in 1 .. k \/ u = n
    OBVIOUS
  <1>2. n \in 1 .. n /\ \A u \in 1 .. k : u \in 1 .. n
    OBVIOUS
  <1>. QED
    BY <1>1, <1>2 DEF LetGo

(* One gesture of an input goes on at a time.                              *)
LEMMA OneGesture ==
    ASSUME NEW x, NEW k \in Nat
    PROVE  /\ \A m, n \in 1 .. k : Opens(m, x, k) /\ Opens(n, x, k) => m = n
           /\ ~(HeldBack(x, k) /\ GoesOn(x, k))
           /\ Over(x, k) => \A m \in 1 .. k : ~Opens(m, x, k)
  <1>1. ASSUME NEW m \in 1 .. k, NEW n \in 1 .. k, Opens(m, x, k), Opens(n, x, k), m < n
        PROVE  FALSE
    <2>1. m \in 1 .. n - 1 /\ Over(x, n - 1) /\ ~LetGo(x, m, k)
          /\ log[m].input = x /\ log[m].kind = "down"
      BY <1>1 DEF Opens
    <2>2. LetGo(x, m, n - 1)
      BY <2>1 DEF Over
    <2>3. \A u \in 1 .. n - 1 : u \in 1 .. k
      OBVIOUS
    <2>4. LetGo(x, m, k)
      BY <2>2, <2>3 DEF LetGo
    <2>. QED
      BY <2>1, <2>4
  <1>2. \A m, n \in 1 .. k : m < n \/ n < m \/ m = n
    OBVIOUS
  <1>3. \A m, n \in 1 .. k : Opens(m, x, k) /\ Opens(n, x, k) => m = n
    BY <1>1, <1>2
  <1>4. ~(HeldBack(x, k) /\ GoesOn(x, k))
    BY <1>3 DEF HeldBack, GoesOn
  <1>5. Over(x, k) => \A m \in 1 .. k : ~Opens(m, x, k)
    BY DEF Over, Opens
  <1>. QED
    BY <1>3, <1>4, <1>5

(* A release no fence excuses belongs to no such gesture. *)
Excused(n) == ~NoFence /\ (log[n].kind = "up" => Loosed(log[n].input, n - 1))

LEMMA LoosedIsHeldBack ==
    ASSUME NEW x, NEW k, Loosed(x, k)
    PROVE  HeldBack(x, k) /\ ~NoFence
  BY DEF Loosed, HeldBack

(* What the next item makes of the gestures.                               *)
LEMMA NextItem ==
    ASSUME NEW x, NEW k \in Nat, NEW n \in Nat, n = k + 1
    PROVE  /\ log[n].input # x \/ log[n].kind = "down" =>
                /\ \A m \in 1 .. k : Opens(m, x, k) => Opens(m, x, n)
                /\ HeldBack(x, k) => HeldBack(x, n)
                /\ GoesOn(x, k) => GoesOn(x, n)
                /\ Loosed(x, k) => Loosed(x, n)
           /\ HeldBack(x, k) /\ ~NoFence /\ log[n].kind = "up" /\ Mates(log[n].input, x)
                => Loosed(x, n)
           /\ log[n].input # x => (Over(x, k) => Over(x, n))
           /\ log[n].input = x /\ log[n].kind = "up" => Over(x, n)
           /\ log[n].input = x /\ log[n].kind = "down" => (Over(x, k) => Opens(n, x, n))
  <1>1. /\ \A u \in 1 .. n : u \in 1 .. k \/ u = n
        /\ \A u \in 1 .. k : u \in 1 .. n /\ u \in Nat /\ u < n
        /\ n \in 1 .. n /\ n - 1 = k
    OBVIOUS
  <1>2. \A j \in Nat : LetGo(x, j, n) <=>
             LetGo(x, j, k) \/ (j < n /\ log[n].input = x /\ log[n].kind = "up")
    BY LetGoNext
  <1>3. ASSUME log[n].input # x \/ log[n].kind = "down"
        PROVE  /\ \A m \in 1 .. k : Opens(m, x, k) => Opens(m, x, n)
               /\ HeldBack(x, k) => HeldBack(x, n)
               /\ GoesOn(x, k) => GoesOn(x, n)
               /\ Loosed(x, k) => Loosed(x, n)
    <2>1. \A m \in 1 .. k : LetGo(x, m, n) <=> LetGo(x, m, k)
      BY <1>1, <1>2, <1>3
    <2>2. \A m \in 1 .. k : Opens(m, x, k) => Opens(m, x, n)
      BY <1>1, <2>1 DEF Opens
    <2>3. \A m \in 1 .. k : Split(x, m, k) => Split(x, m, n)
      BY <1>1 DEF Split
    <2>. QED
      BY <1>1, <2>2, <2>3 DEF HeldBack, GoesOn, Loosed
  <1>4. ASSUME log[n].input # x, Over(x, k) PROVE Over(x, n)
    BY <1>1, <1>2, <1>4 DEF Over
  <1>5. ASSUME log[n].input = x, log[n].kind = "up" PROVE Over(x, n)
    <2> SUFFICES ASSUME NEW j \in 1 .. n, log[j].input = x PROVE log[j].kind = "up" \/ LetGo(x, j, n)
      BY DEF Over
    <2>. QED
      BY <1>1, <1>2, <1>5
  <1>6. ASSUME log[n].input = x, log[n].kind = "down", Over(x, k) PROVE Opens(n, x, n)
    <2>1. ~LetGo(x, n, n)
      BY DEF LetGo
    <2>. QED
      BY <1>1, <1>6, <2>1 DEF Opens
  <1>7. ASSUME HeldBack(x, k), ~NoFence, log[n].kind = "up", Mates(log[n].input, x)
        PROVE  Loosed(x, n)
    <2>1. log[n].input # x
      BY <1>7 DEF Mates
    <2>2. PICK m \in 1 .. k : Opens(m, x, k) /\ PausedItem(m)
      BY <1>7 DEF HeldBack
    <2>3. Opens(m, x, n) /\ m \in 1 .. n
      BY <1>1, <1>3, <2>1, <2>2
    <2>4. Split(x, m, n)
      BY <1>1, <1>7, <2>2 DEF Split
    <2>. QED
      BY <1>7, <2>2, <2>3, <2>4 DEF Loosed
  <1>. QED
    BY <1>3, <1>4, <1>5, <1>6, <1>7

(* The gesture an item belongs to.                                         *)
LEMMA StartsAre ==
    ASSUME NEW k \in Nat, NEW n \in Nat, n = k + 1, NEW x, log[n].input = x
    PROVE  /\ log[n].kind = "up" =>
                \A s \in Nat : s \in GestureStarts(n) <=> s \in 1 .. k /\ Opens(s, x, k)
           /\ log[n].kind = "down" =>
                \A s \in Nat : s \in GestureStarts(n) <=> s \in 1 .. n /\ Opens(s, x, n)
  <1>1. \A m \in Nat : Same(m) = {j \in 1 .. m - 1 : log[j].input = log[m].input}
    BY DEF Same
  <1>2. ASSUME NEW s \in Nat
        PROVE  s \in GestureStarts(n) <=>
                 /\ s \in 1 .. n /\ log[s].input = x /\ log[s].kind = "down"
                 /\ ~LetGo(x, s, k) /\ Over(x, s - 1)
    <2>1. s \in Same(n) \cup {n} <=> s \in 1 .. n /\ log[s].input = x
      BY <1>1
    <2>2. ASSUME s \in 1 .. n, log[s].input = x, log[s].kind = "down"
          PROVE  /\ (\A j \in Same(n) : log[j].kind = "up" => j < s) <=> ~LetGo(x, s, k)
                 /\ (\A j \in Same(s) : \/ log[j].kind = "up"
                                        \/ \E u \in Same(s) : j < u /\ log[u].kind = "up")
                    <=> Over(x, s - 1)
      <3>1. Same(n) = {j \in 1 .. k : log[j].input = x}
        BY <1>1
      <3>2. Same(s) = {j \in 1 .. s - 1 : log[j].input = x}
        BY <1>1, <2>2
      <3>3. \A j \in 1 .. k : j < s \/ s < j \/ j = s
        OBVIOUS
      <3>4. \A j \in 1 .. k : s < j => ~(j < s)
        OBVIOUS
      <3>5. (\A j \in Same(n) : log[j].kind = "up" => j < s) <=> ~LetGo(x, s, k)
        BY <2>2, <3>1, <3>3, <3>4 DEF LetGo
      <3>6. (\A j \in Same(s) : \/ log[j].kind = "up"
                                \/ \E u \in Same(s) : j < u /\ log[u].kind = "up")
            <=> Over(x, s - 1)
        BY <3>2 DEF Over, LetGo
      <3>. QED
        BY <3>5, <3>6
    <2>. QED
      BY <2>1, <2>2 DEF GestureStarts
  <1>3. \A s \in 1 .. n : s \in 1 .. k \/ s = n
    OBVIOUS
  <1>4. \A s \in 1 .. k : s \in 1 .. n
    OBVIOUS
  <1>5. CASE log[n].kind = "up"
    BY <1>2, <1>3, <1>4, <1>5 DEF Opens
  <1>6. CASE log[n].kind = "down"
    <2>1. \A s \in Nat : LetGo(x, s, n) <=> LetGo(x, s, k)
      BY <1>6, LetGoNext
    <2>. QED
      BY <1>2, <1>6, <2>1 DEF Opens
  <1>. QED
    BY <1>5, <1>6

(* What a release, a press and a move are to the recording.                *)
LEMMA Released ==
    ASSUME NEW k \in Nat, NEW n \in Nat, n = k + 1, NEW x, log[n].input = x, log[n].kind = "up"
    PROVE  /\ Over(x, n)
           /\ HeldBack(x, k) => ~Wanted(n)
           /\ GoesOn(x, k) /\ x \notin Hotkey => Wanted(n)
           /\ Over(x, k) /\ PausedItem(n) => ~Wanted(n)
           /\ Over(x, k) /\ ~PausedItem(n) /\ x \notin Hotkey => Wanted(n)
           /\ Loosed(x, k) => Excused(n)
  <1>1. \A s \in Nat : s \in GestureStarts(n) <=> s \in 1 .. k /\ Opens(s, x, k)
    BY StartsAre
  <1>2. \A s \in GestureStarts(n) : s \in Nat
    BY DEF GestureStarts, Same
  <1>3. Over(x, n)
    BY NextItem
  <1>4. HeldBack(x, k) => \E s \in GestureStarts(n) : PausedItem(s)
    BY <1>1 DEF HeldBack
  <1>5. GoesOn(x, k) => (\A s \in GestureStarts(n) : ~PausedItem(s)) /\ GestureStarts(n) # {}
    <2> SUFFICES ASSUME NEW m \in 1 .. k, Opens(m, x, k), ~PausedItem(m)
                 PROVE  (\A s \in GestureStarts(n) : ~PausedItem(s)) /\ GestureStarts(n) # {}
      BY DEF GoesOn
    <2>1. m \in GestureStarts(n)
      BY <1>1
    <2>2. \A s \in GestureStarts(n) : s = m
      BY <1>1, <1>2, OneGesture
    <2>. QED
      BY <2>1, <2>2
  <1>6. Over(x, k) => GestureStarts(n) = {}
    BY <1>1, <1>2, OneGesture
  <1>7. Loosed(x, k) => Excused(n)
    <2>1. n - 1 = k
      OBVIOUS
    <2>. QED
      BY <2>1, LoosedIsHeldBack DEF Excused
  <1>. QED
    BY <1>3, <1>4, <1>5, <1>6, <1>7 DEF Wanted

LEMMA Pressed ==
    ASSUME NEW k \in Nat, NEW n \in Nat, n = k + 1, NEW x, log[n].input = x, log[n].kind = "down"
    PROVE  /\ HeldBack(x, k) => HeldBack(x, n)
           /\ GoesOn(x, k) => GoesOn(x, n)
           /\ Loosed(x, k) => Loosed(x, n)
           /\ Over(x, k) /\ PausedItem(n) => HeldBack(x, n)
           /\ Over(x, k) /\ ~PausedItem(n) => GoesOn(x, n)
           /\ HeldBack(x, n) \/ PausedItem(n) => ~Wanted(n)
           /\ GoesOn(x, n) /\ ~PausedItem(n) /\ x \notin Hotkey => Wanted(n)
  <1>1. \A s \in Nat : s \in GestureStarts(n) <=> s \in 1 .. n /\ Opens(s, x, n)
    BY StartsAre
  <1>2. \A s \in GestureStarts(n) : s \in Nat
    BY DEF GestureStarts, Same
  <1>3. /\ HeldBack(x, k) => HeldBack(x, n)
        /\ GoesOn(x, k) => GoesOn(x, n)
        /\ Loosed(x, k) => Loosed(x, n)
    BY NextItem
  <1>4. Over(x, k) => n \in 1 .. n /\ Opens(n, x, n)
    BY NextItem
  <1>5. HeldBack(x, n) => \E s \in GestureStarts(n) : PausedItem(s)
    BY <1>1 DEF HeldBack
  <1>6. GoesOn(x, n) => \A s \in GestureStarts(n) : ~PausedItem(s)
    BY <1>1, <1>2, OneGesture DEF GoesOn
  <1>. QED
    BY <1>3, <1>4, <1>5, <1>6 DEF Wanted, HeldBack, GoesOn

LEMMA Moved ==
    ASSUME BaseInv, NEW n \in DOMAIN log, log[n].kind = "move"
    PROVE  Wanted(n) <=> ~PausedItem(n)
  <1>1. log[n].input = None /\ None \notin Input /\ None \notin Hotkey
    BY Types, RecorderAssumption DEF Item, Input
  <1>2. \A s \in Same(n) \cup {n} : s \in DOMAIN log /\ log[s].input = None
    BY <1>1, Types DEF Same
  <1>3. \A s \in DOMAIN log : log[s].kind = "down" => log[s].input \in Input
    BY Types DEF Item
  <1>4. GestureStarts(n) = {}
    BY <1>1, <1>2, <1>3 DEF GestureStarts
  <1>. QED
    BY <1>1, <1>4 DEF Wanted

(* Inputs of which no transition is left out but by pauses.                *)
Tracked(x) == x \in Input \ Hotkey /\ x # Esc

(* The two sets tell how the gesture under way began, unless a fence fell. *)
Told(x, k, itIsSuppressed, itIsPressed) ==
    /\ itIsSuppressed => HeldBack(x, k) /\ ~itIsPressed
    /\ itIsPressed => GoesOn(x, k) \/ Loosed(x, k)
    /\ ~itIsSuppressed /\ ~itIsPressed => Over(x, k) \/ Loosed(x, k)

TellsOf(x, k) == Told(x, k, x \in suppressed, x \in pressed)

(* What the consumer has decided to record is wanted; until it is recorded *)
(* pressed is not up to date.                                              *)
Followed(n) == log[n].input \in Input => Tracked(log[n].input)
Decided(n) ==
    /\ Followed(n) => Wanted(n) \/ Excused(n)
    /\ Tracked(log[n].input) =>
         /\ log[n].input \notin suppressed
         /\ log[n].kind = "down" => GoesOn(log[n].input, n) \/ Loosed(log[n].input, n)

GestureInv ==
    /\ NoFence => fences = {}
    /\ \A x \in Input, k \in Nat :
         k = Done /\ Tracked(x) /\ ~(consumer.at = "record" /\ Raw.input = x) => TellsOf(x, k)
    /\ \A n \in Nat : consumer.at = "record" /\ n = taken => Decided(n)

(* What a step of the consumer makes of the item it is at: it leaves it    *)
(* out, or decides to record it.                                           *)
LeavesOut(n) ==
    /\ consumer' = Loop
    /\ Tracked(log[n].input) =>
         Told(log[n].input, n, log[n].input \in suppressed', log[n].input \in pressed')
    /\ NoFence /\ Followed(n) => ~Wanted(n)

Decides(n) ==
    /\ consumer'.at = "record"
    /\ Followed(n) => Wanted(n) \/ Excused(n)
    /\ Tracked(log[n].input) =>
         /\ log[n].input \notin suppressed'
         /\ log[n].kind = "down" => GoesOn(log[n].input, n) \/ Loosed(log[n].input, n)

(* What a step at item n makes of another input: nothing, but that a fence *)
(* may forget it.                                                          *)
LeavesAlone(y, n) ==
    /\ y \in pressed' <=> y \in pressed
    /\ \/ y \in suppressed' <=> y \in suppressed
       \/ /\ y \notin suppressed' /\ consumer' = Loop
          /\ ~NoFence /\ log[n].kind = "up" /\ Mates(log[n].input, y)

LEMMA JudgeSteps ==
    ASSUME BaseInv, LogInv, ConsumerInv, GestureInv, Judge, NEW n \in Nat, n = taken
    PROVE  /\ LeavesOut(n) \/ Decides(n)
           /\ \A y \in Input : Tracked(y) /\ y # log[n].input => LeavesAlone(y, n)
  <1> DEFINE x == log[n].input
             hit == {g \in fences : x \in g}
  <1>1. /\ consumer.at = "judge" /\ n \in DOMAIN log /\ log[n] \in Item /\ log[n].kind # "text"
        /\ Raw = log[n] /\ Done \in Nat /\ n = Done + 1 /\ log[n].time \in Nat
    BY DoneIs, Types DEF Judge, Judging, Raw, BaseInv, ItemInv
  <1>2. PICK k \in Nat : k = Done
    BY <1>1
  <1>3. suppressed \subseteq Input /\ pressed \subseteq Input /\ fences \subseteq Group
        /\ None \notin Input
    BY RecorderAssumption DEF BaseInv, TypeOK, Input
  <1>4. consumer.boundary # None <=> PausedItem(n)
    <2>1. InPause(log[n].time) => Boundary(log[n].time) \in Nat
      BY <1>1, BoundaryIs
    <2>. QED
      BY <1>1, <2>1, RecorderAssumption DEF ConsumerInv, PausedItem
  <1>5. \/ log[n].kind = "move" /\ x = None
        \/ log[n].kind \in {"up", "down"} /\ x \in Input
    BY <1>1 DEF Item
  <1>6. Tracked(x) => TellsOf(x, k) /\ x \notin Hotkey /\ x \in Input
    BY <1>1, <1>2 DEF GestureInv, Tracked
  <1>7. Followed(n) <=> x = None \/ Tracked(x)
    BY <1>3, <1>5 DEF Followed, Tracked
  <1>8. Loop.at = "loop"
    BY ConsumerAt
  <1>9. CASE /\ hit # {} /\ log[n].kind = "up" /\ pressed \cap UNION hit = {}
             /\ Drop /\ suppressed' = suppressed \ UNION hit /\ UNCHANGED pressed
    <2>1. x \in UNION hit
      BY <1>9
    <2>2. ~NoFence
      BY <1>9 DEF GestureInv
    <2>3. Tracked(x) => Over(x, n)
      BY <1>1, <1>2, <1>9, Released
    <2>4. x \notin suppressed' /\ x \notin pressed'
      BY <1>9, <2>1
    <2>5. LeavesOut(n)
      BY <1>9, <2>2, <2>3, <2>4 DEF LeavesOut, Drop, Told
    <2>6. ASSUME NEW y \in Input, Tracked(y), y # x PROVE LeavesAlone(y, n)
      <3>1. CASE y \in UNION hit
        <4>1. Mates(x, y)
          BY <1>3, <2>6, <3>1 DEF Mates
        <4>. QED
          BY <1>9, <2>2, <3>1, <4>1 DEF LeavesAlone, Drop
      <3>2. CASE y \notin UNION hit
        BY <1>9, <3>2 DEF LeavesAlone
      <3>. QED
        BY <3>1, <3>2
    <2>. QED
      BY <2>5, <2>6
  <1>10. CASE PausedItem(n) /\ JudgePaused
    <2>1. CASE /\ log[n].kind = "down"
               /\ suppressed' = IF x \in pressed THEN suppressed ELSE suppressed \cup {x}
               /\ Drop /\ UNCHANGED pressed
      <3>1. /\ HeldBack(x, k) => HeldBack(x, n)
            /\ GoesOn(x, k) => GoesOn(x, n)
            /\ Loosed(x, k) => Loosed(x, n) /\ HeldBack(x, k)
            /\ Over(x, k) => HeldBack(x, n)
            /\ ~Wanted(n)
        BY <1>1, <1>2, <1>10, <2>1, Pressed, LoosedIsHeldBack
      <3>2. LeavesOut(n)
        BY <1>6, <2>1, <3>1 DEF LeavesOut, Drop, TellsOf, Told
      <3>. QED
        BY <2>1, <3>2 DEF LeavesAlone
    <2>2. CASE /\ log[n].kind = "up" /\ x \in suppressed
               /\ suppressed' = suppressed \ {x}
               /\ Drop /\ UNCHANGED pressed
      <3>1. /\ HeldBack(x, k) => ~Wanted(n)
            /\ Over(x, n)
        BY <1>1, <1>2, <2>2, Released
      <3>2. LeavesOut(n)
        BY <1>3, <1>6, <1>7, <2>2, <3>1 DEF LeavesOut, Drop, TellsOf, Told
      <3>. QED
        BY <2>2, <3>2 DEF LeavesAlone
    <2>3. CASE /\ log[n].kind = "up" /\ x \in pressed \ suppressed
               /\ pressed' = pressed \ {x}
               /\ Keep(consumer.boundary - 1) /\ UNCHANGED suppressed
      <3>1. /\ GoesOn(x, k) /\ x \notin Hotkey => Wanted(n)
            /\ Loosed(x, k) => Excused(n)
        BY <1>1, <1>2, <2>3, Released
      <3>2. Decides(n)
        BY <1>3, <1>6, <1>7, <2>3, <3>1 DEF Decides, Keep, TellsOf, Told
      <3>. QED
        BY <2>3, <3>2 DEF LeavesAlone
    <2>4. CASE log[n].kind = "move" /\ Drop /\ UNCHANGED filter
      <3>1. ~Wanted(n)
        BY <1>1, <1>10, <2>4, Moved
      <3>2. ~Tracked(x)
        BY <1>3, <1>5, <2>4 DEF Tracked
      <3>. QED
        BY <2>4, <3>1, <3>2 DEF LeavesOut, Drop, filter, LeavesAlone
    <2>5. CASE log[n].kind = "up" /\ x \notin pressed \cup suppressed /\ Drop /\ UNCHANGED filter
      <3>1. Over(x, n) /\ (Over(x, k) => ~Wanted(n)) /\ (Loosed(x, k) => ~NoFence)
        BY <1>1, <1>2, <1>10, <2>5, Released, LoosedIsHeldBack
      <3>2. LeavesOut(n)
        BY <1>3, <1>5, <1>6, <1>7, <2>5, <3>1 DEF LeavesOut, Drop, TellsOf, Told, filter
      <3>. QED
        BY <2>5, <3>2 DEF filter, LeavesAlone
    <2>. QED
      BY <1>1, <1>10, <2>1, <2>2, <2>3, <2>4, <2>5 DEF JudgePaused
  <1>11. CASE ~PausedItem(n) /\ JudgeRunning
    <2>1. CASE /\ x \in suppressed
               /\ suppressed' = IF log[n].kind = "up" THEN suppressed \ {x} ELSE suppressed
               /\ Drop /\ UNCHANGED pressed
      <3>1. CASE log[n].kind = "up"
        <4>1. /\ HeldBack(x, k) => ~Wanted(n)
              /\ Over(x, n)
          BY <1>1, <1>2, <3>1, Released
        <4>2. LeavesOut(n)
          BY <1>3, <1>6, <1>7, <2>1, <3>1, <4>1 DEF LeavesOut, Drop, TellsOf, Told
        <4>. QED
          BY <2>1, <4>2 DEF LeavesAlone
      <3>2. CASE log[n].kind = "down"
        <4>1. /\ HeldBack(x, k) => HeldBack(x, n)
              /\ HeldBack(x, n) => ~Wanted(n)
          BY <1>1, <1>2, <3>2, Pressed
        <4>2. LeavesOut(n)
          BY <1>3, <1>6, <1>7, <2>1, <3>2, <4>1 DEF LeavesOut, Drop, TellsOf, Told
        <4>. QED
          BY <2>1, <4>2 DEF LeavesAlone
      <3>. QED
        BY <1>3, <1>5, <2>1, <3>1, <3>2
    <2>2. CASE x \notin suppressed /\ Keep(log[n].time) /\ UNCHANGED filter
      <3>1. CASE log[n].kind = "move"
        <4>1. Wanted(n)
          BY <1>1, <1>11, <3>1, Moved
        <4>2. ~Tracked(x)
          BY <1>3, <1>5, <3>1 DEF Tracked
        <4>. QED
          BY <2>2, <4>1, <4>2 DEF Decides, Keep, filter, LeavesAlone
      <3>2. CASE log[n].kind = "up"
        <4>1. /\ GoesOn(x, k) /\ x \notin Hotkey => Wanted(n)
              /\ Over(x, k) /\ x \notin Hotkey => Wanted(n)
              /\ Loosed(x, k) => Excused(n)
          BY <1>1, <1>2, <1>11, <3>2, Released
        <4>2. Decides(n)
          BY <1>3, <1>5, <1>6, <1>7, <2>2, <3>2, <4>1 DEF Decides, Keep, TellsOf, Told, filter
        <4>. QED
          BY <2>2, <4>2 DEF filter, LeavesAlone
      <3>3. CASE log[n].kind = "down"
        <4>1. /\ GoesOn(x, k) => GoesOn(x, n)
              /\ Over(x, k) => GoesOn(x, n)
              /\ Loosed(x, k) => Loosed(x, n) /\ Excused(n)
              /\ GoesOn(x, n) /\ x \notin Hotkey => Wanted(n)
          BY <1>1, <1>2, <1>11, <3>3, Pressed, LoosedIsHeldBack DEF Excused
        <4>2. Decides(n)
          BY <1>3, <1>5, <1>6, <1>7, <2>2, <3>3, <4>1 DEF Decides, Keep, TellsOf, Told, filter
        <4>. QED
          BY <2>2, <4>2 DEF filter, LeavesAlone
      <3>. QED
        BY <1>5, <3>1, <3>2, <3>3
    <2>. QED
      BY <1>1, <1>11, <2>1, <2>2 DEF JudgeRunning
  <1>. QED
    BY <1>1, <1>4, <1>9, <1>10, <1>11 DEF Judge

LEMMA GesturesSettled ==
    ASSUME BaseInv, BaseInv', LogInv, PausesMove, Adds, NEW x, NEW k \in Nat, 1 .. k \subseteq DOMAIN log
    PROVE  /\ HeldBack(x, k)' <=> HeldBack(x, k)
           /\ GoesOn(x, k)' <=> GoesOn(x, k)
           /\ Loosed(x, k)' <=> Loosed(x, k)
           /\ Over(x, k)' <=> Over(x, k)
  <1>1. \A m \in 1 .. k : m \in Nat /\ 1 .. m - 1 \subseteq 1 .. k
    OBVIOUS
  <1>2. \A m \in 1 .. k : log'[m] = log[m] /\ (log[m].kind = "down" => (PausedItem(m)' <=> PausedItem(m)))
    <2> TAKE m \in 1 .. k
    <2>1. m \in DOMAIN log
      OBVIOUS
    <2>. QED
      BY <2>1, ItemSettled
  <1>3. \A j : \A i \in Nat : 1 .. i \subseteq 1 .. k => (LetGo(x, j, i)' <=> LetGo(x, j, i))
    BY <1>2 DEF LetGo
  <1>4. \A i \in Nat : 1 .. i \subseteq 1 .. k => (Over(x, i)' <=> Over(x, i))
    BY <1>2, <1>3 DEF Over
  <1>5. \A m \in 1 .. k : Over(x, m - 1)' <=> Over(x, m - 1)
    <2> TAKE m \in 1 .. k
    <2>1. m - 1 \in Nat /\ 1 .. m - 1 \subseteq 1 .. k
      OBVIOUS
    <2>2. PICK i \in Nat : i = m - 1
      BY <2>1
    <2>. QED
      BY <1>4, <2>1, <2>2
  <1>6. \A m \in 1 .. k : Opens(m, x, k)' <=> Opens(m, x, k)
    BY <1>2, <1>3, <1>5 DEF Opens
  <1>7. Over(x, k)' <=> Over(x, k)
    BY <1>4
  <1>8. \A m \in 1 .. k : Opens(m, x, k) => log[m].kind = "down"
    BY DEF Opens
  <1>9. HeldBack(x, k)' <=> HeldBack(x, k)
    BY <1>2, <1>6, <1>8 DEF HeldBack
  <1>10. GoesOn(x, k)' <=> GoesOn(x, k)
    BY <1>2, <1>6, <1>8 DEF GoesOn
  <1>11. \A m : Split(x, m, k)' <=> Split(x, m, k)
    BY <1>2 DEF Split
  <1>12. Loosed(x, k)' <=> Loosed(x, k)
    BY <1>2, <1>6, <1>8, <1>11 DEF Loosed
  <1>. QED
    BY <1>7, <1>9, <1>10, <1>12

LEMMA ExcusesSettled ==
    ASSUME BaseInv, BaseInv', LogInv, PausesMove, Adds, NEW n \in DOMAIN log
    PROVE  Excused(n)' <=> Excused(n)
  <1>1. n \in Nat /\ n >= 1 /\ 1 .. n \subseteq DOMAIN log
    BY Types
  <1>2. PICK k \in Nat : k = n - 1 /\ 1 .. k \subseteq DOMAIN log
    BY <1>1
  <1>3. log'[n] = log[n]
    BY ItemSettled
  <1>4. \A x : Loosed(x, k)' <=> Loosed(x, k)
    BY <1>2, GesturesSettled
  <1>. QED
    BY <1>2, <1>3, <1>4 DEF Excused

LEMMA FencesStep ==
    ASSUME NoFence, fences = {}, [Next]_vars
    PROVE  fences' = {}
  <1>1. CASE StartBegin \/ Judge
    BY <1>1 DEF StartBegin, Judge
  <1>2. CASE \/ StartHook \/ StartConsumer \/ StopBegin \/ StopStep \/ PauseRecording \/ ResumeRecording
             \/ InjectTextInput \/ InjectColorTrigger \/ Capture \/ Take \/ CallEmergency \/ Record
             \/ ConsumerEnd \/ UNCHANGED vars
    BY <1>2 DEF StartHook, StartConsumer, StopBegin, StopStep, StopHook, ClosePause, StopSignal, StopJoin,
       PauseRecording, ResumeRecording, InjectTextInput, InjectColorTrigger, Capture, Take, CallEmergency,
       Record, ConsumerEnd, vars
  <1>3. ~SuppressNextKeyRelease
    BY DEF SuppressNextKeyRelease, NoFence
  <1>. QED
    BY <1>1, <1>2, <1>3 DEF Next, Start, Window, Consumer

LEMMA GestureStep ==
    ASSUME EngineInv, GestureInv, [Next]_vars
    PROVE  GestureInv'
  <1>1. BaseInv /\ BaseInv' /\ StopInv /\ LogInv /\ ConsumerInv
    BY BaseStep DEF EngineInv
  <1>2. NoFence => fences' = {}
    BY FencesStep DEF GestureInv
  <1>3. Done \in Nat /\ Done <= Len(log) /\ Len(log) \in Nat /\ DOMAIN log = 1 .. Len(log)
        /\ (Judging => taken = Done + 1 /\ taken \in DOMAIN log) /\ (~Judging => taken = Done)
    BY <1>1, DoneIs
  <1>4. /\ consumer.at = "loop" <=> consumer = Loop
        /\ consumer.at = "absent" <=> consumer = Absent
        /\ Absent.at = "absent" /\ Loop.at = "loop" /\ taken \in Nat
    BY <1>1, ConsumerAt, Types
  <1>5. None \notin Input
    BY RecorderAssumption
  <1>6. ASSUME PausesMove, Adds, NEW x, NEW k \in Nat, 1 .. k \subseteq DOMAIN log
        PROVE  /\ HeldBack(x, k)' <=> HeldBack(x, k)
               /\ GoesOn(x, k)' <=> GoesOn(x, k)
               /\ Loosed(x, k)' <=> Loosed(x, k)
               /\ Over(x, k)' <=> Over(x, k)
    BY <1>1, <1>6, GesturesSettled
  <1>7. ASSUME PausesMove, Adds, NEW n \in DOMAIN log PROVE log'[n] = log[n] /\ (Wanted(n)' <=> Wanted(n))
    BY <1>1, <1>7, ItemSettled
  <1>8. CASE StartBegin
    <2>1. /\ pressed' = {} /\ suppressed' = {} /\ Done' = 0 /\ consumer' = Absent
      BY <1>4, <1>8 DEF StartBegin, Done, Judging
    <2>2. \A x : Over(x, 0)'
      BY DEF Over
    <2>3. ~(consumer.at = "record")'
      BY <1>4, <2>1
    <2>4. \A x \in Input, k \in Nat : k = Done' => TellsOf(x, k)'
      BY <2>1, <2>2 DEF TellsOf, Told
    <2>. QED
      BY <1>2, <2>3, <2>4 DEF GestureInv
  <1>9. CASE Beside
    <2>1. UNCHANGED <<pressed, suppressed, taken>> /\ PausesMove /\ Adds
      BY <1>9 DEF Beside, filter
    <2>2. /\ Done' = Done /\ (consumer'.at = "record" <=> consumer.at = "record")
          /\ consumer.at = "record" => Raw' = Raw
      <3>1. consumer.at = "record" => taken \in DOMAIN log
        BY <1>3 DEF Judging
      <3>. QED
        BY <1>7, <1>9, <2>1, <3>1 DEF Beside, Done, Judging, Raw
    <2>3. ASSUME NEW x \in Input, NEW k \in Nat, k = Done', Tracked(x),
                 ~(consumer'.at = "record" /\ Raw'.input = x)
          PROVE  TellsOf(x, k)'
      <3>1. TellsOf(x, k) /\ 1 .. k \subseteq DOMAIN log
        BY <1>3, <2>2, <2>3 DEF GestureInv
      <3>2. /\ HeldBack(x, k)' <=> HeldBack(x, k)
            /\ GoesOn(x, k)' <=> GoesOn(x, k)
            /\ Loosed(x, k)' <=> Loosed(x, k)
            /\ Over(x, k)' <=> Over(x, k)
        BY <1>6, <2>1, <3>1
      <3>. QED
        BY <2>1, <3>1, <3>2 DEF TellsOf, Told
    <2>4. ASSUME NEW n \in Nat, consumer'.at = "record", n = taken' PROVE Decided(n)'
      <3>1. consumer.at = "record" /\ n = taken /\ n \in DOMAIN log /\ 1 .. n \subseteq DOMAIN log
        BY <1>3, <2>1, <2>2, <2>4 DEF Judging
      <3>2. Decided(n)
        BY <3>1 DEF GestureInv
      <3>3. /\ log'[n] = log[n] /\ (Wanted(n)' <=> Wanted(n))
            /\ GoesOn(log[n].input, n)' <=> GoesOn(log[n].input, n)
            /\ Loosed(log[n].input, n)' <=> Loosed(log[n].input, n)
            /\ Excused(n)' <=> Excused(n)
        BY <1>1, <1>6, <1>7, <2>1, <3>1, ExcusesSettled
      <3>. QED
        BY <2>1, <3>2, <3>3 DEF Decided, Followed
    <2>. QED
      BY <1>2, <2>3, <2>4 DEF GestureInv
  <1>10. CASE Consumer
    <2>1. PausesMove /\ Adds /\ UNCHANGED log
      BY <1>1, <1>10, ConsumerMoves, ConsumerFrame DEF queue
    <2>2. ASSUME NEW x, NEW k \in Nat, 1 .. k \subseteq DOMAIN log
          PROVE  /\ HeldBack(x, k)' <=> HeldBack(x, k)
                 /\ GoesOn(x, k)' <=> GoesOn(x, k)
                 /\ Loosed(x, k)' <=> Loosed(x, k)
                 /\ Over(x, k)' <=> Over(x, k)
      BY <1>6, <2>1, <2>2
    <2>3. CASE UNCHANGED filter /\ consumer'.at # "record" /\ ~Judging
               /\ (Done' = Done \/ /\ Done' = Done + 1 /\ Done' \in DOMAIN log
                                   /\ ~Tracked(log[Done + 1].input))
      <3>1. ASSUME NEW x \in Input, NEW k \in Nat, k = Done', Tracked(x) PROVE TellsOf(x, k)'
        <4>1. PICK d \in Nat : d = Done
          BY <1>3
        <4>2. TellsOf(x, d)
          BY <2>3, <3>1, <4>1 DEF GestureInv, Judging
        <4>3. TellsOf(x, k)
          <5>1. CASE k = d
            BY <4>2, <5>1
          <5>2. CASE k = d + 1 /\ log[k].input # x
            BY <4>2, <5>2, NextItem DEF TellsOf, Told
          <5>. QED
            BY <2>3, <3>1, <4>1, <5>1, <5>2
        <4>4. 1 .. k \subseteq DOMAIN log
          BY <1>3, <2>3, <3>1
        <4>. QED
          BY <2>2, <2>3, <4>3, <4>4 DEF TellsOf, Told, filter
      <3>. QED
        BY <1>2, <2>3, <3>1 DEF GestureInv
    <2>4. CASE Take
      <3>1. /\ consumer = Loop /\ ~Judging /\ taken' = taken + 1 /\ Done = taken /\ UNCHANGED filter
            /\ taken + 1 \in DOMAIN log
        BY <1>3, <1>4, <2>4 DEF Take, Judging
      <3>2. CASE consumer'.at = "judge"
        <4>1. Done' = taken' - 1
          BY <3>2 DEF Done, Judging
        <4>. QED
          BY <1>4, <2>3, <3>1, <3>2, <4>1
      <3>3. CASE consumer'.at \in {"loop", "emergency"} /\ ~Tracked(log[taken + 1].input)
        <4>1. Done' = taken'
          BY <3>3 DEF Done, Judging
        <4>. QED
          BY <2>3, <3>1, <3>3, <4>1
      <3>4. log[taken + 1].kind = "text" => ~Tracked(log[taken + 1].input)
        BY <1>1, <1>5, <3>1, Types DEF Item, Tracked
      <3>5. IsEscPress(log[taken + 1]) => ~Tracked(log[taken + 1].input)
        BY DEF IsEscPress, Tracked
      <3>6. \/ log[taken + 1].kind = "text" /\ consumer' = consumer
            \/ /\ IsEscPress(log[taken + 1])
               /\ consumer' = IF onEmergency THEN [at |-> "emergency"] ELSE Loop
            \/ consumer'.at = "judge"
        BY <2>4 DEF Take
      <3>7. \/ consumer'.at = "judge"
            \/ consumer'.at \in {"loop", "emergency"} /\ ~Tracked(log[taken + 1].input)
        BY <1>4, <3>1, <3>4, <3>5, <3>6
      <3>. QED
        BY <3>2, <3>3, <3>7
    <2>5. CASE CallEmergency \/ ConsumerEnd
      <3>1. /\ consumer.at \in {"emergency", "loop"} /\ consumer'.at \in {"loop", "crashed", "ended"}
            /\ UNCHANGED <<taken, filter>>
        BY <1>4, <2>5 DEF CallEmergency, ConsumerEnd
      <3>2. ~Judging /\ Done' = Done /\ consumer'.at # "record"
        BY <3>1 DEF Done, Judging
      <3>. QED
        BY <2>3, <3>1, <3>2
    <2>6. CASE Judge
      <3>1. PICK n \in Nat : n = taken
        BY <1>4
      <3>2. PICK d \in Nat : d = Done
        BY <1>3
      <3>3. /\ consumer.at = "judge" /\ n = d + 1 /\ n \in DOMAIN log /\ UNCHANGED taken
            /\ 1 .. d \subseteq DOMAIN log /\ 1 .. n \subseteq DOMAIN log
        BY <1>3, <2>6, <3>1, <3>2 DEF Judge, Judging
      <3>4. /\ LeavesOut(n) \/ Decides(n)
            /\ \A y \in Input : Tracked(y) /\ y # log[n].input => LeavesAlone(y, n)
        BY <1>1, <2>6, <3>1, JudgeSteps
      <3>5. \A x \in Input : Tracked(x) => TellsOf(x, d)
        BY <3>2, <3>3 DEF GestureInv
      <3>6. CASE LeavesOut(n)
        <4>1. consumer'.at = "loop" /\ Done' = n
          BY <1>4, <3>1, <3>3, <3>6 DEF LeavesOut, Done, Judging
        <4>2. ASSUME NEW x \in Input, Tracked(x) PROVE TellsOf(x, n)'
          <5>1. Told(x, n, x \in suppressed', x \in pressed')
            <6>1. CASE x = log[n].input
              BY <3>6, <4>2, <6>1 DEF LeavesOut
            <6>2. CASE x # log[n].input
              <7>1. /\ HeldBack(x, d) => HeldBack(x, n)
                    /\ GoesOn(x, d) => GoesOn(x, n)
                    /\ Loosed(x, d) => Loosed(x, n)
                    /\ Over(x, d) => Over(x, n)
                    /\ HeldBack(x, d) /\ ~NoFence /\ log[n].kind = "up" /\ Mates(log[n].input, x)
                         => Loosed(x, n)
                BY <3>3, <6>2, NextItem
              <7>2. LeavesAlone(x, n) /\ TellsOf(x, d)
                BY <3>4, <3>5, <4>2, <6>2
              <7>. QED
                BY <7>1, <7>2 DEF LeavesAlone, TellsOf, Told
            <6>. QED
              BY <6>1, <6>2
          <5>. QED
            BY <2>2, <3>3, <5>1 DEF TellsOf, Told
        <4>. QED
          BY <1>2, <4>1, <4>2 DEF GestureInv
      <3>7. CASE Decides(n)
        <4>1. consumer'.at = "record" /\ Done' = d /\ Raw' = log[n] /\ taken' = n
          BY <1>3, <2>1, <3>1, <3>2, <3>3, <3>7 DEF Decides, Done, Judging, Raw
        <4>2. ASSUME NEW x \in Input, Tracked(x), x # log[n].input PROVE TellsOf(x, d)'
          <5>1. (x \in suppressed' <=> x \in suppressed) /\ (x \in pressed' <=> x \in pressed)
            BY <1>4, <3>4, <4>1, <4>2 DEF LeavesAlone
          <5>2. TellsOf(x, d)
            BY <3>5, <4>2
          <5>. QED
            BY <2>2, <3>3, <5>1, <5>2 DEF TellsOf, Told
        <4>3. Decided(n)'
          <5>1. /\ GoesOn(log[n].input, n)' <=> GoesOn(log[n].input, n)
                /\ Loosed(log[n].input, n)' <=> Loosed(log[n].input, n)
                /\ Wanted(n)' <=> Wanted(n)
                /\ Excused(n)' <=> Excused(n)
            BY <1>1, <1>7, <2>1, <2>2, <3>3, ExcusesSettled
          <5>. QED
            BY <2>1, <3>7, <5>1 DEF Decides, Decided, Followed
        <4>. QED
          BY <1>2, <4>1, <4>2, <4>3 DEF GestureInv
      <3>. QED
        BY <3>4, <3>6, <3>7
    <2>7. CASE Record
      <3>1. PICK n \in Nat : n = taken
        BY <1>4
      <3>2. PICK d \in Nat : d = Done
        BY <1>3
      <3>3. /\ consumer.at = "record" /\ n = d + 1 /\ n \in DOMAIN log /\ UNCHANGED <<taken, suppressed>>
            /\ consumer' = Loop /\ 1 .. n \subseteq DOMAIN log /\ Raw = log[n]
        BY <1>3, <2>7, <3>1, <3>2 DEF Record, Drop, Judging, Raw
      <3>4. consumer'.at = "loop" /\ Done' = n
        BY <1>4, <3>1, <3>3 DEF Done, Judging
      <3>5. Decided(n) /\ \A x \in Input : Tracked(x) /\ x # log[n].input => TellsOf(x, d)
        BY <3>1, <3>2, <3>3 DEF GestureInv
      <3>6. \/ UNCHANGED pressed /\ log[n].input \in Hotkey
            \/ pressed' = IF log[n].kind = "down" THEN pressed \cup {log[n].input}
                                                  ELSE pressed \ {log[n].input}
        <4>1. log[n].time \in Nat /\ consumer.stamp = Shifted(log[n].time)
          BY <1>1, <3>3, Types DEF ConsumerInv
        <4>2. ~InPause(consumer.stamp)
          BY <1>1, <4>1, ShiftedType
        <4>. QED
          BY <2>7, <3>3, <4>2 DEF Record
      <3>7. ASSUME NEW x \in Input, Tracked(x) PROVE TellsOf(x, n)'
        <4>1. Told(x, n, x \in suppressed, x \in pressed')
          <5>1. CASE x # log[n].input
            <6>1. /\ HeldBack(x, d) => HeldBack(x, n)
                  /\ GoesOn(x, d) => GoesOn(x, n)
                  /\ Loosed(x, d) => Loosed(x, n)
                  /\ Over(x, d) => Over(x, n)
              BY <3>3, <5>1, NextItem
            <6>2. x \in pressed' <=> x \in pressed
              BY <3>6, <5>1
            <6>. QED
              BY <3>5, <3>7, <5>1, <6>1, <6>2 DEF TellsOf, Told
          <5>2. CASE x = log[n].input
            <6>1. /\ x \notin suppressed /\ x \notin Hotkey
                  /\ log[n].kind = "down" => GoesOn(x, n) \/ Loosed(x, n)
              BY <3>5, <3>7, <5>2 DEF Decided, Tracked
            <6>2. log[n].kind = "up" => Over(x, n)
              BY <3>3, <5>2, NextItem
            <6>3. log[n].kind \in {"up", "down"}
              BY <1>1, <1>5, <3>3, <5>2, Types DEF Item
            <6>. QED
              BY <3>6, <5>2, <6>1, <6>2, <6>3 DEF Told
          <5>. QED
            BY <5>1, <5>2
        <4>. QED
          BY <2>2, <3>3, <4>1 DEF TellsOf, Told
      <3>. QED
        BY <1>2, <3>4, <3>7 DEF GestureInv
    <2>. QED
      BY <1>10, <2>4, <2>5, <2>6, <2>7 DEF Consumer
  <1>. QED
    BY <1>1, <1>8, <1>9, <1>10, StepBeside

-----------------------------------------------------------------------------
(* What is buffered was wanted; and what was wanted is buffered, where no  *)
(* alarm and no fence takes items out.                                     *)

SoundInv ==
    \A i \in Captured, n \in Nat :
        buffer[i].of = n =>
            log[n].input \notin Hotkey /\ (Followed(n) => Wanted(n) \/ Excused(n))

WholeInv == \A n \in 1 .. Done : Wanted(n) => \E i \in Captured : buffer[i].of = n

LEMMA SoundStep ==
    ASSUME EngineInv, GestureInv, SoundInv, [Next]_vars
    PROVE  SoundInv'
  <1>1. BaseInv /\ BaseInv' /\ StopInv /\ LogInv /\ ConsumerInv /\ StampInv
    BY BaseStep DEF EngineInv
  <1>2. 1 .. Done \subseteq DOMAIN log /\ None \notin Hotkey
    BY <1>1, DoneIs, RecorderAssumption DEF Input
  <1>3. ASSUME PausesMove, Adds, NEW n \in DOMAIN log
        PROVE  /\ log'[n] = log[n] /\ (Followed(n)' <=> Followed(n))
               /\ Wanted(n)' <=> Wanted(n)
               /\ Excused(n)' <=> Excused(n)
    <2>1. log'[n] = log[n] /\ (Wanted(n)' <=> Wanted(n)) /\ (Excused(n)' <=> Excused(n))
      BY <1>1, <1>3, ItemSettled, ExcusesSettled
    <2>. QED
      BY <2>1 DEF Followed
  <1>4. ASSUME PausesMove, Adds, NEW i \in Captured, NEW n \in Nat, buffer[i].of = n
        PROVE  log'[n].input \notin Hotkey /\ (Followed(n)' => Wanted(n)' \/ Excused(n)')
    <2>1. n \in DOMAIN log
      BY <1>1, <1>2, <1>4 DEF StampInv
    <2>. QED
      BY <1>3, <1>4, <2>1 DEF SoundInv
  <1>5. ASSUME PausesMove, Adds, Captured' = Captured, \A i \in Captured : buffer'[i] = buffer[i]
        PROVE  SoundInv'
    BY <1>4, <1>5 DEF SoundInv
  <1>6. CASE StartBegin
    <2>1. Captured' = {}
      BY <1>6 DEF StartBegin, Captured
    <2>. QED
      BY <2>1 DEF SoundInv
  <1>7. CASE Beside
    BY <1>1, <1>5, <1>7, CapturedKept DEF Beside
  <1>8. CASE Consumer
    <2>1. PausesMove /\ Adds
      BY <1>1, <1>8, ConsumerMoves
    <2>2. CASE UNCHANGED buffer
      BY <1>1, <1>5, <2>1, <2>2, CapturedKept
    <2>3. ASSUME NEW n \in Nat, Writes(n) PROVE SoundInv'
      <3>1. PICK k \in Nat :
             /\ Captured' = Captured \cup {k}
             /\ \A i \in Captured : buffer'[i] = buffer[i]
             /\ buffer'[k].of = n
        BY <1>1, <2>3, CapturedMore
      <3>2. n \in DOMAIN log /\ log[n] \in Item
        BY <1>1, <2>3, Types DEF Writes
      <3>3. log[n].input \notin Hotkey /\ (Followed(n) => Wanted(n) \/ Excused(n))
        <4>1. CASE log[n].kind = "text"
          BY <1>2, <3>2, <4>1 DEF Wanted, Item
        <4>2. CASE consumer.at = "record" /\ n = taken /\ log[n].input \notin Hotkey
          BY <4>2 DEF GestureInv, Decided
        <4>. QED
          BY <2>3, <4>1, <4>2 DEF Writes
      <3>4. log'[n].input \notin Hotkey /\ (Followed(n)' => Wanted(n)' \/ Excused(n)')
        BY <1>3, <2>1, <3>2, <3>3
      <3> SUFFICES ASSUME NEW i \in Captured', NEW m \in Nat, buffer'[i].of = m
                   PROVE  log'[m].input \notin Hotkey /\ (Followed(m)' => Wanted(m)' \/ Excused(m)')
        BY DEF SoundInv
      <3>5. CASE i = k
        BY <3>1, <3>4, <3>5
      <3>6. CASE i \in Captured
        BY <1>4, <2>1, <3>1, <3>6
      <3>. QED
        BY <3>1, <3>5, <3>6
    <2>. QED
      BY <1>1, <1>8, <2>2, <2>3, ConsumerBuffers
  <1>. QED
    BY <1>1, <1>6, <1>7, <1>8, StepBeside

(* What the consumer is done with and has not buffered was not wanted.     *)
LEMMA ConsumerLeaves ==
    ASSUME NoAlarm, NoFence, EngineInv, GestureInv, Consumer, UNCHANGED buffer,
           NEW n \in Nat, n = Done + 1, Done' = n
    PROVE  n \in DOMAIN log /\ ~Wanted(n)
  <1>1. BaseInv /\ LogInv /\ ConsumerInv
    BY DEF EngineInv
  <1>2. /\ Done \in Nat /\ DOMAIN log = 1 .. Len(log) /\ Len(log) \in Nat
        /\ Judging => taken = n /\ taken \in DOMAIN log
        /\ ~Judging => taken = Done
    BY <1>1, DoneIs
  <1>3. \A e \in Entry : buffer' # Append(buffer, e)
    <2> SUFFICES ASSUME NEW e \in Entry, buffer' = Append(buffer, e) PROVE FALSE
      OBVIOUS
    <2>1. Len(buffer) \in Nat /\ Len(buffer') = Len(buffer) + 1
      BY <1>1, Buffered, Types
    <2>. QED
      BY <2>1
  <1>4. ASSUME n \in DOMAIN log, log[n].kind # "text", log[n].input \in Hotkey PROVE ~Wanted(n)
    BY <1>4 DEF Wanted
  <1>5. n \in DOMAIN log /\ log[n].input \notin Hotkey => Followed(n)
    BY DEF Followed, Tracked, NoAlarm
  <1>6. /\ consumer.at = "loop" <=> consumer = Loop
        /\ Loop.at = "loop"
    BY <1>1, ConsumerAt
  <1>7. CASE Take
    <2>1. ~Judging /\ taken' = taken + 1 /\ taken = Done /\ n \in DOMAIN log /\ n = taken + 1
          /\ log[n] \in Item
      <3>1. ~Judging /\ taken' = taken + 1 /\ taken < Len(log)
        BY <1>6, <1>7 DEF Take, Judging
      <3>2. taken = Done /\ n \in DOMAIN log /\ n = taken + 1
        BY <1>2, <3>1
      <3>. QED
        BY <1>1, <3>1, <3>2, Types
    <2>2. [of |-> n, time |-> log[n].time] \in Entry
      BY <1>1, <2>1, Types DEF Entry
    <2>3. ~IsEscPress(log[n])
      BY <2>1 DEF IsEscPress, Item, NoAlarm
    <2>4. consumer'.at = "judge"
      BY <1>3, <1>7, <2>1, <2>2, <2>3 DEF Take
    <2>5. Done' = Done
      BY <1>2, <2>1, <2>4 DEF Done, Judging
    <2>. QED
      BY <1>2, <2>5
  <1>8. CASE CallEmergency \/ ConsumerEnd
    <2>1. consumer.at \notin {"judge", "record"} /\ consumer'.at \notin {"judge", "record"} /\ UNCHANGED taken
      BY <1>6, <1>8 DEF CallEmergency, ConsumerEnd
    <2>2. Done' = Done
      BY <2>1 DEF Done, Judging
    <2>. QED
      BY <1>2, <2>2
  <1>9. CASE Judge
    <2>1. consumer.at = "judge" /\ n = taken /\ n \in DOMAIN log /\ UNCHANGED taken /\ log[n].kind # "text"
      BY <1>1, <1>2, <1>9 DEF Judge, Judging, BaseInv, ItemInv, Raw
    <2>2. CASE Decides(n)
      <3>1. Done' = taken - 1
        BY <2>1, <2>2 DEF Decides, Done, Judging
      <3>. QED
        BY <1>2, <2>1, <3>1
    <2>3. CASE LeavesOut(n)
      BY <1>4, <1>5, <2>1, <2>3 DEF LeavesOut
    <2>. QED
      BY <1>1, <1>9, <2>1, <2>2, <2>3, JudgeSteps
  <1>10. CASE Record
    <2>1. consumer.at = "record" /\ n = taken /\ n \in DOMAIN log /\ log[n].kind # "text"
      BY <1>1, <1>2, <1>10 DEF Record, Judging, BaseInv, ItemInv, Raw
    <2>2. log[n].time \in Nat /\ consumer.stamp = Shifted(log[n].time)
      BY <1>1, <2>1, Types DEF ConsumerInv, Raw
    <2>3. ~InPause(consumer.stamp) /\ consumer.stamp \in Nat
      BY <1>1, <2>2, ShiftedType
    <2>4. [of |-> taken, time |-> Project(consumer.stamp)] \in Entry
      BY <2>1, <2>3, ProjectNat DEF Entry
    <2>5. log[n].input \in Hotkey
      BY <1>3, <1>10, <2>1, <2>3, <2>4 DEF Record, Raw
    <2>. QED
      BY <1>4, <2>1, <2>5
  <1>. QED
    BY <1>7, <1>8, <1>9, <1>10 DEF Consumer

LEMMA WholeStep ==
    ASSUME NoAlarm, NoFence, EngineInv, GestureInv, WholeInv, [Next]_vars
    PROVE  WholeInv'
  <1>1. BaseInv /\ BaseInv' /\ StopInv /\ LogInv /\ ConsumerInv
    BY BaseStep DEF EngineInv
  <1>2. Done \in Nat /\ 1 .. Done \subseteq DOMAIN log
    BY <1>1, DoneIs
  <1>3. ASSUME PausesMove, Adds, NEW n \in DOMAIN log PROVE Wanted(n)' <=> Wanted(n)
    BY <1>1, <1>3, ItemSettled
  <1>4. ASSUME PausesMove, Adds, Captured \subseteq Captured', \A i \in Captured : buffer'[i] = buffer[i]
        PROVE  \A n \in 1 .. Done : Wanted(n)' => \E i \in Captured' : buffer'[i].of = n
    <2> TAKE n \in 1 .. Done
    <2>1. Wanted(n)' <=> Wanted(n)
      BY <1>2, <1>3, <1>4
    <2>. QED
      BY <1>4, <2>1 DEF WholeInv
  <1>5. CASE StartBegin
    <2>1. Done' = 0
      BY <1>1, <1>5, ConsumerAt DEF StartBegin, Done, Judging
    <2>. QED
      BY <2>1 DEF WholeInv
  <1>6. CASE Beside
    <2>1. Done' = Done
      BY <1>6 DEF Beside, Done, Judging
    <2>2. Captured' = Captured /\ \A i \in Captured : buffer'[i] = buffer[i]
      BY <1>1, <1>6, CapturedKept DEF Beside
    <2>. QED
      BY <1>4, <1>6, <2>1, <2>2 DEF Beside, WholeInv
  <1>7. CASE Consumer
    <2>1. PausesMove /\ Adds
      BY <1>1, <1>7, ConsumerMoves
    <2>2. CASE UNCHANGED buffer /\ Done' \in {Done, Done + 1}
      <3>1. \A n \in 1 .. Done : Wanted(n)' => \E i \in Captured' : buffer'[i].of = n
        BY <1>1, <1>4, <2>1, <2>2, CapturedKept
      <3>2. ASSUME NEW n \in Nat, n = Done + 1, Done' = n PROVE ~Wanted(n)'
        BY <1>3, <1>7, <2>1, <2>2, <3>2, ConsumerLeaves
      <3>3. \A n \in 1 .. Done + 1 : n \in Nat /\ (n \in 1 .. Done \/ n = Done + 1)
        BY <1>2
      <3>. QED
        BY <2>2, <3>1, <3>2, <3>3 DEF WholeInv
    <2>3. ASSUME NEW n \in Nat, Writes(n) PROVE WholeInv'
      <3>1. PICK k \in Nat :
             /\ Captured' = Captured \cup {k}
             /\ \A i \in Captured : buffer'[i] = buffer[i]
             /\ buffer'[k].of = n
        BY <1>1, <2>3, CapturedMore
      <3>2. n = Done + 1 /\ Done' = n
        BY <2>3 DEF Writes
      <3>3. \A m \in 1 .. Done : Wanted(m)' => \E i \in Captured' : buffer'[i].of = m
        BY <1>4, <2>1, <3>1
      <3>4. \A m \in 1 .. Done' : m \in 1 .. Done \/ m = n
        BY <1>2, <3>2
      <3>. QED
        BY <3>1, <3>3, <3>4 DEF WholeInv
    <2>. QED
      BY <1>1, <1>7, <2>2, <2>3, ConsumerBuffers
  <1>. QED
    BY <1>1, <1>5, <1>6, <1>7, StepBeside

GestureEngine == EngineInv /\ GestureInv /\ SoundInv

LEMMA GestureInit == Init => GestureEngine /\ WholeInv
  <1> SUFFICES ASSUME Init PROVE GestureEngine /\ WholeInv
    OBVIOUS
  <1>1. EngineInv
    BY EngineInit
  <1>2. Done = 0 /\ consumer.at = "absent" /\ Captured = {}
    BY DEF Init, Done, Judging, Absent, Captured
  <1>3. \A x : Over(x, 0)
    BY DEF Over
  <1>4. GestureInv
    BY <1>2, <1>3 DEF Init, GestureInv, TellsOf, Told
  <1>. QED
    BY <1>1, <1>2, <1>4 DEF GestureEngine, SoundInv, WholeInv

LEMMA GestureEngineStep == GestureEngine /\ [Next]_vars => GestureEngine'
  BY EngineStep, GestureStep, SoundStep DEF GestureEngine

(* A key pressed inside a pause does not come back as a lone release,      *)
(* whenever the consumer comes to it and whenever the pause ends, unless   *)
(* another key of its fence was let go in between: for any keys, buttons,  *)
(* fences and failures.                                                    *)
THEOREM PausesTakeGestures == Spec => []OnlyFencesSplitGestures
  <1>1. GestureEngine => OnlyFencesSplitGestures
    <2> SUFFICES ASSUME GestureEngine, NEW i \in Captured, NEW n \in Nat, n = buffer[i].of,
                        log[n].kind = "up", log[n].input # Esc,
                        NEW s \in GestureStarts(n), PausedItem(s)
                 PROVE  FenceSplits(s, n)
      <3>1. GestureEngine => \A i \in Captured : buffer[i].of \in Nat
        BY Types DEF GestureEngine, EngineInv, Captured
      <3>. QED
        BY <3>1 DEF OnlyFencesSplitGestures
    <2> DEFINE x == log[n].input
    <2>1. BaseInv /\ StampInv /\ SoundInv
      BY DEF GestureEngine, EngineInv
    <2>2. n \in DOMAIN log /\ n >= 1
      BY <2>1, DoneIs DEF StampInv
    <2>3. x \in Input
      BY <2>1, <2>2, Types DEF Item
    <2>4. Followed(n)
      BY <2>1, <2>3 DEF SoundInv, Followed, Tracked
    <2>5. Excused(n)
      BY <2>1, <2>4 DEF SoundInv, Wanted
    <2>6. PICK k \in Nat : k = n - 1 /\ n = k + 1
      BY <2>2
    <2>7. PICK m \in 1 .. k : Opens(m, x, k) /\ Split(x, m, k)
      BY <2>5, <2>6 DEF Excused, Loosed
    <2>8. s \in Nat
      BY DEF GestureStarts, Same
    <2>9. s \in 1 .. k /\ Opens(s, x, k)
      BY <2>6, <2>8, StartsAre
    <2>10. s = m
      BY <2>7, <2>9, OneGesture
    <2>11. PICK u \in 1 .. k : s < u /\ log[u].kind = "up" /\ Mates(log[u].input, x)
      BY <2>7, <2>10 DEF Split
    <2>12. u \in s + 1 .. n - 1
      BY <2>6, <2>8, <2>11
    <2>. QED
      BY <2>11, <2>12 DEF FenceSplits
  <1>. QED
    BY <1>1, GestureInit, GestureEngineStep, PTL DEF Spec

(* However far the consumer lags behind the hook, and wherever pauses and  *)
(* resumes fall between its steps, the buffer is what the captured items   *)
(* ask for, where neither the alarm nor a fence takes items out.           *)
THEOREM RecordedFaithfully == NoAlarm /\ NoFence => (Spec => []Faithful)
  <1> SUFFICES ASSUME NoAlarm, NoFence PROVE Spec => []Faithful
    OBVIOUS
  <1> DEFINE Inv == GestureEngine /\ WholeInv
  <1>1. Inv /\ [Next]_vars => Inv'
    BY GestureEngineStep, WholeStep DEF GestureEngine
  <1>2. Inv => Faithful
    <2> SUFFICES ASSUME Inv, consumer.at \in {"loop", "ended"}
                 PROVE  /\ {buffer[i].of : i \in Captured} = {n \in 1 .. taken : Wanted(n)}
                        /\ \A i \in Captured : buffer[i].time = TimeOf(buffer[i].of)
                        /\ \A i, j \in Captured : i < j => buffer[i].of < buffer[j].of
      BY DEF Faithful
    <2>1. BaseInv /\ StampInv /\ SoundInv
      BY DEF GestureEngine, EngineInv
    <2>2. Done = taken
      BY DEF Done, Judging
    <2>3. ASSUME NEW i \in Captured
          PROVE  /\ buffer[i].of \in 1 .. taken /\ buffer[i].time = TimeOf(buffer[i].of)
                 /\ Wanted(buffer[i].of)
      <3>1. PICK n \in Nat : n = buffer[i].of
        BY <2>1, Types DEF Captured
      <3>2. n \in 1 .. taken /\ buffer[i].time = TimeOf(n)
        BY <2>1, <2>2, <3>1 DEF StampInv
      <3>3. Followed(n) => Wanted(n)
        BY <2>1, <3>1 DEF SoundInv, Excused
      <3>4. Followed(n)
        BY <2>1, <3>1 DEF SoundInv, Followed, Tracked, NoAlarm
      <3>. QED
        BY <3>1, <3>2, <3>3, <3>4
    <2>4. \A n \in 1 .. taken : Wanted(n) => \E i \in Captured : buffer[i].of = n
      BY <2>2 DEF WholeInv
    <2>. QED
      BY <2>1, <2>3, <2>4 DEF StampInv
  <1>. QED
    BY <1>1, <1>2, GestureInit, PTL DEF Spec

=============================================================================
