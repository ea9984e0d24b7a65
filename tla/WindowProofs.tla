---------------------------- MODULE WindowProofs ----------------------------
(***************************************************************************)
(* What the window shows is what runs, and a recording lands as it was     *)
(* asked for: proved for any number of playbacks, recordings, repetitions  *)
(* and messages, of a user who presses no hotkeys while a question is open *)
(* and does not ask twice to stop a recording (Careful).                   *)
(***************************************************************************)
EXTENDS Window, FiniteSetTheorems, TLAPS

Careful == ~Rash

(* The quick-run keys can always be suspended for a recording.             *)
KeysSuspend == "suspend" \notin Faults

-----------------------------------------------------------------------------
(* The invariant.                                                          *)

Live(s) == worker[s].pc \notin {"none", "ended"}

(* Sessions are taken in their order.                                      *)
InOrder == \E m \in 0 .. MaxSessions : \A s \in Sessions : worker[s].pc = "none" <=> s > m

(* A worker that nobody stopped is that of the session of the window, and  *)
(* counts as active; it starts a player only while nobody may have passed  *)
(* the gate.                                                               *)
WorkersObey == \A s \in Sessions :
    /\ Live(s) /\ ~repeat[s].stopped => session = s /\ repeat[s].active
    /\ done[s] # "no" => worker[s].pc = "wait"
    /\ worker[s].pc = "starting" => ~repeat[s].stopped

(* The worker of a player that was not told to stop waits for it.          *)
PlayerObeys == player.phase = "running" /\ ~player.stop =>
    /\ player.owner \in Sessions
    /\ worker[player.owner].pc = "wait" /\ done[player.owner] = "no"
    /\ ~repeat[player.owner].stopped

WindowPlays ==
    /\ session # 0 <=> state = "playing"
    /\ session # 0 /\ ~repeat[session].stopped => hook
    /\ state = "playing" => paused = pauseEvent

(* The GUI thread joins a player that was told to stop, of a session that  *)
(* was.  A window that closes has no dialogs, and nothing goes on in one   *)
(* that is closed.                                                         *)
GuiWaits ==
    /\ gui \in {"stopping", "closing"} =>
            /\ state = "playing" /\ repeat[session].stopped
            /\ player.phase = "running" => player.stop
    /\ gui = "leaving" => state = "idle"
    /\ gui \in {"closing", "leaving"} => dialogs = <<>>
    /\ closed => state = "idle" /\ seq = "off"

(* A worker posts as the last thing it does, and so does the save worker:  *)
(* it is waited for until its one message is handled.                      *)
OfSaver(m) == m.kind \in {"stopError", "recorded"}

Tells(m) ==
    /\ m.kind \in {"complete", "error"} => worker[m.of].pc = "ended"
    /\ OfSaver(m) => saver = "ended"
    /\ m.kind = "recorded" => ~rec.on /\ m.gen = gen
    /\ m.kind = "stopError" => rec.on

MessagesTrue ==
    /\ \A i \in 1 .. Len(queue) : Tells(queue[i])
    /\ \A i, j \in 1 .. Len(queue) : OfSaver(queue[i]) /\ OfSaver(queue[j]) => i = j

(* The state tells what the recorder and the save worker do.               *)
RecordingKnown ==
    /\ state \in {"idle", "playing"} => ~rec.on /\ quick # "off"
    /\ state = "recording" => rec.on /\ saver = "none" /\ rec.paused = paused
    /\ saver # "none" => state = "stopping"
    /\ saver = "stopping" => rec.on
    /\ saver = "saving" => ~rec.on
    /\ rec.on => quick = "off"
    /\ state \in {"recording", "stopping"} => gen >= 1
    /\ state = "stopping" /\ saver = "none" =>
            rec.on \/ (dialogs # <<>> /\ dialogs[1].kind = "notRestored")

SequenceAlone ==
    /\ seq # "off" => state = "idle"
    /\ seq = "on" => hook

(* At most one dialog takes a text, and at most one other is open, on top  *)
(* of it.  While that one asks, what it asked about stays as it was: the   *)
(* answer is not checked again.                                            *)
Text(d) == d.kind \in {"quickText", "quickFailed", "focusLost"}
Question(d) == d.kind \in {"repeat", "append", "discard", "sequenceError"}

Nested(ds) ==
    /\ Len(ds) <= 2
    /\ Len(ds) = 2 => /\ ~Text(ds[1]) /\ Text(ds[2])
                      /\ ds[1].kind \notin {"append", "discard"}
                      /\ ds[1].kind = "repeat" => ds[2].kind = "quickText"

Fits(d) ==
    /\ Question(d) => state = "idle" /\ seq = "off"
    /\ d.kind = "notRestored" => state = "stopping" /\ saver = "none" /\ ~rec.on
                                    /\ quick # "off" /\ d.gen = gen
    /\ Text(d) => quickText /\ d.gen <= gen /\ (d.gen = gen /\ rec.on => rec.paused)
    /\ d.kind = "focusLost" => state # "playing" /\ (state = "recording" => rec.paused)

DialogsNest == Nested(dialogs) /\ \A i \in 1 .. Len(dialogs) : Fits(dialogs[i])

WindowInv ==
    /\ TypeOK
    /\ InOrder /\ WorkersObey /\ PlayerObeys /\ WindowPlays /\ GuiWaits
    /\ MessagesTrue /\ RecordingKnown /\ SequenceAlone /\ DialogsNest

(* What a recording becomes is fixed when it begins: the mode and the base *)
(* are those it was asked with, and the macro it replaces is put aside.    *)
AskedInv ==
    /\ prev # <<>> => macro # <<>>
    /\ state \in {"idle", "playing"} => ~appendMode
    /\ state \in {"recording", "stopping"} =>
            /\ wanted = IF appendMode /\ base # <<>> THEN Append(base, gen) ELSE <<gen>>
            /\ prev = macro
    /\ dialogs # <<>> /\ dialogs[1].kind = "append" => macro # <<>>

-----------------------------------------------------------------------------
(* Types, by what they are of: the threads, the queue, the window.         *)

ThreadTypes ==
    /\ pauseEvent \in BOOLEAN /\ session \in Sessions \cup {0}
    /\ repeat \in [Sessions -> [active : BOOLEAN, stopped : BOOLEAN]]
    /\ worker \in [Sessions -> [pc : Place, cycle : Nat, total : Cycles \cup {0, 1}]]
    /\ done \in [Sessions -> {"no", "ok", "error"}]
    /\ player \in [owner : Sessions \cup {0}, phase : {"none", "running", "returning"},
                   stop : BOOLEAN]

QueueTypes == queue \in Seq(Message)

DialogTypes == dialogs \in Seq(Dialog)

MacroTypes == base \in Macro /\ macro \in Macro /\ prev \in Macro /\ wanted \in Macro

WindowTypes ==
    /\ state \in State
    /\ paused \in BOOLEAN /\ polling \in BOOLEAN /\ hook \in BOOLEAN
    /\ gui \in {"free", "stopping", "closing", "joining", "draining", "leaving"}
    /\ closed \in BOOLEAN
    /\ seq \in {"off", "on", "stopping"}
    /\ rec \in [on : BOOLEAN, paused : BOOLEAN]
    /\ saver \in {"none", "stopping", "saving", "ended"} /\ gen \in 0 .. MaxRecordings
    /\ quick \in {"on", "off", "refused"} /\ quickText \in BOOLEAN
    /\ appendMode \in BOOLEAN

LEMMA Types ==
    TypeOK <=> ThreadTypes /\ QueueTypes /\ DialogTypes /\ MacroTypes /\ WindowTypes
  BY DEF TypeOK, ThreadTypes, QueueTypes, DialogTypes, MacroTypes, WindowTypes

LEMMA TypesNext ==
    TypeOK' <=> ThreadTypes' /\ QueueTypes' /\ DialogTypes' /\ MacroTypes' /\ WindowTypes'
  BY DEF TypeOK, ThreadTypes, QueueTypes, DialogTypes, MacroTypes, WindowTypes

-----------------------------------------------------------------------------
(* Sequences.                                                              *)

LEMMA AppendFacts ==
    ASSUME NEW S, NEW q \in Seq(S), NEW e \in S
    PROVE  /\ Append(q, e) \in Seq(S)
           /\ Len(Append(q, e)) = Len(q) + 1
           /\ \A i \in 1 .. Len(q) : Append(q, e)[i] = q[i]
           /\ Append(q, e)[Len(q) + 1] = e
  OBVIOUS

LEMMA TailFacts ==
    ASSUME NEW S, NEW q \in Seq(S), q # <<>>
    PROVE  /\ Len(q) \in Nat /\ Len(q) >= 1 /\ Head(q) = q[1] /\ q[1] \in S
           /\ Tail(q) \in Seq(S) /\ Len(Tail(q)) = Len(q) - 1
           /\ \A i \in 1 .. Len(q) - 1 : Tail(q)[i] = q[i + 1]
  OBVIOUS

LEMMA PushFacts ==
    ASSUME NEW S, NEW q \in Seq(S), NEW e \in S
    PROVE  /\ <<e>> \o q \in Seq(S)
           /\ Len(<<e>> \o q) = Len(q) + 1
           /\ (<<e>> \o q)[1] = e
           /\ \A i \in 1 .. Len(q) : (<<e>> \o q)[i + 1] = q[i]
  OBVIOUS

LEMMA SessionsPositive == 0 \notin Sessions
  BY WindowAssumption DEF Sessions

-----------------------------------------------------------------------------
(* The threads.                                                            *)

(* What a step of a worker may do without disturbing the window: it moves  *)
(* on within its own session, posts at its end, and leaves an unstopped    *)
(* player only when that has called back.                                  *)
WorkerMoves(s) ==
    /\ UNCHANGED <<window, session, pauseEvent>>
    /\ Live(s) /\ worker'[s].pc # "none"
    /\ \A t \in Sessions \ {s} :
            worker'[t] = worker[t] /\ repeat'[t] = repeat[t] /\ done'[t] = done[t]
    /\ repeat'[s].stopped = repeat[s].stopped
    /\ repeat[s].active => repeat'[s].active \/ worker'[s].pc = "ended"
    /\ worker'[s].pc = "starting" => ~repeat[s].stopped
    /\ done'[s] # "no" => worker'[s].pc = "wait"

Posts(s) ==
    \/ UNCHANGED queue
    \/ \E kind \in {"complete", "error"} :
            worker'[s].pc = "ended" /\ Post([kind |-> kind, of |-> s])

Plays(s) ==
    \/ /\ UNCHANGED player
       /\ player.phase = "running" /\ ~player.stop => player.owner # s
    \/ /\ player'.phase = "running" /\ ~player'.stop /\ player'.owner = s
       /\ worker'[s].pc = "wait" /\ done'[s] = "no" /\ ~repeat[s].stopped

LEMMA WorkerKeeps ==
    ASSUME WindowInv, NEW s \in Sessions, WorkerMoves(s), Posts(s), Plays(s), ThreadTypes'
    PROVE  WindowInv'
  <1>1. ThreadTypes /\ QueueTypes /\ DialogTypes /\ MacroTypes /\ WindowTypes
    BY Types DEF WindowInv
  <1>2. UNCHANGED <<state, paused, polling, hook, gui, closed, dialogs, seq>>
    BY DEF WorkerMoves, window, display, life
  <1>3. UNCHANGED <<rec, saver, gen, quick, quickText>>
    BY DEF WorkerMoves, window, recording
  <1>4. UNCHANGED <<appendMode, base, macro, prev, wanted>>
    BY DEF WorkerMoves, window, content
  <1>5. UNCHANGED session /\ UNCHANGED pauseEvent
    BY DEF WorkerMoves
  <1>6. QueueTypes'
    <2>1. ASSUME NEW kind \in {"complete", "error"}, Post([kind |-> kind, of |-> s])
          PROVE  QueueTypes'
      <3>1. [kind |-> kind, of |-> s] \in Message
        BY DEF Message
      <3>. QED
        BY <1>1, <2>1, <3>1, AppendFacts DEF Post, QueueTypes
    <2>. QED
      BY <1>1, <2>1 DEF Posts, QueueTypes
  <1>7. TypeOK'
    BY <1>1, <1>2, <1>3, <1>4, <1>6, TypesNext DEF DialogTypes, MacroTypes, WindowTypes
  <1>8. InOrder'
    BY DEF WindowInv, InOrder, WorkerMoves, Live
  <1>9. WorkersObey'
    <2> SUFFICES ASSUME NEW t \in Sessions
                 PROVE  /\ Live(t)' /\ ~repeat'[t].stopped => session' = t /\ repeat'[t].active
                        /\ done'[t] # "no" => worker'[t].pc = "wait"
                        /\ worker'[t].pc = "starting" => ~repeat'[t].stopped
      BY DEF WorkersObey
    <2>1. CASE t = s
      BY <1>5, <2>1 DEF WindowInv, WorkersObey, WorkerMoves, Live
    <2>2. CASE t # s
      BY <1>5, <2>2 DEF WindowInv, WorkersObey, WorkerMoves, Live
    <2>. QED
      BY <2>1, <2>2
  <1>10. PlayerObeys'
    <2>1. CASE /\ UNCHANGED player
               /\ player.phase = "running" /\ ~player.stop => player.owner # s
      BY <2>1 DEF WindowInv, PlayerObeys, WorkerMoves
    <2>2. CASE /\ player'.phase = "running" /\ ~player'.stop /\ player'.owner = s
               /\ worker'[s].pc = "wait" /\ done'[s] = "no" /\ ~repeat[s].stopped
      BY <2>2 DEF PlayerObeys, WorkerMoves
    <2>. QED
      BY <2>1, <2>2 DEF Plays
  <1>11. \A t \in Sessions : repeat'[t].stopped = repeat[t].stopped
    BY DEF WorkerMoves
  <1>12. WindowPlays'
    BY <1>1, <1>2, <1>5, <1>11 DEF WindowInv, WindowPlays, ThreadTypes
  <1>13. GuiWaits'
    <2>1. gui \in {"stopping", "closing"} => session \in Sessions
      BY <1>1 DEF WindowInv, GuiWaits, WindowPlays, ThreadTypes
    <2>2. gui \in {"stopping", "closing"} /\ player'.phase = "running" => player'.stop
      <3>1. CASE UNCHANGED player
        BY <3>1 DEF WindowInv, GuiWaits
      <3>2. CASE ~repeat[s].stopped
        BY <3>2 DEF WindowInv, GuiWaits, WorkersObey, WorkerMoves
      <3>. QED
        BY <3>1, <3>2 DEF Plays
    <2>. QED
      BY <1>2, <1>5, <1>11, <2>1, <2>2 DEF WindowInv, GuiWaits
  <1>14. MessagesTrue'
    <2>1. \A i \in 1 .. Len(queue) :
            queue[i].kind \in {"complete", "error"} => worker'[queue[i].of].pc = "ended"
      <3> SUFFICES ASSUME NEW i \in 1 .. Len(queue), queue[i].kind \in {"complete", "error"}
                   PROVE  worker'[queue[i].of].pc = "ended"
        OBVIOUS
      <3>1. queue[i] \in Message
        BY <1>1 DEF QueueTypes
      <3>2. queue[i].of \in Sessions
        BY <3>1 DEF Message
      <3>3. worker[queue[i].of].pc = "ended"
        BY DEF WindowInv, MessagesTrue, Tells
      <3>. QED
        BY <3>2, <3>3 DEF WorkerMoves, Live
    <2>2. CASE UNCHANGED queue
      BY <1>3, <2>1, <2>2 DEF WindowInv, MessagesTrue, Tells
    <2>3. ASSUME NEW kind \in {"complete", "error"}, worker'[s].pc = "ended",
                 Post([kind |-> kind, of |-> s])
          PROVE  MessagesTrue'
      <3> DEFINE msg == [kind |-> kind, of |-> s]
      <3>1. msg \in Message
        BY DEF Message
      <3>2. msg.kind = kind /\ msg.of = s /\ ~OfSaver(msg)
        BY DEF OfSaver
      <3> HIDE DEF msg
      <3>3. /\ Len(queue) \in Nat /\ Len(queue') = Len(queue) + 1
            /\ \A i \in 1 .. Len(queue) : queue'[i] = queue[i]
            /\ queue'[Len(queue) + 1] = msg
        BY <1>1, <2>3, <3>1, AppendFacts DEF Post, QueueTypes, msg
      <3>4. \A i \in 1 .. Len(queue') : i \in 1 .. Len(queue) \/ i = Len(queue) + 1
        BY <3>3
      <3>5. \A i \in 1 .. Len(queue') :
              OfSaver(queue'[i]) => i \in 1 .. Len(queue) /\ OfSaver(queue[i])
        BY <3>2, <3>3, <3>4 DEF OfSaver
      <3>6. \A i \in 1 .. Len(queue') : Tells(queue[i])'
        BY <1>3, <2>1, <2>3, <3>2, <3>3, <3>4 DEF WindowInv, MessagesTrue, Tells, OfSaver
      <3>. QED
        BY <3>5, <3>6 DEF WindowInv, MessagesTrue
    <2>. QED
      BY <2>2, <2>3 DEF Posts
  <1>15. RecordingKnown' /\ SequenceAlone' /\ DialogsNest'
    BY <1>2, <1>3 DEF WindowInv, RecordingKnown, SequenceAlone, DialogsNest, Fits
  <1>. QED
    BY <1>7, <1>8, <1>9, <1>10, <1>12, <1>13, <1>14, <1>15 DEF WindowInv

-----------------------------------------------------------------------------
(* The steps of a worker.                                                  *)

Workers == [Sessions -> [pc : Place, cycle : Nat, total : Cycles \cup {0, 1}]]
Repeats == [Sessions -> [active : BOOLEAN, stopped : BOOLEAN]]

Players == [owner : Sessions \cup {0}, phase : {"none", "running", "returning"}, stop : BOOLEAN]

LEMMA GoesTypes ==
    ASSUME worker \in Workers, NEW s \in Sessions, NEW to \in Place, Goes(s, to)
    PROVE  worker' \in Workers
  <1>1. [worker[s] EXCEPT !.pc = to] \in [pc : Place, cycle : Nat, total : Cycles \cup {0, 1}]
    BY DEF Workers
  <1>. QED
    BY <1>1 DEF Goes, Workers

LEMMA ReturnsTypes ==
    ASSUME worker \in Workers, NEW s \in Sessions, Returns(s)
    PROVE  worker' \in Workers
  BY DEF Returns, Workers, Place

LEMMA ActiveTypes ==
    ASSUME repeat \in Repeats, NEW s \in Sessions, NEW on \in BOOLEAN, Active(s, on)
    PROVE  repeat' \in Repeats
  <1>1. [repeat[s] EXCEPT !.active = on] \in [active : BOOLEAN, stopped : BOOLEAN]
    BY DEF Repeats
  <1>. QED
    BY <1>1 DEF Active, Repeats

LEMMA CheckCycleStep ==
    ASSUME WindowInv, NEW s \in Sessions, CheckCycle(s)
    PROVE  WindowInv'
  <1>1. ThreadTypes
    BY Types DEF WindowInv
  <1>2. ThreadTypes'
    <2>1. worker \in Workers /\ repeat \in Repeats
      BY <1>1 DEF ThreadTypes, Workers, Repeats
    <2>2. worker' \in Workers
      BY <2>1, GoesTypes, ReturnsTypes DEF CheckCycle, Place
    <2>3. repeat' \in Repeats
      BY <2>1, ActiveTypes DEF CheckCycle
    <2>. QED
      BY <1>1, <2>2, <2>3 DEF CheckCycle, Worker, Goes, ThreadTypes, Workers, Repeats
  <1>3. WorkerMoves(s)
    <2>1. UNCHANGED <<window, session, pauseEvent>>
      BY DEF CheckCycle, Worker, Goes
    <2>2. Live(s) /\ worker'[s].pc # "none"
      BY <1>1 DEF Live, ThreadTypes, CheckCycle, Worker, Goes
    <2>3. ASSUME NEW t \in Sessions \ {s}
          PROVE  worker'[t] = worker[t] /\ repeat'[t] = repeat[t] /\ done'[t] = done[t]
      BY <1>1 DEF ThreadTypes, CheckCycle, Worker, Goes
    <2>4. /\ repeat'[s].stopped = repeat[s].stopped
          /\ repeat[s].active => repeat'[s].active \/ worker'[s].pc = "ended"
      BY <1>1 DEF ThreadTypes, CheckCycle, Worker, Goes
    <2>5. /\ worker'[s].pc = "starting" => ~repeat[s].stopped
          /\ done'[s] # "no" => worker'[s].pc = "wait"
      BY <1>1 DEF WindowInv, WorkersObey, ThreadTypes, CheckCycle, Worker, Goes
    <2>. QED
      BY <2>1, <2>2, <2>3, <2>4, <2>5 DEF WorkerMoves
  <1>4. Posts(s)
    BY <1>1 DEF Posts, ThreadTypes, CheckCycle, Worker, Goes
  <1>5. Plays(s)
    BY <1>1 DEF WindowInv, PlayerObeys, WorkersObey, Plays, ThreadTypes, CheckCycle,
       Worker, Goes
  <1>. QED
    BY <1>2, <1>3, <1>4, <1>5, WorkerKeeps

LEMMA LeaveHoldStep ==
    ASSUME WindowInv, NEW s \in Sessions, LeaveHold(s)
    PROVE  WindowInv'
  <1>1. ThreadTypes
    BY Types DEF WindowInv
  <1>2. ThreadTypes'
    <2>1. worker \in Workers /\ repeat \in Repeats
      BY <1>1 DEF ThreadTypes, Workers, Repeats
    <2>2. worker' \in Workers
      BY <2>1, GoesTypes, ReturnsTypes DEF LeaveHold, Place
    <2>3. repeat' \in Repeats
      BY <2>1, ActiveTypes DEF LeaveHold
    <2>. QED
      BY <1>1, <2>2, <2>3 DEF LeaveHold, Worker, Goes, Returns, Active, ThreadTypes,
         Workers, Repeats
  <1>3. WorkerMoves(s)
    <2>1. UNCHANGED <<window, session, pauseEvent>>
      BY DEF LeaveHold, Worker, Goes, Returns, Active
    <2>2. Live(s) /\ worker'[s].pc # "none"
      BY <1>1 DEF Live, ThreadTypes, LeaveHold, Worker, Goes, Returns, Active
    <2>3. ASSUME NEW t \in Sessions \ {s}
          PROVE  worker'[t] = worker[t] /\ repeat'[t] = repeat[t] /\ done'[t] = done[t]
      BY <1>1 DEF ThreadTypes, LeaveHold, Worker, Goes, Returns, Active
    <2>4. /\ repeat'[s].stopped = repeat[s].stopped
          /\ repeat[s].active => repeat'[s].active \/ worker'[s].pc = "ended"
      BY <1>1 DEF ThreadTypes, LeaveHold, Worker, Goes, Returns, Active
    <2>5. /\ worker'[s].pc = "starting" => ~repeat[s].stopped
          /\ done'[s] # "no" => worker'[s].pc = "wait"
      BY <1>1 DEF WindowInv, WorkersObey, ThreadTypes, LeaveHold, Worker, Goes, Returns, Active
    <2>. QED
      BY <2>1, <2>2, <2>3, <2>4, <2>5 DEF WorkerMoves
  <1>4. Posts(s)
    BY <1>1 DEF Posts, ThreadTypes, LeaveHold, Worker, Goes, Returns, Active
  <1>5. Plays(s)
    BY <1>1 DEF WindowInv, PlayerObeys, WorkersObey, Plays, ThreadTypes, LeaveHold,
       Worker, Goes, Returns, Active
  <1>. QED
    BY <1>2, <1>3, <1>4, <1>5, WorkerKeeps

LEMMA EnterGateStep ==
    ASSUME WindowInv, NEW s \in Sessions, EnterGate(s)
    PROVE  WindowInv'
  <1>1. ThreadTypes
    BY Types DEF WindowInv
  <1>2. ThreadTypes'
    <2>1. worker \in Workers /\ repeat \in Repeats
      BY <1>1 DEF ThreadTypes, Workers, Repeats
    <2>2. worker' \in Workers
      BY <2>1, GoesTypes, ReturnsTypes DEF EnterGate, Place
    <2>3. repeat' \in Repeats
      BY <2>1, ActiveTypes DEF EnterGate
    <2>. QED
      BY <1>1, <2>2, <2>3 DEF EnterGate, Worker, Goes, Returns, ThreadTypes, Workers, Repeats
  <1>3. WorkerMoves(s)
    <2>1. UNCHANGED <<window, session, pauseEvent>>
      BY DEF EnterGate, Worker, Goes, Returns
    <2>2. Live(s) /\ worker'[s].pc # "none"
      BY <1>1 DEF Live, ThreadTypes, EnterGate, Worker, Goes, Returns
    <2>3. ASSUME NEW t \in Sessions \ {s}
          PROVE  worker'[t] = worker[t] /\ repeat'[t] = repeat[t] /\ done'[t] = done[t]
      BY <1>1 DEF ThreadTypes, EnterGate, Worker, Goes, Returns
    <2>4. /\ repeat'[s].stopped = repeat[s].stopped
          /\ repeat[s].active => repeat'[s].active \/ worker'[s].pc = "ended"
      BY <1>1 DEF ThreadTypes, EnterGate, Worker, Goes, Returns
    <2>5. /\ worker'[s].pc = "starting" => ~repeat[s].stopped
          /\ done'[s] # "no" => worker'[s].pc = "wait"
      BY <1>1 DEF WindowInv, WorkersObey, ThreadTypes, EnterGate, Worker, Goes, Returns
    <2>. QED
      BY <2>1, <2>2, <2>3, <2>4, <2>5 DEF WorkerMoves
  <1>4. Posts(s)
    BY <1>1 DEF Posts, ThreadTypes, EnterGate, Worker, Goes, Returns
  <1>5. Plays(s)
    BY <1>1 DEF WindowInv, PlayerObeys, WorkersObey, Plays, ThreadTypes, EnterGate,
       Worker, Goes, Returns
  <1>. QED
    BY <1>2, <1>3, <1>4, <1>5, WorkerKeeps

LEMMA StartPlayerStep ==
    ASSUME WindowInv, NEW s \in Sessions, StartPlayer(s)
    PROVE  WindowInv'
  <1>1. ThreadTypes
    BY Types DEF WindowInv
  <1>2. ThreadTypes'
    <2>1. worker \in Workers /\ repeat \in Repeats
      BY <1>1 DEF ThreadTypes, Workers, Repeats
    <2>2. worker' \in Workers
      BY <2>1, GoesTypes, ReturnsTypes DEF StartPlayer, Place
    <2>3. repeat' \in Repeats
      BY <2>1, ActiveTypes DEF StartPlayer
    <2>4. player' \in Players
      <3>1. [owner |-> s, phase |-> "running", stop |-> FALSE] \in Players
        BY DEF Players
      <3>. QED
        BY <1>1, <3>1 DEF StartPlayer, ThreadTypes, Players
    <2>. QED
      BY <1>1, <2>2, <2>3, <2>4 DEF StartPlayer, ThreadTypes, Workers, Repeats, Players
  <1>3. WorkerMoves(s)
    <2>1. UNCHANGED <<window, session, pauseEvent>>
      BY DEF StartPlayer, Worker, Goes, Returns, IsPlaying
    <2>2. Live(s) /\ worker'[s].pc # "none"
      BY <1>1 DEF Live, ThreadTypes, StartPlayer, Worker, Goes, Returns, IsPlaying
    <2>3. ASSUME NEW t \in Sessions \ {s}
          PROVE  worker'[t] = worker[t] /\ repeat'[t] = repeat[t] /\ done'[t] = done[t]
      BY <1>1 DEF ThreadTypes, StartPlayer, Worker, Goes, Returns, IsPlaying
    <2>4. /\ repeat'[s].stopped = repeat[s].stopped
          /\ repeat[s].active => repeat'[s].active \/ worker'[s].pc = "ended"
      BY <1>1 DEF ThreadTypes, StartPlayer, Worker, Goes, Returns, IsPlaying
    <2>5. /\ worker'[s].pc = "starting" => ~repeat[s].stopped
          /\ done'[s] # "no" => worker'[s].pc = "wait"
      BY <1>1 DEF WindowInv, WorkersObey, ThreadTypes, StartPlayer, Worker, Goes,
         Returns, IsPlaying
    <2>. QED
      BY <2>1, <2>2, <2>3, <2>4, <2>5 DEF WorkerMoves
  <1>4. Posts(s)
    BY <1>1 DEF Posts, ThreadTypes, StartPlayer, Worker, Goes, Returns, IsPlaying
  <1>5. Plays(s)
    BY <1>1 DEF WindowInv, PlayerObeys, WorkersObey, Plays, ThreadTypes, StartPlayer,
       Worker, Goes, Returns, IsPlaying
  <1>. QED
    BY <1>2, <1>3, <1>4, <1>5, WorkerKeeps

LEMMA AwaitDoneStep ==
    ASSUME WindowInv, NEW s \in Sessions, AwaitDone(s)
    PROVE  WindowInv'
  <1>1. ThreadTypes
    BY Types DEF WindowInv
  <1>2. ThreadTypes'
    <2>1. worker \in Workers /\ repeat \in Repeats
      BY <1>1 DEF ThreadTypes, Workers, Repeats
    <2>2. worker' \in Workers /\ repeat' \in Repeats
      <3>1. CASE done[s] # "ok"
        BY <2>1, <3>1, ReturnsTypes DEF AwaitDone
      <3>2. CASE done[s] = "ok"
        <4> DEFINE more == worker[s].cycle < worker[s].total
                   row == [[worker[s] EXCEPT !.pc = IF more THEN "interval" ELSE "finish"]
                                EXCEPT !.cycle = @ + 1]
                   on == repeat[s].active \/ more
        <4>1. worker' = [worker EXCEPT ![s] = row]
          BY <1>1, <3>2 DEF AwaitDone, ThreadTypes
        <4>2. repeat' = [repeat EXCEPT ![s] = [repeat[s] EXCEPT !.active = on]]
          BY <1>1, <3>2 DEF AwaitDone, ThreadTypes
        <4>3. row \in [pc : Place, cycle : Nat, total : Cycles \cup {0, 1}]
          <5> DEFINE pc == IF more THEN "interval" ELSE "finish"
          <5>1. pc \in Place
            BY DEF Place
          <5> HIDE DEF pc
          <5> DEFINE first == [worker[s] EXCEPT !.pc = pc]
          <5>2. first \in [pc : Place, cycle : Nat, total : Cycles \cup {0, 1}]
            BY <2>1, <5>1 DEF Workers
          <5> HIDE DEF first
          <5>3. [first EXCEPT !.cycle = @ + 1] \in [pc : Place, cycle : Nat, total : Cycles \cup {0, 1}]
            BY <5>2
          <5>. QED
            BY <5>3 DEF first, pc
        <4>4. worker' \in Workers
          BY <2>1, <4>1, <4>3 DEF Workers
        <4>5. on \in BOOLEAN
          OBVIOUS
        <4> HIDE DEF row, on
        <4>6. [repeat[s] EXCEPT !.active = on] \in [active : BOOLEAN, stopped : BOOLEAN]
          BY <2>1, <4>5 DEF Repeats
        <4>7. repeat' \in Repeats
          BY <2>1, <4>2, <4>6 DEF Repeats
        <4>. QED
          BY <4>4, <4>7
      <3>. QED
        BY <3>1, <3>2
    <2>. QED
      BY <1>1, <2>2 DEF AwaitDone, Worker, Returns, ThreadTypes, Workers, Repeats
  <1>3. WorkerMoves(s)
    <2>1. UNCHANGED <<window, session, pauseEvent>>
      BY DEF AwaitDone, Worker, Returns
    <2>2. Live(s) /\ worker'[s].pc # "none"
      BY <1>1 DEF Live, ThreadTypes, AwaitDone, Worker, Returns
    <2>3. ASSUME NEW t \in Sessions \ {s}
          PROVE  worker'[t] = worker[t] /\ repeat'[t] = repeat[t] /\ done'[t] = done[t]
      BY <1>1 DEF ThreadTypes, AwaitDone, Worker, Returns
    <2>4. /\ repeat'[s].stopped = repeat[s].stopped
          /\ repeat[s].active => repeat'[s].active \/ worker'[s].pc = "ended"
      BY <1>1 DEF ThreadTypes, AwaitDone, Worker, Returns
    <2>5. /\ worker'[s].pc = "starting" => ~repeat[s].stopped
          /\ done'[s] # "no" => worker'[s].pc = "wait"
      BY <1>1 DEF WindowInv, WorkersObey, ThreadTypes, AwaitDone, Worker, Returns
    <2>. QED
      BY <2>1, <2>2, <2>3, <2>4, <2>5 DEF WorkerMoves
  <1>4. Posts(s)
    BY <1>1 DEF Posts, ThreadTypes, AwaitDone, Worker, Returns
  <1>5. Plays(s)
    BY <1>1 DEF WindowInv, PlayerObeys, WorkersObey, Plays, ThreadTypes, AwaitDone,
       Worker, Returns
  <1>. QED
    BY <1>2, <1>3, <1>4, <1>5, WorkerKeeps

LEMMA PassIntervalStep ==
    ASSUME WindowInv, NEW s \in Sessions, PassInterval(s)
    PROVE  WindowInv'
  <1>1. ThreadTypes
    BY Types DEF WindowInv
  <1>2. ThreadTypes'
    <2>1. worker \in Workers /\ repeat \in Repeats
      BY <1>1 DEF ThreadTypes, Workers, Repeats
    <2>2. worker' \in Workers
      BY <2>1, GoesTypes, ReturnsTypes DEF PassInterval, Place
    <2>3. repeat' \in Repeats
      BY <2>1, ActiveTypes DEF PassInterval
    <2>. QED
      BY <1>1, <2>2, <2>3 DEF PassInterval, Worker, Goes, Returns, ThreadTypes, Workers, Repeats
  <1>3. WorkerMoves(s)
    <2>1. UNCHANGED <<window, session, pauseEvent>>
      BY DEF PassInterval, Worker, Goes, Returns
    <2>2. Live(s) /\ worker'[s].pc # "none"
      BY <1>1 DEF Live, ThreadTypes, PassInterval, Worker, Goes, Returns
    <2>3. ASSUME NEW t \in Sessions \ {s}
          PROVE  worker'[t] = worker[t] /\ repeat'[t] = repeat[t] /\ done'[t] = done[t]
      BY <1>1 DEF ThreadTypes, PassInterval, Worker, Goes, Returns
    <2>4. /\ repeat'[s].stopped = repeat[s].stopped
          /\ repeat[s].active => repeat'[s].active \/ worker'[s].pc = "ended"
      BY <1>1 DEF ThreadTypes, PassInterval, Worker, Goes, Returns
    <2>5. /\ worker'[s].pc = "starting" => ~repeat[s].stopped
          /\ done'[s] # "no" => worker'[s].pc = "wait"
      BY <1>1 DEF WindowInv, WorkersObey, ThreadTypes, PassInterval, Worker, Goes, Returns
    <2>. QED
      BY <2>1, <2>2, <2>3, <2>4, <2>5 DEF WorkerMoves
  <1>4. Posts(s)
    BY <1>1 DEF Posts, ThreadTypes, PassInterval, Worker, Goes, Returns
  <1>5. Plays(s)
    BY <1>1 DEF WindowInv, PlayerObeys, WorkersObey, Plays, ThreadTypes, PassInterval,
       Worker, Goes, Returns
  <1>. QED
    BY <1>2, <1>3, <1>4, <1>5, WorkerKeeps

LEMMA FinishRepeatStep ==
    ASSUME WindowInv, NEW s \in Sessions, FinishRepeat(s)
    PROVE  WindowInv'
  <1>1. ThreadTypes
    BY Types DEF WindowInv
  <1>2. ThreadTypes'
    <2>1. worker \in Workers /\ repeat \in Repeats
      BY <1>1 DEF ThreadTypes, Workers, Repeats
    <2>2. worker' \in Workers
      BY <2>1, GoesTypes, ReturnsTypes DEF FinishRepeat, Place
    <2>3. repeat' \in Repeats
      BY <2>1, ActiveTypes DEF FinishRepeat
    <2>. QED
      BY <1>1, <2>2, <2>3 DEF FinishRepeat, Worker, Active, Returns, ThreadTypes,
         Workers, Repeats
  <1>3. WorkerMoves(s)
    <2>1. UNCHANGED <<window, session, pauseEvent>>
      BY DEF FinishRepeat, Worker, Active, Returns
    <2>2. Live(s) /\ worker'[s].pc # "none"
      BY <1>1 DEF Live, ThreadTypes, FinishRepeat, Worker, Active, Returns
    <2>3. ASSUME NEW t \in Sessions \ {s}
          PROVE  worker'[t] = worker[t] /\ repeat'[t] = repeat[t] /\ done'[t] = done[t]
      BY <1>1 DEF ThreadTypes, FinishRepeat, Worker, Active, Returns
    <2>4. /\ repeat'[s].stopped = repeat[s].stopped
          /\ repeat[s].active => repeat'[s].active \/ worker'[s].pc = "ended"
      BY <1>1 DEF ThreadTypes, FinishRepeat, Worker, Active, Returns
    <2>5. /\ worker'[s].pc = "starting" => ~repeat[s].stopped
          /\ done'[s] # "no" => worker'[s].pc = "wait"
      BY <1>1 DEF WindowInv, WorkersObey, ThreadTypes, FinishRepeat, Worker, Active, Returns
    <2>. QED
      BY <2>1, <2>2, <2>3, <2>4, <2>5 DEF WorkerMoves
  <1>4. Posts(s)
    BY <1>1 DEF Posts, ThreadTypes, FinishRepeat, Worker, Active, Returns
  <1>5. Plays(s)
    BY <1>1 DEF WindowInv, PlayerObeys, WorkersObey, Plays, ThreadTypes, FinishRepeat,
       Worker, Active, Returns
  <1>. QED
    BY <1>2, <1>3, <1>4, <1>5, WorkerKeeps

-----------------------------------------------------------------------------
(* The steps of the player.                                                *)

(* What a step of the player may do.                                       *)
PlayerMoves ==
    /\ UNCHANGED <<window, queue, pauseEvent, session, repeat, worker>>
    /\ \A t \in Sessions : done'[t] # "no" => worker[t].pc = "wait"
    /\ player'.phase # "running"

LEMMA PlayerKeeps ==
    ASSUME WindowInv, PlayerMoves, ThreadTypes'
    PROVE  WindowInv'
  <1>1. ThreadTypes /\ QueueTypes /\ DialogTypes /\ MacroTypes /\ WindowTypes
    BY Types DEF WindowInv
  <1>2. UNCHANGED <<window, queue, pauseEvent, session, repeat, worker>>
    BY DEF PlayerMoves
  <1>3. UNCHANGED <<state, paused, polling, hook, gui, closed, dialogs, seq>>
    BY <1>2 DEF window, display, life
  <1>4. UNCHANGED <<rec, saver, gen, quick, quickText>>
    BY <1>2 DEF window, recording
  <1>5. UNCHANGED <<appendMode, base, macro, prev, wanted>>
    BY <1>2 DEF window, content
  <1>6. TypeOK'
    BY <1>1, <1>2, <1>3, <1>4, <1>5, TypesNext
    DEF QueueTypes, DialogTypes, MacroTypes, WindowTypes
  <1>7. PlayerObeys'
    BY DEF PlayerMoves, PlayerObeys
  <1>8. WorkersObey'
    BY <1>2 DEF WindowInv, PlayerMoves, WorkersObey, Live
  <1>9. GuiWaits' /\ WindowPlays'
    BY <1>2, <1>3 DEF WindowInv, PlayerMoves, GuiWaits, WindowPlays
  <1>10. InOrder' /\ MessagesTrue'
    BY <1>2, <1>4 DEF WindowInv, InOrder, MessagesTrue, Tells
  <1>11. RecordingKnown' /\ SequenceAlone' /\ DialogsNest'
    BY <1>3, <1>4 DEF WindowInv, RecordingKnown, SequenceAlone, DialogsNest, Fits
  <1>. QED
    BY <1>6, <1>7, <1>8, <1>9, <1>10, <1>11 DEF WindowInv

LEMMA PlayerStep ==
    ASSUME WindowInv, PlayerEnds \/ PlayerDies
    PROVE  WindowInv'
  <1>1. ThreadTypes
    BY Types DEF WindowInv
  <1>2. ThreadTypes'
    <2>1. CASE PlayerEnds
      <3>1. player' \in Players
        <4>1. NoPlayback \in Players
          BY DEF NoPlayback, Players
        <4>2. [player EXCEPT !.phase = "returning"] \in Players
          BY <1>1 DEF ThreadTypes, Players
        <4>. QED
          BY <2>1, <4>1, <4>2 DEF PlayerEnds
      <3>2. done' \in [Sessions -> {"no", "ok", "error"}]
        BY <1>1, <2>1 DEF PlayerEnds, ThreadTypes
      <3>. QED
        BY <1>1, <2>1, <3>1, <3>2 DEF PlayerEnds, ThreadTypes, Players
    <2>2. CASE PlayerDies
      BY <1>1, <2>2 DEF PlayerDies, NoPlayback, ThreadTypes
    <2>. QED
      BY <2>1, <2>2
  <1>3. PlayerMoves
    <2>1. UNCHANGED <<window, queue, pauseEvent, session, repeat, worker>>
      BY DEF PlayerEnds, PlayerDies
    <2>2. player'.phase # "running"
      BY <1>1 DEF PlayerEnds, PlayerDies, NoPlayback, ThreadTypes
    <2>3. ASSUME NEW t \in Sessions, done'[t] # "no"
          PROVE  worker[t].pc = "wait"
      BY <1>1, <2>3 DEF WindowInv, WorkersObey, PlayerEnds, PlayerDies, Worker, ThreadTypes
    <2>. QED
      BY <2>1, <2>2, <2>3 DEF PlayerMoves
  <1>. QED
    BY <1>2, <1>3, PlayerKeeps

-----------------------------------------------------------------------------
(* The parts a handler may leave alone.                                    *)

LEMMA PlaybackKept ==
    ASSUME WindowInv, UNCHANGED playback
    PROVE  ThreadTypes' /\ InOrder' /\ WorkersObey' /\ PlayerObeys'
  BY Types DEF WindowInv, playback, ThreadTypes, InOrder, WorkersObey, Live, PlayerObeys

LEMMA MessagesKept ==
    ASSUME WindowInv, UNCHANGED <<queue, worker, saver, rec, gen>>
    PROVE  QueueTypes' /\ MessagesTrue'
  BY Types DEF WindowInv, QueueTypes, MessagesTrue, Tells

(* A save worker that may still have to answer keeps the recorder, so a    *)
(* handler that changes it finds no message about it.                      *)
LEMMA MessagesNone ==
    ASSUME WindowInv, UNCHANGED <<queue, worker>>, saver # "ended"
    PROVE  QueueTypes' /\ MessagesTrue'
  <1>1. QueueTypes
    BY Types DEF WindowInv
  <1>2. \A i \in 1 .. Len(queue) : ~OfSaver(queue[i])
    BY DEF WindowInv, MessagesTrue, Tells
  <1>3. \A i \in 1 .. Len(queue) : Tells(queue[i])'
    BY <1>2 DEF WindowInv, MessagesTrue, Tells, OfSaver
  <1>. QED
    BY <1>1, <1>2, <1>3 DEF QueueTypes, MessagesTrue

LEMMA DialogsKept ==
    ASSUME WindowInv, UNCHANGED <<dialogs, state, seq, saver, rec, quick, gen, quickText>>
    PROVE  DialogTypes' /\ DialogsNest'
  BY Types DEF WindowInv, DialogTypes, DialogsNest, Fits

LEMMA ContentKept ==
    ASSUME WindowInv, UNCHANGED content
    PROVE  MacroTypes'
  BY Types DEF WindowInv, MacroTypes, content

-----------------------------------------------------------------------------
(* Dialogs.                                                                *)

LEMMA Opened ==
    ASSUME WindowInv, NEW d \in Dialog, dialogs' = <<d>> \o dialogs,
           dialogs # <<>> => /\ Len(dialogs) = 1 /\ Text(dialogs[1]) /\ ~Text(d)
                             /\ d.kind \notin {"append", "discard"}
                             /\ d.kind = "repeat" => dialogs[1].kind = "quickText"
    PROVE  /\ DialogTypes' /\ Nested(dialogs') /\ dialogs' # <<>> /\ dialogs'[1] = d
           /\ \A i \in 1 .. Len(dialogs') :
                \/ dialogs'[i] = d
                \/ dialogs # <<>> /\ dialogs'[i] = dialogs[1]
  <1>1. dialogs \in Seq(Dialog)
    BY Types DEF WindowInv, DialogTypes
  <1>2. /\ dialogs' \in Seq(Dialog)
        /\ Len(dialogs') = Len(dialogs) + 1
        /\ dialogs'[1] = d
        /\ \A i \in 1 .. Len(dialogs) : dialogs'[i + 1] = dialogs[i]
    BY <1>1, PushFacts
  <1>3. Len(dialogs) \in Nat /\ (dialogs = <<>> => Len(dialogs) = 0)
    BY <1>1
  <1>4. Len(dialogs) <= 1 /\ (Len(dialogs) = 1 => dialogs'[2] = dialogs[1])
    BY <1>2, <1>3
  <1>5. \A i \in 1 .. Len(dialogs') : i = 1 \/ (i = 2 /\ Len(dialogs) = 1)
    BY <1>2, <1>3, <1>4
  <1>6. Nested(dialogs')
    <2>1. Len(dialogs') <= 2
      BY <1>2, <1>4
    <2>2. Len(dialogs') = 2 => dialogs # <<>> /\ dialogs'[1] = d /\ dialogs'[2] = dialogs[1]
      BY <1>2, <1>3, <1>4
    <2>. QED
      BY <2>1, <2>2 DEF Nested
  <1>7. dialogs' # <<>>
    <2>1. Len(dialogs') # 0
      BY <1>2, <1>3
    <2>. QED
      BY <2>1
  <1>8. Len(dialogs) = 1 => dialogs # <<>>
    BY <1>3
  <1>. QED
    BY <1>2, <1>4, <1>5, <1>6, <1>7, <1>8 DEF DialogTypes

LEMMA Closed ==
    ASSUME WindowInv, dialogs # <<>>, CloseTop
    PROVE  /\ Head(dialogs) = dialogs[1] /\ dialogs[1] \in Dialog /\ Fits(dialogs[1])
           /\ DialogTypes' /\ Nested(dialogs')
           /\ \A i \in 1 .. Len(dialogs') :
                /\ dialogs'[i] = dialogs[2] /\ Fits(dialogs[2])
                /\ Len(dialogs) = 2 /\ Text(dialogs[2]) /\ ~Text(dialogs[1])
                /\ dialogs[1].kind = "repeat" => dialogs[2].kind = "quickText"
                /\ dialogs[1].kind \notin {"append", "discard"}
  <1>1. dialogs \in Seq(Dialog)
    BY Types DEF WindowInv, DialogTypes
  <1>2. /\ Len(dialogs) \in Nat /\ Len(dialogs) >= 1 /\ Head(dialogs) = dialogs[1]
        /\ dialogs[1] \in Dialog
        /\ dialogs' \in Seq(Dialog) /\ Len(dialogs') = Len(dialogs) - 1
        /\ \A i \in 1 .. Len(dialogs) - 1 : dialogs'[i] = dialogs[i + 1]
    BY <1>1, TailFacts DEF CloseTop
  <1>3. Len(dialogs) <= 2 /\ \A i \in 1 .. Len(dialogs) : Fits(dialogs[i])
    BY DEF WindowInv, DialogsNest, Nested
  <1>4. \A i \in 1 .. Len(dialogs') : i = 1 /\ Len(dialogs) = 2 /\ dialogs'[i] = dialogs[2]
    BY <1>2, <1>3
  <1>5. Len(dialogs') <= 1
    BY <1>2, <1>3
  <1>6. Nested(dialogs')
    BY <1>2, <1>5 DEF Nested
  <1>7. Len(dialogs) = 2 =>
            /\ Text(dialogs[2]) /\ ~Text(dialogs[1])
            /\ dialogs[1].kind = "repeat" => dialogs[2].kind = "quickText"
            /\ dialogs[1].kind \notin {"append", "discard"}
    BY DEF WindowInv, DialogsNest, Nested
  <1>8. Fits(dialogs[1]) /\ (Len(dialogs) = 2 => Fits(dialogs[2]))
    BY <1>2, <1>3
  <1>. QED
    BY <1>2, <1>4, <1>6, <1>7, <1>8 DEF DialogTypes

LEMMA DialogGen ==
    ASSUME NEW d \in Dialog, d.kind \in {"quickText", "quickFailed", "focusLost", "notRestored"}
    PROVE  d.gen \in 1 .. MaxRecordings /\ d.gen \in Nat
  <1>1. d.gen \in 1 .. MaxRecordings
    BY DEF Dialog
  <1>2. 1 .. MaxRecordings \subseteq Nat
    BY WindowAssumption
  <1>. QED
    BY <1>1, <1>2

LEMMA JustOne == \A n \in Nat : n >= 1 /\ n <= 2 /\ n # 2 => n = 1
  OBVIOUS

(* What the user of careful hotkeys may have open when pressing one.       *)
LEMMA KeysFree ==
    ASSUME WindowInv, Careful, Hotkeys, dialogs # <<>>
    PROVE  /\ Len(dialogs) = 1 /\ dialogs[1].kind = "quickText"
           /\ dialogs[1] \in Dialog /\ quickText
  <1>1. dialogs \in Seq(Dialog)
    BY Types DEF WindowInv, DialogTypes
  <1>2. Head(dialogs) = dialogs[1] /\ Len(dialogs) \in Nat /\ Len(dialogs) >= 1 /\ dialogs[1] \in Dialog
    BY <1>1, TailFacts
  <1>3. dialogs[1].kind = "quickText"
    BY <1>2 DEF Careful, Hotkeys
  <1>4. Text(dialogs[1])
    BY <1>3 DEF Text
  <1>5. Len(dialogs) = 1
    <2>1. Len(dialogs) <= 2
      BY DEF WindowInv, DialogsNest, Nested
    <2>2. Len(dialogs) = 2 => ~Text(dialogs[1])
      BY DEF WindowInv, DialogsNest, Nested
    <2>3. Len(dialogs) # 2
      BY <1>4, <2>2
    <2>. QED
      BY <1>2, <2>1, <2>3, JustOne
  <1>6. Fits(dialogs[1])
    BY <1>2 DEF WindowInv, DialogsNest
  <1>. QED
    BY <1>2, <1>3, <1>4, <1>5, <1>6 DEF Fits

(* What is on top.                                                         *)
LEMMA OnTop ==
    ASSUME WindowInv, NEW kind, Top(kind)
    PROVE  /\ GuiRuns /\ dialogs # <<>> /\ Head(dialogs) = dialogs[1]
           /\ dialogs[1].kind = kind /\ dialogs[1] \in Dialog /\ Fits(dialogs[1])
  <1>1. dialogs \in Seq(Dialog)
    BY Types DEF WindowInv, DialogTypes
  <1>2. dialogs # <<>>
    BY DEF Top
  <1>3. Head(dialogs) = dialogs[1] /\ Len(dialogs) \in Nat /\ Len(dialogs) >= 1 /\ dialogs[1] \in Dialog
    BY <1>1, <1>2, TailFacts
  <1>. QED
    BY <1>2, <1>3 DEF Top, WindowInv, DialogsNest

-----------------------------------------------------------------------------
(* The handlers that leave playback and queue alone.                       *)

LEMMA HandlerKeeps ==
    ASSUME WindowInv, UNCHANGED <<queue, playback>>,
           saver = "ended" => UNCHANGED <<saver, rec, gen>>,
           DialogTypes', MacroTypes', WindowTypes',
           WindowPlays', GuiWaits', RecordingKnown', SequenceAlone', DialogsNest'
    PROVE  WindowInv'
  <1>1. UNCHANGED worker
    BY DEF playback
  <1>2. ThreadTypes' /\ InOrder' /\ WorkersObey' /\ PlayerObeys'
    BY PlaybackKept
  <1>3. QueueTypes' /\ MessagesTrue'
    BY <1>1, MessagesKept, MessagesNone
  <1>4. TypeOK'
    BY <1>2, <1>3, TypesNext
  <1>. QED
    BY <1>2, <1>3, <1>4 DEF WindowInv

LEMMA OpenedFits ==
    ASSUME WindowInv, NEW d \in Dialog, dialogs' = <<d>> \o dialogs, Fits(d)',
           dialogs # <<>> => /\ Len(dialogs) = 1 /\ Text(dialogs[1]) /\ ~Text(d)
                             /\ d.kind \notin {"append", "discard"}
                             /\ d.kind = "repeat" => dialogs[1].kind = "quickText",
           UNCHANGED <<state, saver, rec, quick, gen, quickText>>,
           seq' \in {seq, "off"}
    PROVE  DialogTypes' /\ DialogsNest'
  <1>1. /\ DialogTypes' /\ Nested(dialogs')
        /\ \A i \in 1 .. Len(dialogs') :
                \/ dialogs'[i] = d
                \/ dialogs # <<>> /\ dialogs'[i] = dialogs[1]
    BY Opened
  <1>2. dialogs # <<>> => Fits(dialogs[1])
    BY DEF WindowInv, DialogsNest
  <1>3. \A i \in 1 .. Len(dialogs') : Fits(dialogs[i])'
    BY <1>1, <1>2 DEF Fits
  <1>. QED
    BY <1>1, <1>3 DEF DialogsNest

LEMMA ClosedFits ==
    ASSUME WindowInv, dialogs # <<>>, CloseTop,
           UNCHANGED <<state, saver, rec, quick, gen, quickText, seq>>
    PROVE  DialogTypes' /\ DialogsNest'
  <1>1. \A i \in 1 .. Len(dialogs') : dialogs'[i] = dialogs[2] /\ Fits(dialogs[2])
    BY Closed
  <1>2. \A i \in 1 .. Len(dialogs') : Fits(dialogs[i])'
    BY <1>1 DEF Fits
  <1>. QED
    BY <1>2, Closed DEF DialogsNest

(* A sequence runs in an idle window, where only a text may be open below. *)
LEMMA SequenceOverText ==
    ASSUME WindowInv, seq # "off", dialogs # <<>>
    PROVE  Len(dialogs) = 1 /\ Text(dialogs[1]) /\ dialogs[1] \in Dialog
  <1>1. dialogs \in Seq(Dialog)
    BY Types DEF WindowInv, DialogTypes
  <1>2. Len(dialogs) \in Nat /\ Len(dialogs) >= 1 /\ dialogs[1] \in Dialog
    BY <1>1, TailFacts
  <1>3. state = "idle"
    BY DEF WindowInv, SequenceAlone
  <1>4. Fits(dialogs[1])
    BY <1>2 DEF WindowInv, DialogsNest
  <1>5. dialogs[1].kind \notin {"repeat", "append", "discard", "sequenceError", "notRestored"}
    BY <1>3, <1>4 DEF Fits, Question
  <1>6. Text(dialogs[1])
    BY <1>2, <1>5 DEF Dialog, Text
  <1>7. Len(dialogs) <= 2 /\ (Len(dialogs) = 2 => ~Text(dialogs[1]))
    BY DEF WindowInv, DialogsNest, Nested
  <1>8. Len(dialogs) # 2
    BY <1>6, <1>7
  <1>. QED
    BY <1>2, <1>6, <1>7, <1>8, JustOne

LEMMA StartSequenceStep ==
    ASSUME WindowInv, Careful, StartSequence
    PROVE  WindowInv'
  <1>1. ThreadTypes /\ WindowTypes /\ MacroTypes
    BY Types DEF WindowInv
  <1>2. DialogTypes' /\ DialogsNest'
    <2>1. dialogs # <<>> => Len(dialogs) = 1 /\ dialogs[1].kind = "quickText"
      BY KeysFree DEF StartSequence
    <2>2. \A i \in 1 .. Len(dialogs) : Fits(dialogs[i]) /\ dialogs[i].kind = "quickText"
      BY <2>1 DEF WindowInv, DialogsNest
    <2>3. \A i \in 1 .. Len(dialogs') : Fits(dialogs[i])'
      BY <2>2 DEF StartSequence, Fits, Question, display, recording
    <2>. QED
      BY <2>3, Types DEF StartSequence, WindowInv, DialogsNest, DialogTypes
  <1>3. MacroTypes'
    BY ContentKept DEF StartSequence, GuiRuns, MayAsk, Buttons, Hotkeys,
      display, life, playback, recording, content
  <1>4. WindowTypes'
    <2>1. UNCHANGED <<state, paused, polling, gui, closed, rec, saver, gen,
      quick, quickText, appendMode>>
      BY DEF StartSequence, GuiRuns, MayAsk, Buttons, Hotkeys, display, life,
        playback, recording, content
    <2>2. seq' \in {"off", "on", "stopping"}
      BY <1>1 DEF WindowTypes, State, StartSequence, GuiRuns, MayAsk, Buttons,
        Hotkeys, display, life, playback, recording, content
    <2>3. hook' \in BOOLEAN
      BY <1>1 DEF WindowTypes, State, StartSequence, GuiRuns, MayAsk, Buttons,
        Hotkeys, display, life, playback, recording, content
    <2>. QED
      BY <1>1, <2>1, <2>2, <2>3 DEF WindowTypes
  <1>5. WindowPlays'
    BY <1>1 DEF WindowInv, WindowPlays, WindowTypes, StartSequence, GuiRuns,
      MayAsk, Buttons, Hotkeys, display, life, playback, recording, content,
      RecordingKnown
  <1>6. GuiWaits'
    BY <1>1 DEF WindowInv, GuiWaits, WindowTypes, StartSequence, GuiRuns,
      MayAsk, Buttons, Hotkeys, display, life, playback, recording, content,
      RecordingKnown
  <1>7. RecordingKnown'
    BY <1>1 DEF WindowInv, RecordingKnown, WindowTypes, StartSequence, GuiRuns,
       MayAsk, Buttons, Hotkeys, display, life, playback, recording, content
  <1>8. SequenceAlone'
    BY <1>1 DEF WindowInv, SequenceAlone, WindowTypes, StartSequence, GuiRuns,
      MayAsk, Buttons, Hotkeys, display, life, playback, recording, content
  <1>9. UNCHANGED <<queue, playback>>
    BY DEF StartSequence, GuiRuns, MayAsk, Buttons, Hotkeys
  <1>10. saver = "ended" => UNCHANGED <<saver, rec, gen>>
    BY <1>1 DEF WindowInv, RecordingKnown, StartSequence, GuiRuns, MayAsk,
      Buttons, Hotkeys, display, life, playback, recording, content
  <1>. QED
    BY <1>2, <1>3, <1>4, <1>5, <1>6, <1>7, <1>8, <1>9, <1>10, HandlerKeeps

LEMMA StopSequenceStep ==
    ASSUME WindowInv, StopSequence
    PROVE  WindowInv'
  <1>1. ThreadTypes /\ WindowTypes /\ MacroTypes
    BY Types DEF WindowInv
  <1>2. DialogTypes' /\ DialogsNest'
    <2>1. state = "idle"
      BY DEF WindowInv, SequenceAlone, StopSequence
    <2>2. \A i \in 1 .. Len(dialogs) : Fits(dialogs[i])
      BY DEF WindowInv, DialogsNest
    <2>3. \A i \in 1 .. Len(dialogs') : Fits(dialogs[i])'
      BY <2>1, <2>2 DEF StopSequence, Fits, recording
    <2>. QED
      BY <2>3, Types DEF StopSequence, WindowInv, DialogsNest, DialogTypes
  <1>3. MacroTypes'
    BY ContentKept DEF StopSequence, GuiRuns, MayAsk, Buttons, Hotkeys,
      display, life, playback, recording, content
  <1>4. WindowTypes'
    <2>1. UNCHANGED <<state, paused, polling, gui, closed, rec, saver, gen,
      quick, quickText, appendMode>>
      BY DEF StopSequence, GuiRuns, MayAsk, Buttons, Hotkeys, display, life,
        playback, recording, content
    <2>2. seq' \in {"off", "on", "stopping"}
      BY <1>1 DEF WindowTypes, State, StopSequence, GuiRuns, MayAsk, Buttons,
        Hotkeys, display, life, playback, recording, content
    <2>3. hook' \in BOOLEAN
      BY <1>1 DEF WindowTypes, State, StopSequence, GuiRuns, MayAsk, Buttons,
        Hotkeys, display, life, playback, recording, content
    <2>. QED
      BY <1>1, <2>1, <2>2, <2>3 DEF WindowTypes
  <1>5. WindowPlays'
    BY <1>1 DEF WindowInv, WindowPlays, WindowTypes, StopSequence, GuiRuns,
      MayAsk, Buttons, Hotkeys, display, life, playback, recording, content,
      SequenceAlone
  <1>6. GuiWaits'
    BY <1>1 DEF WindowInv, GuiWaits, WindowTypes, StopSequence, GuiRuns,
      MayAsk, Buttons, Hotkeys, display, life, playback, recording, content,
      SequenceAlone
  <1>7. RecordingKnown'
    BY <1>1 DEF WindowInv, RecordingKnown, WindowTypes, StopSequence, GuiRuns,
      MayAsk, Buttons, Hotkeys, display, life, playback, recording, content,
      SequenceAlone
  <1>8. SequenceAlone'
    BY <1>1 DEF WindowInv, SequenceAlone, WindowTypes, StopSequence, GuiRuns,
      MayAsk, Buttons, Hotkeys, display, life, playback, recording, content
  <1>9. UNCHANGED <<queue, playback>>
    BY DEF StopSequence, GuiRuns, MayAsk, Buttons, Hotkeys
  <1>10. saver = "ended" => UNCHANGED <<saver, rec, gen>>
    BY <1>1 DEF WindowInv, RecordingKnown, StopSequence, GuiRuns, MayAsk,
      Buttons, Hotkeys, display, life, playback, recording, content
  <1>. QED
    BY <1>2, <1>3, <1>4, <1>5, <1>6, <1>7, <1>8, <1>9, <1>10, HandlerKeeps

LEMMA SequenceEndsStep ==
    ASSUME WindowInv, SequenceEnds
    PROVE  WindowInv'
  <1>1. ThreadTypes /\ WindowTypes /\ MacroTypes
    BY Types DEF WindowInv
  <1>2. DialogTypes' /\ DialogsNest'
    <2>1. state = "idle"
      BY DEF WindowInv, SequenceAlone, SequenceEnds
    <2>2. \A i \in 1 .. Len(dialogs) : Fits(dialogs[i])
      BY DEF WindowInv, DialogsNest
    <2>3. CASE UNCHANGED dialogs
      <3>1. \A i \in 1 .. Len(dialogs') : Fits(dialogs[i])'
        BY <2>1, <2>2, <2>3 DEF SequenceEnds, Fits, recording
      <3>. QED
        BY <3>1, <2>3, Types DEF WindowInv, DialogsNest, DialogTypes
    <2>4. CASE Open([kind |-> "sequenceError"])
      <3> DEFINE d == [kind |-> "sequenceError"]
      <3>1. d \in Dialog /\ d.kind = "sequenceError"
        BY DEF Dialog
      <3> HIDE DEF d
      <3>2. dialogs # <<>> => Len(dialogs) = 1 /\ Text(dialogs[1])
        BY <2>1, SequenceOverText DEF SequenceEnds
      <3>3. dialogs' = <<d>> \o dialogs
        BY <2>4 DEF Open, d
      <3>4. UNCHANGED <<state, saver, rec, quick, gen, quickText>> /\ seq' = "off"
        BY DEF SequenceEnds, recording
      <3>5. ~Text(d)
        BY <3>1 DEF Text
      <3>6. d.kind \notin {"append", "discard", "repeat"}
        BY <3>1
      <3>7. Fits([kind |-> "sequenceError"])'
        BY <2>1, <3>4 DEF Fits, Text, Question
      <3>. QED
        BY <3>1, <3>2, <3>3, <3>4, <3>5, <3>6, <3>7, OpenedFits DEF d
    <2>. QED
      BY <2>3, <2>4 DEF SequenceEnds
  <1>3. MacroTypes'
    BY ContentKept DEF SequenceEnds, GuiRuns, MayAsk, Buttons, Hotkeys,
      display, life, playback, recording, content
  <1>4. WindowTypes'
    <2>1. UNCHANGED <<state, paused, polling, gui, closed, rec, saver, gen,
      quick, quickText, appendMode>>
      BY DEF SequenceEnds, GuiRuns, MayAsk, Buttons, Hotkeys, display, life,
        playback, recording, content
    <2>2. seq' \in {"off", "on", "stopping"}
      BY <1>1 DEF WindowTypes, State, SequenceEnds, GuiRuns, MayAsk, Buttons,
        Hotkeys, display, life, playback, recording, content
    <2>3. hook' \in BOOLEAN
      BY <1>1 DEF WindowTypes, State, SequenceEnds, GuiRuns, MayAsk, Buttons,
        Hotkeys, display, life, playback, recording, content
    <2>. QED
      BY <1>1, <2>1, <2>2, <2>3 DEF WindowTypes
  <1>5. WindowPlays'
    BY <1>1 DEF WindowInv, WindowPlays, WindowTypes, SequenceEnds, GuiRuns,
      MayAsk, Buttons, Hotkeys, display, life, playback, recording, content,
      SequenceAlone
  <1>6. GuiWaits'
    BY <1>1 DEF WindowInv, GuiWaits, WindowTypes, SequenceEnds, GuiRuns,
      MayAsk, Buttons, Hotkeys, display, life, playback, recording, content,
      SequenceAlone
  <1>7. RecordingKnown'
    BY <1>1 DEF WindowInv, RecordingKnown, WindowTypes, SequenceEnds, GuiRuns,
      MayAsk, Buttons, Hotkeys, display, life, playback, recording, content,
      SequenceAlone
  <1>8. SequenceAlone'
    BY <1>1 DEF WindowInv, SequenceAlone, WindowTypes, SequenceEnds, GuiRuns,
      MayAsk, Buttons, Hotkeys, display, life, playback, recording, content
  <1>9. UNCHANGED <<queue, playback>>
    BY DEF SequenceEnds, GuiRuns, MayAsk, Buttons, Hotkeys
  <1>10. saver = "ended" => UNCHANGED <<saver, rec, gen>>
    BY <1>1 DEF WindowInv, RecordingKnown, SequenceEnds, GuiRuns, MayAsk,
      Buttons, Hotkeys, display, life, playback, recording, content
  <1>. QED
    BY <1>2, <1>3, <1>4, <1>5, <1>6, <1>7, <1>8, <1>9, <1>10, HandlerKeeps

LEMMA OnSequenceDoneStep ==
    ASSUME WindowInv, OnSequenceDone
    PROVE  WindowInv'
  <1>1. ThreadTypes /\ WindowTypes /\ MacroTypes
    BY Types DEF WindowInv
  <1>0. /\ GuiRuns /\ dialogs # <<>> /\ Head(dialogs) = dialogs[1]
        /\ dialogs[1].kind = "sequenceError" /\ dialogs[1] \in Dialog /\ Fits(dialogs[1])
    BY OnTop DEF OnSequenceDone
  <1>11. state = "idle" /\ seq = "off"
    BY <1>0 DEF Fits, Question
  <1>2. DialogTypes' /\ DialogsNest'
    BY <1>0, ClosedFits DEF OnSequenceDone, recording
  <1>3. MacroTypes'
    BY ContentKept DEF OnSequenceDone, display, life, playback, recording,
      content
  <1>4. WindowTypes'
    <2>1. UNCHANGED <<state, paused, polling, gui, closed, seq, rec, saver,
      gen, quick, quickText, appendMode>>
      BY DEF OnSequenceDone, display, life, playback, recording, content
    <2>2. hook' \in BOOLEAN
      BY <1>1, <1>0, <1>11 DEF WindowTypes, State, OnSequenceDone, display,
        life, playback, recording, content
    <2>. QED
      BY <1>1, <2>1, <2>2 DEF WindowTypes
  <1>5. WindowPlays'
    BY <1>1, <1>0, <1>11 DEF WindowInv, WindowPlays, WindowTypes,
      OnSequenceDone, display, life, playback, recording, content
  <1>6. GuiWaits'
    BY <1>1, <1>0, <1>11 DEF WindowInv, GuiWaits, WindowTypes, OnSequenceDone,
      display, life, playback, recording, content
  <1>7. RecordingKnown'
    BY <1>1, <1>0, <1>11 DEF WindowInv, RecordingKnown, WindowTypes,
      OnSequenceDone, display, life, playback, recording, content
  <1>8. SequenceAlone'
    BY <1>1, <1>0, <1>11 DEF WindowInv, SequenceAlone, WindowTypes,
      OnSequenceDone, display, life, playback, recording, content
  <1>9. UNCHANGED <<queue, playback>>
    BY DEF OnSequenceDone
  <1>10. saver = "ended" => UNCHANGED <<saver, rec, gen>>
    BY <1>1, <1>0, <1>11 DEF WindowInv, RecordingKnown, OnSequenceDone,
      display, life, playback, recording, content
  <1>. QED
    BY <1>2, <1>3, <1>4, <1>5, <1>6, <1>7, <1>8, <1>9, <1>10, HandlerKeeps

LEMMA PauseRecordingStep ==
    ASSUME WindowInv, PauseRecording
    PROVE  WindowInv'
  <1>1. ThreadTypes /\ WindowTypes /\ MacroTypes
    BY Types DEF WindowInv
  <1>2. DialogTypes' /\ DialogsNest'
    <2>1. \A i \in 1 .. Len(dialogs) : Fits(dialogs[i])
      BY DEF WindowInv, DialogsNest
    <2>2. \A i \in 1 .. Len(dialogs') : Fits(dialogs[i])'
      BY <1>1, <2>1 DEF PauseRecording, NoTextOpen, Fits, Text, WindowTypes
    <2>. QED
      BY <2>2, Types DEF PauseRecording, WindowInv, DialogsNest, DialogTypes
  <1>3. MacroTypes'
    BY ContentKept DEF PauseRecording, GuiRuns, MayAsk, Buttons, Hotkeys,
      display, life, playback, recording, content
  <1>4. WindowTypes'
    <2>1. UNCHANGED <<state, polling, hook, gui, closed, seq, saver, gen,
      quick, quickText, appendMode>>
      BY DEF PauseRecording, GuiRuns, MayAsk, Buttons, Hotkeys, display, life,
        playback, recording, content
    <2>2. rec' \in [on : BOOLEAN, paused : BOOLEAN]
      BY <1>1 DEF WindowTypes, State, PauseRecording, GuiRuns, MayAsk,
        Buttons, Hotkeys, display, life, playback, recording, content
    <2>3. paused' \in BOOLEAN
      BY <1>1 DEF WindowTypes, State, PauseRecording, GuiRuns, MayAsk,
        Buttons, Hotkeys, display, life, playback, recording, content
    <2>. QED
      BY <1>1, <2>1, <2>2, <2>3 DEF WindowTypes
  <1>5. WindowPlays'
    BY <1>1 DEF WindowInv, WindowPlays, WindowTypes, PauseRecording, GuiRuns,
      MayAsk, Buttons, Hotkeys, display, life, playback, recording, content
  <1>6. GuiWaits'
    BY <1>1 DEF WindowInv, GuiWaits, WindowTypes, PauseRecording, GuiRuns,
      MayAsk, Buttons, Hotkeys, display, life, playback, recording, content
  <1>7. RecordingKnown'
    BY <1>1 DEF WindowInv, RecordingKnown, WindowTypes, PauseRecording,
      GuiRuns, MayAsk, Buttons, Hotkeys, display, life, playback, recording,
      content
  <1>8. SequenceAlone'
    BY <1>1 DEF WindowInv, SequenceAlone, WindowTypes, PauseRecording,
      GuiRuns, MayAsk, Buttons, Hotkeys, display, life, playback, recording,
      content
  <1>9. UNCHANGED <<queue, playback>>
    BY DEF PauseRecording, GuiRuns, MayAsk, Buttons, Hotkeys
  <1>10. saver = "ended" => UNCHANGED <<saver, rec, gen>>
    BY <1>1 DEF WindowInv, RecordingKnown, PauseRecording, GuiRuns, MayAsk,
      Buttons, Hotkeys, display, life, playback, recording, content
  <1>. QED
    BY <1>2, <1>3, <1>4, <1>5, <1>6, <1>7, <1>8, <1>9, <1>10, HandlerKeeps

LEMMA CloseJoinsStep ==
    ASSUME WindowInv, CloseJoins
    PROVE  WindowInv'
  <1>1. ThreadTypes /\ WindowTypes /\ MacroTypes
    BY Types DEF WindowInv
  <1>2. DialogTypes' /\ DialogsNest'
    BY DialogsKept DEF CloseJoins, display, life, playback, recording, content
  <1>3. MacroTypes'
    BY ContentKept DEF CloseJoins, display, life, playback, recording, content
  <1>4. WindowTypes'
    <2>1. UNCHANGED <<state, paused, polling, hook, closed, seq, rec, saver,
      gen, quick, quickText, appendMode>>
      BY DEF CloseJoins, display, life, playback, recording, content
    <2>2. gui' \in {"free", "stopping", "closing", "joining", "draining", "leaving"}
      BY <1>1 DEF WindowTypes, State, CloseJoins, display, life, playback,
        recording, content
    <2>. QED
      BY <1>1, <2>1, <2>2 DEF WindowTypes
  <1>5. WindowPlays'
    BY <1>1 DEF WindowInv, WindowPlays, WindowTypes, CloseJoins, display,
      life, playback, recording, content
  <1>6. GuiWaits'
    BY <1>1 DEF WindowInv, GuiWaits, WindowTypes, CloseJoins, display, life,
      playback, recording, content
  <1>7. RecordingKnown'
    BY <1>1 DEF WindowInv, RecordingKnown, WindowTypes, CloseJoins, display,
      life, playback, recording, content
  <1>8. SequenceAlone'
    BY <1>1 DEF WindowInv, SequenceAlone, WindowTypes, CloseJoins, display,
      life, playback, recording, content
  <1>9. UNCHANGED <<queue, playback>>
    BY DEF CloseJoins
  <1>10. saver = "ended" => UNCHANGED <<saver, rec, gen>>
    BY <1>1 DEF WindowInv, RecordingKnown, CloseJoins, display, life,
      playback, recording, content
  <1>. QED
    BY <1>2, <1>3, <1>4, <1>5, <1>6, <1>7, <1>8, <1>9, <1>10, HandlerKeeps

LEMMA CloseDrainedStep ==
    ASSUME WindowInv, CloseDrained
    PROVE  WindowInv'
  <1>1. ThreadTypes /\ WindowTypes /\ MacroTypes
    BY Types DEF WindowInv
  <1>2. DialogTypes' /\ DialogsNest'
    BY DialogsKept DEF CloseDrained, display, life, playback, recording,
      content
  <1>3. MacroTypes'
    BY ContentKept DEF CloseDrained, display, life, playback, recording,
      content
  <1>4. WindowTypes'
    <2>1. UNCHANGED <<state, paused, polling, hook, closed, seq, rec, saver,
      gen, quick, quickText, appendMode>>
      BY DEF CloseDrained, display, life, playback, recording, content
    <2>2. gui' \in {"free", "stopping", "closing", "joining", "draining", "leaving"}
      BY <1>1 DEF WindowTypes, State, CloseDrained, display, life, playback,
        recording, content
    <2>. QED
      BY <1>1, <2>1, <2>2 DEF WindowTypes
  <1>5. WindowPlays'
    BY <1>1 DEF WindowInv, WindowPlays, WindowTypes, CloseDrained, display,
      life, playback, recording, content
  <1>6. GuiWaits'
    BY <1>1 DEF WindowInv, GuiWaits, WindowTypes, CloseDrained, display, life,
      playback, recording, content
  <1>7. RecordingKnown'
    BY <1>1 DEF WindowInv, RecordingKnown, WindowTypes, CloseDrained, display,
      life, playback, recording, content
  <1>8. SequenceAlone'
    BY <1>1 DEF WindowInv, SequenceAlone, WindowTypes, CloseDrained, display,
      life, playback, recording, content
  <1>9. UNCHANGED <<queue, playback>>
    BY DEF CloseDrained
  <1>10. saver = "ended" => UNCHANGED <<saver, rec, gen>>
    BY <1>1 DEF WindowInv, RecordingKnown, CloseDrained, display, life,
      playback, recording, content
  <1>. QED
    BY <1>2, <1>3, <1>4, <1>5, <1>6, <1>7, <1>8, <1>9, <1>10, HandlerKeeps

LEMMA AnswerDiscardStep ==
    ASSUME WindowInv, NEW yes \in BOOLEAN, AnswerDiscard(yes)
    PROVE  WindowInv'
  <1>1. ThreadTypes /\ WindowTypes /\ MacroTypes
    BY Types DEF WindowInv
  <1>0. /\ GuiRuns /\ dialogs # <<>> /\ Head(dialogs) = dialogs[1]
        /\ dialogs[1].kind = "discard" /\ dialogs[1] \in Dialog /\ Fits(dialogs[1])
    BY OnTop DEF AnswerDiscard
  <1>11. state = "idle" /\ seq = "off"
    BY <1>0 DEF Fits, Question
  <1>2. DialogTypes' /\ DialogsNest'
    BY <1>0, ClosedFits DEF AnswerDiscard, recording, display
  <1>3. MacroTypes'
    BY ContentKept DEF AnswerDiscard, display, life, playback, recording,
      content
  <1>4. WindowTypes'
    <2>1. UNCHANGED <<state, paused, polling, hook, gui, seq, rec, saver, gen,
      quick, quickText, appendMode>>
      BY DEF AnswerDiscard, display, life, playback, recording, content
    <2>2. closed' \in BOOLEAN
      BY <1>1, <1>0, <1>11 DEF WindowTypes, State, AnswerDiscard, display,
        life, playback, recording, content
    <2>. QED
      BY <1>1, <2>1, <2>2 DEF WindowTypes
  <1>5. WindowPlays'
    BY <1>1, <1>0, <1>11 DEF WindowInv, WindowPlays, WindowTypes,
      AnswerDiscard, display, life, playback, recording, content
  <1>6. GuiWaits'
    BY <1>1, <1>0, <1>11 DEF WindowInv, GuiWaits, WindowTypes, AnswerDiscard,
      display, life, playback, recording, content
  <1>7. RecordingKnown'
    BY <1>1, <1>0, <1>11 DEF WindowInv, RecordingKnown, WindowTypes,
      AnswerDiscard, display, life, playback, recording, content
  <1>8. SequenceAlone'
    BY <1>1, <1>0, <1>11 DEF WindowInv, SequenceAlone, WindowTypes,
      AnswerDiscard, display, life, playback, recording, content
  <1>9. UNCHANGED <<queue, playback>>
    BY DEF AnswerDiscard
  <1>10. saver = "ended" => UNCHANGED <<saver, rec, gen>>
    BY <1>1, <1>0, <1>11 DEF WindowInv, RecordingKnown, AnswerDiscard, display,
      life, playback, recording, content
  <1>. QED
    BY <1>2, <1>3, <1>4, <1>5, <1>6, <1>7, <1>8, <1>9, <1>10, HandlerKeeps

LEMMA LoadMacroStep ==
    ASSUME WindowInv, LoadMacro
    PROVE  WindowInv'
  <1>1. ThreadTypes /\ WindowTypes /\ MacroTypes
    BY Types DEF WindowInv
  <1>2. DialogTypes' /\ DialogsNest'
    BY DialogsKept DEF LoadMacro, GuiRuns, MayAsk, Buttons, Hotkeys, display,
      life, playback, recording, content
  <1>3. MacroTypes'
    <2>1. <<0>> \in Macro
      BY WindowAssumption DEF Macro
    <2>. QED
      BY <1>1, <2>1 DEF LoadMacro, MacroTypes
  <1>4. WindowTypes'
    <2>1. UNCHANGED <<state, paused, polling, hook, gui, closed, seq, rec,
      saver, gen, quick, quickText, appendMode>>
      BY DEF LoadMacro, GuiRuns, MayAsk, Buttons, Hotkeys, display, life,
        playback, recording, content
    <2>. QED
      BY <1>1, <2>1 DEF WindowTypes
  <1>5. WindowPlays'
    BY <1>1 DEF WindowInv, WindowPlays, WindowTypes, LoadMacro, GuiRuns,
      MayAsk, Buttons, Hotkeys, display, life, playback, recording, content
  <1>6. GuiWaits'
    BY <1>1 DEF WindowInv, GuiWaits, WindowTypes, LoadMacro, GuiRuns, MayAsk,
      Buttons, Hotkeys, display, life, playback, recording, content
  <1>7. RecordingKnown'
    BY <1>1 DEF WindowInv, RecordingKnown, WindowTypes, LoadMacro, GuiRuns,
      MayAsk, Buttons, Hotkeys, display, life, playback, recording, content
  <1>8. SequenceAlone'
    BY <1>1 DEF WindowInv, SequenceAlone, WindowTypes, LoadMacro, GuiRuns,
      MayAsk, Buttons, Hotkeys, display, life, playback, recording, content
  <1>9. UNCHANGED <<queue, playback>>
    BY DEF LoadMacro, GuiRuns, MayAsk, Buttons, Hotkeys
  <1>10. saver = "ended" => UNCHANGED <<saver, rec, gen>>
    BY <1>1 DEF WindowInv, RecordingKnown, LoadMacro, GuiRuns, MayAsk,
      Buttons, Hotkeys, display, life, playback, recording, content
  <1>. QED
    BY <1>2, <1>3, <1>4, <1>5, <1>6, <1>7, <1>8, <1>9, <1>10, HandlerKeeps

LEMMA RestorePrevStep ==
    ASSUME WindowInv, RestorePrev
    PROVE  WindowInv'
  <1>1. ThreadTypes /\ WindowTypes /\ MacroTypes
    BY Types DEF WindowInv
  <1>2. DialogTypes' /\ DialogsNest'
    BY DialogsKept DEF RestorePrev, GuiRuns, MayAsk, Buttons, Hotkeys,
      display, life, playback, recording, content
  <1>3. MacroTypes'
    <2>1. <<>> \in Macro
      BY DEF Macro
    <2>. QED
      BY <1>1, <2>1 DEF RestorePrev, MacroTypes
  <1>4. WindowTypes'
    <2>1. UNCHANGED <<state, paused, polling, hook, gui, closed, seq, rec,
      saver, gen, quick, quickText, appendMode>>
      BY DEF RestorePrev, GuiRuns, MayAsk, Buttons, Hotkeys, display, life,
        playback, recording, content
    <2>. QED
      BY <1>1, <2>1 DEF WindowTypes
  <1>5. WindowPlays'
    BY <1>1 DEF WindowInv, WindowPlays, WindowTypes, RestorePrev, GuiRuns,
      MayAsk, Buttons, Hotkeys, display, life, playback, recording, content
  <1>6. GuiWaits'
    BY <1>1 DEF WindowInv, GuiWaits, WindowTypes, RestorePrev, GuiRuns,
      MayAsk, Buttons, Hotkeys, display, life, playback, recording, content
  <1>7. RecordingKnown'
    BY <1>1 DEF WindowInv, RecordingKnown, WindowTypes, RestorePrev, GuiRuns,
      MayAsk, Buttons, Hotkeys, display, life, playback, recording, content
  <1>8. SequenceAlone'
    BY <1>1 DEF WindowInv, SequenceAlone, WindowTypes, RestorePrev, GuiRuns,
      MayAsk, Buttons, Hotkeys, display, life, playback, recording, content
  <1>9. UNCHANGED <<queue, playback>>
    BY DEF RestorePrev, GuiRuns, MayAsk, Buttons, Hotkeys
  <1>10. saver = "ended" => UNCHANGED <<saver, rec, gen>>
    BY <1>1 DEF WindowInv, RecordingKnown, RestorePrev, GuiRuns, MayAsk,
      Buttons, Hotkeys, display, life, playback, recording, content
  <1>. QED
    BY <1>2, <1>3, <1>4, <1>5, <1>6, <1>7, <1>8, <1>9, <1>10, HandlerKeeps

-----------------------------------------------------------------------------
(* Beginning and ending a recording.                                       *)

(* A stop asked for while a recording is on, or its save worker runs.      *)
LEMMA StopFinds ==
    ASSUME WindowInv, Careful, GuiRuns, MayAskStop, state \in {"recording", "stopping"}
    PROVE  /\ seq = "off"
           /\ ~SaverAlive => /\ saver = "none" /\ rec.on
                             /\ \A i \in 1 .. Len(dialogs) : dialogs[i].kind # "notRestored"
  <1>1. seq = "off"
    BY DEF WindowInv, SequenceAlone
  <1>2. SUFFICES ASSUME ~SaverAlive
                 PROVE  /\ saver = "none" /\ rec.on
                        /\ \A i \in 1 .. Len(dialogs) : dialogs[i].kind # "notRestored"
    BY <1>1
  <1>3. saver # "ended" /\ ~Top("notRestored")
    BY DEF Careful, MayAskStop
  <1>4. saver = "none"
    BY <1>2, <1>3, Types DEF WindowInv, WindowTypes, SaverAlive
  <1>5. dialogs \in Seq(Dialog)
    BY Types DEF WindowInv, DialogTypes
  <1>6. dialogs # <<>> => dialogs[1].kind # "notRestored"
    BY <1>3, <1>5, TailFacts DEF Top
  <1>7. rec.on
    BY <1>4, <1>6 DEF WindowInv, RecordingKnown
  <1>8. \A i \in 1 .. Len(dialogs) : dialogs[i].kind # "notRestored"
    BY <1>7 DEF WindowInv, DialogsNest, Fits
  <1>. QED
    BY <1>4, <1>7, <1>8

LEMMA StopRecordingKeeps ==
    ASSUME WindowInv, Careful, GuiRuns, MayAskStop, StopRecording,
           state \in {"recording", "stopping"}, gui' \in {gui, "joining"},
           UNCHANGED <<hook, closed, dialogs, queue, playback, seq, rec, gen, quick,
                       quickText, content>>
    PROVE  WindowInv'
  <1>1. ThreadTypes /\ WindowTypes /\ MacroTypes
    BY Types DEF WindowInv
  <1>0. /\ seq = "off"
        /\ ~SaverAlive => /\ saver = "none" /\ rec.on
                          /\ \A i \in 1 .. Len(dialogs) : dialogs[i].kind # "notRestored"
    BY StopFinds
  <1>2. DialogTypes' /\ DialogsNest'
    <2>1. \A i \in 1 .. Len(dialogs) : Fits(dialogs[i])
      BY DEF WindowInv, DialogsNest
    <2>2. \A i \in 1 .. Len(dialogs') : Fits(dialogs[i])'
      BY <1>0, <2>1 DEF StopRecording, Fits, Question
    <2>. QED
      BY <2>2, Types DEF WindowInv, DialogsNest, DialogTypes
  <1>3. MacroTypes'
    BY ContentKept DEF StopRecording, GuiRuns, SaverAlive, display, life,
      playback, recording, content
  <1>4. WindowTypes'
    <2>1. UNCHANGED <<hook, closed, seq, rec, gen, quick, quickText,
      appendMode>>
      BY DEF StopRecording, GuiRuns, SaverAlive, display, life, playback,
        recording, content
    <2>2. state' \in State
      BY <1>1, <1>0 DEF WindowTypes, State, StopRecording, GuiRuns,
        SaverAlive, display, life, playback, recording, content
    <2>3. paused' \in BOOLEAN
      BY <1>1, <1>0 DEF WindowTypes, State, StopRecording, GuiRuns,
        SaverAlive, display, life, playback, recording, content
    <2>4. polling' \in BOOLEAN
      BY <1>1, <1>0 DEF WindowTypes, State, StopRecording, GuiRuns,
        SaverAlive, display, life, playback, recording, content
    <2>5. saver' \in {"none", "stopping", "saving", "ended"}
      BY <1>1, <1>0 DEF WindowTypes, State, StopRecording, GuiRuns,
        SaverAlive, display, life, playback, recording, content
    <2>6. gui' \in {"free", "stopping", "closing", "joining", "draining", "leaving"}
      BY <1>1, <1>0 DEF WindowTypes, State, StopRecording, GuiRuns,
        SaverAlive, display, life, playback, recording, content
    <2>. QED
      BY <1>1, <2>1, <2>2, <2>3, <2>4, <2>5, <2>6 DEF WindowTypes
  <1>5. WindowPlays'
    BY <1>1, <1>0 DEF WindowInv, WindowPlays, WindowTypes, StopRecording,
      GuiRuns, SaverAlive, display, life, playback, recording, content,
      SequenceAlone
  <1>6. GuiWaits'
    BY <1>1, <1>0 DEF WindowInv, GuiWaits, WindowTypes, StopRecording,
      GuiRuns, SaverAlive, display, life, playback, recording, content,
      SequenceAlone
  <1>7. RecordingKnown'
    BY <1>1, <1>0 DEF WindowInv, RecordingKnown, WindowTypes, StopRecording,
      GuiRuns, SaverAlive, display, life, playback, recording, content,
      SequenceAlone
  <1>8. SequenceAlone'
    BY <1>1, <1>0 DEF WindowInv, SequenceAlone, WindowTypes, StopRecording,
      GuiRuns, SaverAlive, display, life, playback, recording, content
  <1>9. UNCHANGED <<queue, playback>>
    BY DEF StopRecording, GuiRuns, SaverAlive
  <1>10. saver = "ended" => UNCHANGED <<saver, rec, gen>>
    BY <1>1, <1>0 DEF WindowInv, RecordingKnown, StopRecording, GuiRuns,
      SaverAlive, display, life, playback, recording, content
  <1>. QED
    BY <1>2, <1>3, <1>4, <1>5, <1>6, <1>7, <1>8, <1>9, <1>10, HandlerKeeps

LEMMA PressStopRecordingStep ==
    ASSUME WindowInv, Careful, PressStopRecording
    PROVE  WindowInv'
  <1>1. /\ GuiRuns /\ MayAskStop /\ StopRecording /\ state \in {"recording", "stopping"}
        /\ gui' = gui
        /\ UNCHANGED <<hook, closed, dialogs, queue, playback, seq, rec, gen, quick,
                       quickText, content>>
    BY DEF PressStopRecording, Hotkeys, MayAsk, life
  <1>. QED
    BY <1>1, StopRecordingKeeps

LEMMA RecordingBegins ==
    ASSUME WindowInv, NEW append \in BOOLEAN, NEW from \in Macro, NEW asked,
           StartRecording(append, from, asked), state = "idle", seq = "off", GuiRuns,
           gen < MaxRecordings => asked \in Macro, DialogTypes', Nested(dialogs'),
           \A i \in 1 .. Len(dialogs') :
                quickText /\ dialogs'[i].kind = "quickText" /\ dialogs'[i].gen <= gen
    PROVE  WindowInv'
  <1>1. ThreadTypes /\ WindowTypes /\ MacroTypes
    BY Types DEF WindowInv
  <1>0. /\ ~rec.on /\ quick # "off" /\ saver = "none" /\ session = 0
        /\ gen \in Nat /\ gen <= MaxRecordings
    BY <1>1, WindowAssumption DEF WindowInv, RecordingKnown, WindowPlays, WindowTypes,
       ThreadTypes
  <1>11. /\ UNCHANGED <<gui, closed, session, repeat, pauseEvent, seq, saver, quickText, macro>>
         /\ appendMode' \in BOOLEAN /\ UNCHANGED hook
    BY <1>1 DEF StartRecording, SuspendFails, RecorderFails, RecorderStarts,
       WindowTypes, life, playback, display
  <1>12. \/ /\ UNCHANGED <<state, paused, polling, rec, gen>>
            /\ quick' \in {"on", "refused", quick}
         \/ /\ state' = "recording" /\ paused' = FALSE /\ polling' = TRUE
            /\ rec' = [on |-> TRUE, paused |-> FALSE] /\ quick' = "off"
            /\ gen < MaxRecordings /\ gen' = gen + 1
    BY <1>0 DEF StartRecording, SuspendFails, RecorderFails, RecorderStarts, Restored, display
  <1>2. DialogTypes' /\ DialogsNest'
    <2> SUFFICES ASSUME NEW i \in 1 .. Len(dialogs')
                 PROVE  Fits(dialogs[i])'
      BY DEF DialogsNest
    <2>1. dialogs'[i] \in Dialog
      BY DEF DialogTypes
    <2>2. quickText' /\ dialogs'[i].kind = "quickText"
      BY <1>11
    <2>3. dialogs'[i].gen \in Nat /\ dialogs'[i].gen <= gen
      BY <2>1, <2>2, DialogGen
    <2>4. dialogs'[i].gen <= gen' /\ (rec'.on => dialogs'[i].gen # gen')
      <3>1. \A g, n \in Nat : g <= n => g <= n + 1 /\ g # n + 1
        OBVIOUS
      <3>2. (gen' = gen /\ ~rec'.on) \/ gen' = gen + 1
        BY <1>0, <1>12
      <3>. QED
        BY <1>0, <2>3, <3>1, <3>2
    <2>. QED
      BY <2>2, <2>4 DEF Fits, Question, Text
  <1>3. MacroTypes'
    <2>1. <<>> \in Macro
      BY DEF Macro
    <2>. QED
      BY <1>1, <2>1 DEF StartRecording, SuspendFails, RecorderFails, RecorderStarts, MacroTypes
  <1>4. WindowTypes'
    <2>1. UNCHANGED <<hook, gui, closed, seq, saver, quickText>>
      BY <1>11
    <2>2. state' \in State
      BY <1>1, <1>0, <1>11, <1>12 DEF WindowTypes, State, GuiRuns
    <2>3. paused' \in BOOLEAN
      BY <1>1, <1>0, <1>11, <1>12 DEF WindowTypes, State, GuiRuns
    <2>4. polling' \in BOOLEAN
      BY <1>1, <1>0, <1>11, <1>12 DEF WindowTypes, State, GuiRuns
    <2>5. rec' \in [on : BOOLEAN, paused : BOOLEAN]
      <3>1. [on |-> TRUE, paused |-> FALSE] \in [on : BOOLEAN, paused : BOOLEAN]
        OBVIOUS
      <3>2. rec' = rec \/ rec' = [on |-> TRUE, paused |-> FALSE]
        BY <1>12
      <3>. QED
        BY <1>1, <3>1, <3>2 DEF WindowTypes
    <2>6. quick' \in {"on", "off", "refused"}
      BY <1>1, <1>0, <1>11, <1>12 DEF WindowTypes, State, GuiRuns
    <2>7. gen' \in 0 .. MaxRecordings
      <3>1. gen' = gen \/ (gen < MaxRecordings /\ gen' = gen + 1)
        BY <1>12
      <3>. QED
        BY <1>0, <3>1, WindowAssumption
    <2>8. appendMode' \in BOOLEAN
      BY <1>1, <1>0, <1>11, <1>12 DEF WindowTypes, State, GuiRuns
    <2>. QED
      BY <1>1, <2>1, <2>2, <2>3, <2>4, <2>5, <2>6, <2>7, <2>8 DEF WindowTypes
  <1>5. WindowPlays'
    BY <1>1, <1>0, <1>11, <1>12 DEF WindowInv, WindowPlays, WindowTypes, GuiRuns
  <1>6. GuiWaits'
    BY <1>1, <1>0, <1>11, <1>12 DEF WindowInv, GuiWaits, WindowTypes, GuiRuns
  <1>7. RecordingKnown'
    <2>1. CASE /\ UNCHANGED <<state, paused, polling, rec, gen>>
               /\ quick' \in {"on", "refused", quick}
      BY <1>0, <1>11, <2>1 DEF RecordingKnown
    <2>2. CASE /\ state' = "recording" /\ paused' = FALSE /\ polling' = TRUE
               /\ rec' = [on |-> TRUE, paused |-> FALSE] /\ quick' = "off"
               /\ gen < MaxRecordings /\ gen' = gen + 1
      <3>1. rec'.on /\ ~rec'.paused /\ gen' >= 1 /\ saver' = "none"
        BY <1>0, <1>11, <2>2
      <3>. QED
        BY <2>2, <3>1 DEF RecordingKnown
    <2>. QED
      BY <1>12, <2>1, <2>2
  <1>8. SequenceAlone'
    BY <1>1, <1>0, <1>11, <1>12 DEF WindowInv, SequenceAlone, WindowTypes, GuiRuns
  <1>9. UNCHANGED <<queue, playback>>
    BY DEF StartRecording, SuspendFails, RecorderFails, RecorderStarts,
      Restored, GuiRuns
  <1>10. saver = "ended" => UNCHANGED <<saver, rec, gen>>
    BY <1>1, <1>0 DEF WindowInv, RecordingKnown, StartRecording, SuspendFails,
      RecorderFails, RecorderStarts, Restored, GuiRuns, display, life,
      playback, recording, content
  <1>. QED
    BY <1>2, <1>3, <1>4, <1>5, <1>6, <1>7, <1>8, <1>9, <1>10, HandlerKeeps

LEMMA OneRecording ==
    ASSUME WindowInv, gen < MaxRecordings, NEW m \in Macro
    PROVE  Append(m, gen + 1) \in Macro /\ <<gen + 1>> \in Macro
  <1>1. gen + 1 \in 0 .. MaxRecordings
    BY Types, WindowAssumption DEF WindowInv, WindowTypes
  <1>. QED
    BY <1>1 DEF Macro

LEMMA PressRecordStep ==
    ASSUME WindowInv, Careful, PressRecord
    PROVE  WindowInv'
  <1>1. appendMode \in BOOLEAN /\ base \in Macro /\ dialogs \in Seq(Dialog)
    BY Types DEF WindowInv, WindowTypes, MacroTypes, DialogTypes
  <1>2. /\ StartRecording(appendMode, base, <<gen + 1>>) /\ UNCHANGED dialogs
        /\ state = "idle" /\ seq = "off" /\ Hotkeys /\ GuiRuns
    BY DEF PressRecord, Hotkeys, MayAsk
  <1>3. gen < MaxRecordings => <<gen + 1>> \in Macro
    BY <1>1, OneRecording
  <1>4. DialogTypes' /\ Nested(dialogs')
    BY <1>1, <1>2 DEF WindowInv, DialogsNest, DialogTypes
  <1>5. ASSUME NEW i \in 1 .. Len(dialogs')
        PROVE  quickText /\ dialogs'[i].kind = "quickText" /\ dialogs'[i].gen <= gen
    <2>1. dialogs # <<>>
      BY <1>1, <1>2, <1>5
    <2>2. Len(dialogs) = 1 /\ dialogs[1].kind = "quickText" /\ quickText
      BY <1>2, <2>1, KeysFree
    <2>3. i = 1 /\ dialogs'[i] = dialogs[1]
      BY <1>2, <2>2
    <2>4. Fits(dialogs[1])
      BY <2>2 DEF WindowInv, DialogsNest
    <2>. QED
      BY <2>2, <2>3, <2>4 DEF Fits, Text
  <1>. QED
    BY <1>1, <1>2, <1>3, <1>4, <1>5, RecordingBegins

LEMMA AskAppendStep ==
    ASSUME WindowInv, AskAppend
    PROVE  WindowInv'
  <1>1. ThreadTypes /\ WindowTypes /\ MacroTypes
    BY Types DEF WindowInv
  <1>2. DialogTypes' /\ DialogsNest'
    <2> DEFINE d == [kind |-> "append"]
    <2>1. d \in Dialog /\ d.kind = "append"
      BY DEF Dialog
    <2> HIDE DEF d
    <2>2. dialogs' = <<d>> \o dialogs
      BY DEF AskAppend, Open, d
    <2>3. /\ UNCHANGED <<state, saver, rec, quick, gen, quickText, seq>> /\ dialogs = <<>>
          /\ state = "idle" /\ seq = "off"
      BY DEF AskAppend, Buttons, recording, display
    <2>4. Fits([kind |-> "append"])'
      BY <2>3 DEF Fits, Text, Question
    <2>. QED
      BY <2>1, <2>2, <2>3, <2>4, OpenedFits DEF d
  <1>3. MacroTypes'
    BY ContentKept DEF AskAppend, GuiRuns, MayAsk, Buttons, Hotkeys, display,
      life, playback, recording, content
  <1>4. WindowTypes'
    <2>1. UNCHANGED <<state, paused, polling, hook, gui, closed, seq, rec,
      saver, gen, quick, quickText, appendMode>>
      BY DEF AskAppend, GuiRuns, MayAsk, Buttons, Hotkeys, display, life,
        playback, recording, content
    <2>. QED
      BY <1>1, <2>1 DEF WindowTypes
  <1>5. WindowPlays'
    BY <1>1 DEF WindowInv, WindowPlays, WindowTypes, AskAppend, GuiRuns,
      MayAsk, Buttons, Hotkeys, display, life, playback, recording, content
  <1>6. GuiWaits'
    BY <1>1 DEF WindowInv, GuiWaits, WindowTypes, AskAppend, GuiRuns, MayAsk,
      Buttons, Hotkeys, display, life, playback, recording, content
  <1>7. RecordingKnown'
    BY <1>1 DEF WindowInv, RecordingKnown, WindowTypes, AskAppend, GuiRuns,
      MayAsk, Buttons, Hotkeys, display, life, playback, recording, content
  <1>8. SequenceAlone'
    BY <1>1 DEF WindowInv, SequenceAlone, WindowTypes, AskAppend, GuiRuns,
      MayAsk, Buttons, Hotkeys, display, life, playback, recording, content
  <1>9. UNCHANGED <<queue, playback>>
    BY DEF AskAppend, GuiRuns, MayAsk, Buttons, Hotkeys
  <1>10. saver = "ended" => UNCHANGED <<saver, rec, gen>>
    BY <1>1 DEF WindowInv, RecordingKnown, AskAppend, GuiRuns, MayAsk,
      Buttons, Hotkeys, display, life, playback, recording, content
  <1>. QED
    BY <1>2, <1>3, <1>4, <1>5, <1>6, <1>7, <1>8, <1>9, <1>10, HandlerKeeps

(* A question that is declined changes nothing but the dialogs.            *)
LEMMA DeclinedKeeps ==
    ASSUME WindowInv, dialogs # <<>>, CloseTop, state # "stopping",
           UNCHANGED <<display, life, queue, playback, seq, recording, content>>
    PROVE  WindowInv'
  <1>1. ThreadTypes /\ WindowTypes /\ MacroTypes
    BY Types DEF WindowInv
  <1>2. DialogTypes' /\ DialogsNest'
    BY ClosedFits DEF display, recording
  <1>3. MacroTypes'
    BY ContentKept DEF CloseTop, display, life, playback, recording, content
  <1>4. WindowTypes'
    <2>1. UNCHANGED <<state, paused, polling, hook, gui, closed, seq, rec,
      saver, gen, quick, quickText, appendMode>>
      BY DEF CloseTop, display, life, playback, recording, content
    <2>. QED
      BY <1>1, <2>1 DEF WindowTypes
  <1>5. WindowPlays'
    BY <1>1 DEF WindowInv, WindowPlays, WindowTypes, CloseTop, display, life,
      playback, recording, content
  <1>6. GuiWaits'
    BY <1>1 DEF WindowInv, GuiWaits, WindowTypes, CloseTop, display, life,
      playback, recording, content
  <1>7. RecordingKnown'
    BY <1>1 DEF WindowInv, RecordingKnown, WindowTypes, CloseTop, display,
      life, playback, recording, content
  <1>8. SequenceAlone'
    BY <1>1 DEF WindowInv, SequenceAlone, WindowTypes, CloseTop, display,
      life, playback, recording, content
  <1>9. UNCHANGED <<queue, playback>>
    BY DEF CloseTop
  <1>10. saver = "ended" => UNCHANGED <<saver, rec, gen>>
    BY <1>1 DEF WindowInv, RecordingKnown, CloseTop, display, life, playback,
      recording, content
  <1>. QED
    BY <1>2, <1>3, <1>4, <1>5, <1>6, <1>7, <1>8, <1>9, <1>10, HandlerKeeps

LEMMA AnswerAppendStep ==
    ASSUME WindowInv, NEW yes \in BOOLEAN, AnswerAppend(yes)
    PROVE  WindowInv'
  <1>0. /\ GuiRuns /\ dialogs # <<>> /\ Head(dialogs) = dialogs[1]
        /\ dialogs[1].kind = "append" /\ dialogs[1] \in Dialog /\ Fits(dialogs[1])
    BY OnTop DEF AnswerAppend
  <1>1. state = "idle" /\ seq = "off"
    BY <1>0 DEF Fits, Question
  <1>2. CASE yes
    <2>1. macro \in Macro
      BY Types DEF WindowInv, MacroTypes
    <2>2. StartRecording(TRUE, macro, Append(macro, gen + 1)) /\ CloseTop
      BY <1>2 DEF AnswerAppend
    <2>3. gen < MaxRecordings => Append(macro, gen + 1) \in Macro
      BY <2>1, OneRecording
    <2>4. DialogTypes' /\ Nested(dialogs') /\ \A i \in 1 .. Len(dialogs') : FALSE
      BY <1>0, <2>2, Closed
    <2>. QED
      BY <1>0, <1>1, <2>1, <2>2, <2>3, <2>4, RecordingBegins
  <1>3. CASE ~yes
    <2>1. /\ CloseTop
          /\ UNCHANGED <<display, life, queue, playback, seq, recording, content>>
      BY <1>3 DEF AnswerAppend
    <2>. QED
      BY <1>0, <1>1, <2>1, DeclinedKeeps
  <1>. QED
    BY <1>2, <1>3

-----------------------------------------------------------------------------
(* Dialogs that are opened and answered.                                   *)

LEMMA OpenQuickTextStep ==
    ASSUME WindowInv, Careful, OpenQuickText
    PROVE  WindowInv'
  <1>1. ThreadTypes /\ WindowTypes /\ MacroTypes
    BY Types DEF WindowInv
  <1>0. rec.on /\ gen >= 1 /\ gen \in 1 .. MaxRecordings /\ saver = "none" /\ dialogs = <<>>
    <2>1. dialogs # <<>> => quickText
      BY KeysFree DEF OpenQuickText
    <2>. QED
      BY <1>1, <2>1, WindowAssumption DEF OpenQuickText, NoTextOpen, WindowInv, RecordingKnown, WindowTypes
  <1>2. DialogTypes' /\ DialogsNest'
    <2> DEFINE d == [kind |-> "quickText", gen |-> gen, owns |-> ~rec.paused]
    <2>1. d \in Dialog
      <3>1. rec.paused \in BOOLEAN
        BY <1>1 DEF WindowTypes
      <3>. QED
        BY <1>0, <3>1 DEF Dialog
    <2>2. d.kind = "quickText" /\ d.gen = gen
      OBVIOUS
    <2>3. dialogs' = <<d>> \o dialogs
      BY DEF OpenQuickText, Open
    <2> HIDE DEF d
    <2>4. /\ DialogTypes' /\ Nested(dialogs')
          /\ \A i \in 1 .. Len(dialogs') : dialogs'[i] = d
      BY <1>0, <2>1, <2>3, Opened
    <2>5. quickText' /\ rec'.paused /\ gen' = gen /\ state' = "recording"
      BY <1>1 DEF OpenQuickText, WindowTypes
    <2>6. \A i \in 1 .. Len(dialogs') : Fits(dialogs[i])'
      <3>1. gen <= gen
        BY <1>1, WindowAssumption DEF WindowTypes
      <3>. QED
        BY <2>2, <2>4, <2>5, <3>1 DEF Fits, Question, Text
    <2>. QED
      BY <2>4, <2>6 DEF DialogsNest
  <1>3. MacroTypes'
    BY ContentKept DEF OpenQuickText, GuiRuns, MayAsk, Buttons, Hotkeys,
      display, life, playback, recording, content
  <1>4. WindowTypes'
    <2>1. UNCHANGED <<state, polling, hook, gui, closed, seq, saver, gen,
      quick, appendMode>>
      BY DEF OpenQuickText, GuiRuns, MayAsk, Buttons, Hotkeys, display, life,
        playback, recording, content
    <2>2. paused' \in BOOLEAN
      BY <1>1, <1>0 DEF WindowTypes, State, OpenQuickText, GuiRuns, MayAsk,
        Buttons, Hotkeys, display, life, playback, recording, content
    <2>3. rec' \in [on : BOOLEAN, paused : BOOLEAN]
      BY <1>1, <1>0 DEF WindowTypes, State, OpenQuickText, GuiRuns, MayAsk,
        Buttons, Hotkeys, display, life, playback, recording, content
    <2>4. quickText' \in BOOLEAN
      BY <1>1, <1>0 DEF WindowTypes, State, OpenQuickText, GuiRuns, MayAsk,
        Buttons, Hotkeys, display, life, playback, recording, content
    <2>. QED
      BY <1>1, <2>1, <2>2, <2>3, <2>4 DEF WindowTypes
  <1>5. WindowPlays'
    BY <1>1, <1>0 DEF WindowInv, WindowPlays, WindowTypes, OpenQuickText,
      GuiRuns, MayAsk, Buttons, Hotkeys, display, life, playback, recording,
      content
  <1>6. GuiWaits'
    BY <1>1, <1>0 DEF WindowInv, GuiWaits, WindowTypes, OpenQuickText,
      GuiRuns, MayAsk, Buttons, Hotkeys, display, life, playback, recording,
      content
  <1>7. RecordingKnown'
    BY <1>1, <1>0 DEF WindowInv, RecordingKnown, WindowTypes, OpenQuickText,
      GuiRuns, MayAsk, Buttons, Hotkeys, display, life, playback, recording,
      content
  <1>8. SequenceAlone'
    BY <1>1, <1>0 DEF WindowInv, SequenceAlone, WindowTypes, OpenQuickText,
      GuiRuns, MayAsk, Buttons, Hotkeys, display, life, playback, recording,
      content
  <1>9. UNCHANGED <<queue, playback>>
    BY DEF OpenQuickText, GuiRuns, MayAsk, Buttons, Hotkeys
  <1>10. saver = "ended" => UNCHANGED <<saver, rec, gen>>
    BY <1>1, <1>0 DEF WindowInv, RecordingKnown, OpenQuickText, GuiRuns,
      MayAsk, Buttons, Hotkeys, display, life, playback, recording, content
  <1>. QED
    BY <1>2, <1>3, <1>4, <1>5, <1>6, <1>7, <1>8, <1>9, <1>10, HandlerKeeps

(* A text of a recording that is on was opened in it and holds it paused.  *)
OpenText == GuiRuns /\ dialogs # <<>> /\ Head(dialogs).kind \in {"quickText", "quickFailed"}

LEMMA TextOnTop ==
    ASSUME WindowInv, OpenText
    PROVE  /\ Head(dialogs) = dialogs[1] /\ dialogs[1] \in Dialog /\ Fits(dialogs[1])
           /\ Text(dialogs[1]) /\ quickText
           /\ dialogs[1].gen \in 1 .. MaxRecordings /\ dialogs[1].owns \in BOOLEAN
           /\ Tail(dialogs) \in Seq(Dialog) /\ Len(Tail(dialogs)) = 0
  <1>1. dialogs \in Seq(Dialog)
    BY Types DEF WindowInv, DialogTypes
  <1>2. /\ Head(dialogs) = dialogs[1] /\ Len(dialogs) \in Nat /\ Len(dialogs) >= 1
        /\ dialogs[1] \in Dialog /\ Tail(dialogs) \in Seq(Dialog)
        /\ Len(Tail(dialogs)) = Len(dialogs) - 1
    BY <1>1, TailFacts DEF OpenText
  <1>3. Text(dialogs[1])
    BY <1>2 DEF OpenText, Text
  <1>4. Fits(dialogs[1])
    BY <1>2 DEF WindowInv, DialogsNest
  <1>5. Len(dialogs) <= 2 /\ Len(dialogs) # 2
    BY <1>3 DEF WindowInv, DialogsNest, Nested
  <1>6. Len(Tail(dialogs)) = 0
    BY <1>2, <1>5, JustOne
  <1>8. dialogs[1].gen \in 1 .. MaxRecordings
    BY <1>2, DialogGen DEF OpenText
  <1>9. dialogs[1].owns \in BOOLEAN
    BY <1>2 DEF OpenText, Dialog
  <1>. QED
    BY <1>2, <1>3, <1>4, <1>6, <1>8, <1>9 DEF Fits

LEMMA OwnedIsPaused ==
    ASSUME WindowInv, OpenText, OwnsRecording(Head(dialogs))
    PROVE  state = "recording" /\ rec.paused /\ paused /\ rec.on /\ gen = dialogs[1].gen
  <1>1. Head(dialogs) = dialogs[1] /\ Text(dialogs[1]) /\ Fits(dialogs[1])
    BY TextOnTop
  <1>2. state = "recording" /\ gen = dialogs[1].gen
    BY <1>1 DEF OwnsRecording
  <1>3. rec.on /\ paused = rec.paused
    BY <1>2 DEF WindowInv, RecordingKnown
  <1>. QED
    BY <1>1, <1>2, <1>3 DEF Fits

LEMMA NestedOne ==
    ASSUME NEW ds, Len(ds) = 1
    PROVE  Nested(ds)
  BY DEF Nested

(* A message takes the place of the composer and keeps what it held.       *)
LEMMA TextTold ==
    ASSUME WindowInv, OpenText, OwnsRecording(Head(dialogs)), NEW d \in Dialog,
           d.kind \in {"quickFailed", "focusLost"}, d.gen = dialogs[1].gen,
           dialogs' = <<d>> \o Tail(dialogs),
           UNCHANGED <<state, rec, gen, quickText>>
    PROVE  DialogTypes' /\ DialogsNest'
  <1>1. /\ Tail(dialogs) \in Seq(Dialog) /\ Len(Tail(dialogs)) = 0
        /\ quickText /\ Fits(dialogs[1]) /\ Text(dialogs[1])
    BY TextOnTop
  <1>2. dialogs' \in Seq(Dialog) /\ Len(dialogs') = 1 /\ dialogs'[1] = d
    BY <1>1, PushFacts
  <1>3. dialogs' \in Seq(Dialog) /\ Len(dialogs') = 1 /\ \A i \in 1 .. Len(dialogs') : dialogs'[i] = d
    BY <1>2
  <1>4. Nested(dialogs')
    BY <1>2, NestedOne
  <1>5. state = "recording" /\ rec.paused
    BY OwnedIsPaused
  <1>6. d.gen <= gen
    BY <1>1 DEF Fits
  <1>7. \A i \in 1 .. Len(dialogs') : Fits(dialogs[i])'
    BY <1>1, <1>3, <1>5, <1>6 DEF Fits, Text, Question
  <1>. QED
    BY <1>3, <1>4, <1>7 DEF DialogTypes, DialogsNest

(* What becomes of the recorder and of what the window shows of it.        *)
TextHandled ==
    /\ UNCHANGED QuickTextKeeps
    /\ \/ UNCHANGED <<rec, paused>>
       \/ /\ state = "recording"
          /\ rec' = [rec EXCEPT !.paused = FALSE] /\ paused' = FALSE
       \/ /\ state # "playing" /\ (state = "recording" => rec.paused)
          /\ UNCHANGED rec /\ paused' = TRUE
    /\ quickText' \in {quickText, FALSE}

LEMMA TextHandledKeeps ==
    ASSUME WindowInv, GuiRuns, dialogs[1].kind # "notRestored", TextHandled,
           DialogTypes', DialogsNest'
    PROVE  WindowInv'
  <1>1. ThreadTypes /\ WindowTypes /\ MacroTypes
    BY Types DEF WindowInv
  <1>2. state = "recording" => rec.on /\ rec.paused = paused /\ saver = "none"
    BY DEF WindowInv, RecordingKnown
  <1>3. /\ UNCHANGED <<state, polling, hook, gui, closed, queue, playback, seq, saver, gen, quick>>
        /\ UNCHANGED <<appendMode, content, session, repeat, pauseEvent>>
    BY DEF TextHandled, QuickTextKeeps, life, playback, content
  <1>4. /\ rec' \in [on : BOOLEAN, paused : BOOLEAN] /\ rec'.on = rec.on
        /\ paused' \in BOOLEAN /\ quickText' \in BOOLEAN
        /\ \/ paused' = paused /\ rec' = rec
           \/ state # "playing" /\ (state = "recording" => rec'.paused = paused')
        /\ state = "recording" \/ rec' = rec
    BY <1>1, <1>2 DEF TextHandled, WindowTypes
  <1>5. MacroTypes'
    BY <1>3, ContentKept
  <1>6. WindowTypes'
    BY <1>1, <1>3, <1>4 DEF WindowTypes
  <1>7. WindowPlays'
    BY <1>3, <1>4 DEF WindowInv, WindowPlays
  <1>8. GuiWaits'
    <2>1. gui \notin {"stopping", "closing", "leaving"} /\ ~closed
      BY DEF GuiRuns
    <2>. QED
      BY <1>3, <2>1 DEF GuiWaits
  <1>9. RecordingKnown'
    <2>1. state = "stopping" /\ saver = "none" => rec.on
      BY DEF WindowInv, RecordingKnown
    <2>. QED
      BY <1>2, <1>3, <1>4, <2>1 DEF WindowInv, RecordingKnown
  <1>10. SequenceAlone'
    BY <1>3 DEF WindowInv, SequenceAlone
  <1>11. saver = "ended" => UNCHANGED <<saver, rec, gen>>
    BY <1>2, <1>3, <1>4
  <1>. QED
    BY <1>3, <1>5, <1>6, <1>7, <1>8, <1>9, <1>10, <1>11, HandlerKeeps

LEMMA EndQuickTextStep ==
    ASSUME WindowInv, OpenText, UNCHANGED QuickTextKeeps, NEW warned \in BOOLEAN,
           EndQuickText(Head(dialogs), warned)
    PROVE  WindowInv'
  <1>0. /\ GuiRuns /\ dialogs[1].kind # "notRestored"
        /\ OwnsRecording(Head(dialogs)) => state = "recording" /\ rec.paused
    BY OwnedIsPaused, TextOnTop DEF OpenText
  <1>1. CASE CloseTop
    <2>1. TextHandled
      BY <1>0, <1>1 DEF EndQuickText, TextHandled
    <2>2. dialogs' \in Seq(Dialog) /\ Len(dialogs') = 0
      BY <1>1, TextOnTop DEF CloseTop
    <2>3. DialogTypes' /\ DialogsNest'
      BY <2>2 DEF DialogTypes, DialogsNest, Nested
    <2>. QED
      BY <1>0, <2>1, <2>3, TextHandledKeeps
  <1>2. CASE /\ OwnsRecording(Head(dialogs))
             /\ dialogs' = <<[kind |-> "focusLost", gen |-> Head(dialogs).gen]>> \o Tail(dialogs)
             /\ UNCHANGED <<quickText, rec, paused>>
    <2> DEFINE d == [kind |-> "focusLost", gen |-> Head(dialogs).gen]
    <2>1. d \in Dialog /\ d.kind = "focusLost" /\ d.gen = dialogs[1].gen
      BY TextOnTop DEF Dialog
    <2>2. UNCHANGED <<state, rec, gen, quickText>>
      BY <1>2 DEF QuickTextKeeps
    <2>3. dialogs' = <<d>> \o Tail(dialogs)
      BY <1>2
    <2> HIDE DEF d
    <2>4. DialogTypes' /\ DialogsNest'
      BY <1>2, <2>1, <2>2, <2>3, TextTold
    <2>5. TextHandled
      BY <1>2 DEF TextHandled
    <2>. QED
      BY <1>0, <2>4, <2>5, TextHandledKeeps
  <1>. QED
    BY <1>1, <1>2 DEF EndQuickText

LEMMA CloseQuickTextStep ==
    ASSUME WindowInv, NEW accepted \in BOOLEAN, CloseQuickText(accepted)
    PROVE  WindowInv'
  <1>1. OpenText /\ UNCHANGED QuickTextKeeps
    BY DEF CloseQuickText, OpenText, Top
  <1>2. CASE EndQuickText(Head(dialogs), FALSE)
    BY <1>1, <1>2, EndQuickTextStep
  <1>3. ASSUME OwnsRecording(Head(dialogs)), UNCHANGED <<quickText, rec, paused>>,
               NEW warned \in BOOLEAN,
               dialogs' = <<[kind |-> "quickFailed", gen |-> Head(dialogs).gen,
                             owns |-> Head(dialogs).owns, warned |-> warned]>>
                                \o Tail(dialogs)
        PROVE  WindowInv'
    <2> DEFINE d == [kind |-> "quickFailed", gen |-> Head(dialogs).gen,
                     owns |-> Head(dialogs).owns, warned |-> warned]
    <2>1. d \in Dialog /\ d.kind = "quickFailed" /\ d.gen = dialogs[1].gen
      BY <1>1, TextOnTop DEF Dialog
    <2>2. UNCHANGED <<state, rec, gen, quickText>>
      BY <1>1, <1>3 DEF QuickTextKeeps
    <2>3. dialogs' = <<d>> \o Tail(dialogs)
      BY <1>3
    <2> HIDE DEF d
    <2>4. DialogTypes' /\ DialogsNest'
      BY <1>1, <1>3, <2>1, <2>2, <2>3, TextTold
    <2>5. TextHandled
      BY <1>1, <1>3 DEF TextHandled
    <2>6. GuiRuns /\ dialogs[1].kind # "notRestored"
      BY <1>1, TextOnTop DEF OpenText
    <2>. QED
      BY <2>4, <2>5, <2>6, TextHandledKeeps
  <1>. QED
    BY <1>2, <1>3 DEF CloseQuickText

LEMMA CloseQuickFailedStep ==
    ASSUME WindowInv, CloseQuickFailed
    PROVE  WindowInv'
  <1>1. OpenText /\ UNCHANGED QuickTextKeeps /\ dialogs[1].kind = "quickFailed"
    BY OnTop DEF CloseQuickFailed, OpenText, Top
  <1>2. Head(dialogs).warned \in BOOLEAN
    BY <1>1, TextOnTop DEF Dialog
  <1>. QED
    BY <1>1, <1>2, EndQuickTextStep DEF CloseQuickFailed

LEMMA CloseFocusLostStep ==
    ASSUME WindowInv, CloseFocusLost
    PROVE  WindowInv'
  <1>1. /\ GuiRuns /\ dialogs # <<>> /\ Head(dialogs) = dialogs[1]
        /\ dialogs[1].kind = "focusLost" /\ dialogs[1] \in Dialog /\ Fits(dialogs[1])
    BY OnTop DEF CloseFocusLost
  <1>2. CloseTop
    BY DEF CloseFocusLost
  <1>3. DialogTypes' /\ DialogsNest'
    <2>1. \A i \in 1 .. Len(dialogs') : FALSE
      BY <1>1, <1>2, Closed DEF Text
    <2>. QED
      BY <1>1, <1>2, <2>1, Closed DEF DialogsNest
  <1>4. TextHandled
    BY <1>1 DEF CloseFocusLost, TextHandled, Fits
  <1>. QED
    BY <1>1, <1>3, <1>4, TextHandledKeeps

LEMMA CloseNotRestoredStep ==
    ASSUME WindowInv, CloseNotRestored
    PROVE  WindowInv'
  <1>1. ThreadTypes /\ WindowTypes /\ MacroTypes
    BY Types DEF WindowInv
  <1>0. /\ GuiRuns /\ dialogs # <<>> /\ Head(dialogs) = dialogs[1]
        /\ dialogs[1].kind = "notRestored" /\ dialogs[1] \in Dialog /\ Fits(dialogs[1])
    BY OnTop DEF CloseNotRestored
  <1>11. state = "stopping" /\ saver = "none" /\ ~rec.on /\ quick # "off"
    BY <1>0 DEF Fits
  <1>2. DialogTypes' /\ DialogsNest'
    <2>1. \A i \in 1 .. Len(dialogs') : dialogs'[i] = dialogs[2] /\ Fits(dialogs[2]) /\ Text(dialogs[2])
      BY <1>0, Closed DEF CloseNotRestored
    <2>2. \A i \in 1 .. Len(dialogs') : Fits(dialogs[i])'
      BY <2>1 DEF CloseNotRestored, Land, Fits, Text, Question, recording
    <2>. QED
      BY <1>0, <2>2, Closed DEF CloseNotRestored, DialogsNest
  <1>3. MacroTypes'
    <2> DEFINE g == Head(dialogs).gen
    <2>1. g \in 0 .. MaxRecordings
      BY <1>0, DialogGen
    <2> HIDE DEF g
    <2>2. <<>> \in Macro /\ <<g>> \in Macro /\ Append(base, g) \in Macro
      BY <1>1, <2>1 DEF Macro, MacroTypes
    <2>3. Land(g)
      BY DEF CloseNotRestored, g
    <2>. QED
      BY <1>1, <2>2, <2>3 DEF Land, MacroTypes
  <1>4. WindowTypes'
    <2>1. UNCHANGED <<paused, polling, hook, gui, closed, seq, rec, saver,
      gen, quick, quickText>>
      BY DEF CloseNotRestored, Land, display, life, playback, recording,
        content
    <2>2. state' \in State
      BY <1>1, <1>0, <1>11 DEF WindowTypes, State, CloseNotRestored, Land,
        display, life, playback, recording, content
    <2>3. appendMode' \in BOOLEAN
      BY <1>1, <1>0, <1>11 DEF WindowTypes, State, CloseNotRestored, Land,
        display, life, playback, recording, content
    <2>. QED
      BY <1>1, <2>1, <2>2, <2>3 DEF WindowTypes
  <1>5. WindowPlays'
    BY <1>1, <1>0, <1>11 DEF WindowInv, WindowPlays, WindowTypes,
      CloseNotRestored, Land, display, life, playback, recording, content
  <1>6. GuiWaits'
    BY <1>1, <1>0, <1>11 DEF WindowInv, GuiWaits, WindowTypes,
      CloseNotRestored, Land, display, life, playback, recording, content
  <1>7. RecordingKnown'
    BY <1>1, <1>0, <1>11 DEF WindowInv, RecordingKnown, WindowTypes,
      CloseNotRestored, Land, display, life, playback, recording, content
  <1>8. SequenceAlone'
    BY <1>1, <1>0, <1>11 DEF WindowInv, SequenceAlone, WindowTypes,
      CloseNotRestored, Land, display, life, playback, recording, content
  <1>9. UNCHANGED <<queue, playback>>
    BY DEF CloseNotRestored, Land
  <1>10. saver = "ended" => UNCHANGED <<saver, rec, gen>>
    BY <1>1, <1>0, <1>11 DEF WindowInv, RecordingKnown, CloseNotRestored,
      Land, display, life, playback, recording, content
  <1>. QED
    BY <1>2, <1>3, <1>4, <1>5, <1>6, <1>7, <1>8, <1>9, <1>10, HandlerKeeps

LEMMA CloseLeavesStep ==
    ASSUME WindowInv, CloseLeaves
    PROVE  WindowInv'
  <1>1. ThreadTypes /\ WindowTypes /\ MacroTypes
    BY Types DEF WindowInv
  <1>0. /\ state = "idle" /\ dialogs = <<>> /\ gui' = "free" /\ seq' \in {"off", "stopping"}
        /\ seq' # "off" => ~closed'
        /\ seq # "on" => seq' # "on"
    BY DEF CloseLeaves, WindowInv, GuiWaits
  <1>2. DialogTypes' /\ DialogsNest'
    <2>1. CASE UNCHANGED dialogs
      BY <1>0, <2>1, Types DEF WindowInv, DialogTypes, DialogsNest
    <2>2. CASE Open([kind |-> "discard"]) /\ seq' = "off"
      <3> DEFINE d == [kind |-> "discard"]
      <3>1. d \in Dialog /\ d.kind = "discard"
        BY DEF Dialog
      <3> HIDE DEF d
      <3>2. dialogs' = <<d>> \o dialogs
        BY <2>2 DEF Open, d
      <3>3. UNCHANGED <<state, saver, rec, quick, gen, quickText>> /\ seq' = "off" /\ state' = "idle"
        BY <1>0, <2>2 DEF CloseLeaves, recording
      <3>4. Fits([kind |-> "discard"])'
        BY <3>3 DEF Fits, Text, Question
      <3>. QED
        BY <1>0, <3>1, <3>2, <3>3, <3>4, OpenedFits DEF d
    <2>. QED
      BY <2>1, <2>2 DEF CloseLeaves
  <1>3. MacroTypes'
    BY ContentKept DEF CloseLeaves, display, life, playback, recording,
      content
  <1>4. WindowTypes'
    <2>1. UNCHANGED <<state, paused, polling, rec, saver, gen, quick,
      quickText, appendMode>>
      BY DEF CloseLeaves, display, life, playback, recording, content
    <2>2. hook' \in BOOLEAN
      BY <1>1, <1>0 DEF WindowTypes, State, CloseLeaves, display, life,
        playback, recording, content
    <2>3. gui' \in {"free", "stopping", "closing", "joining", "draining", "leaving"}
      BY <1>1, <1>0 DEF WindowTypes, State, CloseLeaves, display, life,
        playback, recording, content
    <2>4. closed' \in BOOLEAN
      BY <1>1, <1>0 DEF WindowTypes, State, CloseLeaves, display, life,
        playback, recording, content
    <2>5. seq' \in {"off", "on", "stopping"}
      BY <1>1, <1>0 DEF WindowTypes, State, CloseLeaves, display, life,
        playback, recording, content
    <2>. QED
      BY <1>1, <2>1, <2>2, <2>3, <2>4, <2>5 DEF WindowTypes
  <1>5. WindowPlays'
    BY <1>1, <1>0 DEF WindowInv, WindowPlays, WindowTypes, CloseLeaves,
      display, life, playback, recording, content
  <1>6. GuiWaits'
    BY <1>1, <1>0 DEF WindowInv, GuiWaits, WindowTypes, CloseLeaves, display,
      life, playback, recording, content
  <1>7. RecordingKnown'
    BY <1>1, <1>0 DEF WindowInv, RecordingKnown, WindowTypes, CloseLeaves,
      display, life, playback, recording, content
  <1>8. SequenceAlone'
    BY <1>1, <1>0 DEF WindowInv, SequenceAlone, WindowTypes, CloseLeaves,
      display, life, playback, recording, content
  <1>9. UNCHANGED <<queue, playback>>
    BY DEF CloseLeaves
  <1>10. saver = "ended" => UNCHANGED <<saver, rec, gen>>
    BY <1>1, <1>0 DEF WindowInv, RecordingKnown, CloseLeaves, display, life,
      playback, recording, content
  <1>. QED
    BY <1>2, <1>3, <1>4, <1>5, <1>6, <1>7, <1>8, <1>9, <1>10, HandlerKeeps

LEMMA AskOpens ==
    ASSUME WindowInv, Careful, NEW n \in Cycles, Hotkeys, state = "idle", seq = "off",
           Open([kind |-> "repeat", total |-> n]),
           UNCHANGED <<display, life, queue, playback, seq, recording, content>>
    PROVE  WindowInv'
  <1>1. ThreadTypes /\ WindowTypes /\ MacroTypes
    BY Types DEF WindowInv
  <1>2. DialogTypes' /\ DialogsNest'
    <2> DEFINE d == [kind |-> "repeat", total |-> n]
    <2>1. d \in Dialog /\ d.kind = "repeat"
      BY DEF Dialog
    <2>2. Fits(d)'
      <3>1. state' = "idle" /\ seq' = "off"
        BY DEF display
      <3>. QED
        BY <3>1 DEF Fits, Text, Question
    <2> HIDE DEF d
    <2>3. dialogs' = <<d>> \o dialogs
      BY DEF Open, d
    <2>4. dialogs # <<>> => Len(dialogs) = 1 /\ dialogs[1].kind = "quickText"
      BY KeysFree
    <2>5. UNCHANGED <<state, saver, rec, quick, gen, quickText>> /\ seq' = seq
      BY DEF display, recording
    <2>. QED
      BY <2>1, <2>2, <2>3, <2>4, <2>5, OpenedFits DEF Text
  <1>3. MacroTypes'
    BY ContentKept DEF GuiRuns, MayAsk, Buttons, Hotkeys, display, life,
      playback, recording, content
  <1>4. WindowTypes'
    <2>1. UNCHANGED <<state, paused, polling, hook, gui, closed, seq, rec,
      saver, gen, quick, quickText, appendMode>>
      BY DEF GuiRuns, MayAsk, Buttons, Hotkeys, display, life, playback,
        recording, content
    <2>. QED
      BY <1>1, <2>1 DEF WindowTypes
  <1>5. WindowPlays'
    BY <1>1 DEF WindowInv, WindowPlays, WindowTypes, GuiRuns, MayAsk, Buttons,
      Hotkeys, display, life, playback, recording, content
  <1>6. GuiWaits'
    BY <1>1 DEF WindowInv, GuiWaits, WindowTypes, GuiRuns, MayAsk, Buttons,
      Hotkeys, display, life, playback, recording, content
  <1>7. RecordingKnown'
    BY <1>1 DEF WindowInv, RecordingKnown, WindowTypes, GuiRuns, MayAsk,
      Buttons, Hotkeys, display, life, playback, recording, content
  <1>8. SequenceAlone'
    BY <1>1 DEF WindowInv, SequenceAlone, WindowTypes, GuiRuns, MayAsk,
      Buttons, Hotkeys, display, life, playback, recording, content
  <1>9. UNCHANGED <<queue, playback>>
    BY DEF GuiRuns, MayAsk, Buttons, Hotkeys
  <1>10. saver = "ended" => UNCHANGED <<saver, rec, gen>>
    BY <1>1 DEF WindowInv, RecordingKnown, GuiRuns, MayAsk, Buttons, Hotkeys,
      display, life, playback, recording, content
  <1>. QED
    BY <1>2, <1>3, <1>4, <1>5, <1>6, <1>7, <1>8, <1>9, <1>10, HandlerKeeps

-----------------------------------------------------------------------------
(* Playbacks.                                                              *)

LEMMA AllKept ==
    ASSUME ThreadTypes', QueueTypes', DialogTypes', MacroTypes', WindowTypes',
           InOrder', WorkersObey', PlayerObeys', WindowPlays', GuiWaits',
           MessagesTrue', RecordingKnown', SequenceAlone', DialogsNest'
    PROVE  WindowInv'
  BY TypesNext DEF WindowInv

(* The next session is one nobody had.                                     *)
LEMMA NextIsNew ==
    ASSUME WindowInv, NextSession \in Sessions
    PROVE  /\ worker[NextSession].pc = "none"
           /\ \E m \in 0 .. MaxSessions :
                    \A s \in Sessions : worker[s].pc = "none" /\ s # NextSession <=> s > m
  <1>1. PICK m \in 0 .. MaxSessions : \A s \in Sessions : worker[s].pc = "none" <=> s > m
    BY DEF WindowInv, InOrder
  <1>2. MaxSessions \in Nat /\ m \in Nat /\ m <= MaxSessions
    BY WindowAssumption
  <1>3. Used = 1 .. m
    BY <1>1, <1>2 DEF Used, Sessions
  <1>4. Cardinality(Used) = m
    BY <1>2, <1>3, FS_Interval
  <1>5. NextSession = m + 1
    BY <1>4 DEF NextSession
  <1>6. m + 1 \in 0 .. MaxSessions
    BY <1>2, <1>5 DEF Sessions
  <1>7. \A s \in Sessions : worker[s].pc = "none" /\ s # NextSession <=> s > m + 1
    BY <1>1, <1>2, <1>5 DEF Sessions
  <1>8. worker[NextSession].pc = "none"
    BY <1>1, <1>2, <1>5
  <1>. QED
    BY <1>6, <1>7, <1>8

LEMMA PlaybackBegins ==
    ASSUME WindowInv, NEW n \in Cycles \cup {1}, StartPlayback(n), state = "idle", seq = "off",
           GuiRuns, DialogTypes', Nested(dialogs'),
           \A i \in 1 .. Len(dialogs') :
                quickText /\ dialogs'[i].kind = "quickText" /\ dialogs'[i].gen <= gen
    PROVE  WindowInv'
  <1>1. ThreadTypes /\ QueueTypes /\ WindowTypes /\ MacroTypes
    BY Types DEF WindowInv
  <1> DEFINE s == NextSession
  <1>2. s \in Sessions /\ worker[s].pc = "none"
    BY NextIsNew DEF StartPlayback
  <1>3. \E m \in 0 .. MaxSessions :
                \A t \in Sessions : worker[t].pc = "none" /\ t # s <=> t > m
    BY NextIsNew DEF StartPlayback
  <1>4. /\ state' = "playing" /\ ~paused' /\ polling' /\ hook' /\ ~pauseEvent' /\ session' = s
        /\ paused' \in BOOLEAN /\ polling' \in BOOLEAN /\ hook' \in BOOLEAN /\ pauseEvent' \in BOOLEAN
        /\ repeat' = [repeat EXCEPT ![s] = [active |-> TRUE, stopped |-> FALSE]]
        /\ worker' = [worker EXCEPT ![s] = [pc |-> "check", cycle |-> 1, total |-> n]]
    BY DEF StartPlayback
  <1>5. /\ UNCHANGED <<gui, closed, queue, done, player, seq>>
        /\ UNCHANGED <<rec, saver, gen, quick, quickText>>
        /\ UNCHANGED <<appendMode, base, macro, prev, wanted>>
    BY DEF StartPlayback, life, recording, content
  <1> HIDE DEF s
  <1>6. session = 0 /\ saver = "none" /\ ~rec.on /\ quick # "off"
    BY <1>1 DEF WindowInv, WindowPlays, RecordingKnown, WindowTypes
  <1>7. /\ repeat' \in [Sessions -> [active : BOOLEAN, stopped : BOOLEAN]]
        /\ repeat'[s].active /\ ~repeat'[s].stopped
        /\ \A t \in Sessions \ {s} : repeat'[t] = repeat[t]
    BY <1>1, <1>2, <1>4 DEF ThreadTypes
  <1>8. /\ worker' \in [Sessions -> [pc : Place, cycle : Nat, total : Cycles \cup {0, 1}]]
        /\ worker'[s].pc = "check"
        /\ \A t \in Sessions \ {s} : worker'[t] = worker[t]
    <2>1. [pc |-> "check", cycle |-> 1, total |-> n]
                \in [pc : Place, cycle : Nat, total : Cycles \cup {0, 1}]
      BY DEF Place
    <2>. QED
      BY <1>1, <1>2, <1>4, <2>1 DEF ThreadTypes
  <1>9. ThreadTypes'
    BY <1>1, <1>2, <1>4, <1>5, <1>7, <1>8 DEF ThreadTypes
  <1>10. WindowTypes'
    BY <1>1, <1>4, <1>5 DEF WindowTypes, State
  <1>11. MacroTypes' /\ QueueTypes'
    BY <1>1, <1>5 DEF MacroTypes, QueueTypes
  <1>12. InOrder'
    BY <1>2, <1>3, <1>8 DEF InOrder
  <1>13. WorkersObey'
    <2> SUFFICES ASSUME NEW t \in Sessions
                 PROVE  /\ Live(t)' /\ ~repeat'[t].stopped => session' = t /\ repeat'[t].active
                        /\ done'[t] # "no" => worker'[t].pc = "wait"
                        /\ worker'[t].pc = "starting" => ~repeat'[t].stopped
      BY DEF WorkersObey
    <2>1. CASE t = s
      BY <1>2, <1>4, <1>5, <1>7, <1>8, <2>1 DEF WindowInv, WorkersObey
    <2>2. CASE t # s
      <3>1. Live(t) => repeat[t].stopped
        BY <1>6, <2>2, SessionsPositive DEF WindowInv, WorkersObey
      <3>. QED
        BY <1>5, <1>7, <1>8, <2>2, <3>1 DEF WindowInv, WorkersObey, Live
    <2>. QED
      BY <2>1, <2>2
  <1>14. PlayerObeys'
    <2>1. player.phase = "running" => player.stop
      <3> SUFFICES ASSUME player.phase = "running", ~player.stop
                   PROVE  FALSE
        BY <1>1 DEF ThreadTypes
      <3>1. player.owner \in Sessions /\ Live(player.owner) /\ ~repeat[player.owner].stopped
        BY DEF WindowInv, PlayerObeys, Live
      <3>. QED
        BY <1>6, <3>1, SessionsPositive DEF WindowInv, WorkersObey
    <2>. QED
      BY <1>5, <2>1 DEF PlayerObeys
  <1>15. WindowPlays'
    BY <1>2, <1>4, SessionsPositive DEF WindowPlays
  <1>16. GuiWaits'
    BY <1>4, <1>5 DEF GuiRuns, GuiWaits
  <1>17. MessagesTrue'
    <2>1. ASSUME NEW i \in 1 .. Len(queue)
          PROVE  Tells(queue[i])'
      <3>1. queue[i] \in Message /\ Tells(queue[i])
        BY <1>1 DEF WindowInv, MessagesTrue, QueueTypes
      <3>2. queue[i].kind \in {"complete", "error"} => queue[i].of \in Sessions
        BY <3>1 DEF Message
      <3>3. queue'[i] = queue[i]
        BY <1>5
      <3>4. queue[i].kind \in {"complete", "error"} => worker'[queue[i].of].pc = "ended"
        BY <1>2, <1>8, <3>1, <3>2 DEF Tells
      <3>. QED
        BY <1>5, <3>1, <3>3, <3>4 DEF Tells
    <2>. QED
      BY <1>5, <2>1 DEF WindowInv, MessagesTrue
  <1>18. RecordingKnown' /\ SequenceAlone'
    BY <1>4, <1>5, <1>6 DEF RecordingKnown, SequenceAlone
  <1>19. DialogsNest'
    <2>1. \A i \in 1 .. Len(dialogs') : Fits(dialogs[i])'
      BY <1>4, <1>5, <1>6 DEF Fits, Question, Text
    <2>. QED
      BY <2>1 DEF DialogsNest
  <1>. QED
    BY <1>9, <1>10, <1>11, <1>12, <1>13, <1>14, <1>15, <1>16, <1>17, <1>18, <1>19, AllKept

(* Below a question of a hotkey, and where a hotkey asks nothing, is at    *)
(* most a text.                                                            *)
LEMMA KeysOverText ==
    ASSUME WindowInv, Careful, Hotkeys, UNCHANGED dialogs
    PROVE  /\ DialogTypes' /\ Nested(dialogs')
           /\ \A i \in 1 .. Len(dialogs') :
                quickText /\ dialogs'[i].kind = "quickText" /\ dialogs'[i].gen <= gen
  <1>1. dialogs \in Seq(Dialog)
    BY Types DEF WindowInv, DialogTypes
  <1>2. DialogTypes' /\ Nested(dialogs')
    BY <1>1 DEF WindowInv, DialogsNest, DialogTypes
  <1>3. ASSUME NEW i \in 1 .. Len(dialogs')
        PROVE  quickText /\ dialogs'[i].kind = "quickText" /\ dialogs'[i].gen <= gen
    <2>1. dialogs # <<>>
      BY <1>1, <1>3
    <2>2. Len(dialogs) = 1 /\ dialogs[1].kind = "quickText" /\ quickText
      BY <2>1, KeysFree
    <2>3. i = 1 /\ dialogs'[i] = dialogs[1]
      BY <2>2
    <2>4. Fits(dialogs[1])
      BY <2>2 DEF WindowInv, DialogsNest
    <2>. QED
      BY <2>2, <2>3, <2>4 DEF Fits, Text
  <1>. QED
    BY <1>2, <1>3

LEMMA AskPlayStep ==
    ASSUME WindowInv, Careful, NEW n \in Cycles, AskPlay(n)
    PROVE  WindowInv'
  <1>1. Hotkeys /\ GuiRuns /\ state = "idle" /\ seq = "off"
    BY DEF AskPlay, Hotkeys, MayAsk
  <1>2. CASE n > 1
    BY <1>1, <1>2, AskOpens DEF AskPlay
  <1>3. CASE ~(n > 1)
    <2>1. StartPlayback(1) /\ UNCHANGED dialogs
      BY <1>3 DEF AskPlay
    <2>. QED
      BY <1>1, <2>1, KeysOverText, PlaybackBegins
  <1>. QED
    BY <1>2, <1>3

LEMMA QuickSlotStep ==
    ASSUME WindowInv, Careful, QuickSlot
    PROVE  WindowInv'
  <1>1. Hotkeys /\ GuiRuns /\ state = "idle" /\ seq = "off"
    BY DEF QuickSlot, Hotkeys, MayAsk
  <1>2. StartPlayback(1) /\ UNCHANGED dialogs
    BY DEF QuickSlot
  <1>. QED
    BY <1>1, <1>2, KeysOverText, PlaybackBegins

LEMMA AnswerRepeatStep ==
    ASSUME WindowInv, NEW yes \in BOOLEAN, AnswerRepeat(yes)
    PROVE  WindowInv'
  <1>0. /\ GuiRuns /\ dialogs # <<>> /\ Head(dialogs) = dialogs[1]
        /\ dialogs[1].kind = "repeat" /\ dialogs[1] \in Dialog /\ Fits(dialogs[1])
    BY OnTop DEF AnswerRepeat
  <1>1. state = "idle" /\ seq = "off"
    BY <1>0 DEF Fits, Question
  <1>2. CASE yes
    <2> DEFINE n == Head(dialogs).total
    <2>1. n \in Cycles
      BY <1>0 DEF Dialog
    <2>2. StartPlayback(n) /\ CloseTop
      BY <1>2 DEF AnswerRepeat
    <2> HIDE DEF n
    <2>3. DialogTypes' /\ Nested(dialogs')
      BY <1>0, <2>2, Closed
    <2>4. ASSUME NEW i \in 1 .. Len(dialogs')
          PROVE  quickText /\ dialogs'[i].kind = "quickText" /\ dialogs'[i].gen <= gen
      <3>1. dialogs'[i] = dialogs[2] /\ Fits(dialogs[2]) /\ dialogs[2].kind = "quickText"
        BY <1>0, <2>2, Closed
      <3>. QED
        BY <3>1 DEF Fits, Text
    <2>5. n \in Cycles \cup {1}
      BY <2>1
    <2>. QED
      BY <1>0, <1>1, <2>2, <2>3, <2>4, <2>5, PlaybackBegins
  <1>3. CASE ~yes
    <2>1. /\ CloseTop
          /\ UNCHANGED <<display, life, queue, playback, seq, recording, content>>
      BY <1>3 DEF AnswerRepeat
    <2>. QED
      BY <1>0, <1>1, <2>1, DeclinedKeeps
  <1>. QED
    BY <1>2, <1>3

(* A playback that is over, or told to stop, leaves the window.            *)
LEMMA PlaybackEnds ==
    ASSUME WindowInv, PlaybackLeaves, state = "playing",
           ~Live(session) \/ repeat[session].stopped,
           UNCHANGED <<worker, done, player, dialogs, seq, closed, recording, content>>,
           gui' \in {"free", "draining", "leaving"},
           gui' = "leaving" => dialogs = <<>>,
           QueueTypes', MessagesTrue'
    PROVE  WindowInv'
  <1>1. ThreadTypes /\ DialogTypes /\ WindowTypes /\ MacroTypes
    BY Types DEF WindowInv
  <1>2. /\ state' = "idle" /\ paused' = FALSE /\ polling' = FALSE /\ hook' = FALSE /\ session' = 0
        /\ repeat' = Forget /\ pauseEvent' = FALSE
    BY DEF PlaybackLeaves
  <1>3. /\ UNCHANGED <<closed, seq, dialogs, worker, done, player>>
        /\ UNCHANGED <<rec, saver, gen, quick, quickText>>
        /\ UNCHANGED <<appendMode, base, macro, prev, wanted>>
    BY DEF recording, content
  <1>4. session \in Sessions
    BY <1>1 DEF WindowInv, WindowPlays, ThreadTypes
  <1>5. seq = "off" /\ saver = "none" /\ ~rec.on /\ quick # "off"
    BY <1>1 DEF WindowInv, SequenceAlone, RecordingKnown, WindowTypes
  <1>6. /\ repeat' \in Repeats
        /\ \A t \in Sessions : repeat'[t].stopped = repeat[t].stopped
    <2>1. repeat' = [repeat EXCEPT ![session].active = FALSE]
      BY <1>2, <1>4, SessionsPositive DEF Forget
    <2>2. [repeat[session] EXCEPT !.active = FALSE] \in [active : BOOLEAN, stopped : BOOLEAN]
      BY <1>1, <1>4 DEF ThreadTypes
    <2>. QED
      BY <1>1, <1>4, <2>1, <2>2 DEF ThreadTypes, Repeats
  <1>7. ThreadTypes'
    BY <1>1, <1>2, <1>3, <1>6 DEF ThreadTypes, Repeats
  <1>8. WindowTypes'
    <2>1. state' \in State /\ paused' \in BOOLEAN /\ polling' \in BOOLEAN /\ hook' \in BOOLEAN
      BY <1>2 DEF State
    <2>2. gui' \in {"free", "stopping", "closing", "joining", "draining", "leaving"}
      OBVIOUS
    <2>. QED
      BY <1>1, <1>3, <2>1, <2>2 DEF WindowTypes
  <1>9. MacroTypes' /\ DialogTypes'
    BY <1>1, <1>3 DEF MacroTypes, DialogTypes
  <1>10. InOrder'
    BY <1>3 DEF WindowInv, InOrder
  <1>11. WorkersObey'
    <2>1. \A t \in Sessions : Live(t) => repeat[t].stopped
      BY DEF WindowInv, WorkersObey
    <2>. QED
      BY <1>3, <1>6, <2>1 DEF WindowInv, WorkersObey, Live
  <1>12. PlayerObeys'
    BY <1>3, <1>6 DEF WindowInv, PlayerObeys
  <1>13. WindowPlays'
    BY <1>2 DEF WindowPlays
  <1>14. GuiWaits'
    BY <1>2, <1>3, <1>5 DEF WindowInv, GuiWaits
  <1>15. RecordingKnown' /\ SequenceAlone'
    BY <1>2, <1>3, <1>5 DEF RecordingKnown, SequenceAlone
  <1>16. DialogsNest'
    <2>1. \A i \in 1 .. Len(dialogs) : Fits(dialogs[i])
      BY DEF WindowInv, DialogsNest
    <2>2. \A i \in 1 .. Len(dialogs') : Fits(dialogs[i])'
      BY <1>2, <1>3, <2>1 DEF Fits, Question
    <2>. QED
      BY <1>3, <2>2 DEF WindowInv, DialogsNest
  <1>. QED
    BY <1>7, <1>8, <1>9, <1>10, <1>11, <1>12, <1>13, <1>14, <1>15, <1>16, AllKept

LEMMA StoppedFlag ==
    ASSUME NEW r \in [active : BOOLEAN, stopped : BOOLEAN]
    PROVE  [r EXCEPT !.stopped = TRUE] \in [active : BOOLEAN, stopped : BOOLEAN]
  OBVIOUS

(* A stop goes to the session first, then to the player, whose thread the  *)
(* GUI thread joins.                                                       *)
LEMMA StopKeeps ==
    ASSUME WindowInv, NEW as \in {"stopping", "closing"}, StopPlayback(as),
           state = "playing", UNCHANGED <<hook, seq>>, GuiRuns,
           as = "closing" => dialogs = <<>>
    PROVE  WindowInv'
  <1>1. ThreadTypes /\ DialogTypes /\ WindowTypes /\ MacroTypes
    BY Types DEF WindowInv
  <1>2. session \in Sessions /\ session # 0
    BY <1>1 DEF WindowInv, WindowPlays, ThreadTypes
  <1>3. /\ repeat' = [repeat EXCEPT ![session].stopped = TRUE]
        /\ ~Worker(session, "starting") /\ pauseEvent' = FALSE /\ paused' = FALSE
        /\ player' = [player EXCEPT !.stop = @ \/ IsPlaying] /\ gui' = as
    BY <1>2 DEF StopPlayback, GateFree
  <1>4. /\ UNCHANGED <<state, polling, session, worker, done, closed, dialogs, queue, hook, seq>>
        /\ UNCHANGED <<rec, saver, gen, quick, quickText>>
        /\ UNCHANGED <<appendMode, base, macro, prev, wanted>>
    BY DEF StopPlayback, recording, content
  <1>5. /\ repeat' \in Repeats /\ repeat'[session].stopped
        /\ repeat'[session].active = repeat[session].active
        /\ \A t \in Sessions \ {session} : repeat'[t] = repeat[t]
    <2>1. repeat[session] \in [active : BOOLEAN, stopped : BOOLEAN]
      BY <1>1, <1>2 DEF ThreadTypes
    <2>2. [repeat[session] EXCEPT !.stopped = TRUE] \in [active : BOOLEAN, stopped : BOOLEAN]
      BY <2>1, StoppedFlag
    <2>. QED
      BY <1>1, <1>2, <1>3, <2>2 DEF ThreadTypes, Repeats
  <1>6. player' \in Players /\ (player'.phase = "running" => player'.stop)
    <2> DEFINE stop == player.stop \/ IsPlaying
    <2>1. stop \in BOOLEAN
      OBVIOUS
    <2>2. player.phase = "running" => stop
      BY DEF IsPlaying
    <2>3. player' = [player EXCEPT !.stop = stop]
      BY <1>1, <1>3 DEF ThreadTypes
    <2> HIDE DEF stop
    <2>. QED
      BY <1>1, <2>1, <2>2, <2>3 DEF ThreadTypes, Players
  <1>7. ThreadTypes'
    BY <1>1, <1>3, <1>4, <1>5, <1>6 DEF ThreadTypes, Repeats, Players
  <1>8. WindowTypes'
    <2>1. paused' \in BOOLEAN /\ gui' \in {"free", "stopping", "closing", "joining", "draining", "leaving"}
      BY <1>3
    <2>. QED
      BY <1>1, <1>4, <2>1 DEF WindowTypes
  <1>9. MacroTypes' /\ DialogTypes'
    BY <1>1, <1>4 DEF MacroTypes, DialogTypes
  <1>10. InOrder'
    BY <1>4 DEF WindowInv, InOrder
  <1>11. WorkersObey'
    BY <1>2, <1>3, <1>4, <1>5 DEF WindowInv, WorkersObey, Worker, Live
  <1>12. PlayerObeys'
    BY <1>6 DEF PlayerObeys
  <1>13. WindowPlays'
    BY <1>3, <1>4, <1>5 DEF WindowInv, WindowPlays
  <1>14. GuiWaits'
    BY <1>3, <1>4, <1>5, <1>6 DEF GuiRuns, GuiWaits
  <1>15. RecordingKnown' /\ SequenceAlone'
    BY <1>4 DEF WindowInv, RecordingKnown, SequenceAlone
  <1>16. DialogsNest'
    BY <1>4 DEF WindowInv, DialogsNest, Fits
  <1>17. QueueTypes' /\ MessagesTrue'
    BY <1>4, MessagesKept
  <1>. QED
    BY <1>7, <1>8, <1>9, <1>10, <1>11, <1>12, <1>13, <1>14, <1>15, <1>16, <1>17, AllKept

LEMMA PressStopStep ==
    ASSUME WindowInv, PressStop
    PROVE  WindowInv'
  <1>1. StopPlayback("stopping") /\ state = "playing" /\ UNCHANGED <<hook, seq>> /\ GuiRuns
    BY DEF PressStop, Hotkeys, MayAsk
  <1>. QED
    BY <1>1, StopKeeps

LEMMA StopReturnsStep ==
    ASSUME WindowInv, StopReturns
    PROVE  WindowInv'
  <1>1. ThreadTypes /\ DialogTypes /\ WindowTypes /\ MacroTypes
    BY Types DEF WindowInv
  <1>2. /\ state = "playing" /\ repeat[session].stopped
        /\ player.phase = "running" => player.stop
        /\ gui = "closing" => dialogs = <<>>
    BY DEF StopReturns, WindowInv, GuiWaits
  <1>3. UNCHANGED <<closed, dialogs, queue, worker, done, player, seq, recording, content>>
    BY DEF StopReturns
  <1>4. QueueTypes' /\ MessagesTrue'
    BY <1>3, MessagesKept DEF recording
  <1>5. CASE PlaybackLeaves /\ gui' = (IF gui = "closing" THEN "leaving" ELSE "free")
    BY <1>2, <1>3, <1>4, <1>5, PlaybackEnds
  <1>6. CASE /\ hook' = FALSE
             /\ gui' = "free"
             /\ UNCHANGED <<state, paused, polling, session, repeat, pauseEvent>>
    <2>1. /\ UNCHANGED <<rec, saver, gen, quick, quickText>>
          /\ UNCHANGED <<appendMode, base, macro, prev, wanted>>
      BY <1>3 DEF recording, content
    <2>2. ThreadTypes' /\ MacroTypes' /\ DialogTypes'
      BY <1>1, <1>3, <1>6, <2>1 DEF ThreadTypes, MacroTypes, DialogTypes
    <2>3. WindowTypes'
      <3>1. /\ hook' \in BOOLEAN
            /\ gui' \in {"free", "stopping", "closing", "joining", "draining", "leaving"}
        BY <1>6
      <3>2. UNCHANGED <<state, paused, polling, closed, seq>>
        BY <1>3, <1>6
      <3>. QED
        BY <1>1, <2>1, <3>1, <3>2 DEF WindowTypes
    <2>4. InOrder' /\ WorkersObey' /\ PlayerObeys'
      BY <1>3, <1>6 DEF WindowInv, InOrder, WorkersObey, PlayerObeys, Live
    <2>5. WindowPlays'
      BY <1>2, <1>6 DEF WindowInv, WindowPlays
    <2>6. GuiWaits'
      BY <1>2, <1>3, <1>6 DEF WindowInv, GuiWaits
    <2>7. RecordingKnown'
      BY <1>3, <1>6, <2>1 DEF WindowInv, RecordingKnown
    <2>8. SequenceAlone'
      BY <1>2, <1>3 DEF WindowInv, SequenceAlone
    <2>9. DialogsNest'
      BY <1>3, <1>6, <2>1 DEF WindowInv, DialogsNest, Fits
    <2>. QED
      BY <1>4, <2>2, <2>3, <2>4, <2>5, <2>6, <2>7, <2>8, <2>9, AllKept
  <1>. QED
    BY <1>5, <1>6 DEF StopReturns

LEMMA SequenceStopKeeps ==
    ASSUME WindowInv, state = "idle",
           UNCHANGED <<state, paused, polling, life, dialogs, queue, playback, recording, content>>,
           \/ seq = "off" /\ UNCHANGED <<seq, hook>>
           \/ seq' \in {"off", "stopping"} /\ hook' = FALSE /\ seq # "off"
    PROVE  WindowInv'
  <1>1. ThreadTypes /\ WindowTypes /\ MacroTypes
    BY Types DEF WindowInv
  <1>2. DialogTypes' /\ DialogsNest'
    <2>1. \A i \in 1 .. Len(dialogs) : Fits(dialogs[i])
      BY DEF WindowInv, DialogsNest
    <2>2. \A i \in 1 .. Len(dialogs') : Fits(dialogs[i])'
      BY <2>1 DEF Fits, Question, recording
    <2>. QED
      BY <2>2, Types DEF WindowInv, DialogsNest, DialogTypes
  <1>3. MacroTypes'
    BY ContentKept DEF SequenceAlone, display, life, playback, recording,
      content, window
  <1>4. WindowTypes'
    <2>1. UNCHANGED <<state, paused, polling, gui, closed, rec, saver, gen,
      quick, quickText, appendMode>>
      BY DEF SequenceAlone, display, life, playback, recording, content,
        window
    <2>2. seq' \in {"off", "on", "stopping"}
      BY <1>1 DEF WindowTypes, State, SequenceAlone, display, life, playback,
        recording, content, window
    <2>3. hook' \in BOOLEAN
      BY <1>1 DEF WindowTypes, State, SequenceAlone, display, life, playback,
        recording, content, window
    <2>. QED
      BY <1>1, <2>1, <2>2, <2>3 DEF WindowTypes
  <1>5. WindowPlays'
    BY <1>1 DEF WindowInv, WindowPlays, WindowTypes, SequenceAlone, display,
      life, playback, recording, content, window
  <1>6. GuiWaits'
    BY <1>1 DEF WindowInv, GuiWaits, WindowTypes, SequenceAlone, display,
      life, playback, recording, content, window
  <1>7. RecordingKnown'
    BY <1>1 DEF WindowInv, RecordingKnown, WindowTypes, SequenceAlone,
      display, life, playback, recording, content, window
  <1>8. SequenceAlone'
    BY <1>1 DEF WindowInv, SequenceAlone, WindowTypes, display, life, playback,
       recording, content, window
  <1>9. UNCHANGED <<queue, playback>>
    BY DEF SequenceAlone
  <1>10. saver = "ended" => UNCHANGED <<saver, rec, gen>>
    BY <1>1 DEF WindowInv, RecordingKnown, SequenceAlone, display, life,
      playback, recording, content, window
  <1>. QED
    BY <1>2, <1>3, <1>4, <1>5, <1>6, <1>7, <1>8, <1>9, <1>10, HandlerKeeps

LEMMA CloseWaits ==
    ASSUME WindowInv, GuiRuns, dialogs = <<>>,
           gui' = "joining" \/ (gui' = "leaving" /\ state = "idle"),
           UNCHANGED <<display, closed, dialogs, queue, playback, seq, recording, content>>
    PROVE  WindowInv'
  <1>1. ThreadTypes /\ WindowTypes /\ MacroTypes
    BY Types DEF WindowInv
  <1>2. DialogTypes' /\ DialogsNest'
    BY DialogsKept DEF GuiRuns, display, life, playback, recording, content,
      window
  <1>3. MacroTypes'
    BY ContentKept DEF GuiRuns, display, life, playback, recording, content,
      window
  <1>4. WindowTypes'
    <2>1. UNCHANGED <<state, paused, polling, hook, closed, seq, rec, saver,
      gen, quick, quickText, appendMode>>
      BY DEF GuiRuns, display, life, playback, recording, content, window
    <2>2. gui' \in {"free", "stopping", "closing", "joining", "draining", "leaving"}
      BY <1>1 DEF WindowTypes, State, GuiRuns, display, life, playback,
        recording, content, window
    <2>. QED
      BY <1>1, <2>1, <2>2 DEF WindowTypes
  <1>5. WindowPlays'
    BY <1>1 DEF WindowInv, WindowPlays, WindowTypes, GuiRuns, display, life,
      playback, recording, content, window
  <1>6. GuiWaits'
    BY <1>1 DEF WindowInv, GuiWaits, WindowTypes, GuiRuns, display, life,
      playback, recording, content, window
  <1>7. RecordingKnown'
    BY <1>1 DEF WindowInv, RecordingKnown, WindowTypes, GuiRuns, display,
      life, playback, recording, content, window
  <1>8. SequenceAlone'
    BY <1>1 DEF WindowInv, SequenceAlone, WindowTypes, GuiRuns, display, life,
      playback, recording, content, window
  <1>9. UNCHANGED <<queue, playback>>
    BY DEF GuiRuns
  <1>10. saver = "ended" => UNCHANGED <<saver, rec, gen>>
    BY <1>1 DEF WindowInv, RecordingKnown, GuiRuns, display, life, playback,
      recording, content, window
  <1>. QED
    BY <1>2, <1>3, <1>4, <1>5, <1>6, <1>7, <1>8, <1>9, <1>10, HandlerKeeps

LEMMA PausePlaybackStep ==
    ASSUME WindowInv, PausePlayback
    PROVE  WindowInv'
  <1>1. ThreadTypes /\ DialogTypes /\ WindowTypes /\ MacroTypes
    BY Types DEF WindowInv
  <1>2. /\ UNCHANGED <<state, polling, hook, gui, closed, dialogs, queue, session, repeat, worker, done, player, seq>>
        /\ UNCHANGED <<rec, saver, gen, quick, quickText>>
        /\ UNCHANGED <<appendMode, base, macro, prev, wanted>>
        /\ state = "playing" /\ pauseEvent' = ~paused /\ paused' = ~paused
    BY DEF PausePlayback, life, recording, content
  <1>3. ThreadTypes' /\ MacroTypes' /\ DialogTypes'
    BY <1>1, <1>2 DEF ThreadTypes, MacroTypes, DialogTypes
  <1>4. WindowTypes'
    BY <1>1, <1>2 DEF WindowTypes
  <1>5. InOrder' /\ WorkersObey' /\ PlayerObeys'
    BY <1>2 DEF WindowInv, InOrder, WorkersObey, PlayerObeys, Live
  <1>6. WindowPlays'
    BY <1>2 DEF WindowInv, WindowPlays
  <1>7. GuiWaits' /\ SequenceAlone'
    BY <1>2 DEF WindowInv, GuiWaits, SequenceAlone
  <1>8. RecordingKnown'
    BY <1>2 DEF WindowInv, RecordingKnown
  <1>9. DialogsNest'
    BY <1>2 DEF WindowInv, DialogsNest, Fits
  <1>10. QueueTypes' /\ MessagesTrue'
    BY <1>2, MessagesKept
  <1>. QED
    BY <1>3, <1>4, <1>5, <1>6, <1>7, <1>8, <1>9, <1>10, AllKept

LEMMA PollStep ==
    ASSUME WindowInv, Poll
    PROVE  WindowInv'
  <1>1. /\ PlaybackLeaves /\ state = "playing" /\ ~PollWaits /\ gui \in {"free", "draining"}
        /\ gui' = gui /\ UNCHANGED queue
        /\ UNCHANGED <<worker, done, player, dialogs, seq, closed, recording, content>>
    BY DEF Poll, OnComplete, GuiRuns, life
  <1>2. QueueTypes' /\ MessagesTrue'
    BY <1>1, MessagesKept DEF recording
  <1>3. ThreadTypes
    BY Types DEF WindowInv
  <1>4. session \in Sessions
    BY <1>1, <1>3 DEF WindowInv, WindowPlays, ThreadTypes
  <1>5. ~Live(session) \/ repeat[session].stopped
    BY <1>1, <1>4, SessionsPositive DEF PollWaits, WindowInv, WorkersObey
  <1>. QED
    BY <1>1, <1>2, <1>5, PlaybackEnds

-----------------------------------------------------------------------------
(* The emergency stop and the end of the window.                           *)

LEMMA EmergencyStopStep ==
    ASSUME WindowInv, Careful, EmergencyStop
    PROVE  WindowInv'
  <1>1. GuiRuns /\ MayAskStop
    BY DEF EmergencyStop
  <1>2. state # "idle" => seq = "off" /\ UNCHANGED <<seq, hook>>
    BY DEF EmergencyStop, WindowInv, SequenceAlone
  <1>3. CASE state \in {"recording", "stopping"}
    <2>1. /\ StopRecording
          /\ UNCHANGED <<gui, closed, dialogs, queue, playback, rec, gen, quick, quickText, content>>
      BY <1>3 DEF EmergencyStop, life
    <2>. QED
      BY <1>1, <1>2, <1>3, <2>1, StopRecordingKeeps
  <1>4. CASE state = "playing"
    <2>1. StopPlayback("stopping")
      BY <1>4 DEF EmergencyStop
    <2>. QED
      BY <1>1, <1>2, <1>4, <2>1, StopKeeps
  <1>5. CASE state = "idle"
    <2>1. /\ UNCHANGED <<state, paused, polling, life, dialogs, queue, playback, recording, content>>
          /\ \/ seq = "off" /\ UNCHANGED <<seq, hook>>
             \/ seq' \in {"off", "stopping"} /\ hook' = FALSE /\ seq # "off"
      BY <1>5 DEF EmergencyStop
    <2>. QED
      BY <1>5, <2>1, SequenceStopKeeps
  <1>. QED
    BY <1>3, <1>4, <1>5 DEF EmergencyStop

LEMMA CloseStep ==
    ASSUME WindowInv, Careful, Close
    PROVE  WindowInv'
  <1>1. GuiRuns /\ MayAskStop /\ dialogs = <<>> /\ gui = "free"
    BY DEF Close, Buttons, MayAsk
  <1>2. CASE /\ state = "recording"
             /\ StopRecording
             /\ gui' = "joining"
             /\ UNCHANGED <<hook, closed, dialogs, queue, playback, seq, rec, gen, quick, quickText, content>>
    BY <1>1, <1>2, StopRecordingKeeps
  <1>3. CASE /\ state = "playing"
             /\ StopPlayback("closing")
             /\ UNCHANGED <<hook, seq>>
    BY <1>1, <1>3, StopKeeps
  <1>4. CASE /\ gui' = "joining" \/ (gui' = "leaving" /\ state = "idle")
             /\ UNCHANGED <<display, closed, dialogs, queue, playback, seq, recording, content>>
    BY <1>1, <1>4, CloseWaits
  <1>. QED
    BY <1>2, <1>3, <1>4 DEF Close

-----------------------------------------------------------------------------
(* Messages.                                                               *)

LEMMA MessageTaken ==
    ASSUME WindowInv, queue # <<>>, queue' = Tail(queue)
    PROVE  /\ Head(queue) = queue[1] /\ queue[1] \in Message /\ Tells(queue[1])
           /\ QueueTypes'
           /\ \A i \in 1 .. Len(queue') :
                /\ i + 1 \in 1 .. Len(queue) /\ i + 1 # 1
                /\ queue'[i] = queue[i + 1] /\ Tells(queue[i + 1])
           /\ OfSaver(queue[1]) => \A i \in 1 .. Len(queue') : ~OfSaver(queue'[i])
  <1>1. queue \in Seq(Message)
    BY Types DEF WindowInv, QueueTypes
  <1>2. /\ Len(queue) \in Nat /\ Len(queue) >= 1 /\ Head(queue) = queue[1]
        /\ queue[1] \in Message
        /\ queue' \in Seq(Message) /\ Len(queue') = Len(queue) - 1
        /\ \A i \in 1 .. Len(queue) - 1 : queue'[i] = queue[i + 1]
    BY <1>1, TailFacts
  <1>3. \A i \in 1 .. Len(queue') : i + 1 \in 1 .. Len(queue) /\ i + 1 # 1
    BY <1>2
  <1>4. 1 \in 1 .. Len(queue)
    BY <1>2
  <1>5. \A i \in 1 .. Len(queue) : Tells(queue[i])
    BY DEF WindowInv, MessagesTrue
  <1>6. OfSaver(queue[1]) => \A i \in 1 .. Len(queue') : ~OfSaver(queue'[i])
    <2> SUFFICES ASSUME OfSaver(queue[1]), NEW i \in 1 .. Len(queue'), OfSaver(queue'[i])
                 PROVE  FALSE
      OBVIOUS
    <2>1. i + 1 \in 1 .. Len(queue) /\ i + 1 # 1 /\ queue'[i] = queue[i + 1]
      BY <1>2, <1>3
    <2>. QED
      BY <1>4, <2>1 DEF WindowInv, MessagesTrue
  <1>. QED
    BY <1>2, <1>3, <1>4, <1>5, <1>6 DEF QueueTypes

(* Nobody waits for the save worker any more once its message is taken.    *)
LEMMA MessagesLeft ==
    ASSUME WindowInv, queue # <<>>, queue' = Tail(queue), UNCHANGED worker,
           OfSaver(Head(queue)) \/ UNCHANGED <<saver, rec, gen>>
    PROVE  QueueTypes' /\ MessagesTrue'
  <1>1. \A i \in 1 .. Len(queue') : Tells(queue[i])'
    <2> SUFFICES ASSUME NEW i \in 1 .. Len(queue')
                 PROVE  Tells(queue[i])'
      OBVIOUS
    <2>1. queue'[i] = queue[i + 1] /\ Tells(queue[i + 1])
      BY MessageTaken
    <2>2. OfSaver(Head(queue)) => ~OfSaver(queue'[i])
      BY MessageTaken
    <2>. QED
      BY <2>1, <2>2 DEF Tells, OfSaver
  <1>2. ASSUME NEW i \in 1 .. Len(queue'), NEW j \in 1 .. Len(queue'),
               OfSaver(queue'[i]), OfSaver(queue'[j])
        PROVE  i = j
    <2>1. i + 1 \in 1 .. Len(queue) /\ j + 1 \in 1 .. Len(queue)
      BY MessageTaken
    <2>2. OfSaver(queue[i + 1]) /\ OfSaver(queue[j + 1])
      BY <1>2, MessageTaken
    <2>3. i + 1 = j + 1
      BY <2>1, <2>2 DEF WindowInv, MessagesTrue
    <2>. QED
      BY <2>3
  <1>. QED
    BY <1>1, <1>2, MessageTaken DEF MessagesTrue

(* A message of a session that is not that of the window is dropped.       *)
LEMMA StaleKeeps ==
    ASSUME WindowInv, UNCHANGED <<window, playback>>, QueueTypes', MessagesTrue'
    PROVE  WindowInv'
  <1>1. /\ UNCHANGED <<state, paused, polling, hook, gui, closed, dialogs, seq>>
        /\ UNCHANGED <<rec, saver, gen, quick, quickText>>
        /\ UNCHANGED content
    BY DEF window, display, life, recording
  <1>2. UNCHANGED <<session, repeat, pauseEvent, player>>
    BY DEF playback
  <1>3. DialogTypes' /\ DialogsNest' /\ MacroTypes'
    BY <1>1, DialogsKept, ContentKept
  <1>4. WindowTypes'
    BY <1>1, Types DEF WindowInv, WindowTypes, content
  <1>5. WindowPlays' /\ GuiWaits'
    BY <1>1, <1>2 DEF WindowInv, WindowPlays, GuiWaits
  <1>6. RecordingKnown' /\ SequenceAlone'
    BY <1>1 DEF WindowInv, RecordingKnown, SequenceAlone
  <1>. QED
    BY <1>3, <1>4, <1>5, <1>6, PlaybackKept, AllKept

(* The session ended by itself, in success or not.                         *)
LEMMA SessionEnds ==
    ASSUME WindowInv, GuiRuns, queue # <<>>, queue' = Tail(queue),
           Head(queue).kind \in {"complete", "error"}, Head(queue).of = session,
           OnComplete \/ OnError
    PROVE  WindowInv'
  <1>1. Head(queue) \in Message /\ Tells(Head(queue))
    BY MessageTaken
  <1>2. session \in Sessions /\ ~Live(session)
    BY <1>1 DEF Message, Tells, Live
  <1>3. state = "playing"
    BY <1>2, SessionsPositive DEF WindowInv, WindowPlays
  <1>4. /\ PlaybackLeaves
        /\ UNCHANGED <<gui, closed, dialogs, worker, done, player, seq, recording, content>>
    <2>1. CASE OnComplete
      BY <2>1 DEF OnComplete, life
    <2>2. CASE OnError
      BY <1>3, <2>2 DEF OnError, life, recording
    <2>. QED
      BY <2>1, <2>2
  <1>5. QueueTypes' /\ MessagesTrue'
    <2>1. UNCHANGED <<worker, saver, rec, gen>>
      BY <1>4 DEF recording
    <2>. QED
      BY <2>1, MessagesLeft
  <1>6. gui' \in {"free", "draining", "leaving"} /\ (gui' = "leaving" => dialogs = <<>>)
    BY <1>4 DEF GuiRuns
  <1>. QED
    BY <1>2, <1>3, <1>4, <1>5, <1>6, PlaybackEnds

(* A recorder that could not be stopped goes on, and the state with it.    *)
LEMMA StopFails ==
    ASSUME WindowInv, queue # <<>>, queue' = Tail(queue),
           Head(queue).kind = "stopError", OnError
    PROVE  WindowInv'
  <1>1. rec.on /\ saver = "ended" /\ state = "stopping"
    BY MessageTaken DEF Tells, OfSaver, WindowInv, RecordingKnown
  <1>2. /\ saver' = "none"
        /\ UNCHANGED <<state, paused, polling, hook, gui, closed, dialogs, seq>>
        /\ UNCHANGED <<rec, gen, quick, quickText>>
        /\ UNCHANGED <<session, repeat, pauseEvent, player, worker, playback, content>>
    BY <1>1 DEF OnError, display, life, playback
  <1>3. QueueTypes' /\ MessagesTrue'
    BY <1>2, MessagesLeft DEF OfSaver
  <1>4. DialogTypes' /\ MacroTypes'
    BY <1>2, Types, ContentKept DEF WindowInv, DialogTypes
  <1>5. DialogsNest'
    <2>1. \A i \in 1 .. Len(dialogs) : Fits(dialogs[i])
      BY DEF WindowInv, DialogsNest
    <2>2. \A i \in 1 .. Len(dialogs') : Fits(dialogs[i])'
      BY <1>1, <1>2, <2>1 DEF Fits
    <2>. QED
      BY <1>2, <2>2 DEF WindowInv, DialogsNest
  <1>6. WindowTypes'
    BY <1>2, Types DEF WindowInv, WindowTypes, content
  <1>7. WindowPlays' /\ GuiWaits'
    BY <1>2 DEF WindowInv, WindowPlays, GuiWaits
  <1>8. RecordingKnown' /\ SequenceAlone'
    BY <1>1, <1>2 DEF WindowInv, RecordingKnown, SequenceAlone
  <1>. QED
    BY <1>2, <1>3, <1>4, <1>5, <1>6, <1>7, <1>8, PlaybackKept, AllKept

LEMMA SavedOverText ==
    ASSUME WindowInv, saver = "ended"
    PROVE  /\ \A i \in 1 .. Len(dialogs) : Fits(dialogs[i]) /\ Text(dialogs[i])
           /\ dialogs # <<>> => Len(dialogs) = 1 /\ Text(dialogs[1])
  <1>1. dialogs \in Seq(Dialog)
    BY Types DEF WindowInv, DialogTypes
  <1>2. state = "stopping"
    BY DEF WindowInv, RecordingKnown
  <1>3. \A i \in 1 .. Len(dialogs) : Fits(dialogs[i]) /\ Text(dialogs[i])
    <2> SUFFICES ASSUME NEW i \in 1 .. Len(dialogs)
                 PROVE  Fits(dialogs[i]) /\ Text(dialogs[i])
      OBVIOUS
    <2>1. dialogs[i] \in Dialog
      BY <1>1
    <2>2. Fits(dialogs[i])
      BY DEF WindowInv, DialogsNest
    <2>3. dialogs[i].kind \notin {"repeat", "append", "discard", "sequenceError", "notRestored"}
      BY <1>2, <2>2 DEF Fits, Question
    <2>. QED
      BY <2>1, <2>2, <2>3 DEF Dialog, Text
  <1>4. dialogs # <<>> => Len(dialogs) = 1 /\ Text(dialogs[1])
    <2> SUFFICES ASSUME dialogs # <<>>
                 PROVE  Len(dialogs) = 1 /\ Text(dialogs[1])
      OBVIOUS
    <2>1. Len(dialogs) \in Nat /\ Len(dialogs) >= 1
      BY <1>1, TailFacts
    <2>2. Text(dialogs[1])
      BY <1>3, <2>1
    <2>3. Len(dialogs) <= 2 /\ (Len(dialogs) = 2 => ~Text(dialogs[1]))
      BY DEF WindowInv, DialogsNest, Nested
    <2>4. Len(dialogs) # 2
      BY <2>2, <2>3
    <2>. QED
      BY <2>1, <2>2, <2>3, <2>4, JustOne
  <1>. QED
    BY <1>3, <1>4

(* The recording that was saved becomes the macro, or waits below the      *)
(* message that the keys were not taken back.                              *)
LEMMA RecordingDone ==
    ASSUME WindowInv, GuiRuns, queue # <<>>, queue' = Tail(queue),
           Head(queue).kind = "recorded", OnRecordingDone(Head(queue).gen)
    PROVE  WindowInv'
  <1> DEFINE g == Head(queue).gen
  <1>1. /\ ~rec.on /\ saver = "ended" /\ state = "stopping"
        /\ g = gen /\ g \in 1 .. MaxRecordings
    <2>1. Head(queue) \in Message /\ Tells(Head(queue))
      BY MessageTaken
    <2>. QED
      BY <2>1 DEF Tells, OfSaver, WindowInv, RecordingKnown, Message
  <1> HIDE DEF g
  <1>2. /\ saver' = "none" /\ quick' \in {"on", "refused"}
        /\ UNCHANGED <<gui, closed, seq>> /\ UNCHANGED <<rec, gen, quickText>>
        /\ UNCHANGED <<session, repeat, pauseEvent, player, worker, playback>>
        /\ UNCHANGED <<paused, polling, hook>> /\ state' \in {"idle", "stopping"}
        /\ appendMode' \in {appendMode, FALSE}
    BY <1>1 DEF OnRecordingDone, Restored, Land, life, playback, display, content
  <1>3. QueueTypes' /\ MessagesTrue'
    BY <1>2, MessagesLeft DEF OfSaver
  <1>4. ThreadTypes /\ DialogTypes /\ WindowTypes /\ MacroTypes
    BY Types DEF WindowInv
  <1>5. WindowTypes'
    <2>1. saver' \in {"none", "stopping", "saving", "ended"} /\ quick' \in {"on", "off", "refused"}
      BY <1>2
    <2>2. state' \in State /\ appendMode' \in BOOLEAN
      BY <1>2, <1>4 DEF State, WindowTypes
    <2>. QED
      BY <1>2, <1>4, <2>1, <2>2 DEF WindowTypes
  <1>6. WindowPlays' /\ GuiWaits'
    <2>1. state # "playing" /\ state' # "playing" /\ session = 0 /\ ~closed
          /\ gui \in {"free", "draining"}
      BY <1>1, <1>2 DEF WindowInv, WindowPlays, GuiRuns
    <2>. QED
      BY <1>2, <2>1 DEF WindowPlays, GuiWaits
  <1>7. SequenceAlone'
    BY <1>1, <1>2 DEF WindowInv, SequenceAlone
  <1>8. MacroTypes'
    <2>1. CASE Land(g)
      <3>1. <<>> \in Macro /\ <<g>> \in Macro /\ Append(base, g) \in Macro
        BY <1>1, <1>4 DEF Macro, MacroTypes
      <3>. QED
        BY <1>4, <2>1, <3>1 DEF Land, MacroTypes
    <2>2. CASE UNCHANGED content
      BY <2>2, ContentKept
    <2>. QED
      BY <2>1, <2>2 DEF OnRecordingDone, g
  <1>9. \A i \in 1 .. Len(dialogs) : Fits(dialogs[i]) /\ Text(dialogs[i])
    BY <1>1, SavedOverText
  <1>10. CASE /\ quick' = "on"
              /\ Land(g)
              /\ UNCHANGED dialogs
    <2>1. state' = "idle"
      BY <1>10 DEF Land
    <2>2. RecordingKnown'
      BY <1>1, <1>2, <1>10, <2>1 DEF RecordingKnown
    <2>3. \A i \in 1 .. Len(dialogs') : Fits(dialogs[i])'
      BY <1>2, <1>9, <1>10, <2>1 DEF Fits, Text, Question
    <2>4. DialogTypes' /\ DialogsNest'
      BY <1>4, <1>10, <2>3 DEF WindowInv, DialogTypes, DialogsNest
    <2>. QED
      BY <1>2, <1>3, <1>5, <1>6, <1>7, <1>8, <2>2, <2>4, PlaybackKept, AllKept
  <1>11. CASE /\ quick' = "refused"
              /\ Open([kind |-> "notRestored", gen |-> g])
              /\ UNCHANGED <<display, content>>
    <2> DEFINE d == [kind |-> "notRestored", gen |-> g]
    <2>1. d \in Dialog /\ d.kind = "notRestored" /\ d.gen = g
      BY <1>1 DEF Dialog
    <2> HIDE DEF d
    <2>2. dialogs' = <<d>> \o dialogs
      BY <1>11 DEF Open, d
    <2>3. ~Text(d)
      BY <2>1 DEF Text
    <2>4. dialogs # <<>> => Len(dialogs) = 1 /\ Text(dialogs[1])
      BY <1>1, SavedOverText
    <2>5. /\ DialogTypes' /\ Nested(dialogs') /\ dialogs' # <<>> /\ dialogs'[1] = d
          /\ \A i \in 1 .. Len(dialogs') :
                \/ dialogs'[i] = d
                \/ dialogs # <<>> /\ dialogs'[i] = dialogs[1]
      BY <2>1, <2>2, <2>3, <2>4, Opened
    <2>6. state' = "stopping"
      BY <1>1, <1>11 DEF display
    <2>7. RecordingKnown'
      BY <1>1, <1>2, <2>1, <2>5, <2>6 DEF WindowInv, RecordingKnown
    <2>8. dialogs # <<>> => Fits(dialogs[1]) /\ Text(dialogs[1])
      BY <2>4 DEF WindowInv, DialogsNest
    <2>9. \A i \in 1 .. Len(dialogs') : Fits(dialogs[i])'
      BY <1>1, <1>2, <1>11, <2>1, <2>5, <2>6, <2>8 DEF Fits, Text, Question
    <2>10. DialogsNest'
      BY <2>5, <2>9 DEF DialogsNest
    <2>. QED
      BY <1>2, <1>3, <1>5, <1>6, <1>7, <1>8, <2>5, <2>7, <2>10, PlaybackKept, AllKept
  <1>. QED
    BY <1>10, <1>11 DEF OnRecordingDone, g

LEMMA HandleMessageStep ==
    ASSUME WindowInv, HandleMessage
    PROVE  WindowInv'
  <1> DEFINE msg == Head(queue)
  <1>1. GuiRuns /\ queue # <<>> /\ queue' = Tail(queue)
    BY DEF HandleMessage
  <1>2. CASE UNCHANGED <<window, playback>>
    <2>1. UNCHANGED <<worker, saver, rec, gen>>
      BY <1>2 DEF window, recording, playback
    <2>. QED
      BY <1>1, <1>2, <2>1, MessagesLeft, StaleKeeps
  <1>3. CASE msg.kind \in {"complete", "error"} /\ msg.of = session /\ (OnComplete \/ OnError)
    BY <1>1, <1>3, SessionEnds
  <1>4. CASE msg.kind = "stopError" /\ OnError
    BY <1>1, <1>4, StopFails
  <1>5. CASE msg.kind = "recorded" /\ OnRecordingDone(msg.gen)
    BY <1>1, <1>5, RecordingDone
  <1>. QED
    BY <1>2, <1>3, <1>4, <1>5 DEF HandleMessage

-----------------------------------------------------------------------------
(* The save worker posts one message, when it ends.                        *)

LEMMA SaverPosts ==
    ASSUME WindowInv, saver # "ended", UNCHANGED worker,
           NEW msg \in Message, OfSaver(msg), Tells(msg)', queue' = Append(queue, msg)
    PROVE  QueueTypes' /\ MessagesTrue'
  <1>1. queue \in Seq(Message)
    BY Types DEF WindowInv, QueueTypes
  <1>2. /\ queue' \in Seq(Message)
        /\ Len(queue) \in Nat /\ Len(queue') = Len(queue) + 1
        /\ \A i \in 1 .. Len(queue) : queue'[i] = queue[i]
        /\ queue'[Len(queue) + 1] = msg
    BY <1>1, AppendFacts
  <1>3. \A i \in 1 .. Len(queue') : i \in 1 .. Len(queue) \/ i = Len(queue) + 1
    BY <1>2
  <1>4. \A i \in 1 .. Len(queue) : ~OfSaver(queue[i]) /\ Tells(queue[i])
    BY DEF WindowInv, MessagesTrue, Tells
  <1>5. \A i \in 1 .. Len(queue') : Tells(queue[i])'
    BY <1>2, <1>3, <1>4 DEF Tells, OfSaver
  <1>6. \A i, j \in 1 .. Len(queue') : OfSaver(queue'[i]) /\ OfSaver(queue'[j]) => i = j
    BY <1>2, <1>3, <1>4
  <1>. QED
    BY <1>2, <1>5, <1>6 DEF QueueTypes, MessagesTrue

LEMMA SaverStep ==
    ASSUME WindowInv, SaverStops \/ SaverSaves
    PROVE  WindowInv'
  <1>1. state = "stopping" /\ gen >= 1 /\ saver \in {"stopping", "saving"}
    BY DEF WindowInv, RecordingKnown, SaverStops, SaverSaves
  <1>2. /\ UNCHANGED <<state, paused, polling, hook, gui, closed, dialogs, seq>>
        /\ UNCHANGED <<gen, quick, quickText>>
        /\ UNCHANGED <<session, repeat, pauseEvent, player, worker, playback, content>>
    BY DEF SaverStops, SaverSaves, display, life, playback
  <1>3. ThreadTypes /\ DialogTypes /\ WindowTypes /\ MacroTypes
    BY Types DEF WindowInv
  <1>4. \/ /\ rec' = [on |-> FALSE, paused |-> FALSE] /\ saver' = "saving"
           /\ UNCHANGED queue
        \/ /\ rec.on /\ UNCHANGED rec /\ saver' = "ended"
           /\ queue' = Append(queue, [kind |-> "stopError"])
        \/ /\ ~rec.on /\ UNCHANGED rec /\ saver' = "ended"
           /\ queue' = Append(queue, [kind |-> "recorded", gen |-> gen])
    BY DEF SaverStops, SaverSaves, WindowInv, RecordingKnown, Post, recording
  <1>5. rec' \in [on : BOOLEAN, paused : BOOLEAN] /\ saver' \in {"none", "stopping", "saving", "ended"}
    <2>1. [on |-> FALSE, paused |-> FALSE] \in [on : BOOLEAN, paused : BOOLEAN]
      OBVIOUS
    <2>2. rec \in [on : BOOLEAN, paused : BOOLEAN]
      BY <1>3 DEF WindowTypes
    <2>3. rec' \in {rec, [on |-> FALSE, paused |-> FALSE]} /\ saver' \in {"saving", "ended"}
      BY <1>4
    <2>. QED
      BY <2>1, <2>2, <2>3
  <1>6. WindowTypes'
    BY <1>2, <1>3, <1>5 DEF WindowTypes, content
  <1>7. QueueTypes' /\ MessagesTrue'
    <2>1. CASE UNCHANGED queue
      BY <1>1, <1>2, <2>1, MessagesNone
    <2>2. CASE /\ rec.on /\ UNCHANGED rec /\ saver' = "ended"
               /\ queue' = Append(queue, [kind |-> "stopError"])
      <3> DEFINE msg == [kind |-> "stopError"]
      <3>1. msg \in Message /\ msg.kind = "stopError"
        BY DEF Message
      <3> HIDE DEF msg
      <3>2. OfSaver(msg) /\ queue' = Append(queue, msg)
        BY <2>2, <3>1 DEF OfSaver, msg
      <3>3. Tells(msg)'
        BY <2>2, <3>1 DEF Tells, OfSaver, msg
      <3>. QED
        BY <1>1, <1>2, <3>1, <3>2, <3>3, SaverPosts DEF msg
    <2>3. CASE /\ ~rec.on /\ UNCHANGED rec /\ saver' = "ended"
               /\ queue' = Append(queue, [kind |-> "recorded", gen |-> gen])
      <3>1. gen \in 1 .. MaxRecordings
        BY <1>1, <1>3 DEF WindowTypes
      <3>. SUFFICES ASSUME NEW g \in 1 .. MaxRecordings, g = gen
                    PROVE  QueueTypes' /\ MessagesTrue'
        BY <3>1
      <3>2. [kind |-> "recorded", gen |-> g] \in Message
        BY DEF Message
      <3>. QED
        BY <1>1, <1>2, <2>3, <3>2, SaverPosts DEF Tells, OfSaver
    <2>. QED
      BY <1>4, <2>1, <2>2, <2>3
  <1>8. DialogTypes' /\ MacroTypes'
    BY <1>2, <1>3, ContentKept DEF DialogTypes
  <1>9. DialogsNest'
    <2>1. \A i \in 1 .. Len(dialogs) : Fits(dialogs[i])
      BY DEF WindowInv, DialogsNest
    <2>3. /\ rec' = rec \/ ~rec'.on
          /\ \A i \in 1 .. Len(dialogs) : dialogs[i].kind # "notRestored"
      BY <1>1, <1>4, <2>1 DEF Fits
    <2>2. \A i \in 1 .. Len(dialogs') : Fits(dialogs[i])'
      BY <1>1, <1>2, <2>1, <2>3 DEF Fits
    <2>. QED
      BY <1>2, <2>2 DEF WindowInv, DialogsNest
  <1>10. WindowPlays' /\ GuiWaits'
    BY <1>2 DEF WindowInv, WindowPlays, GuiWaits
  <1>11. RecordingKnown'
    <2>1. saver' \in {"saving", "ended"} /\ (saver' = "saving" => ~rec'.on)
          /\ (rec'.on => rec.on)
      BY <1>4
    <2>. QED
      BY <1>1, <1>2, <2>1 DEF WindowInv, RecordingKnown
  <1>12. SequenceAlone'
    BY <1>1, <1>2 DEF WindowInv, SequenceAlone
  <1>. QED
    BY <1>2, <1>6, <1>7, <1>8, <1>9, <1>10, <1>11, <1>12, PlaybackKept, AllKept

-----------------------------------------------------------------------------
(* All steps.                                                              *)

LEMMA WindowInit ==
    ASSUME Init
    PROVE  WindowInv
  <1>1. ThreadTypes
    BY DEF Init, ThreadTypes, NoPlayback, Place
  <1>2. QueueTypes /\ DialogTypes /\ MacroTypes
    BY DEF Init, QueueTypes, DialogTypes, MacroTypes, Macro
  <1>3. WindowTypes
    <2>1. [on |-> FALSE, paused |-> FALSE] \in [on : BOOLEAN, paused : BOOLEAN]
      OBVIOUS
    <2>2. rec \in [on : BOOLEAN, paused : BOOLEAN]
      BY <2>1 DEF Init
    <2>3. gen \in 0 .. MaxRecordings
      BY WindowAssumption DEF Init
    <2>. QED
      BY <2>2, <2>3 DEF Init, WindowTypes, State
  <1>4. InOrder
    <2>1. 0 \in 0 .. MaxSessions /\ \A s \in Sessions : s > 0
      BY WindowAssumption DEF Sessions
    <2>. QED
      BY <2>1 DEF Init, InOrder
  <1>5. WorkersObey /\ PlayerObeys /\ WindowPlays /\ GuiWaits
    BY DEF Init, WorkersObey, PlayerObeys, WindowPlays, GuiWaits, Live, NoPlayback
  <1>6. MessagesTrue /\ RecordingKnown /\ SequenceAlone /\ DialogsNest
    BY DEF Init, MessagesTrue, RecordingKnown, SequenceAlone, DialogsNest, Nested
  <1>. QED
    BY <1>1, <1>2, <1>3, <1>4, <1>5, <1>6, Types DEF WindowInv

LEMMA WorkerStep ==
    ASSUME WindowInv, NEW s \in Sessions, RepeatWorker(s)
    PROVE  WindowInv'
  BY CheckCycleStep, LeaveHoldStep, EnterGateStep, StartPlayerStep, AwaitDoneStep,
     PassIntervalStep, FinishRepeatStep DEF RepeatWorker

LEMMA GuiStep ==
    ASSUME WindowInv, Gui
    PROVE  WindowInv'
  BY HandleMessageStep, PollStep, StopReturnsStep, CloseJoinsStep, CloseDrainedStep,
     CloseLeavesStep DEF Gui

LEMMA UserStep ==
    ASSUME WindowInv, Careful, User
    PROVE  WindowInv'
  <1>1. ASSUME NEW n \in Cycles, AskPlay(n)
        PROVE  WindowInv'
    BY <1>1, AskPlayStep
  <1>2. ASSUME NEW yes \in BOOLEAN, AnswerRepeat(yes) \/ AnswerAppend(yes) \/ AnswerDiscard(yes)
        PROVE  WindowInv'
    BY <1>2, AnswerRepeatStep, AnswerAppendStep, AnswerDiscardStep
  <1>3. CASE QuickSlot \/ PressStop \/ PausePlayback \/ StartSequence \/ StopSequence
    BY <1>3, QuickSlotStep, PressStopStep, PausePlaybackStep, StartSequenceStep,
       StopSequenceStep
  <1>4. CASE PressRecord \/ AskAppend \/ PauseRecording \/ OpenQuickText
    BY <1>4, PressRecordStep, AskAppendStep, PauseRecordingStep, OpenQuickTextStep
  <1>5. ASSUME NEW accepted \in BOOLEAN, CloseQuickText(accepted)
        PROVE  WindowInv'
    BY <1>5, CloseQuickTextStep
  <1>6. CASE CloseQuickFailed \/ CloseFocusLost \/ PressStopRecording \/ CloseNotRestored
                \/ OnSequenceDone
    BY <1>6, CloseQuickFailedStep, CloseFocusLostStep, PressStopRecordingStep, CloseNotRestoredStep,
       OnSequenceDoneStep
  <1>7. CASE EmergencyStop \/ Close \/ LoadMacro \/ RestorePrev
    BY <1>7, EmergencyStopStep, CloseStep, LoadMacroStep, RestorePrevStep
  <1>. QED
    BY <1>1, <1>2, <1>3, <1>4, <1>5, <1>6, <1>7 DEF User

LEMMA StutterKeeps ==
    ASSUME WindowInv, UNCHANGED vars
    PROVE  WindowInv'
  <1>1. UNCHANGED <<window, queue, playback>>
    BY DEF vars
  <1>2. UNCHANGED <<worker, saver, rec, gen>>
    BY <1>1 DEF window, recording, playback
  <1>3. QueueTypes' /\ MessagesTrue'
    BY <1>1, <1>2, MessagesKept
  <1>. QED
    BY <1>1, <1>3, StaleKeeps

LEMMA WindowNext ==
    ASSUME WindowInv, Careful, [Next]_vars
    PROVE  WindowInv'
  BY UserStep, GuiStep, SaverStep, WorkerStep, PlayerStep, SequenceEndsStep, StutterKeeps
     DEF Next, Saver

(* Type correctness, with the whole invariant: sessions are taken in their *)
(* order and an unstopped worker is that of the window's session; messages *)
(* tell what is so; the state tells what the recorder, the save worker and *)
(* the sequencer do; and an open question was asked of the window as it    *)
(* still is.                                                               *)
THEOREM WindowHolds ==
    ASSUME Careful
    PROVE  Spec => []WindowInv
  <1>1. Init => WindowInv
    BY WindowInit
  <1>2. WindowInv /\ [Next]_vars => WindowInv'
    BY WindowNext
  <1>. QED
    BY <1>1, <1>2, PTL DEF Spec

(* NothingRunsUnseen: a recorder that records, a player that plays and was *)
(* not told to stop, a sequence that runs are what the window shows and    *)
(* can stop, with the emergency hook in, and a closed window has left      *)
(* nothing running (_start_recording, _start_playback, _stop_playback,     *)
(* closeEvent of main_window.py).                                          *)
THEOREM NothingUnseen ==
    ASSUME Careful
    PROVE  Spec => []NothingRunsUnseen
  <1>1. WindowInv => NothingRunsUnseen
    <2> SUFFICES ASSUME WindowInv
                 PROVE  NothingRunsUnseen
      OBVIOUS
    <2>1. ThreadTypes /\ WindowTypes
      BY Types DEF WindowInv
    <2>2. rec.on => state \in {"recording", "stopping"}
      BY <2>1 DEF WindowInv, RecordingKnown, WindowTypes, State
    <2>3. player.phase = "running" /\ ~player.stop =>
                state = "playing" /\ session = player.owner /\ hook
      <3> SUFFICES ASSUME player.phase = "running", ~player.stop
                   PROVE  state = "playing" /\ session = player.owner /\ hook
        OBVIOUS
      <3>1. /\ player.owner \in Sessions /\ worker[player.owner].pc = "wait"
            /\ ~repeat[player.owner].stopped
        BY DEF WindowInv, PlayerObeys
      <3>2. session = player.owner /\ session # 0
        BY <3>1, SessionsPositive DEF WindowInv, WorkersObey, Live
      <3>. QED
        BY <3>1, <3>2 DEF WindowInv, WindowPlays
    <2>4. seq = "on" => state = "idle" /\ hook
      BY DEF WindowInv, SequenceAlone
    <2>5. closed => state = "idle" /\ seq = "off" /\ ~rec.on
      BY DEF WindowInv, GuiWaits, RecordingKnown
    <2>. QED
      BY <2>2, <2>3, <2>4, <2>5 DEF NothingRunsUnseen
  <1>. QED
    BY <1>1, WindowHolds, PTL

(* ShownAsIs: what F8 will do next is decided by _paused of the window,    *)
(* and that agrees with the recorder and with the event the repeat worker  *)
(* waits for; and the quick-run keys are off while a recording runs and    *)
(* back, or refused, when the window is idle (_toggle_pause and            *)
(* set_quick_run_enabled).                                                 *)
THEOREM Shown ==
    ASSUME Careful
    PROVE  Spec => []ShownAsIs
  <1>1. WindowInv => ShownAsIs
    BY DEF WindowInv, RecordingKnown, WindowPlays, ShownAsIs
  <1>. QED
    BY <1>1, WindowHolds, PTL

-----------------------------------------------------------------------------
(* What a recording becomes.                                               *)

LEMMA PushTop ==
    ASSUME NEW q \in Seq(Dialog), NEW d
    PROVE  (<<d>> \o q)[1] = d
  OBVIOUS

(* Steps that leave the macros and the number of the recording alone, move *)
(* between states of the same half, and open no question of an append.     *)
ContentStays ==
    /\ UNCHANGED <<content, gen>>
    /\ \/ state' = state
       \/ state \in {"idle", "playing"} /\ state' \in {"idle", "playing"}
       \/ state \in {"recording", "stopping"} /\ state' = "stopping"

NoQuestion ==
    \/ UNCHANGED dialogs
    \/ dialogs' # <<>> => dialogs'[1].kind # "append"

LEMMA OpenedNoAppend ==
    ASSUME WindowInv, NEW d, dialogs' = <<d>> \o dialogs, d.kind # "append"
    PROVE  NoQuestion
  <1>1. dialogs \in Seq(Dialog)
    BY Types DEF WindowInv, DialogTypes
  <1>. QED
    BY <1>1, PushTop DEF NoQuestion

LEMMA ClosedNoAppend ==
    ASSUME WindowInv, dialogs # <<>>, CloseTop
    PROVE  NoQuestion
  <1>1. dialogs' \in Seq(Dialog)
    BY Closed DEF DialogTypes
  <1>2. dialogs' # <<>> => 1 \in 1 .. Len(dialogs')
    BY <1>1
  <1>3. dialogs' # <<>> => Text(dialogs'[1])
    BY <1>2, Closed
  <1>. QED
    BY <1>3 DEF NoQuestion, Text

LEMMA StaysAsked ==
    ASSUME AskedInv, ContentStays, NoQuestion
    PROVE  AskedInv' /\ UNCHANGED macro
  <1>1. UNCHANGED <<appendMode, base, macro, prev, wanted, gen>>
    BY DEF ContentStays, content
  <1>2. dialogs' # <<>> /\ dialogs'[1].kind = "append" => macro # <<>>
    BY DEF NoQuestion, AskedInv
  <1>3. /\ state' \in {"idle", "playing"} => state \in {"idle", "playing"}
        /\ state' \in {"recording", "stopping"} => state \in {"recording", "stopping"}
    BY DEF ContentStays
  <1>. QED
    BY <1>1, <1>2, <1>3 DEF AskedInv

(* The recording lands as it was asked for.                                *)
LandsNow == state = "stopping" /\ Land(gen) /\ UNCHANGED gen /\ NoQuestion

LEMMA LandsAsked ==
    ASSUME WindowInv, AskedInv, LandsNow
    PROVE  AskedInv' /\ macro' = wanted /\ prev' = macro
  <1>1. base \in Macro /\ gen \in 0 .. MaxRecordings /\ macro \in Macro
    BY Types DEF WindowInv, MacroTypes, WindowTypes
  <1>2. <<gen>> # <<>> /\ Append(base, gen) # <<>>
    BY <1>1 DEF Macro
  <1>3. /\ macro' = IF appendMode /\ base # <<>> THEN Append(base, gen) ELSE <<gen>>
        /\ ~appendMode' /\ state' = "idle" /\ prev' = prev
    BY DEF LandsNow, Land
  <1>4. macro' # <<>>
    BY <1>2, <1>3
  <1>5. macro' = wanted /\ prev' = macro
    BY <1>3 DEF AskedInv, LandsNow
  <1>. QED
    BY <1>3, <1>4, <1>5 DEF AskedInv

(* A recording that is begun replaces the macro, or goes on from it.       *)
LEMMA StartAsked ==
    ASSUME WindowInv, AskedInv, KeysSuspend, state = "idle", NoQuestion,
           NEW append, NEW from, NEW asked, StartRecording(append, from, asked),
           append \in BOOLEAN,
           asked = IF append /\ from # <<>> THEN Append(from, gen + 1) ELSE <<gen + 1>>
    PROVE  AskedInv' /\ UNCHANGED macro
  <1>1. UNCHANGED macro
    BY DEF StartRecording
  <1>2. dialogs' # <<>> /\ dialogs'[1].kind = "append" => macro # <<>>
    BY DEF NoQuestion, AskedInv
  <1>3. CASE RecorderFails
    BY <1>1, <1>2, <1>3 DEF RecorderFails, display, AskedInv
  <1>4. CASE RecorderStarts(append, from, asked)
    <2>1. /\ appendMode' = append /\ base' = from /\ wanted' = asked /\ gen' = gen + 1
          /\ state' = "recording" /\ prev' = IF macro # <<>> THEN macro ELSE prev
      BY <1>4 DEF RecorderStarts
    <2>2. prev' = macro
      BY <2>1 DEF AskedInv
    <2>3. wanted' = IF appendMode' /\ base' # <<>> THEN Append(base', gen') ELSE <<gen'>>
      BY <2>1
    <2>. QED
      BY <1>1, <1>2, <2>1, <2>2, <2>3 DEF AskedInv
  <1>. QED
    BY <1>1, <1>3, <1>4 DEF StartRecording, SuspendFails, KeysSuspend

(* What is shown of every step.                                            *)
Known == AskedInv' /\ (UNCHANGED macro \/ (state = "stopping" => macro' = wanted /\ prev' = macro))

LEMMA UserAsked ==
    ASSUME WindowInv, AskedInv, Careful, KeysSuspend, User
    PROVE  Known
  <1>1. ASSUME NEW n \in Cycles, AskPlay(n)
        PROVE  Known
    <2>1. ContentStays
      BY <1>1 DEF AskPlay, StartPlayback, ContentStays, recording, display
    <2>2. NoQuestion
      BY <1>1, OpenedNoAppend DEF AskPlay, Open, NoQuestion
    <2>. QED
      BY <2>1, <2>2, StaysAsked DEF Known
  <1>2. ASSUME NEW yes \in BOOLEAN, AnswerRepeat(yes)
        PROVE  Known
    <2>1. dialogs # <<>> /\ Fits(dialogs[1]) /\ dialogs[1].kind = "repeat" /\ CloseTop
      BY <1>2, OnTop DEF AnswerRepeat
    <2>2. state = "idle"
      BY <2>1 DEF Fits, Question
    <2>3. ContentStays
      BY <1>2, <2>2 DEF AnswerRepeat, StartPlayback, ContentStays, recording, display
    <2>. QED
      BY <2>1, <2>3, ClosedNoAppend, StaysAsked DEF Known
  <1>3. ASSUME NEW yes \in BOOLEAN, AnswerAppend(yes)
        PROVE  Known
    <2>1. dialogs # <<>> /\ Fits(dialogs[1]) /\ dialogs[1].kind = "append" /\ CloseTop
      BY <1>3, OnTop DEF AnswerAppend
    <2>2. state = "idle" /\ macro # <<>>
      BY <2>1 DEF Fits, Question, AskedInv
    <2>3. NoQuestion
      BY <2>1, ClosedNoAppend
    <2>4. CASE StartRecording(TRUE, macro, Append(macro, gen + 1))
      BY <2>2, <2>3, <2>4, StartAsked DEF Known
    <2>5. CASE UNCHANGED <<display, recording, content>>
      <3>1. ContentStays
        BY <2>5 DEF ContentStays, display, recording
      <3>. QED
        BY <2>3, <3>1, StaysAsked DEF Known
    <2>. QED
      BY <1>3, <2>4, <2>5 DEF AnswerAppend
  <1>4. ASSUME NEW yes \in BOOLEAN, AnswerDiscard(yes)
        PROVE  Known
    <2>1. dialogs # <<>> /\ CloseTop
      BY <1>4 DEF AnswerDiscard, Top
    <2>2. ContentStays
      BY <1>4 DEF AnswerDiscard, ContentStays, display, recording
    <2>. QED
      BY <2>1, <2>2, ClosedNoAppend, StaysAsked DEF Known
  <1>5. CASE QuickSlot \/ PressStop \/ PausePlayback \/ StartSequence \/ StopSequence
    <2>1. ContentStays
      BY <1>5 DEF QuickSlot, StartPlayback, PressStop, StopPlayback, PausePlayback,
                  StartSequence, StopSequence, ContentStays, recording
    <2>2. NoQuestion
      BY <1>5 DEF QuickSlot, PressStop, StopPlayback, PausePlayback,
                  StartSequence, StopSequence, NoQuestion
    <2>. QED
      BY <2>1, <2>2, StaysAsked DEF Known
  <1>6. CASE PressRecord
    <2>1. /\ state = "idle" /\ UNCHANGED dialogs
          /\ StartRecording(appendMode, base, <<gen + 1>>)
      BY <1>6 DEF PressRecord
    <2>2. appendMode = FALSE
      BY <2>1, Types DEF AskedInv, WindowInv, WindowTypes
    <2>. QED
      BY <2>1, <2>2, StartAsked DEF NoQuestion, Known
  <1>7. CASE AskAppend
    <2>1. ContentStays /\ macro # <<>>
      BY <1>7 DEF AskAppend, ContentStays, display, recording
    <2>2. UNCHANGED <<appendMode, base, macro, prev, wanted, gen, state>>
      BY <1>7 DEF AskAppend, display, recording, content
    <2>. QED
      BY <2>1, <2>2 DEF AskedInv, Known
  <1>8. CASE PauseRecording \/ OpenQuickText \/ CloseFocusLost
    <2>1. ContentStays
      BY <1>8 DEF PauseRecording, OpenQuickText, CloseFocusLost, QuickTextKeeps, ContentStays
    <2>2. NoQuestion
      <3>1. CASE PauseRecording
        BY <3>1 DEF PauseRecording, NoQuestion
      <3>2. CASE OpenQuickText
        BY <3>2, OpenedNoAppend DEF OpenQuickText, Open
      <3>3. CASE CloseFocusLost
        BY <3>3, ClosedNoAppend DEF CloseFocusLost, Top
      <3>. QED
        BY <1>8, <3>1, <3>2, <3>3
    <2>. QED
      BY <2>1, <2>2, StaysAsked DEF Known
  <1>9. ASSUME NEW accepted \in BOOLEAN, CloseQuickText(accepted) \/ CloseQuickFailed
        PROVE  Known
    <2>1. ContentStays /\ dialogs # <<>>
      BY <1>9 DEF CloseQuickText, CloseQuickFailed, QuickTextKeeps, ContentStays, Top
    <2>2. NoQuestion
      <3>1. CASE CloseTop
        BY <2>1, <3>1, ClosedNoAppend
      <3>2. ASSUME NEW d, d.kind # "append", dialogs' = <<d>> \o Tail(dialogs)
            PROVE  NoQuestion
        <4>1. Tail(dialogs) \in Seq(Dialog)
          BY <2>1, Types, TailFacts DEF WindowInv, DialogTypes
        <4>2. dialogs'[1] = d
          BY <3>2, <4>1, PushTop
        <4>. QED
          BY <3>2, <4>2 DEF NoQuestion
      <3>3. ASSUME NEW warned, EndQuickText(Head(dialogs), warned)
            PROVE  NoQuestion
        <4> DEFINE d == [kind |-> "focusLost", gen |-> Head(dialogs).gen]
        <4>1. d.kind # "append"
          OBVIOUS
        <4>2. CloseTop \/ dialogs' = <<d>> \o Tail(dialogs)
          BY <3>3 DEF EndQuickText
        <4> HIDE DEF d
        <4>. QED
          BY <3>1, <3>2, <4>1, <4>2
      <3>4. ASSUME NEW warned,
                   dialogs' = <<[kind |-> "quickFailed", gen |-> Head(dialogs).gen,
                                 owns |-> Head(dialogs).owns, warned |-> warned]>>
                                    \o Tail(dialogs)
            PROVE  NoQuestion
        <4> DEFINE d == [kind |-> "quickFailed", gen |-> Head(dialogs).gen,
                         owns |-> Head(dialogs).owns, warned |-> warned]
        <4>1. d.kind # "append"
          OBVIOUS
        <4>2. dialogs' = <<d>> \o Tail(dialogs)
          BY <3>4
        <4> HIDE DEF d
        <4>. QED
          BY <3>2, <4>1, <4>2
      <3>. QED
        BY <1>9, <3>3, <3>4 DEF CloseQuickText, CloseQuickFailed
    <2>. QED
      BY <2>1, <2>2, StaysAsked DEF Known
  <1>10. CASE CloseNotRestored
    <2>1. /\ dialogs # <<>> /\ Head(dialogs) = dialogs[1] /\ Fits(dialogs[1])
          /\ dialogs[1].kind = "notRestored"
      BY <1>10, OnTop DEF CloseNotRestored
    <2>2. state = "stopping" /\ Head(dialogs).gen = gen
      BY <2>1 DEF Fits
    <2>3. LandsNow
      BY <1>10, <2>1, <2>2, ClosedNoAppend DEF CloseNotRestored, LandsNow, recording
    <2>. QED
      BY <2>3, LandsAsked DEF Known
  <1>11. CASE OnSequenceDone
    <2>1. ContentStays /\ NoQuestion
      BY <1>11, ClosedNoAppend DEF OnSequenceDone, Top, ContentStays, recording
    <2>. QED
      BY <2>1, StaysAsked DEF Known
  <1>12. CASE PressStopRecording \/ EmergencyStop \/ Close
    <2>1. ContentStays
      BY <1>12 DEF PressStopRecording, EmergencyStop, Close, StopRecording, StopPlayback,
                   ContentStays, recording, display
    <2>2. NoQuestion
      BY <1>12 DEF PressStopRecording, EmergencyStop, Close, StopPlayback, NoQuestion
    <2>. QED
      BY <2>1, <2>2, StaysAsked DEF Known
  <1>13. CASE LoadMacro \/ RestorePrev
    <2>1. /\ state = "idle" /\ UNCHANGED <<state, appendMode, dialogs>> /\ macro' # <<>>
      BY <1>13 DEF LoadMacro, RestorePrev, display
    <2>. QED
      BY <2>1 DEF AskedInv, Known
  <1>. QED
    BY <1>1, <1>2, <1>3, <1>4, <1>5, <1>6, <1>7, <1>8, <1>9, <1>10, <1>11, <1>12, <1>13 DEF User

LEMMA MessageAsked ==
    ASSUME WindowInv, AskedInv, HandleMessage
    PROVE  Known
  <1> DEFINE msg == Head(queue)
  <1>1. queue # <<>> /\ queue' = Tail(queue) /\ Tells(msg) /\ msg \in Message
    BY MessageTaken DEF HandleMessage
  <1>2. CASE UNCHANGED <<window, playback>>
    <2>1. ContentStays /\ NoQuestion
      BY <1>2 DEF window, display, recording, ContentStays, NoQuestion
    <2>. QED
      BY <2>1, StaysAsked DEF Known
  <1>3. CASE msg.kind \in {"complete", "error"} /\ msg.of = session /\ (OnComplete \/ OnError)
    <2>1. session \in Sessions
      BY <1>1, <1>3 DEF Message
    <2>2. state = "playing"
      BY <2>1, SessionsPositive DEF WindowInv, WindowPlays
    <2>3. ContentStays /\ NoQuestion
      BY <1>3, <2>2 DEF OnComplete, OnError, PlaybackLeaves, ContentStays, NoQuestion, recording
    <2>. QED
      BY <2>3, StaysAsked DEF Known
  <1>4. CASE msg.kind = "stopError" /\ OnError
    <2>1. rec.on /\ state = "stopping"
      BY <1>1, <1>4 DEF Tells, OfSaver, WindowInv, RecordingKnown
    <2>2. ContentStays /\ NoQuestion
      BY <1>4, <2>1 DEF OnError, display, ContentStays, NoQuestion
    <2>. QED
      BY <2>2, StaysAsked DEF Known
  <1>5. CASE msg.kind = "recorded" /\ OnRecordingDone(msg.gen)
    <2>1. state = "stopping" /\ msg.gen = gen
      BY <1>1, <1>5 DEF Tells, OfSaver, WindowInv, RecordingKnown
    <2>2. CASE Land(msg.gen) /\ UNCHANGED dialogs
      <3>1. LandsNow
        BY <1>5, <2>1, <2>2 DEF OnRecordingDone, LandsNow, NoQuestion
      <3>. QED
        BY <3>1, LandsAsked DEF Known
    <2>3. CASE Open([kind |-> "notRestored", gen |-> msg.gen]) /\ UNCHANGED <<display, content>>
      <3>1. ContentStays
        BY <1>5, <2>3 DEF OnRecordingDone, display, ContentStays
      <3>2. NoQuestion
        BY <2>3, OpenedNoAppend DEF Open
      <3>. QED
        BY <3>1, <3>2, StaysAsked DEF Known
    <2>. QED
      BY <1>5, <2>2, <2>3 DEF OnRecordingDone
  <1>. QED
    BY <1>2, <1>3, <1>4, <1>5 DEF HandleMessage

LEMMA RestAsked ==
    ASSUME WindowInv, AskedInv,
           \/ Poll \/ StopReturns \/ CloseJoins \/ CloseDrained \/ CloseLeaves
           \/ Saver \/ PlayerEnds \/ PlayerDies \/ SequenceEnds
           \/ \E s \in Sessions : RepeatWorker(s)
           \/ UNCHANGED vars
    PROVE  Known
  <1>1. CASE Poll \/ StopReturns
    <2>1. state = "playing"
      BY <1>1 DEF Poll, StopReturns, WindowInv, GuiWaits
    <2>2. ContentStays /\ NoQuestion
      BY <1>1, <2>1 DEF Poll, OnComplete, StopReturns, PlaybackLeaves, ContentStays,
                        NoQuestion, recording
    <2>. QED
      BY <2>2, StaysAsked DEF Known
  <1>2. CASE CloseJoins \/ CloseDrained
    <2>1. ContentStays /\ NoQuestion
      BY <1>2 DEF CloseJoins, CloseDrained, ContentStays, NoQuestion, recording, display
    <2>. QED
      BY <2>1, StaysAsked DEF Known
  <1>3. CASE CloseLeaves
    <2>1. ContentStays
      BY <1>3 DEF CloseLeaves, ContentStays, recording
    <2>2. NoQuestion
      BY <1>3, OpenedNoAppend DEF CloseLeaves, Open, NoQuestion
    <2>. QED
      BY <2>1, <2>2, StaysAsked DEF Known
  <1>4. CASE SequenceEnds
    <2>1. ContentStays
      BY <1>4 DEF SequenceEnds, ContentStays, recording
    <2>2. NoQuestion
      BY <1>4, OpenedNoAppend DEF SequenceEnds, Open, NoQuestion
    <2>. QED
      BY <2>1, <2>2, StaysAsked DEF Known
  <1>5. CASE Saver
    <2>1. ContentStays /\ NoQuestion
      BY <1>5 DEF Saver, SaverStops, SaverSaves, ContentStays, NoQuestion, display
    <2>. QED
      BY <2>1, StaysAsked DEF Known
  <1>6. CASE UNCHANGED window
    <2>1. ContentStays /\ NoQuestion
      BY <1>6 DEF window, display, recording, ContentStays, NoQuestion
    <2>. QED
      BY <2>1, StaysAsked DEF Known
  <1>7. (PlayerEnds \/ PlayerDies \/ UNCHANGED vars) => UNCHANGED window
    BY DEF PlayerEnds, PlayerDies, vars
  <1>8. ASSUME NEW s \in Sessions, RepeatWorker(s)
        PROVE  UNCHANGED window
    BY <1>8 DEF RepeatWorker, CheckCycle, LeaveHold, EnterGate, StartPlayer, AwaitDone,
                PassInterval, FinishRepeat
  <1>. QED
    BY <1>1, <1>2, <1>3, <1>4, <1>5, <1>6, <1>7, <1>8

LEMMA AskedNext ==
    ASSUME WindowInv, AskedInv, Careful, KeysSuspend, [Next]_vars
    PROVE  Known
  BY UserAsked, MessageAsked, RestAsked DEF Next, Gui

(* LandsAsAsked: a recording ends up as the user asked for it when it was  *)
(* begun, alone or behind the macro that was there then, and the macro it  *)
(* replaces can be restored (_start_recording, _start_append_recording,    *)
(* _on_recording_done): when the quick-run keys can always be suspended.   *)
(* Otherwise an append that was refused leaves its mode on, and the next   *)
(* plain recording is appended.                                            *)
THEOREM Landed ==
    ASSUME Careful, KeysSuspend
    PROVE  Spec => LandsAsAsked
  <1>1. Init => AskedInv
    BY DEF Init, AskedInv
  <1>2. WindowInv /\ AskedInv /\ [Next]_vars => AskedInv'
    BY AskedNext DEF Known
  <1>3. WindowInv /\ AskedInv /\ [Next]_vars =>
            [state = "stopping" /\ state' = "idle" /\ macro' # macro =>
                macro' = wanted /\ prev' = macro]_vars
    BY AskedNext DEF Known
  <1>. QED
    BY <1>1, <1>2, <1>3, WindowHolds, PTL DEF Spec, LandsAsAsked

-----------------------------------------------------------------------------
(* TypingIsNotRecorded: the dialogs of a text that is not done with fit    *)
(* the recorder (Fits), whichever of them is on top.                       *)
THEOREM TypingLeftOut ==
    ASSUME Careful
    PROVE  Spec => []TypingIsNotRecorded
  <1>1. WindowInv => TypingIsNotRecorded
    <2> SUFFICES ASSUME WindowInv, NEW i \in DOMAIN dialogs,
                        dialogs[i].kind \in OfText, dialogs[i].gen = gen, rec.on
                 PROVE  rec.paused
      BY DEF TypingIsNotRecorded
    <2>1. dialogs \in Seq(Dialog)
      BY Types DEF WindowInv, DialogTypes
    <2>2. i \in 1 .. Len(dialogs)
      BY <2>1
    <2>3. Fits(dialogs[i]) /\ Text(dialogs[i])
      BY <2>2 DEF WindowInv, DialogsNest, Text, OfText
    <2>. QED
      BY <2>3 DEF Fits
  <1>. QED
    BY <1>1, WindowHolds, PTL

=============================================================================
