----------------------------- MODULE FlowEngine -----------------------------
(***************************************************************************)
(* The flow engine, FlowEngine in src/macroflow/script_engine.py: a worker *)
(* walks a graph of nodes and plays the macro nodes through the player,    *)
(* one after the other, while other threads start and stop it.             *)
(*                                                                         *)
(* The player appears as what it promises (PlaybackSlot): one playback at  *)
(* a time, whose completion callback comes before its thread is dead, and  *)
(* a stop that touches only the session it names.  Waits and colour polls  *)
(* end at any moment; the joins may time out.                              *)
(***************************************************************************)
EXTENDS Integers, Sequences, FiniteSets

CONSTANTS
    Caller,         \* the threads that call start and stop
    Id,             \* the names of nodes
    Flows,          \* the flows start may be given
    None,           \* Python's None
    MaxRuns,        \* bound: runs of the engine
    MaxPlays        \* bound: playbacks of the player

(* then is next_on_success, on_match, on_continue or next; else is         *)
(* next_on_failure, on_timeout or on_max_reached.                          *)
NodeKind == {"macro", "inline", "color", "counter", "wait", "end"}
Edge == Id \cup {None}

(* An edge may lead to a name that no node has. *)
IsNode(n) ==
    /\ n.kind \in NodeKind
    /\ n.kind # "end" => n.then \in Edge
    /\ n.kind \notin {"wait", "end"} => n.else \in Edge
    /\ n.kind = "counter" => n.initial \in Int /\ n.increment \in Int /\ n.max \in Int
    /\ n.kind = "end" => n.success \in BOOLEAN

IsFlow(f) ==
    /\ f.start \in Id
    /\ \A id \in DOMAIN f.node : id \in Id /\ IsNode(f.node[id])

ASSUME FlowAssumption ==
    /\ MaxRuns \in Nat /\ MaxPlays \in Nat
    /\ None \notin Id /\ None \notin 1 .. MaxRuns
    /\ \A f \in Flows : IsFlow(f)

VARIABLES
    flow,           \* the flow of the present run
    run,            \* how many runs were started: names _thread
    at,             \* where the worker stands in _run
    cur,            \* current_id
    value,          \* CounterNode._value
    done,           \* done_event and callback_state["ok"] of the play at hand
    accepting,      \* callback_state["accepting"]
    mine,           \* player_session, the local of _run_macro_data
    stopFlag,       \* _stop_flag
    stopping,       \* _stopping
    session,        \* _player_session
    pc,             \* caller |-> where its stop() stands
    worker,         \* caller |-> the thread its stop() captured
    told,           \* the callbacks made, oldest first
    plays,          \* how many playbacks were started: names the last session
    player,         \* its thread: running, about to call back, returning, dead
    playerStop      \* the stop signal reached it

local == <<flow, cur, value, done, accepting, mine>>
control == <<run, stopFlag, stopping, session>>
calls == <<pc, worker>>
playback == <<plays, player, playerStop>>
vars == <<local, at, control, calls, told, playback>>

Alive == at \notin {"none", "dead"}
Node == flow.node[cur]
Current == IF at = "none" THEN None ELSE run       \* _thread
InProgress == {c \in Caller : pc[c] # "idle"}      \* _stop_calls_in_progress

Tell(kind, ok) == [run |-> run, kind |-> kind, node |-> cur, ok |-> ok]
Says(msgs) == told' = told \o msgs

-----------------------------------------------------------------------------
(* start() and stop().                                                     *)

Counters(f) == {id \in DOMAIN f.node : f.node[id].kind = "counter"}

(* The loop of _run begins by resetting the counters. *)
Launch(f) ==
    /\ run' = run + 1 /\ at' = "loop"
    /\ flow' = f /\ cur' = f.start
    /\ value' = [id \in Counters(f) |-> f.node[id].initial]
    /\ done' = "open" /\ accepting' = FALSE /\ mine' = None
    /\ stopFlag' = FALSE

Start(c, f) ==
    /\ pc[c] = "idle" /\ run < MaxRuns
    /\ ~Alive /\ InProgress = {}
    /\ Launch(f)
    /\ stopping' = FALSE
    /\ UNCHANGED <<session, calls, told, playback>>

(* The system has no thread to give. *)
StartFails(c) ==
    /\ pc[c] = "idle" /\ run < MaxRuns
    /\ ~Alive /\ InProgress = {}
    /\ at' = "none" /\ stopFlag' = FALSE /\ stopping' = FALSE
    /\ UNCHANGED <<local, run, session, calls, told, playback>>

StopEnter(c) ==
    /\ pc[c] = "idle"
    /\ pc' = [pc EXCEPT ![c] = "player"]
    /\ worker' = [worker EXCEPT ![c] = Current]
    /\ stopFlag' = TRUE /\ stopping' = TRUE
    /\ UNCHANGED <<local, at, run, session, told, playback>>

(* player.stop(session): another session is left alone. *)
PlayerStop(s) ==
    playerStop' = (playerStop \/ (s = plays /\ player # "dead"))

StopPlayer(c) ==
    /\ pc[c] = "player"
    /\ pc' = [pc EXCEPT ![c] = "join"]
    /\ IF session # None THEN PlayerStop(session) ELSE UNCHANGED playerStop
    /\ UNCHANGED <<local, at, control, worker, told, plays, player>>

(* The join may time out at any moment. *)
StopJoin(c) ==
    /\ pc[c] = "join"
    /\ pc' = [pc EXCEPT ![c] = "final"]
    /\ UNCHANGED <<local, at, control, worker, told, playback>>

StopFinal(c) ==
    /\ pc[c] = "final"
    /\ pc' = [pc EXCEPT ![c] = "idle"]
    /\ stopping' = (stopping /\ ~(InProgress = {c} /\ worker[c] = Current /\ ~Alive))
    /\ UNCHANGED <<local, at, run, stopFlag, session, worker, told, playback>>

-----------------------------------------------------------------------------
(* The worker.                                                             *)

Step(from, to) == at = from /\ at' = to
Follow(id) == at' = "loop" /\ cur' = id

(* The head of the loop, and what follows the loop. *)
Loop ==
    /\ at = "loop"
    /\ \/ /\ cur # None /\ ~stopFlag /\ cur \in DOMAIN flow.node
          /\ at' = "exec" /\ Says(<<Tell("start", TRUE)>>)
       \/ /\ cur # None /\ ~stopFlag /\ cur \notin DOMAIN flow.node
          /\ at' = "dead" /\ Says(<<Tell("error", FALSE)>>)
       \/ /\ cur = None \/ stopFlag
          /\ at' = "dead"
          /\ IF stopFlag THEN UNCHANGED told ELSE Says(<<Tell("complete", TRUE)>>)
    /\ UNCHANGED <<local, control, calls, playback>>

(* _run after an exception of a node that has not reported itself. *)
RaiseUnreported ==
    /\ at' = "dead"
    /\ Says(<<Tell("done", FALSE), Tell("error", FALSE)>>)
    /\ UNCHANGED cur

(* Mutant of Fail: the worker ends without a word about it. *)
FailSilently(edge) ==
    IF edge = None
    THEN at' = "dead" /\ Says(<<Tell("done", FALSE)>>) /\ UNCHANGED cur
    ELSE Follow(edge) /\ Says(<<Tell("done", FALSE)>>)

(* Mutant of Fail: a failure without an edge is followed like a success. *)
FailFollows(edge) == Follow(edge) /\ Says(<<Tell("done", FALSE)>>)

(* A node that reported its failure, and has or has not an edge for it. *)
Fail(edge) ==
    IF edge = None
    THEN at' = "dead" /\ Says(<<Tell("done", FALSE), Tell("error", FALSE)>>) /\ UNCHANGED cur
    ELSE Follow(edge) /\ Says(<<Tell("done", FALSE)>>)

Succeed(edge) == Follow(edge) /\ Says(<<Tell("done", TRUE)>>)

(* A macro file may be missing or unreadable; inline events are at hand. *)
ExecPlay ==
    /\ at = "exec" /\ Node.kind \in {"macro", "inline"}
    /\ \/ at' = "play" /\ UNCHANGED <<cur, told>>
       \/ Node.kind = "macro" /\ RaiseUnreported
    /\ UNCHANGED <<flow, value, done, accepting, mine, control, calls, playback>>

ExecWait ==
    /\ at = "exec" /\ Node.kind = "wait"
    /\ \/ stopFlag /\ Follow(None) /\ UNCHANGED told
       \/ Succeed(Node.then)
    /\ UNCHANGED <<flow, value, done, accepting, mine, control, calls, playback>>

(* Whether the colour comes before the deadline is the screen's choice, and *)
(* a stop may come just after the last look at the flag.                    *)
ExecColor ==
    /\ at = "exec" /\ Node.kind = "color"
    /\ \/ stopFlag /\ Follow(None) /\ UNCHANGED told
       \/ Succeed(Node.then)
       \/ Fail(Node.else)
    /\ UNCHANGED <<flow, value, done, accepting, mine, control, calls, playback>>

ExecCounter ==
    /\ at = "exec" /\ Node.kind = "counter"
    /\ value' = [value EXCEPT ![cur] = @ + Node.increment]
    /\ Succeed(IF value[cur] + Node.increment >= Node.max THEN Node.else ELSE Node.then)
    /\ UNCHANGED <<flow, done, accepting, mine, control, calls, playback>>

ExecEnd ==
    /\ at = "exec" /\ Node.kind = "end"
    /\ IF Node.success THEN Succeed(None) ELSE RaiseUnreported
    /\ UNCHANGED <<flow, value, done, accepting, mine, control, calls, playback>>

(* player.play may raise: the thread of the last playback is still there   *)
(* after a short join, a stop of it is under way, no thread can be had.    *)
Play ==
    /\ at = "play"
    /\ \/ /\ player = "dead" /\ plays < MaxPlays
          /\ at' = "store"
          /\ plays' = plays + 1 /\ player' = "running" /\ playerStop' = FALSE
          /\ mine' = plays + 1 /\ done' = "open" /\ accepting' = TRUE
          /\ UNCHANGED <<cur, told>>
       \/ /\ Fail(Node.else)
          /\ UNCHANGED <<done, accepting, mine, playback>>
    /\ UNCHANGED <<flow, value, control, calls>>

Store ==
    /\ Step("store", "wait")
    /\ session' = mine
    /\ UNCHANGED <<local, run, stopFlag, stopping, calls, told, playback>>

(* Mutant of Await: the stop flag is not looked at again after the wait. *)
AwaitPrefersResult ==
    /\ at = "wait"
    /\ stopFlag \/ done # "open"
    /\ accepting' = FALSE
    /\ at' = "report"
    /\ UNCHANGED <<flow, cur, value, done, mine, control, calls, told, playback>>

(* Mutant of Await: only the end of the playback is waited for. *)
AwaitIsDeaf ==
    /\ at = "wait"
    /\ done # "open"
    /\ accepting' = FALSE
    /\ at' = IF stopFlag THEN "halt" ELSE "report"
    /\ UNCHANGED <<flow, cur, value, done, mine, control, calls, told, playback>>

(* The wait loop, the end of accepting, and the test of the stop flag. *)
Await ==
    /\ at = "wait"
    /\ stopFlag \/ done # "open"
    /\ accepting' = FALSE
    /\ at' = IF stopFlag THEN "halt" ELSE "report"
    /\ UNCHANGED <<flow, cur, value, done, mine, control, calls, told, playback>>

Halt ==
    /\ Step("halt", "forget")
    /\ PlayerStop(mine)
    /\ UNCHANGED <<local, control, calls, told, plays, player>>

Forget ==
    /\ at = "forget"
    /\ Follow(None)
    /\ session' = IF session = mine THEN None ELSE session
    /\ UNCHANGED <<flow, value, done, accepting, mine, run, stopFlag, stopping, calls, told,
                   playback>>

Report ==
    /\ at = "report"
    /\ session' = IF session = mine THEN None ELSE session
    /\ IF done = "failed" THEN Fail(Node.else) ELSE Succeed(Node.then)
    /\ UNCHANGED <<flow, value, done, accepting, mine, run, stopFlag, stopping, calls, playback>>

-----------------------------------------------------------------------------
(* The playback thread, as PlaybackSlot and the callbacks of _run_macro_data *)
(* have it.                                                                *)

PlayerEnds ==
    /\ player = "running"
    /\ player' \in IF playerStop THEN {"dead"} ELSE {"ok", "failed"}
    /\ UNCHANGED <<local, at, control, calls, told, plays, playerStop>>

(* _finish *)
PlayerCalls ==
    /\ player \in {"ok", "failed"}
    /\ done' = IF accepting /\ done = "open" THEN player ELSE done
    /\ player' = "returning"
    /\ UNCHANGED <<flow, cur, value, accepting, mine, at, control, calls, told, plays, playerStop>>

PlayerDies ==
    /\ player = "returning"
    /\ player' = "dead"
    /\ UNCHANGED <<local, at, control, calls, told, plays, playerStop>>

-----------------------------------------------------------------------------
Init ==
    /\ flow = None /\ run = 0 /\ at = "none" /\ cur = None /\ value = <<>>
    /\ done = "open" /\ accepting = FALSE /\ mine = None
    /\ stopFlag = FALSE /\ stopping = FALSE /\ session = None
    /\ pc = [c \in Caller |-> "idle"] /\ worker = [c \in Caller |-> None]
    /\ told = <<>>
    /\ plays = 0 /\ player = "dead" /\ playerStop = FALSE

Worker ==
    \/ Loop
    \/ ExecPlay \/ ExecWait \/ ExecColor \/ ExecCounter \/ ExecEnd
    \/ Play \/ Store \/ Await \/ Halt \/ Forget \/ Report

Player == PlayerEnds \/ PlayerCalls \/ PlayerDies

StopStep(c) == StopPlayer(c) \/ StopJoin(c) \/ StopFinal(c)

Next ==
    \/ Worker \/ Player
    \/ \E c \in Caller : 
          \/ StopEnter(c) \/ StopStep(c) \/ StartFails(c)
          \/ \E f \in Flows : Start(c, f)

(* Threads run.  A playback that is not stopped need not end: a trigger    *)
(* may wait for ever.                                                      *)
Fairness ==
    /\ WF_vars(Worker)
    /\ WF_vars(Player /\ (playerStop \/ player # "running"))
    /\ \A c \in Caller : WF_vars(StopStep(c))

Spec == Init /\ [][Next]_vars
FairSpec == Spec /\ Fairness

-----------------------------------------------------------------------------
(* Properties.                                                             *)

Message ==
    [run : 1 .. MaxRuns, kind : {"start", "done", "complete", "error"}, node : Edge, ok : BOOLEAN]

(* The worker walks a flow, and plays a node that can be played. *)
WalkTypeOK ==
    /\ run \in 0 .. MaxRuns
    /\ run > 0 => IsFlow(flow) /\ value \in [Counters(flow) -> Int]
    /\ at \in {"none", "loop", "exec", "play", "store", "wait", "halt", "forget", "report", "dead"}
    /\ at # "none" => run > 0
    /\ cur \in Edge
    /\ at \in {"exec", "play", "store", "wait", "report"} => cur \in DOMAIN flow.node
    /\ at \in {"play", "store", "wait", "report"} => Node.kind \in {"macro", "inline"}

(* Every variable keeps its type. *)
TypeOK ==
    /\ WalkTypeOK
    /\ done \in {"open", "ok", "failed"} /\ accepting \in BOOLEAN
    /\ stopFlag \in BOOLEAN /\ stopping \in BOOLEAN
    /\ mine \in 1 .. MaxPlays \cup {None} /\ session \in 1 .. MaxPlays \cup {None}
    /\ pc \in [Caller -> {"idle", "player", "join", "final"}]
    /\ worker \in [Caller -> 0 .. MaxRuns \cup {None}]
    /\ told \in Seq(Message)
    /\ plays \in 0 .. MaxPlays /\ playerStop \in BOOLEAN
    /\ player \in {"running", "ok", "failed", "returning", "dead"}

(* A worker that is dead leaves no playback behind that was not told to    *)
(* stop, wherever in the start of that playback the stop came.             *)
NoOrphanPlayback == ~Alive => player # "running" \/ playerStop

(* What the run may say after what it said last: a node that started is    *)
(* reported once before anything else is said, a run completes only after  *)
(* a success, it fails only after a failure or when the edge leads         *)
(* nowhere, and then it is silent.                                         *)
MayFollow(before, now) ==
    \/ before.kind = "start" /\ now.kind = "done" /\ now.node = before.node
    \/ before.kind = "done" /\ now.kind = "start"
    \/ before.kind = "done" /\ before.ok /\ now.kind = "complete"
    \/ before.kind = "done" /\ now.kind = "error" /\ (~before.ok \/ now.node \notin DOMAIN flow.node)

InOrder(msgs) ==
    \A i \in 2 .. Len(msgs) :
        msgs[i - 1].run = run /\ msgs[i].run = run => MayFollow(msgs[i - 1], msgs[i])

(* All that the present run tells its host is in this order, whatever      *)
(* stops it and whenever.                                                  *)
WellReported == InOrder(told)

(* A run that nobody stopped says how it ended. *)
EndIsTold ==
    at = "dead" /\ ~stopFlag =>
        \E i \in DOMAIN told : told[i].run = run /\ told[i].kind \in {"complete", "error"}

(* A stopped engine dies, whatever its node waits for. *)
StopEnds == stopFlag /\ Alive ~> ~Alive

=============================================================================
