------------------------- MODULE SequencerProofs -------------------------
(***************************************************************************)
(* Theorems about FlowEngine, for any flows, any number of callers, runs    *)
(* and playbacks, and about Sequencer: the panel and the engine it holds,   *)
(* for any documents, items and number of runs.                             *)
(***************************************************************************)
EXTENDS Sequencer, SequenceTheorems, FiniteSetTheorems, TLAPS

-----------------------------------------------------------------------------
(* The engine.                                                              *)

(* The playback in the player is told to stop, or the worker that started  *)
(* it still waits for it, and is not told of its end before it ends.       *)
OrphanInv ==
    player = "running" /\ ~playerStop =>
        /\ at \in {"store", "wait", "halt"} /\ mine = plays
        /\ done = "open"

Ordered(msgs) ==
    /\ msgs \in Seq(Message)
    /\ \A i \in 1 .. Len(msgs) : msgs[i].run <= run
    /\ InOrder(msgs)

EndOf(msgs) == msgs[Len(msgs)]
LastWord == EndOf(told)
Spoke == told # <<>> /\ LastWord.run = run

(* What the present run said last, by the place where its worker stands.   *)
ReportInv ==
    /\ Ordered(told)
    /\ at \in {"exec", "play", "store", "wait", "report"} =>
          Spoke /\ LastWord.kind = "start" /\ LastWord.node = cur
    /\ at = "loop" /\ ~stopFlag /\ Spoke => LastWord.kind = "done" /\ (cur = None => LastWord.ok)
    /\ at \in {"halt", "forget"} => stopFlag

-----------------------------------------------------------------------------
(* Typing.                                                                 *)

(* The callbacks a step makes are appended to those made before.           *)
LEMMA SaysOne ==
    ASSUME told \in Seq(Message), NEW m \in Message, Says(<<m>>)
    PROVE  /\ told' \in Seq(Message)
           /\ Len(told') = Len(told) + 1
           /\ \A i \in 1 .. Len(told) : told'[i] = told[i]
           /\ told'[Len(told')] = m
  BY DEF Says

LEMMA SaysTwo ==
    ASSUME told \in Seq(Message), NEW m \in Message, NEW n \in Message, Says(<<m, n>>)
    PROVE  /\ told' \in Seq(Message)
           /\ Len(told') = Len(told) + 2
           /\ \A i \in 1 .. Len(told) : told'[i] = told[i]
           /\ told'[Len(told) + 1] = m /\ told'[Len(told) + 2] = n
  BY DEF Says

LEMMA TellIsMessage ==
    ASSUME TypeOK, run > 0, NEW ok \in BOOLEAN,
           NEW kind \in {"start", "done", "complete", "error"}
    PROVE  Tell(kind, ok) \in Message
  BY DEF TypeOK, WalkTypeOK, Tell, Message

(* The ways a node ends: it is left along an edge, or the run fails.       *)
Left(edge) == Follow(edge) /\ told' \in Seq(Message)
Leaves ==
    \/ \E edge \in Edge : Left(edge)
    \/ at' = "dead" /\ UNCHANGED cur /\ told' \in Seq(Message)

LEMMA NodeEnds ==
    ASSUME TypeOK, run > 0, NEW edge \in Edge,
           Fail(edge) \/ Succeed(edge) \/ RaiseUnreported \/ (Follow(edge) /\ UNCHANGED told)
    PROVE  Leaves
  <1>1. Tell("done", TRUE) \in Message /\ Tell("done", FALSE) \in Message
        /\ Tell("error", FALSE) \in Message /\ told \in Seq(Message)
    BY TellIsMessage DEF TypeOK
  <1>2. CASE Fail(edge)
    BY <1>1, <1>2, SaysOne, SaysTwo DEF Fail, Leaves, Left
  <1>3. CASE Succeed(edge)
    BY <1>1, <1>3, SaysOne DEF Succeed, Leaves, Left
  <1>4. CASE RaiseUnreported
    BY <1>1, <1>4, SaysTwo DEF RaiseUnreported, Leaves
  <1>5. CASE Follow(edge) /\ UNCHANGED told
    BY <1>1, <1>5 DEF Leaves, Left
  <1>. QED
    BY <1>2, <1>3, <1>4, <1>5

(* A node that ends keeps the types of what it leaves alone, and gives     *)
(* those of the value of a counter and of the session it changes.          *)
LEMMA LeavesTypes ==
    ASSUME TypeOK, run > 0, Leaves,
           UNCHANGED <<flow, done, accepting, mine, run, stopFlag, stopping, calls, playback>>,
           value' \in [Counters(flow) -> Int], session' \in 1 .. MaxPlays \cup {None}
    PROVE  TypeOK'
  <1>1. WalkTypeOK'
    BY DEF TypeOK, WalkTypeOK, Leaves, Left, Follow, Counters, IsFlow
  <1>. QED
    BY <1>1 DEF TypeOK, Leaves, Left, Follow, calls, playback

(* The node at hand is one, and so are the ends of its edges.              *)
LEMMA NodeAtHand ==
    ASSUME TypeOK, at \in {"exec", "play", "store", "wait", "report"}
    PROVE  run > 0 /\ cur \in DOMAIN flow.node /\ IsNode(Node)
  BY DEF TypeOK, WalkTypeOK, IsFlow, Node

(* The worker goes on with the flow and the node it has, to a place where   *)
(* it needs them no more than it did.                                      *)
LEMMA Stays ==
    ASSUME TypeOK, UNCHANGED <<flow, value, run, cur>>,
           \/ at' \in {at, "none"}
           \/ at = "loop" /\ at' \in {"exec", "dead"} /\ (at' = "exec" => cur \in DOMAIN flow.node)
           \/ at = "exec" /\ at' = "play" /\ Node.kind \in {"macro", "inline"}
           \/ at = "play" /\ at' = "store"
           \/ at = "store" /\ at' = "wait"
           \/ at = "wait" /\ at' \in {"report", "halt"}
           \/ at = "halt" /\ at' = "forget"
    PROVE  WalkTypeOK'
  BY DEF TypeOK, WalkTypeOK, Counters, IsFlow, Node

LEMMA WorkerTypes ==
    ASSUME TypeOK, Worker
    PROVE  TypeOK'
  <1>1. run \in Nat /\ plays \in Nat /\ None \in Edge
    BY FlowAssumption DEF TypeOK, WalkTypeOK, Edge
  <1>2. run > 0 => value \in [Counters(flow) -> Int]
    BY DEF TypeOK, WalkTypeOK
  <1>3. session \in 1 .. MaxPlays \cup {None} /\ mine \in 1 .. MaxPlays \cup {None}
    BY DEF TypeOK
  <1>4. CASE Loop
    <2>1. run > 0
      BY <1>4 DEF Loop, TypeOK, WalkTypeOK
    <2>2. told' \in Seq(Message)
      <3>1. /\ Tell("start", TRUE) \in Message /\ Tell("error", FALSE) \in Message
            /\ Tell("complete", TRUE) \in Message /\ told \in Seq(Message)
        BY <2>1, TellIsMessage DEF TypeOK
      <3>. QED
        BY <1>4, <3>1, SaysOne DEF Loop
    <2>3. WalkTypeOK'
      BY <1>4, Stays DEF Loop, local, control
    <2>. QED
      BY <1>4, <2>2, <2>3 DEF Loop, TypeOK, local, control, calls, playback
  <1>5. CASE ExecPlay
    <2>1. CASE at' = "play" /\ UNCHANGED <<cur, told>>
      <3>1. WalkTypeOK'
        BY <1>5, <2>1, Stays DEF ExecPlay, control
      <3>. QED
        BY <1>5, <2>1, <3>1 DEF ExecPlay, TypeOK, control, calls, playback
    <2>2. CASE RaiseUnreported
      <3>1. Leaves
        BY <1>1, <1>5, <2>2, NodeAtHand, NodeEnds DEF ExecPlay
      <3>. QED
        BY <1>2, <1>3, <1>5, <3>1, NodeAtHand, LeavesTypes DEF ExecPlay, control
    <2>. QED
      BY <1>5, <2>1, <2>2 DEF ExecPlay
  <1>6. CASE ExecWait
    <2>1. Node.then \in Edge
      BY <1>6, NodeAtHand DEF ExecWait, IsNode
    <2>2. Leaves
      BY <1>1, <1>6, <2>1, NodeAtHand, NodeEnds DEF ExecWait
    <2>. QED
      BY <1>2, <1>3, <1>6, <2>2, NodeAtHand, LeavesTypes DEF ExecWait, control
  <1>7. CASE ExecColor
    <2>1. Node.then \in Edge /\ Node.else \in Edge
      BY <1>7, NodeAtHand DEF ExecColor, IsNode
    <2>2. Leaves
      BY <1>1, <1>7, <2>1, NodeAtHand, NodeEnds DEF ExecColor
    <2>. QED
      BY <1>2, <1>3, <1>7, <2>2, NodeAtHand, LeavesTypes DEF ExecColor, control
  <1>8. CASE ExecCounter
    <2>1. /\ Node.then \in Edge /\ Node.else \in Edge
          /\ Node.increment \in Int /\ cur \in Counters(flow) /\ run > 0
      BY <1>8, NodeAtHand DEF ExecCounter, IsNode, Counters, Node
    <2>2. PICK edge \in Edge : Succeed(edge)
      BY <1>8, <2>1 DEF ExecCounter
    <2>3. Leaves
      BY <2>1, <2>2, NodeEnds
    <2>4. value' \in [Counters(flow) -> Int]
      BY <1>2, <1>8, <2>1 DEF ExecCounter
    <2>. QED
      BY <1>3, <1>8, <2>1, <2>3, <2>4, LeavesTypes DEF ExecCounter, control
  <1>9. CASE ExecEnd
    <2>1. Leaves
      BY <1>1, <1>9, NodeAtHand, NodeEnds DEF ExecEnd
    <2>. QED
      BY <1>2, <1>3, <1>9, <2>1, NodeAtHand, LeavesTypes DEF ExecEnd, control
  <1>10. CASE Play
    <2>1. CASE at' = "store"
      <3>1. player = "dead" /\ plays < MaxPlays /\ plays' = plays + 1 /\ mine' = plays + 1
        BY <1>10, <2>1 DEF Play, Fail, Follow
      <3>2. mine' \in 1 .. MaxPlays \cup {None} /\ plays' \in 0 .. MaxPlays
        BY <3>1, FlowAssumption DEF TypeOK
      <3>3. /\ player' = "running" /\ playerStop' = FALSE
            /\ done' = "open" /\ accepting' = TRUE
            /\ UNCHANGED <<cur, told, flow, value, control, calls>>
        BY <1>10, <2>1 DEF Play, Fail, Follow
      <3>4. WalkTypeOK'
        BY <1>10, <2>1, <3>3, Stays DEF Play, control
      <3>. QED
        BY <3>2, <3>3, <3>4 DEF TypeOK, control, calls
    <2>2. CASE Fail(Node.else) /\ UNCHANGED <<done, accepting, mine, playback>>
      <3>1. Node.else \in Edge /\ run > 0
        BY <1>10, NodeAtHand DEF Play, IsNode, TypeOK, WalkTypeOK
      <3>2. Leaves
        BY <2>2, <3>1, NodeEnds
      <3>. QED
        BY <1>2, <1>3, <1>10, <2>2, <3>1, <3>2, LeavesTypes DEF Play, control
    <2>. QED
      BY <1>10, <2>1, <2>2 DEF Play
  <1>11. CASE Store \/ Await \/ Halt
    <2>1. WalkTypeOK'
      BY <1>11, Stays DEF Store, Await, Halt, Step, local, control
    <2>. QED
      BY <1>11, <2>1
         DEF Store, Await, Halt, Step, PlayerStop, TypeOK, local, control, calls, playback
  <1>12. CASE Forget
    <2>1. run > 0 /\ Leaves
      BY <1>1, <1>12 DEF Forget, TypeOK, WalkTypeOK, Leaves, Left
    <2>. QED
      BY <1>2, <1>3, <1>12, <2>1, LeavesTypes DEF Forget
  <1>13. CASE Report
    <2>1. Node.then \in Edge /\ Node.else \in Edge /\ run > 0
      BY <1>13, NodeAtHand DEF Report, IsNode, TypeOK, WalkTypeOK
    <2>2. Leaves
      BY <1>13, <2>1, NodeEnds DEF Report
    <2>. QED
      BY <1>2, <1>3, <1>13, <2>1, <2>2, LeavesTypes DEF Report
  <1>. QED
    BY <1>4, <1>5, <1>6, <1>7, <1>8, <1>9, <1>10, <1>11, <1>12, <1>13 DEF Worker

LEMMA PlayerTypes ==
    ASSUME TypeOK, Player
    PROVE  TypeOK'
  <1>1. WalkTypeOK'
    BY Stays DEF Player, PlayerEnds, PlayerCalls, PlayerDies, local, control
  <1>. QED
    BY <1>1
       DEF Player, PlayerEnds, PlayerCalls, PlayerDies, TypeOK, local, control, calls, playback

(* A start with any flow, and the steps of a stop.                         *)
LEMMA StartTypes ==
    ASSUME TypeOK, NEW c \in Caller, NEW f, IsFlow(f), Start(c, f)
    PROVE  TypeOK'
  <1>1. run' = run + 1 /\ run' \in 1 .. MaxRuns /\ at' = "loop" /\ cur' \in Edge /\ flow' = f
    BY FlowAssumption DEF Start, Launch, TypeOK, WalkTypeOK, Edge, IsFlow
  <1>2. value' \in [Counters(f) -> Int]
    BY DEF Start, Launch, IsFlow, IsNode, Counters
  <1>3. WalkTypeOK'
    <2>1. Counters(flow)' = Counters(f)
      BY <1>1 DEF Counters
    <2>2. IsFlow(flow)'
      BY <1>1 DEF IsFlow
    <2>. QED
      BY <1>1, <1>2, <2>1, <2>2 DEF WalkTypeOK
  <1>4. None \in 1 .. MaxPlays \cup {None}
    OBVIOUS
  <1>. QED
    BY <1>3, <1>4 DEF Start, Launch, TypeOK, calls, playback

CallStep(c) == StopEnter(c) \/ StopStep(c) \/ StartFails(c)

LEMMA CallTypes ==
    ASSUME TypeOK, NEW c \in Caller, CallStep(c)
    PROVE  TypeOK'
  <1>1. WalkTypeOK'
    BY Stays
       DEF CallStep, StopStep, StopEnter, StopPlayer, StopJoin, StopFinal, StartFails, local,
           control
  <1>2. CASE StopEnter(c)
    <2>1. Current \in 0 .. MaxRuns \cup {None}
      BY DEF Current, TypeOK, WalkTypeOK
    <2>. QED
      BY <1>1, <1>2, <2>1 DEF StopEnter, TypeOK, local, playback
  <1>3. CASE StopPlayer(c) \/ StopJoin(c)
    BY <1>1, <1>3 DEF StopPlayer, StopJoin, PlayerStop, TypeOK, local, control, playback
  <1>4. CASE StopFinal(c)
    <2>1. stopping' \in BOOLEAN
      BY <1>4 DEF StopFinal, TypeOK
    <2>. QED
      BY <1>1, <1>4, <2>1 DEF StopFinal, TypeOK, local, playback
  <1>5. CASE StartFails(c)
    BY <1>1, <1>5 DEF StartFails, TypeOK, local, calls, playback
  <1>. QED
    BY <1>2, <1>3, <1>4, <1>5 DEF CallStep, StopStep

LEMMA StutterTypes ==
    ASSUME TypeOK, UNCHANGED vars
    PROVE  TypeOK'
  <1>1. WalkTypeOK'
    BY Stays DEF vars, local, control
  <1>. QED
    BY <1>1 DEF TypeOK, vars, local, control, calls, playback

LEMMA InitTypes == Init => TypeOK
  <1>1. None \in Edge /\ 0 \in 0 .. MaxRuns /\ 0 \in 0 .. MaxPlays
    BY FlowAssumption DEF Edge
  <1>2. <<>> \in Seq(Message)
    OBVIOUS
  <1>3. Init => WalkTypeOK
    BY <1>1 DEF Init, WalkTypeOK
  <1>. QED
    BY <1>1, <1>2, <1>3 DEF Init, TypeOK

(* Every variable keeps its type, the flow in hand is one, and the edges   *)
(* of the node being played lead somewhere or end the run.                 *)
THEOREM Typing == Spec => []TypeOK
  <1>1. TypeOK /\ [Next]_vars => TypeOK'
    <2> SUFFICES ASSUME TypeOK, [Next]_vars PROVE TypeOK'
      OBVIOUS
    <2>1. ASSUME NEW c \in Caller, NEW f \in Flows, Start(c, f) PROVE TypeOK'
      BY <2>1, StartTypes, FlowAssumption
    <2>. QED
      BY <2>1, WorkerTypes, PlayerTypes, CallTypes, StutterTypes DEF Next, CallStep
  <1>. QED
    BY <1>1, InitTypes, PTL DEF Spec

-----------------------------------------------------------------------------
(* No playback is left behind.                                             *)

LEMMA WorkerOrphan ==
    ASSUME OrphanInv, Worker
    PROVE  OrphanInv'
  <1>1. CASE Play
    BY <1>1 DEF Play, Fail, Follow, OrphanInv, playback
  <1>2. CASE Store
    BY <1>2 DEF Store, Step, OrphanInv, local, playback
  <1>3. CASE Await
    BY <1>3 DEF Await, OrphanInv, playback
  <1>4. CASE Halt
    BY <1>4 DEF Halt, Step, PlayerStop, OrphanInv, local
  <1>5. CASE /\ at \notin {"store", "wait", "halt"}
             /\ UNCHANGED playback
    BY <1>5 DEF OrphanInv, playback
  <1>. QED
    BY <1>1, <1>2, <1>3, <1>4, <1>5
       DEF Worker, Loop, ExecPlay, ExecWait, ExecColor, ExecCounter, ExecEnd, Forget, Report

LEMMA OtherOrphan ==
    ASSUME OrphanInv, Player \/ \E c \in Caller : CallStep(c) \/ \E f : Start(c, f)
    PROVE  OrphanInv'
  <1>1. CASE Player
    BY <1>1 DEF Player, PlayerEnds, PlayerCalls, PlayerDies, OrphanInv, local
  <1>2. ASSUME NEW c \in Caller, CallStep(c) PROVE OrphanInv'
    BY <1>2
       DEF CallStep, StopStep, StopEnter, StopPlayer, StopJoin, StopFinal, StartFails,
           PlayerStop, OrphanInv, Alive, local, playback
  <1>3. ASSUME NEW c \in Caller, NEW f, Start(c, f) PROVE OrphanInv'
    BY <1>3 DEF Start, OrphanInv, Alive, playback
  <1>. QED
    BY <1>1, <1>2, <1>3

(* A playback that nobody stopped has its worker, wherever in the start of *)
(* the playback, in its end or in the stop of an earlier one a stop came:  *)
(* the worker that finds the flag after the wait stops its own session.    *)
THEOREM NoOrphan == Spec => []NoOrphanPlayback
  <1>1. Init => OrphanInv
    BY DEF Init, OrphanInv
  <1>2. OrphanInv /\ [Next]_vars => OrphanInv'
    <2> SUFFICES ASSUME OrphanInv, [Next]_vars PROVE OrphanInv'
      OBVIOUS
    <2>1. CASE UNCHANGED vars
      BY <2>1 DEF OrphanInv, vars, local, playback
    <2>. QED
      BY <2>1, WorkerOrphan, OtherOrphan DEF Next, CallStep
  <1>3. OrphanInv => NoOrphanPlayback
    BY DEF OrphanInv, NoOrphanPlayback, Alive
  <1>. QED
    BY <1>1, <1>2, <1>3, PTL DEF Spec

-----------------------------------------------------------------------------
(* What a run tells its host.                                              *)

(* One message more of the present run, which may follow what it said last. *)
LEMMA OneMore ==
    ASSUME NEW msgs, Ordered(msgs), run \in Nat,
           NEW m \in Message, m.run = run,
           msgs # <<>> /\ EndOf(msgs).run = run => MayFollow(EndOf(msgs), m)
    PROVE  /\ Ordered(msgs \o <<m>>)
           /\ msgs \o <<m>> # <<>> /\ EndOf(msgs \o <<m>>) = m
  <1> DEFINE more == msgs \o <<m>>
  <1>1. /\ more \in Seq(Message) /\ Len(more) = Len(msgs) + 1 /\ Len(msgs) \in Nat
        /\ \A i \in 1 .. Len(msgs) : more[i] = msgs[i]
        /\ more[Len(msgs) + 1] = m
    BY DEF Ordered
  <1> HIDE DEF more
  <1>2. \A i \in 1 .. Len(more) : more[i].run <= run
    BY <1>1 DEF Ordered
  <1>3. more # <<>> /\ EndOf(more) = m
    BY <1>1 DEF EndOf
  <1>4. ASSUME NEW i \in 2 .. Len(more), more[i - 1].run = run, more[i].run = run
        PROVE  MayFollow(more[i - 1], more[i])
    <2>1. CASE i = Len(more)
      <3>1. more[i - 1] = EndOf(msgs) /\ more[i] = m /\ msgs # <<>>
        BY <1>1, <2>1 DEF EndOf
      <3>. QED
        BY <1>4, <3>1
    <2>2. CASE i # Len(more)
      <3>1. i \in 2 .. Len(msgs) /\ more[i - 1] = msgs[i - 1] /\ more[i] = msgs[i]
        BY <1>1, <2>2
      <3>. QED
        BY <1>4, <3>1 DEF Ordered, InOrder
    <2>. QED
      BY <2>1, <2>2
  <1>5. Ordered(more)
    BY <1>1, <1>2, <1>4 DEF Ordered, InOrder
  <1>. QED
    BY <1>3, <1>5 DEF more

LEMMA OneByOne ==
    ASSUME NEW S, NEW msgs \in Seq(S), NEW m \in S, NEW n \in S
    PROVE  (msgs \o <<m>>) \o <<n>> = msgs \o <<m, n>>
  <1> DEFINE left == (msgs \o <<m>>) \o <<n>>
             right == msgs \o <<m, n>>
  <1>1. left \in Seq(S) /\ right \in Seq(S) /\ Len(msgs) \in Nat
    OBVIOUS
  <1>2. Len(left) = Len(msgs) + 2 /\ Len(right) = Len(msgs) + 2
    OBVIOUS
  <1>3. \A i \in 1 .. Len(left) : left[i] = right[i]
    OBVIOUS
  <1>. QED
    BY <1>1, <1>2, <1>3, SeqEqual

(* The order is of the messages, the run and its flow.                     *)
LEMMA OrderKept ==
    ASSUME Ordered(told'), UNCHANGED <<run, flow>>
    PROVE  Ordered(told)'
  BY DEF Ordered, InOrder, MayFollow

(* A node that started and ends is reported, and the run fails after it or *)
(* goes on, in the order it may.                                           *)
LEMMA EndReported ==
    ASSUME TypeOK, run > 0, Ordered(told), Spoke, LastWord.kind = "start", LastWord.node = cur,
           UNCHANGED <<run, flow>>,
           NEW edge \in Edge, Fail(edge) \/ Succeed(edge) \/ RaiseUnreported
    PROVE  /\ Ordered(told)'
           /\ at' \in {"loop", "dead"}
           /\ at' = "loop" => (LastWord.kind)' = "done" /\ (cur' = None => (LastWord.ok)')
  <1> DEFINE yes == Tell("done", TRUE)
             no == Tell("done", FALSE)
             err == Tell("error", FALSE)
  <1>1. yes \in Message /\ no \in Message /\ err \in Message /\ run \in Nat
    <2>1. run \in Nat
      BY DEF TypeOK, WalkTypeOK
    <2>. QED
      BY <2>1, TellIsMessage
  <1>2. /\ yes.run = run /\ no.run = run /\ err.run = run
        /\ yes.ok /\ yes.kind = "done" /\ no.kind = "done"
        /\ yes.node = cur /\ no.node = cur /\ ~no.ok /\ err.kind = "error"
    BY DEF Tell
  <1> HIDE DEF yes, no, err
  <1>3. MayFollow(LastWord, yes) /\ MayFollow(LastWord, no)
    BY <1>2 DEF MayFollow
  <1>4. MayFollow(no, err)
    BY <1>2, Zenon DEF MayFollow
  <1>5. Ordered(told \o <<yes>>) /\ EndOf(told \o <<yes>>) = yes
    BY <1>1, <1>2, <1>3, OneMore DEF LastWord
  <1>6. /\ Ordered(told \o <<no>>) /\ told \o <<no>> # <<>>
        /\ EndOf(told \o <<no>>) = no
    BY <1>1, <1>2, <1>3, OneMore DEF LastWord
  <1>7. Ordered(told \o <<no, err>>)
    <2>1. Ordered((told \o <<no>>) \o <<err>>)
      BY <1>1, <1>2, <1>4, <1>6, OneMore
    <2>. QED
      BY <1>1, <2>1, OneByOne DEF Ordered
  <1>8. CASE Succeed(edge)
    <2>1. told' = told \o <<yes>> /\ at' = "loop" /\ cur' = edge
      BY <1>8 DEF Succeed, Says, Follow, yes
    <2>2. LastWord' = yes
      BY <1>5, <2>1 DEF LastWord, EndOf
    <2>. QED
      BY <1>2, <1>5, <2>1, <2>2, OrderKept
  <1>9. CASE Fail(edge) /\ edge # None
    <2>1. told' = told \o <<no>> /\ at' = "loop" /\ cur' = edge
      BY <1>9 DEF Fail, Says, Follow, no
    <2>2. LastWord' = no
      BY <1>6, <2>1 DEF LastWord, EndOf
    <2>. QED
      BY <1>2, <1>6, <1>9, <2>1, <2>2, OrderKept
  <1>10. CASE (Fail(edge) /\ edge = None) \/ RaiseUnreported
    <2>1. told' = told \o <<no, err>> /\ at' = "dead"
      BY <1>10 DEF Fail, RaiseUnreported, Says, no, err
    <2>. QED
      BY <1>7, <2>1, OrderKept
  <1>. QED
    BY <1>8, <1>9, <1>10

LEMMA SaysInOrder ==
    ASSUME TypeOK, run > 0, Ordered(told), UNCHANGED <<run, flow>>,
           NEW kind \in {"start", "done", "complete", "error"}, NEW ok \in BOOLEAN,
           Spoke => MayFollow(LastWord, Tell(kind, ok)),
           Says(<<Tell(kind, ok)>>)
    PROVE  Ordered(told)' /\ Spoke' /\ LastWord' = Tell(kind, ok)
  <1> DEFINE m == Tell(kind, ok)
  <1>1. m \in Message /\ m.run = run
    BY TellIsMessage DEF Tell
  <1>2. run \in Nat
    BY DEF TypeOK, WalkTypeOK
  <1>3. told' = told \o <<m>>
    BY DEF Says
  <1>4. told # <<>> /\ EndOf(told).run = run => MayFollow(EndOf(told), m)
    BY DEF Spoke, LastWord
  <1> HIDE DEF m
  <1>5. Ordered(told \o <<m>>) /\ EndOf(told \o <<m>>) = m /\ told \o <<m>> # <<>>
    BY <1>1, <1>2, <1>4, OneMore
  <1>6. LastWord' = m /\ Spoke'
    BY <1>1, <1>3, <1>5 DEF LastWord, Spoke, EndOf
  <1>. QED
    BY <1>3, <1>5, <1>6, OrderKept DEF m

LEMMA WorkerReport ==
    ASSUME TypeOK, ReportInv, Worker
    PROVE  ReportInv'
  <1>1. run \in Nat /\ None \in Edge /\ Ordered(told)
    BY DEF TypeOK, WalkTypeOK, ReportInv, Edge
  <1>2. CASE Loop
    <2>1. run > 0 /\ UNCHANGED <<run, flow, cur, stopFlag>> /\ at = "loop"
      BY <1>2 DEF Loop, TypeOK, WalkTypeOK, local, control
    <2>2. CASE Says(<<Tell("start", TRUE)>>) /\ at' = "exec" /\ ~stopFlag
      <3>1. Spoke => MayFollow(LastWord, Tell("start", TRUE))
        BY <2>1, <2>2 DEF ReportInv, MayFollow, Tell
      <3>2. Ordered(told)' /\ Spoke' /\ LastWord' = Tell("start", TRUE)
        BY <1>1, <2>1, <2>2, <3>1, SaysInOrder
      <3>. QED
        BY <2>1, <2>2, <3>2 DEF ReportInv, Tell
    <2>3. CASE /\ Says(<<Tell("error", FALSE)>>) /\ at' = "dead" /\ ~stopFlag
               /\ cur \notin DOMAIN flow.node
      <3>1. Spoke => MayFollow(LastWord, Tell("error", FALSE))
        BY <2>1, <2>3 DEF ReportInv, MayFollow, Tell
      <3>2. Ordered(told)'
        BY <1>1, <2>1, <2>3, <3>1, SaysInOrder
      <3>. QED
        BY <2>1, <2>3, <3>2 DEF ReportInv
    <2>4. CASE /\ Says(<<Tell("complete", TRUE)>>) /\ at' = "dead" /\ ~stopFlag
               /\ cur = None
      <3>1. Spoke => MayFollow(LastWord, Tell("complete", TRUE))
        BY <2>1, <2>4 DEF ReportInv, MayFollow, Tell
      <3>2. Ordered(told)'
        BY <1>1, <2>1, <2>4, <3>1, SaysInOrder
      <3>. QED
        BY <2>1, <2>4, <3>2 DEF ReportInv
    <2>5. CASE UNCHANGED told /\ at' = "dead"
      BY <1>1, <2>1, <2>5, OrderKept DEF ReportInv
    <2>. QED
      BY <1>2, <2>2, <2>3, <2>4, <2>5 DEF Loop
  <1>3. ASSUME at \in {"exec", "play", "report"}, UNCHANGED <<run, flow, stopFlag>>,
               NEW edge \in Edge, Fail(edge) \/ Succeed(edge) \/ RaiseUnreported
        PROVE  ReportInv'
    <2>1. run > 0 /\ Spoke /\ LastWord.kind = "start" /\ LastWord.node = cur
      BY <1>3 DEF ReportInv, TypeOK, WalkTypeOK
    <2>2. /\ Ordered(told)' /\ at' \in {"loop", "dead"}
          /\ at' = "loop" => (LastWord.kind)' = "done" /\ (cur' = None => (LastWord.ok)')
      BY <1>1, <1>3, <2>1, EndReported
    <2>. QED
      BY <2>2 DEF ReportInv
  <1>4. ASSUME UNCHANGED <<run, flow, stopFlag, told, cur>>,
               \/ at \in {"exec", "play", "store", "wait"} /\ at' \in {"play", "store", "wait", "report"}
               \/ at' = "halt" /\ stopFlag
               \/ at = "halt" /\ at' = "forget"
        PROVE  ReportInv'
    <2>1. Ordered(told)'
      BY <1>1, <1>4, OrderKept
    <2>2. UNCHANGED <<LastWord, Spoke>>
      BY <1>4 DEF LastWord, Spoke, EndOf
    <2>. QED
      BY <1>4, <2>1, <2>2 DEF ReportInv
  <1>5. ASSUME UNCHANGED <<run, flow, stopFlag, told>>, stopFlag, at' = "loop"
        PROVE  ReportInv'
    BY <1>1, <1>5, OrderKept DEF ReportInv
  <1>6. CASE ExecPlay
    BY <1>1, <1>3, <1>4, <1>6 DEF ExecPlay, control
  <1>7. CASE ExecWait
    <2>1. Node.then \in Edge
      BY <1>7, NodeAtHand DEF ExecWait, IsNode
    <2>. QED
      BY <1>3, <1>5, <1>7, <2>1 DEF ExecWait, control, Follow
  <1>8. CASE ExecColor
    <2>1. Node.then \in Edge /\ Node.else \in Edge
      BY <1>8, NodeAtHand DEF ExecColor, IsNode
    <2>. QED
      BY <1>3, <1>5, <1>8, <2>1 DEF ExecColor, control, Follow
  <1>9. CASE ExecCounter
    <2>1. Node.then \in Edge /\ Node.else \in Edge
      BY <1>9, NodeAtHand DEF ExecCounter, IsNode
    <2>2. PICK edge \in Edge : Succeed(edge)
      BY <1>9, <2>1 DEF ExecCounter
    <2>. QED
      BY <1>3, <1>9, <2>2 DEF ExecCounter, control
  <1>10. CASE ExecEnd
    BY <1>1, <1>3, <1>10 DEF ExecEnd, control
  <1>11. CASE Play
    <2>1. Node.else \in Edge
      BY <1>11, NodeAtHand DEF Play, IsNode, TypeOK, WalkTypeOK
    <2>. QED
      BY <1>3, <1>4, <1>11, <2>1 DEF Play, control
  <1>12. CASE Store
    BY <1>4, <1>12 DEF Store, Step, local
  <1>13. CASE Await
    BY <1>4, <1>13 DEF Await, control
  <1>14. CASE Halt
    BY <1>4, <1>14 DEF Halt, Step, local, control
  <1>15. CASE Forget
    BY <1>5, <1>15 DEF Forget, Follow, ReportInv
  <1>16. CASE Report
    <2>1. Node.then \in Edge /\ Node.else \in Edge
      BY <1>16, NodeAtHand DEF Report, IsNode, TypeOK, WalkTypeOK
    <2>. QED
      BY <1>3, <1>16, <2>1 DEF Report
  <1>. QED
    BY <1>2, <1>6, <1>7, <1>8, <1>9, <1>10, <1>11, <1>12, <1>13, <1>14, <1>15, <1>16 DEF Worker

LEMMA OtherReport ==
    ASSUME TypeOK, ReportInv,
           Player \/ (\E c \in Caller : CallStep(c) \/ \E f : Start(c, f)) \/ UNCHANGED vars
    PROVE  ReportInv'
  <1>1. CASE UNCHANGED <<run, flow, at, cur, told>> /\ (stopFlag => stopFlag')
    <2>1. Ordered(told)'
      BY <1>1, OrderKept DEF ReportInv
    <2>2. UNCHANGED <<LastWord, Spoke>>
      BY <1>1 DEF LastWord, Spoke, EndOf
    <2>. QED
      BY <1>1, <2>1, <2>2 DEF ReportInv
  <1>2. CASE Player \/ UNCHANGED vars
    BY <1>1, <1>2 DEF Player, PlayerEnds, PlayerCalls, PlayerDies, vars, local, control
  <1>3. ASSUME NEW c \in Caller, StopEnter(c) \/ StopStep(c) PROVE ReportInv'
    BY <1>1, <1>3
       DEF StopStep, StopEnter, StopPlayer, StopJoin, StopFinal, local, control
  <1>4. ASSUME NEW c \in Caller, StartFails(c) PROVE ReportInv'
    <2>1. UNCHANGED <<run, flow, told>> /\ at' = "none"
      BY <1>4 DEF StartFails, local
    <2>. QED
      BY <2>1, OrderKept DEF ReportInv
  <1>5. ASSUME NEW c \in Caller, NEW f, Start(c, f) PROVE ReportInv'
    <2>1. run' = run + 1 /\ told' = told /\ at' = "loop"
      BY <1>5 DEF Start, Launch
    <2>2. run \in Nat /\ told \in Seq(Message)
      BY DEF TypeOK, WalkTypeOK
    <2>3. ASSUME NEW i \in 1 .. Len(told)
          PROVE  told[i].run <= run' /\ told[i].run # run'
      <3>1. told[i] \in Message /\ told[i].run <= run
        BY <2>2 DEF ReportInv, Ordered
      <3>2. told[i].run \in 1 .. MaxRuns
        BY <3>1 DEF Message
      <3>. QED
        BY <2>1, <2>2, <3>1, <3>2, FlowAssumption
    <2>4. Ordered(told)'
      <3>1. InOrder(told)'
        BY <2>1, <2>2, <2>3 DEF InOrder
      <3>. QED
        BY <2>1, <2>2, <2>3, <3>1 DEF Ordered
    <2>5. ~Spoke'
      BY <2>1, <2>2, <2>3 DEF Spoke, LastWord, EndOf
    <2>. QED
      BY <2>1, <2>4, <2>5 DEF ReportInv
  <1>. QED
    BY <1>2, <1>3, <1>4, <1>5 DEF CallStep

LEMMA ReportInit == Init => ReportInv
  BY EmptySeq DEF Init, ReportInv, Ordered, InOrder, Message

(* What a run tells its host is in order: each node that starts is         *)
(* reported once before the next, "complete" comes only after a success,   *)
(* "error" only after a failure or at an edge that leads nowhere, and      *)
(* nothing follows either, whatever stops the run and whenever.            *)
THEOREM Reporting == Spec => []WellReported
  <1>1. TypeOK /\ ReportInv /\ [Next]_vars => ReportInv'
    BY WorkerReport, OtherReport DEF Next, CallStep
  <1>2. ReportInv => WellReported
    BY DEF ReportInv, Ordered, WellReported
  <1>. QED
    BY <1>1, <1>2, ReportInit, Typing, PTL DEF Spec

-----------------------------------------------------------------------------
(* How a run ends.                                                         *)

(* A run that is over without a stop said how, and one that said how is    *)
(* over: at most its thread has yet to return.                             *)
IsEnd(m) == m.run = run /\ m.kind \in {"complete", "error"}
EndInv ==
    /\ at = "dead" /\ ~stopFlag => \E i \in 1 .. Len(told) : IsEnd(told[i])
    /\ \A i \in 1 .. Len(told) : IsEnd(told[i]) => ~Alive

(* What a step of the worker adds to the messages.                         *)
Adds ==
    \/ at' # "dead" /\ \E m \in Message : Says(<<m>>) /\ ~IsEnd(m)
    \/ at' = "dead" /\ \E m \in Message : Says(<<m>>) /\ IsEnd(m)
    \/ at' = "dead" /\ \E m, n \in Message : Says(<<m, n>>) /\ IsEnd(n)
    \/ (at' = "dead" => stopFlag) /\ UNCHANGED told

LEMMA EndAdds ==
    ASSUME TypeOK, run > 0, NEW edge,
           Fail(edge) \/ Succeed(edge) \/ RaiseUnreported \/ (Follow(edge) /\ UNCHANGED told)
    PROVE  Adds
  <1>1. /\ Tell("done", TRUE) \in Message /\ Tell("done", FALSE) \in Message
        /\ Tell("error", FALSE) \in Message
    BY TellIsMessage
  <1>2. /\ ~IsEnd(Tell("done", TRUE)) /\ ~IsEnd(Tell("done", FALSE))
        /\ IsEnd(Tell("error", FALSE))
    BY DEF IsEnd, Tell
  <1>. QED
    BY <1>1, <1>2 DEF Adds, Fail, Succeed, RaiseUnreported, Follow

LEMMA WorkerAdds ==
    ASSUME TypeOK, Worker
    PROVE  Adds /\ UNCHANGED <<run, stopFlag>>
  <1>1. run > 0
    BY DEF Worker, Loop, ExecPlay, ExecWait, ExecColor, ExecCounter, ExecEnd, Play, Store, Await,
           Halt, Forget, Report, Step, TypeOK, WalkTypeOK
  <1>2. CASE Loop
    <2>1. /\ Tell("start", TRUE) \in Message /\ Tell("complete", TRUE) \in Message
          /\ Tell("error", FALSE) \in Message
      BY <1>1, TellIsMessage
    <2>2. /\ ~IsEnd(Tell("start", TRUE)) /\ IsEnd(Tell("complete", TRUE))
          /\ IsEnd(Tell("error", FALSE))
      BY DEF IsEnd, Tell
    <2>. QED
      BY <1>2, <2>1, <2>2 DEF Loop, Adds, control
  <1>3. CASE ExecPlay
    BY <1>1, <1>3, EndAdds DEF ExecPlay, Adds, control
  <1>4. CASE ExecWait \/ ExecColor \/ ExecEnd
    BY <1>1, <1>4, EndAdds DEF ExecWait, ExecColor, ExecEnd, control
  <1>5. CASE ExecCounter
    BY <1>1, <1>5, EndAdds DEF ExecCounter, control
  <1>6. CASE Play
    BY <1>1, <1>6, EndAdds DEF Play, Adds, control
  <1>7. CASE Store \/ Await \/ Halt \/ Forget
    BY <1>7 DEF Store, Await, Halt, Forget, Step, Follow, Adds, local, control
  <1>8. CASE Report
    BY <1>1, <1>8, EndAdds DEF Report
  <1>. QED
    BY <1>2, <1>3, <1>4, <1>5, <1>6, <1>7, <1>8 DEF Worker

LEMMA WorkerEnd ==
    ASSUME TypeOK, EndInv, Worker
    PROVE  EndInv'
  <1>1. Adds /\ run' = run /\ stopFlag' = stopFlag /\ told \in Seq(Message)
    BY WorkerAdds DEF TypeOK
  <1>2. \A i \in 1 .. Len(told) : ~IsEnd(told[i])
    BY DEF EndInv, Alive, Worker, Loop, ExecPlay, ExecWait, ExecColor, ExecCounter, ExecEnd,
           Play, Store, Await, Halt, Forget, Report, Step
  <1>3. \A m : IsEnd(m)' <=> IsEnd(m)
    BY <1>1 DEF IsEnd
  <1>4. CASE at' # "dead" /\ \E m \in Message : Says(<<m>>) /\ ~IsEnd(m)
    <2>1. PICK m \in Message : Says(<<m>>) /\ ~IsEnd(m)
      BY <1>4
    <2>2. /\ Len(told') = Len(told) + 1 /\ told'[Len(told')] = m
          /\ \A i \in 1 .. Len(told) : told'[i] = told[i]
      BY <1>1, <2>1, SaysOne
    <2>3. \A i \in 1 .. Len(told') : ~IsEnd(told'[i])
      BY <1>1, <1>2, <2>1, <2>2
    <2>. QED
      BY <1>3, <1>4, <2>3 DEF EndInv
  <1>5. CASE at' = "dead" /\ \E m \in Message : Says(<<m>>) /\ IsEnd(m)
    <2>1. PICK m \in Message : Says(<<m>>) /\ IsEnd(m)
      BY <1>5
    <2>2. Len(told') \in 1 .. Len(told') /\ told'[Len(told')] = m
      BY <1>1, <2>1, SaysOne
    <2>. QED
      BY <1>3, <1>5, <2>1, <2>2 DEF EndInv, Alive
  <1>6. CASE at' = "dead" /\ \E m, n \in Message : Says(<<m, n>>) /\ IsEnd(n)
    <2>1. PICK m \in Message, n \in Message : Says(<<m, n>>) /\ IsEnd(n)
      BY <1>6
    <2>2. Len(told) + 2 \in 1 .. Len(told') /\ told'[Len(told) + 2] = n
      BY <1>1, <2>1, SaysTwo
    <2>. QED
      BY <1>3, <1>6, <2>1, <2>2 DEF EndInv, Alive
  <1>7. CASE (at' = "dead" => stopFlag) /\ UNCHANGED told
    BY <1>1, <1>2, <1>3, <1>7 DEF EndInv
  <1>. QED
    BY <1>1, <1>4, <1>5, <1>6, <1>7 DEF Adds

LEMMA OtherEnd ==
    ASSUME TypeOK, ReportInv, EndInv,
           Player \/ (\E c \in Caller : CallStep(c) \/ \E f : Start(c, f)) \/ UNCHANGED vars
    PROVE  EndInv'
  <1>1. CASE /\ UNCHANGED <<run, told>> 
             /\ at' = "none" \/ (UNCHANGED at /\ (stopFlag => stopFlag'))
    BY <1>1 DEF EndInv, IsEnd, Alive
  <1>2. CASE Player \/ UNCHANGED vars
    BY <1>1, <1>2 DEF Player, PlayerEnds, PlayerCalls, PlayerDies, vars, local, control
  <1>3. ASSUME NEW c \in Caller, CallStep(c) PROVE EndInv'
    BY <1>1, <1>3
       DEF CallStep, StopStep, StopEnter, StopPlayer, StopJoin, StopFinal, StartFails, control
  <1>4. ASSUME NEW c \in Caller, NEW f, Start(c, f) PROVE EndInv'
    <2>1. run' = run + 1 /\ told' = told /\ at' = "loop"
      BY <1>4 DEF Start, Launch
    <2>2. run \in Nat /\ told \in Seq(Message)
      BY DEF TypeOK, WalkTypeOK
    <2>3. \A i \in 1 .. Len(told) : told[i].run # run'
      BY <2>1, <2>2 DEF ReportInv, Ordered, Message
    <2>. QED
      BY <2>1, <2>3 DEF EndInv, IsEnd
  <1>. QED
    BY <1>2, <1>3, <1>4

(* A run that nobody stopped says how it ended: the worker never dies      *)
(* silently, wherever its node fails.                                      *)
THEOREM EndsAreTold == Spec => []EndIsTold
  <1>1. Init => EndInv
    BY EmptySeq DEF Init, EndInv
  <1>2. TypeOK /\ ReportInv /\ EndInv /\ [Next]_vars => EndInv'
    BY WorkerEnd, OtherEnd DEF Next, CallStep
  <1>3. TypeOK /\ EndInv => EndIsTold
    BY DEF EndInv, IsEnd, EndIsTold, TypeOK
  <1>4. TypeOK /\ ReportInv /\ [Next]_vars => ReportInv'
    BY WorkerReport, OtherReport DEF Next, CallStep
  <1>. QED
    BY <1>1, <1>2, <1>3, <1>4, ReportInit, Typing, PTL DEF Spec

-----------------------------------------------------------------------------
(* The helpers of the list.                                                *)

LEMMA InsertTypes ==
    ASSUME NEW S, NEW s \in Seq(S), NEW e \in S, NEW i \in 1 .. Len(s) + 1
    PROVE  InsertAt(s, i, e) \in Seq(S) /\ Len(InsertAt(s, i, e)) = Len(s) + 1
  <1> DEFINE left == SubSeq(s, 1, i - 1)
             right == SubSeq(s, i, Len(s))
  <1>1. Len(s) \in Nat /\ \A j \in 1 .. Len(s) : s[j] \in S
    OBVIOUS
  <1>2. left \in Seq(S) /\ Len(left) = i - 1
    BY <1>1, SubSeqProperties
  <1>3. right \in Seq(S) /\ Len(right) = Len(s) - i + 1
    BY <1>1, SubSeqProperties
  <1> HIDE DEF left, right
  <1> DEFINE start == left \o <<e>>
  <1>4. start \in Seq(S) /\ Len(start) = i
    BY <1>2
  <1> HIDE DEF start
  <1>5. start \o right \in Seq(S) /\ Len(start \o right) = Len(start) + Len(right)
    BY <1>3, <1>4, Zenon, ConcatProperties
  <1>6. Len(start) + Len(right) = Len(s) + 1
    BY <1>1, <1>3, <1>4
  <1>7. InsertAt(s, i, e) = start \o right
    BY DEF InsertAt, start, left, right
  <1>. QED
    BY <1>5, <1>6, <1>7

LEMMA RemoveTypes ==
    ASSUME NEW S, NEW s \in Seq(S), NEW i \in 1 .. Len(s)
    PROVE  RemoveAt(s, i) \in Seq(S) /\ Len(RemoveAt(s, i)) = Len(s) - 1
  <1> DEFINE left == SubSeq(s, 1, i - 1)
             right == SubSeq(s, i + 1, Len(s))
  <1>1. Len(s) \in Nat /\ \A j \in 1 .. Len(s) : s[j] \in S
    OBVIOUS
  <1>2. left \in Seq(S) /\ Len(left) = i - 1
    BY <1>1, SubSeqProperties
  <1>3. right \in Seq(S) /\ Len(right) = Len(s) - i
    BY <1>1, SubSeqProperties
  <1> HIDE DEF left, right
  <1>4. left \o right \in Seq(S) /\ Len(left \o right) = Len(left) + Len(right)
    BY <1>2, <1>3, Zenon, ConcatProperties
  <1>5. Len(left) + Len(right) = Len(s) - 1
    BY <1>1, <1>2, <1>3
  <1>. QED
    BY <1>4, <1>5 DEF RemoveAt, left, right

(* A function on the first numbers is a sequence.                          *)
LEMMA FunctionIsSeq ==
    ASSUME NEW S, NEW n \in Nat, NEW f \in [1 .. n -> S]
    PROVE  f \in Seq(S) /\ Len(f) = n
  OBVIOUS

LEMMA RowsAreFinite ==
    ASSUME NEW S, NEW s \in Seq(S)
    PROVE  IsFiniteSet(DOMAIN s) /\ Cardinality(DOMAIN s) = Len(s)
  <1>1. 1 \in Int /\ Len(s) \in Int /\ Len(s) >= 0 /\ DOMAIN s = 1 .. Len(s)
    OBVIOUS
  <1>2. /\ IsFiniteSet(1 .. Len(s))
        /\ Cardinality(1 .. Len(s)) = IF 1 > Len(s) THEN 0 ELSE Len(s) - 1 + 1
    BY <1>1, Zenon, FS_Interval
  <1>. QED
    BY <1>1, <1>2

LEMMA ItemTypes ==
    ASSUME NEW id \in Id, NEW kind \in ItemKind
    PROVE  Item(id, kind) \in SequenceItem
  BY DEF Item, SequenceItem, Status, Edge

(* Rows that may be run: what the list holds.                              *)
Rows == {list \in Seq(SequenceItem) : Len(list) \in 1 .. MaxItems}

(* Every row has a node to its name, and one to go to after it.            *)
LEMMA RowNames ==
    ASSUME NEW list \in Rows, NEW i \in DOMAIN list
    PROVE  /\ NodeId(list, i) \in Id /\ NextId(list, i) \in Id
           /\ MacroId[i] \in Id /\ WaitId[i] \in Id
           /\ list[i].kind \in ItemKind
  <1>1. list \in Seq(SequenceItem) /\ Len(list) \in 1 .. MaxItems
    BY DEF Rows
  <1>2. MaxItems \in Nat /\ MaxItems <= Len(MacroId)
    BY SequencerAssumption
  <1>3. \A j \in 1 .. Len(list) : MacroId[j] \in Id /\ WaitId[j] \in Id
    BY <1>1, <1>2, SequencerAssumption
  <1>4. ASSUME NEW j \in 1 .. Len(list)
        PROVE  list[j].id \in Id /\ list[j].kind \in ItemKind
    <2>1. list[j] \in SequenceItem
      BY <1>1
    <2>. QED
      BY <2>1 DEF SequenceItem
  <1>5. \A j \in 1 .. Len(list) : NodeId(list, j) \in Id
    BY <1>3, <1>4 DEF NodeId
  <1>6. i \in 1 .. Len(list) /\ (i < Len(list) => i + 1 \in 1 .. Len(list))
    BY <1>1
  <1>. QED
    BY <1>3, <1>4, <1>5, <1>6, SequencerAssumption DEF NextId

(* What _build_canonical_flow makes of a list that can be run is a flow.    *)
LEMMA BuiltFlow ==
    ASSUME NEW list \in Rows, NEW gap \in BOOLEAN
    PROVE  IsFlow(BuildFlow(list, gap))
  <1> DEFINE After(i) == IF i \in Gaps(list, gap) THEN WaitId[i] ELSE NextId(list, i)
             RowNode(i) == IF list[i].kind = "wait" THEN WaitNode(After(i))
                           ELSE PlayNode(list[i].kind, After(i))
             rows == {NodeId(list, i) : i \in DOMAIN list}
             gaps == {WaitId[i] : i \in Gaps(list, gap)}
             ends == {"end_success"} \cup
                     IF \E i \in DOMAIN list : list[i].kind # "wait" THEN {"end_error"} ELSE {}
             gapRow(id) == CHOOSE i \in Gaps(list, gap) : WaitId[i] = id
             row(id) == CHOOSE i \in DOMAIN list : NodeId(list, i) = id
             node == [id \in rows \cup gaps \cup ends |->
                        IF id \in ends THEN EndNode(id = "end_success")
                        ELSE IF id \in gaps THEN WaitNode(NextId(list, gapRow(id)))
                        ELSE RowNode(row(id))]
  <1>1. DOMAIN list = 1 .. Len(list) /\ Len(list) \in Nat /\ Len(list) >= 1
    BY SequencerAssumption DEF Rows
  <1>2. Gaps(list, gap) \subseteq DOMAIN list
    BY <1>1 DEF Gaps
  <1>3. rows \subseteq Id /\ gaps \subseteq Id /\ ends \subseteq Id
    BY <1>2, RowNames, SequencerAssumption
  <1>4. \A i \in DOMAIN list : After(i) \in Edge /\ NextId(list, i) \in Edge
    BY RowNames DEF Edge
  <1>5. ASSUME NEW i \in DOMAIN list
        PROVE  IsNode(RowNode(i))
    <2>1. After(i) \in Edge /\ "end_error" \in Edge /\ list[i].kind \in ItemKind
      BY <1>4, RowNames, SequencerAssumption DEF Edge
    <2> HIDE DEF After
    <2>. QED
      BY <2>1 DEF IsNode, NodeKind, ItemKind, WaitNode, PlayNode
  <1>6. ASSUME NEW id \in rows \cup gaps \cup ends
        PROVE  IsNode(node[id])
    <2>1. CASE id \in ends
      BY <2>1 DEF IsNode, NodeKind, EndNode
    <2>2. CASE id \notin ends /\ id \in gaps
      <3>1. gapRow(id) \in Gaps(list, gap)
        BY <2>2
      <3>. QED
        BY <1>2, <1>4, <2>2, <3>1 DEF IsNode, NodeKind, WaitNode
    <2>3. CASE id \notin ends /\ id \notin gaps
      <3>1. row(id) \in DOMAIN list
        BY <1>6, <2>3
      <3>. QED
        BY <1>5, <2>3, <3>1
    <2>. QED
      BY <2>1, <2>2, <2>3, SMTT(20)
  <1>7. BuildFlow(list, gap) = [start |-> NodeId(list, 1), node |-> node]
    BY DEF BuildFlow
  <1>8. NodeId(list, 1) \in Id
    BY <1>1, RowNames
  <1> HIDE DEF node, rows, gaps, ends
  <1>9. DOMAIN node = rows \cup gaps \cup ends
    BY DEF node
  <1>. QED
    BY <1>3, <1>6, <1>7, <1>8, <1>9 DEF IsFlow

-----------------------------------------------------------------------------
(* The panel and its engine.                                               *)

(* The GUI thread stands in a stop only of an engine it holds.             *)
CallInv == pc[Gui] # "idle" => engine /\ stopFlag

EngineInv == TypeOK /\ OrphanInv /\ ReportInv /\ EndInv
SeqInv == EngineInv /\ PanelTypeOK /\ CallInv /\ IdleMeansDead

(* To the engine, a step of the panel is a step of its own.                *)
LEMMA EngineSteps ==
    ASSUME PanelTypeOK, [SeqNext]_allVars
    PROVE  \/ Worker \/ Player
           \/ \E c \in Caller : CallStep(c) \/ \E f : IsFlow(f) /\ Start(c, f)
           \/ UNCHANGED vars
  <1>1. Gui \in Caller
    BY SequencerAssumption
  <1>2. ASSUME NEW gap \in BOOLEAN, RunSequence(gap)
        PROVE  \E f : IsFlow(f) /\ Start(Gui, f)
    <2>1. items \in Rows
      BY <1>2, SequencerAssumption DEF RunSequence, PanelTypeOK, Rows
    <2>. QED
      BY <1>2, <2>1, BuiltFlow DEF RunSequence
  <1>3. CASE EditStep
    BY <1>3
       DEF EditStep, LoadFlow, InsertItem, RemoveSelected, MoveItem, AskCapture, CaptureInserts,
           CaptureReplaces, CancelCapture, Edit
  <1>4. CASE GuiStep
    BY <1>1, <1>4 DEF GuiStep, Engine, StopReturns, PollStopping, Deliver, CallStep, StopStep
  <1>5. CASE StopSequence \/ RunSequenceFails
    BY <1>1, <1>5 DEF StopSequence, Engine, RunSequenceFails, CallStep
  <1>6. CASE Engine(Worker) \/ Engine(Player) \/ UNCHANGED allVars
    BY <1>6 DEF Engine, allVars
  <1>. QED
    BY <1>1, <1>2, <1>3, <1>4, <1>5, <1>6 DEF SeqNext

LEMMA EngineStep ==
    ASSUME EngineInv, PanelTypeOK, [SeqNext]_allVars
    PROVE  EngineInv'
  <1>1. \/ Worker \/ Player
        \/ \E c \in Caller : CallStep(c) \/ \E f : IsFlow(f) /\ Start(c, f)
        \/ UNCHANGED vars
    BY EngineSteps
  <1>2. TypeOK /\ OrphanInv /\ ReportInv /\ EndInv
    BY DEF EngineInv
  <1>3. TypeOK'
    BY <1>1, <1>2, WorkerTypes, PlayerTypes, CallTypes, StartTypes, StutterTypes
  <1>4. OrphanInv'
    <2>1. UNCHANGED vars => OrphanInv'
      BY <1>2 DEF OrphanInv, vars, local, playback
    <2>. QED
      BY <1>1, <1>2, <2>1, WorkerOrphan, OtherOrphan
  <1>5. ReportInv'
    BY <1>1, <1>2, WorkerReport, OtherReport
  <1>6. EndInv'
    BY <1>1, <1>2, WorkerEnd, OtherEnd
  <1>. QED
    BY <1>3, <1>4, <1>5, <1>6 DEF EngineInv

(* Every edit leaves a list of items.                                      *)
LEMMA EditItems ==
    ASSUME PanelTypeOK, EditStep
    PROVE  items' \in Seq(SequenceItem) /\ Len(items') <= MaxItems
  <1>1. /\ items \in Seq(SequenceItem) /\ Len(items) <= MaxItems
        /\ Len(items) \in Nat /\ DOMAIN items = 1 .. Len(items) /\ MaxItems \in Nat
    BY SequencerAssumption DEF PanelTypeOK
  <1>2. ASSUME NEW new \in NewItems
        PROVE  Item(new.id, new.kind) \in SequenceItem
    BY ItemTypes, SequencerAssumption
  <1>3. ASSUME NEW d \in Documents, LoadFlow(d)
        PROVE  items' \in Seq(SequenceItem) /\ Len(items') <= MaxItems
    <2>1. d \in Seq([id : Id, kind : ItemKind]) /\ Len(d) \in 1 .. MaxItems
      BY SequencerAssumption
    <2>2. ASSUME NEW i \in 1 .. Len(d)
          PROVE  Item(d[i].id, d[i].kind) \in SequenceItem
      <3>1. d[i] \in [id : Id, kind : ItemKind]
        BY <2>1, ElementOfSeq
      <3>. QED
        BY <3>1, ItemTypes
    <2>3. items' = [i \in 1 .. Len(d) |-> Item(d[i].id, d[i].kind)]
      BY <1>3, <2>1 DEF LoadFlow, Edit
    <2>4. items' \in [1 .. Len(d) -> SequenceItem] /\ Len(d) \in Nat
      BY <1>1, <2>1, <2>2, <2>3
    <2>. QED
      BY <1>1, <2>1, <2>4, FunctionIsSeq
  <1>4. ASSUME NEW new \in NewItems, NEW row \in 1 .. Len(items) + 1,
               InsertItem(new, row) \/ CaptureInserts(new, row)
        PROVE  items' \in Seq(SequenceItem) /\ Len(items') <= MaxItems
    <2>1. items' = InsertAt(items, row, Item(new.id, new.kind)) /\ Len(items) < MaxItems
      BY <1>4 DEF InsertItem, CaptureInserts, Edit
    <2>2. items' \in Seq(SequenceItem) /\ Len(items') = Len(items) + 1
      BY <1>1, <1>2, <2>1, InsertTypes
    <2>. QED
      BY <1>1, <2>1, <2>2
  <1>5. ASSUME NEW rows \in SUBSET DOMAIN items, RemoveSelected(rows)
        PROVE  items' \in Seq(SequenceItem) /\ Len(items') <= MaxItems
    <2>0. IsFiniteSet(DOMAIN items) /\ Cardinality(DOMAIN items) = Len(items)
      BY <1>1, RowsAreFinite
    <2>1. /\ IsFiniteSet(rows) /\ Cardinality(rows) <= Cardinality(DOMAIN items)
          /\ Cardinality(rows) \in Nat
      BY <2>0, FS_Subset, FS_CardinalityType
    <2>2. Cardinality(rows) <= Len(items)
      BY <2>0, <2>1
    <2> DEFINE n == Len(items) - Cardinality(rows)
    <2>3. PICK left \in [1 .. n -> DOMAIN items \ rows] :
                 items' = [i \in DOMAIN left |-> items[left[i]]]
      BY <1>5 DEF RemoveSelected, Edit
    <2>4. n \in Nat /\ n <= MaxItems
      BY <1>1, <2>1, <2>2
    <2>5. \A i \in 1 .. n : items[left[i]] \in SequenceItem
      BY <1>1
    <2> HIDE DEF n
    <2>6. items' \in [1 .. n -> SequenceItem]
      BY <2>3, <2>5
    <2>. QED
      BY <2>4, <2>6, FunctionIsSeq
  <1>6. ASSUME NEW from \in DOMAIN items, NEW to \in DOMAIN items, MoveItem(from, to)
        PROVE  items' \in Seq(SequenceItem) /\ Len(items') <= MaxItems
    <2> DEFINE rest == RemoveAt(items, from)
    <2>1. items' = InsertAt(rest, to, items[from])
      BY <1>6, SMTT(20) DEF MoveItem, Edit
    <2>2. rest \in Seq(SequenceItem) /\ Len(rest) = Len(items) - 1
      BY <1>1, RemoveTypes, Zenon
    <2>3. items[from] \in SequenceItem /\ to \in 1 .. Len(rest) + 1
      BY <1>1, <2>2
    <2> HIDE DEF rest
    <2>4. items' \in Seq(SequenceItem) /\ Len(items') = Len(rest) + 1
      BY <2>1, <2>2, <2>3, InsertTypes
    <2>. QED
      BY <1>1, <2>2, <2>4
  <1>7. CASE CaptureReplaces
    <2>1. CASE capture.row \in DOMAIN items
      <3>1. items[capture.row].id \in Id
        <4>1. items[capture.row] \in SequenceItem
          BY <1>1, <2>1, ElementOfSeq
        <4>. QED
          BY <4>1 DEF SequenceItem
      <3>2. Item(items[capture.row].id, "inline") \in SequenceItem
        BY <3>1, ItemTypes DEF ItemKind
      <3>3. items' = [items EXCEPT ![capture.row] = Item(items[capture.row].id, "inline")]
        BY <1>7, <2>1 DEF CaptureReplaces
      <3>. QED
        BY <1>1, <2>1, <3>2, <3>3, ExceptSeq
    <2>. QED
      BY <1>1, <1>7, <2>1 DEF CaptureReplaces
  <1>8. CASE UNCHANGED items
    BY <1>1, <1>8
  <1>. QED
    BY <1>3, <1>4, <1>5, <1>6, <1>7, <1>8 DEF EditStep, AskCapture, CancelCapture

(* The messages are handled in turn, and none before it was said.          *)
LEMMA MessagesGrow ==
    ASSUME EngineInv, PanelTypeOK, [SeqNext]_allVars
    PROVE  Len(told) \in Nat /\ Len(told') \in Nat /\ Len(told) <= Len(told')
  <1>1. told \in Seq(Message) /\ Len(told) \in Nat
    BY DEF EngineInv, TypeOK
  <1>2. CASE Worker
    <2>1. Adds
      BY <1>2, WorkerAdds DEF EngineInv
    <2>2. ASSUME NEW m \in Message, Says(<<m>>)
          PROVE  Len(told') = Len(told) + 1
      BY <1>1, <2>2, SaysOne
    <2>3. ASSUME NEW m \in Message, NEW n \in Message, Says(<<m, n>>)
          PROVE  Len(told') = Len(told) + 2
      BY <1>1, <2>3, SaysTwo
    <2>4. Len(told') \in {Len(told), Len(told) + 1, Len(told) + 2}
      BY <2>1, <2>2, <2>3, Zenon DEF Adds
    <2>. QED
      BY <1>1, <2>4
  <1>3. Worker \/ UNCHANGED told
    BY EngineSteps
       DEF Player, PlayerEnds, PlayerCalls, PlayerDies, CallStep, StopStep, StopEnter,
           StopPlayer, StopJoin, StopFinal, StartFails, Start, vars
  <1>. QED
    BY <1>1, <1>2, <1>3

LEMMA GuiTypes ==
    ASSUME SeqInv, [SeqNext]_allVars
    PROVE  PanelTypeOK' /\ CallInv' /\ IdleMeansDead'
  <1>1. EngineInv /\ PanelTypeOK /\ CallInv /\ IdleMeansDead
    BY DEF SeqInv
  <1>2. Len(told) \in Nat /\ Len(told') \in Nat /\ Len(told) <= Len(told')
    BY <1>1, MessagesGrow
  <1>3. pc \in [Caller -> {"idle", "player", "join", "final"}] /\ Gui \in Caller
    BY <1>1, SequencerAssumption DEF EngineInv, TypeOK
  <1>4. CASE Engine(Worker)
    <2>1. UNCHANGED <<run, stopFlag, pc>> /\ Alive
      <3>1. UNCHANGED <<run, stopFlag>>
        BY <1>1, <1>4, WorkerAdds DEF Engine, EngineInv
      <3>. QED
        BY <1>4, <3>1
           DEF Engine, Alive, Worker, Loop, ExecPlay, ExecWait, ExecColor, ExecCounter, ExecEnd,
               Play, Store, Await, Halt, Forget, Report, Step, calls
    <2>. QED
      BY <1>1, <1>2, <1>4, <2>1 DEF Engine, panel, PanelTypeOK, CallInv, IdleMeansDead
  <1>5. CASE Engine(Player)
    <2>1. UNCHANGED <<run, stopFlag, pc, at, told>> /\ (player' = "running" => FALSE)
      BY <1>5 DEF Engine, Player, PlayerEnds, PlayerCalls, PlayerDies, local, control, calls
    <2>. QED
      BY <1>1, <1>5, <2>1 DEF Engine, panel, PanelTypeOK, CallInv, IdleMeansDead, Alive
  <1>6. CASE Engine(StopPlayer(Gui) \/ StopJoin(Gui))
    <2>1. UNCHANGED <<run, stopFlag, at, told, player>> /\ pc[Gui] # "idle"
      BY <1>6 DEF Engine, StopPlayer, StopJoin, control, playback
    <2>2. playerStop => playerStop'
      BY <1>6, Zenon DEF Engine, StopPlayer, StopJoin, PlayerStop, playback
    <2>. QED
      BY <1>1, <1>6, <2>1, <2>2 DEF Engine, panel, PanelTypeOK, CallInv, IdleMeansDead, Alive
  <1>7. CASE StopSequence
    <2>1. UNCHANGED <<run, at, told, player, playerStop>> /\ stopFlag' = TRUE /\ engine
      BY <1>7 DEF StopSequence, Engine, StopEnter, playback
    <2>. QED
      BY <1>1, <1>7, <2>1
         DEF StopSequence, Engine, panel, PanelTypeOK, CallInv, IdleMeansDead, Alive
  <1>8. CASE StopReturns
    <2>1. /\ UNCHANGED <<run, at, stopFlag, told, player, playerStop, items, seen>>
          /\ engine /\ stopFlag /\ pc'[Gui] = "idle"
      BY <1>1, <1>3, <1>8 DEF StopReturns, StopFinal, CallInv, playback
    <2>2. ~Alive => player # "running" \/ playerStop
      BY <1>1 DEF EngineInv, OrphanInv, Alive
    <2>. QED
      BY <1>1, <1>8, <2>1, <2>2
         DEF StopReturns, FinishGeneration, PanelTypeOK, CallInv, IdleMeansDead, Alive
  <1>9. CASE PollStopping
    <2>1. ~Alive => player # "running" \/ playerStop
      BY <1>1 DEF EngineInv, OrphanInv, Alive
    <2>. QED
      BY <1>1, <1>9, <2>1
         DEF PollStopping, Idle, FinishGeneration, vars, local, control, calls, playback,
             PanelTypeOK, CallInv, IdleMeansDead, Alive
  <1>10. CASE Deliver
    <2> DEFINE msg == told[seen + 1]
    <2>1. seen' = seen + 1 /\ seen' \in 0 .. Len(told) /\ UNCHANGED vars /\ Idle
      BY <1>1, <1>2, <1>10 DEF Deliver, PanelTypeOK
    <2>2. UNCHANGED <<run, at, stopFlag, told, player, playerStop, pc>>
      BY <2>1 DEF vars, local, control, calls, playback
    <2>3. msg \in Message /\ seen + 1 \in 1 .. Len(told)
      <3>1. seen + 1 \in 1 .. Len(told) /\ told \in Seq(Message)
        BY <1>1, <1>2, <2>1 DEF EngineInv, TypeOK, PanelTypeOK
      <3>. QED
        BY <3>1, ElementOfSeq
    <2>4. CASE UNCHANGED <<items, engine, active, watch>>
      BY <1>1, <2>1, <2>2, <2>4 DEF Idle, PanelTypeOK, CallInv, IdleMeansDead, Alive
    <2>5. CASE msg.kind \in {"start", "done"} /\ Show(msg)
      <3>1. Shows(msg) \in Status
        BY <2>3, <2>5 DEF Message, Shows, Status
      <3>2. \A i \in 1 .. Len(items) : items[i] \in SequenceItem
        BY <1>1 DEF PanelTypeOK
      <3>3. \A i \in 1 .. Len(items) : [items[i] EXCEPT !.status = Shows(msg)] \in SequenceItem
        BY <3>1, <3>2 DEF SequenceItem
      <3>4. items' \in [1 .. Len(items) -> SequenceItem] /\ Len(items) \in Nat
        BY <1>1, <2>5, <3>2, <3>3 DEF Show, PanelTypeOK
      <3>5. items' \in Seq(SequenceItem) /\ Len(items') = Len(items)
        BY <3>4, FunctionIsSeq
      <3>. QED
        BY <1>1, <2>1, <2>2, <2>5, <3>5
           DEF Show, Idle, PanelTypeOK, CallInv, IdleMeansDead, Alive
    <2>6. CASE /\ msg.run = active /\ msg.kind \in {"complete", "error"}
               /\ FinishGeneration /\ UNCHANGED items
      <3>1. engine => IsEnd(msg)
        BY <1>1, <2>6 DEF PanelTypeOK, IsEnd
      <3>2. ~Alive
        BY <1>1, <2>3, <3>1 DEF EngineInv, EndInv, IdleMeansDead
      <3>3. player # "running" \/ playerStop
        BY <1>1, <3>2 DEF EngineInv, OrphanInv, Alive
      <3>. QED
        BY <1>1, <2>1, <2>2, <2>6, <3>2, <3>3
           DEF FinishGeneration, Idle, PanelTypeOK, CallInv, IdleMeansDead, Alive
    <2>. QED
      BY <1>10, <2>4, <2>5, <2>6 DEF Deliver
  <1>11. CASE EditStep
    <2>1. items' \in Seq(SequenceItem) /\ Len(items') <= MaxItems
      BY <1>1, <1>11, EditItems
    <2>2. UNCHANGED <<vars, engine, active, seen, watch>>
      BY <1>11
         DEF EditStep, LoadFlow, InsertItem, RemoveSelected, MoveItem, AskCapture, CaptureInserts,
             CaptureReplaces, CancelCapture, Edit
    <2>. QED
      BY <1>1, <2>1, <2>2
         DEF vars, local, control, calls, playback, PanelTypeOK, CallInv, IdleMeansDead, Alive
  <1>12. CASE RunSequenceFails \/ \E gap \in BOOLEAN : RunSequence(gap)
    <2>1. items \in Seq(SequenceItem) /\ Len(items) \in Nat /\ Len(items) <= MaxItems
      BY <1>1 DEF PanelTypeOK
    <2>2. items # <<>> => items \in Rows
      BY <2>1, SequencerAssumption DEF Rows
    <2>3. items' = Reset /\ items # <<>> /\ DOMAIN items = 1 .. Len(items)
      BY <1>12, <2>1 DEF RunSequence, RunSequenceFails
    <2>4. ASSUME NEW i \in 1 .. Len(items)
          PROVE  [items[i] EXCEPT !.status = "pending", !.node = NodeId(items, i)] \in SequenceItem
      <3>1. items[i] \in SequenceItem /\ NodeId(items, i) \in Id
        BY <2>1, <2>2, <2>3, RowNames
      <3>. QED
        BY <3>1 DEF SequenceItem, Status, Edge
    <2>5. items' \in [1 .. Len(items) -> SequenceItem]
      BY <2>1, <2>3, <2>4 DEF Reset
    <2>6. items' \in Seq(SequenceItem) /\ Len(items') <= MaxItems
      BY <2>1, <2>5, FunctionIsSeq
    <2>7. CASE RunSequenceFails
      BY <1>1, <2>6, <2>7
         DEF RunSequenceFails, StartFails, calls, playback, PanelTypeOK, CallInv, IdleMeansDead,
             Alive
    <2>8. ASSUME NEW gap \in BOOLEAN, RunSequence(gap)
          PROVE  PanelTypeOK' /\ CallInv' /\ IdleMeansDead'
      BY <1>1, <2>6, <2>8
         DEF RunSequence, Start, Launch, calls, PanelTypeOK, CallInv, IdleMeansDead
    <2>. QED
      BY <1>12, <2>7, <2>8
  <1>13. CASE UNCHANGED allVars
    BY <1>1, <1>13
       DEF allVars, vars, panel, local, control, calls, playback, PanelTypeOK, CallInv,
           IdleMeansDead, Alive
  <1>. QED
    BY <1>4, <1>5, <1>6, <1>7, <1>8, <1>9, <1>10, <1>11, <1>12, <1>13 DEF SeqNext, GuiStep, Engine

LEMMA SeqInitInv == SeqInit => SeqInv
  <1>1. SeqInit => EngineInv
    BY InitTypes, ReportInit, EmptySeq DEF SeqInit, EngineInv, Init, OrphanInv, EndInv
  <1>2. SeqInit => PanelTypeOK
    <2> SUFFICES ASSUME SeqInit PROVE PanelTypeOK
      OBVIOUS
    <2>1. items = <<>> /\ told = <<>> /\ seen = 0 /\ engine = FALSE /\ watch = FALSE /\ active = None
      BY DEF SeqInit, Init
    <2>2. items \in Seq(SequenceItem) /\ Len(items) = 0 /\ seen \in 0 .. Len(told)
      BY <2>1
    <2>3. Len(items) <= MaxItems
      BY <2>2, SequencerAssumption
    <2>. QED
      BY <2>1, <2>2, <2>3, Zenon DEF PanelTypeOK
  <1>3. SeqInit => CallInv /\ IdleMeansDead
    BY SequencerAssumption DEF SeqInit, Init, CallInv, IdleMeansDead, Alive
  <1>. QED
    BY <1>1, <1>2, <1>3 DEF SeqInv

LEMMA SequencerInv == SeqSpec => []SeqInv
  <1>1. SeqInv /\ [SeqNext]_allVars => SeqInv'
    BY EngineStep, GuiTypes DEF SeqInv
  <1>. QED
    BY <1>1, SeqInitInv, PTL DEF SeqSpec

(* The panel opens the list again, and gives the keyboard and the mouse     *)
(* back, only when the worker of the last run is dead and its playback is  *)
(* over or told to stop: after its last message, a stop whose join timed   *)
(* out and the poll that follows it, or a start that failed.               *)
THEOREM UnlockedIsIdle == SeqSpec => []IdleMeansDead
  BY SequencerInv, PTL DEF SeqInv

(* The engine keeps its promises under the panel: it is given a flow every *)
(* time, whatever the user did to the list.                                *)
THEOREM PanelKeepsEngine == SeqSpec => [](NoOrphanPlayback /\ WellReported /\ EndIsTold)
  <1>1. SeqInv => NoOrphanPlayback /\ WellReported /\ EndIsTold
    BY DEF SeqInv, EngineInv, OrphanInv, NoOrphanPlayback, Alive, ReportInv, Ordered,
           WellReported, EndInv, IsEnd, EndIsTold, TypeOK
  <1>. QED
    BY <1>1, SequencerInv, PTL

-----------------------------------------------------------------------------
(* What the rows show.                                                     *)

(* The elements of a list after an insertion and a removal.                *)
LEMMA InsertElements ==
    ASSUME NEW S, NEW s \in Seq(S), NEW e \in S, NEW i \in 1 .. Len(s) + 1
    PROVE  \A j \in 1 .. Len(s) + 1 :
              InsertAt(s, i, e)[j] = IF j < i THEN s[j] ELSE IF j = i THEN e ELSE s[j - 1]
  <1> DEFINE left == SubSeq(s, 1, i - 1)
             right == SubSeq(s, i, Len(s))
  <1>1. Len(s) \in Nat /\ \A j \in 1 .. Len(s) : s[j] \in S
    OBVIOUS
  <1>2. left \in Seq(S) /\ Len(left) = i - 1 /\ \A j \in 1 .. i - 1 : left[j] = s[j]
    BY <1>1, SubSeqProperties
  <1>3. /\ right \in Seq(S) /\ Len(right) = Len(s) - i + 1
        /\ \A j \in 1 .. Len(s) - i + 1 : right[j] = s[i + j - 1]
    BY <1>1, SubSeqProperties
  <1> HIDE DEF left, right
  <1> DEFINE start == left \o <<e>>
  <1>4. /\ start \in Seq(S) /\ Len(start) = i /\ start[i] = e
        /\ \A j \in 1 .. i - 1 : start[j] = s[j]
    BY <1>2
  <1> HIDE DEF start
  <1>5. \A j \in 1 .. Len(start) + Len(right) :
           (start \o right)[j] = IF j <= Len(start) THEN start[j] ELSE right[j - Len(start)]
    BY <1>3, <1>4, Zenon, ConcatProperties
  <1>6. InsertAt(s, i, e) = start \o right
    BY DEF InsertAt, start, left, right
  <1> TAKE j \in 1 .. Len(s) + 1
  <1>7. j \in 1 .. Len(start) + Len(right)
    BY <1>1, <1>3, <1>4
  <1>8. CASE j > i
    <2>1. (start \o right)[j] = right[j - i] /\ j - i \in 1 .. Len(s) - i + 1
      BY <1>1, <1>4, <1>5, <1>7, <1>8
    <2>2. right[j - i] = s[i + (j - i) - 1] /\ i + (j - i) - 1 = j - 1
      BY <1>1, <1>3, <2>1
    <2>. QED
      BY <1>6, <1>8, <2>1, <2>2
  <1>9. CASE j <= i
    <2>1. InsertAt(s, i, e)[j] = start[j]
      BY <1>4, <1>5, <1>6, <1>7, <1>9
    <2>2. start[j] = IF j < i THEN s[j] ELSE e
      BY <1>4, <1>9
    <2>. QED
      BY <1>9, <2>1, <2>2
  <1>. QED
    BY <1>8, <1>9

LEMMA RemoveElements ==
    ASSUME NEW S, NEW s \in Seq(S), NEW i \in 1 .. Len(s)
    PROVE  \A j \in 1 .. Len(s) - 1 :
              RemoveAt(s, i)[j] = IF j < i THEN s[j] ELSE s[j + 1]
  <1> DEFINE left == SubSeq(s, 1, i - 1)
             right == SubSeq(s, i + 1, Len(s))
  <1>1. Len(s) \in Nat /\ \A j \in 1 .. Len(s) : s[j] \in S
    OBVIOUS
  <1>2. left \in Seq(S) /\ Len(left) = i - 1 /\ \A j \in 1 .. i - 1 : left[j] = s[j]
    BY <1>1, SubSeqProperties
  <1>3. /\ right \in Seq(S) /\ Len(right) = Len(s) - i
        /\ \A j \in 1 .. Len(s) - i : right[j] = s[i + j]
    BY <1>1, SubSeqProperties
  <1> HIDE DEF left, right
  <1>4. \A j \in 1 .. Len(left) + Len(right) :
           (left \o right)[j] = IF j <= Len(left) THEN left[j] ELSE right[j - Len(left)]
    BY <1>2, <1>3, Zenon, ConcatProperties
  <1>5. RemoveAt(s, i) = left \o right
    BY DEF RemoveAt, left, right
  <1> TAKE j \in 1 .. Len(s) - 1
  <1>6. j \in 1 .. Len(left) + Len(right)
    BY <1>1, <1>2, <1>3
  <1>7. CASE j >= i
    <2>1. (left \o right)[j] = right[j - (i - 1)] /\ j - (i - 1) \in 1 .. Len(s) - i
      BY <1>1, <1>2, <1>4, <1>6, <1>7, SMTT(20)
    <2>2. right[j - (i - 1)] = s[i + (j - (i - 1))] /\ i + (j - (i - 1)) = j + 1
      BY <1>1, <1>3, <2>1
    <2>. QED
      BY <1>5, <1>7, <2>1, <2>2
  <1>8. CASE j < i
    <2>1. RemoveAt(s, i)[j] = left[j]
      BY <1>2, <1>4, <1>5, <1>6, <1>8
    <2>. QED
      BY <1>2, <1>8, <2>1
  <1>. QED
    BY <1>7, <1>8

(* No two rows have one step_id, and none has that of a numbered node.     *)
Distinct(list) ==
    /\ \A i, j \in 1 .. Len(list) : list[i].id = list[j].id => i = j
    /\ \A i \in 1 .. Len(list) : list[i].id \notin Reserved

(* A row of new stands for a row of old, with what it shows, or is new.     *)
Keeps(new, old) ==
    \A i \in 1 .. Len(new) :
        \/ new[i].status = "pending"
        \/ \E j \in 1 .. Len(old) : new[i] = old[j]

LEMMA InsertKeeps ==
    ASSUME NEW list \in Seq(SequenceItem), Distinct(list),
           NEW id \in Id \ Reserved, NEW kind \in ItemKind, NEW row \in 1 .. Len(list) + 1,
           \A i \in DOMAIN list : list[i].id # id
    PROVE  LET new == InsertAt(list, row, Item(id, kind)) IN Distinct(new) /\ Keeps(new, list)
  <1> DEFINE item == Item(id, kind)
             new == InsertAt(list, row, item)
  <1>1. item \in SequenceItem /\ item.id = id /\ item.status = "pending"
    BY ItemTypes DEF Item
  <1> HIDE DEF item
  <1>2. Len(new) = Len(list) + 1 /\ Len(list) \in Nat /\ DOMAIN list = 1 .. Len(list)
    BY <1>1, InsertTypes
  <1>3. \A j \in 1 .. Len(list) + 1 :
           new[j] = IF j < row THEN list[j] ELSE IF j = row THEN item ELSE list[j - 1]
    BY <1>1, InsertElements
  <1> HIDE DEF new
  <1>4. Distinct(new)
    <2>1. ASSUME NEW i \in 1 .. Len(new), NEW j \in 1 .. Len(new), new[i].id = new[j].id
          PROVE  i = j
      BY <1>1, <1>2, <1>3, <2>1, SMTT(20) DEF Distinct
    <2>2. ASSUME NEW i \in 1 .. Len(new)
          PROVE  new[i].id \notin Reserved
      BY <1>1, <1>2, <1>3 DEF Distinct
    <2>. QED
      BY <2>1, <2>2 DEF Distinct
  <1>5. Keeps(new, list)
    BY <1>1, <1>2, <1>3 DEF Keeps
  <1>. QED
    BY <1>4, <1>5 DEF new, item

LEMMA MoveKeeps ==
    ASSUME NEW list \in Seq(SequenceItem), Distinct(list),
           NEW from \in DOMAIN list, NEW to \in DOMAIN list
    PROVE  LET new == InsertAt(RemoveAt(list, from), to, list[from])
           IN  Distinct(new) /\ Keeps(new, list)
  <1> DEFINE rest == RemoveAt(list, from)
             new == InsertAt(rest, to, list[from])
  <1>1. Len(list) \in Nat /\ DOMAIN list = 1 .. Len(list) /\ list[from] \in SequenceItem
    BY SMTT(20)
  <1>2. rest \in Seq(SequenceItem) /\ Len(rest) = Len(list) - 1
    BY <1>1, RemoveTypes, Zenon
  <1>3. \A j \in 1 .. Len(list) - 1 : rest[j] = IF j < from THEN list[j] ELSE list[j + 1]
    BY <1>1, RemoveElements
  <1> HIDE DEF rest
  <1>4. to \in 1 .. Len(rest) + 1
    BY <1>1, <1>2
  <1>5. Len(new) = Len(list)
    BY <1>1, <1>2, <1>4, InsertTypes
  <1>6. \A j \in 1 .. Len(rest) + 1 :
           new[j] = IF j < to THEN rest[j] ELSE IF j = to THEN list[from] ELSE rest[j - 1]
    BY <1>1, <1>2, <1>4, InsertElements
  <1> HIDE DEF new
  <1> DEFINE origin(j) == IF j = to THEN from
                          ELSE LET k == IF j < to THEN j ELSE j - 1
                               IN  IF k < from THEN k ELSE k + 1
  <1>7. ASSUME NEW j \in 1 .. Len(list)
        PROVE  origin(j) \in 1 .. Len(list) /\ new[j] = list[origin(j)]
    <2>1. CASE j = to
      BY <1>1, <1>2, <1>6, <2>1
    <2>2. CASE j < to
      <3>1. new[j] = rest[j] /\ j \in 1 .. Len(list) - 1
        BY <1>1, <1>2, <1>6, <2>2
      <3>. QED
        BY <1>1, <1>3, <2>2, <3>1
    <2>3. CASE j > to
      <3>1. new[j] = rest[j - 1] /\ j - 1 \in 1 .. Len(list) - 1
        BY <1>1, <1>2, <1>6, <2>3
      <3>2. rest[j - 1] = IF j - 1 < from THEN list[j - 1] ELSE list[(j - 1) + 1]
        BY <1>3, <3>1
      <3>. QED
        BY <1>1, <2>3, <3>1, <3>2
    <2>. QED
      BY <1>1, <2>1, <2>2, <2>3
  <1>8. ASSUME NEW i \in 1 .. Len(list), NEW j \in 1 .. Len(list), origin(i) = origin(j)
        PROVE  i = j
    <2>1. i \in Int /\ j \in Int /\ from \in Int /\ to \in Int
      BY <1>1
    <2>. QED
      BY <1>8, <2>1
  <1> HIDE DEF origin
  <1>9. Distinct(new)
    <2>1. ASSUME NEW i \in 1 .. Len(list), NEW j \in 1 .. Len(list), new[i].id = new[j].id
          PROVE  i = j
      <3>1. origin(i) = origin(j)
        BY <1>7, <2>1, SMTT(20) DEF Distinct
      <3>. QED
        BY <1>8, <3>1
    <2>2. \A i \in 1 .. Len(list) : new[i].id \notin Reserved
      BY <1>7 DEF Distinct
    <2>. QED
      BY <1>5, <2>1, <2>2 DEF Distinct
  <1>10. Keeps(new, list)
    BY <1>5, <1>7 DEF Keeps
  <1>. QED
    BY <1>9, <1>10 DEF new, rest

LEMMA LoadKeeps ==
    ASSUME IdsApart, NEW d \in Documents, LoadFlow(d)
    PROVE  Distinct(items') /\ Keeps(items', items)
  <1>0. d \in Seq([id : Id, kind : ItemKind])
    BY SequencerAssumption, Zenon
  <1>1. Len(d) \in Nat /\ DOMAIN d = 1 .. Len(d)
    BY <1>0
  <1>2. items' = [i \in 1 .. Len(d) |-> Item(d[i].id, d[i].kind)]
    BY <1>1 DEF LoadFlow, Edit
  <1>3. Len(items') = Len(d)
    BY <1>1, <1>2
  <1>4. \A i \in 1 .. Len(d) : items'[i].id = d[i].id /\ items'[i].status = "pending"
    BY <1>2 DEF Item
  <1>5. /\ \A i, j \in 1 .. Len(d) : d[i].id = d[j].id => i = j
        /\ \A i \in 1 .. Len(d) : d[i].id \notin Reserved
    BY <1>1 DEF IdsApart
  <1>6. Distinct(items')
    BY <1>3, <1>4, <1>5, Zenon DEF Distinct
  <1>7. Keeps(items', items)
    BY <1>3, <1>4, Zenon DEF Keeps
  <1>. QED
    BY <1>6, <1>7

LEMMA RemoveKeeps ==
    ASSUME PanelTypeOK, Distinct(items), NEW rows \in SUBSET DOMAIN items, RemoveSelected(rows)
    PROVE  Distinct(items') /\ Keeps(items', items)
  <1> DEFINE n == Len(items) - Cardinality(rows)
  <1>1. items \in Seq(SequenceItem) /\ Len(items) \in Nat /\ DOMAIN items = 1 .. Len(items)
    BY DEF PanelTypeOK
  <1>2. n \in Nat
    <2>1. IsFiniteSet(DOMAIN items) /\ Cardinality(DOMAIN items) = Len(items)
      BY <1>1, RowsAreFinite
    <2>2. /\ IsFiniteSet(rows) /\ Cardinality(rows) <= Cardinality(DOMAIN items)
          /\ Cardinality(rows) \in Nat
      BY <2>1, FS_Subset, FS_CardinalityType
    <2>. QED
      BY <1>1, <2>1, <2>2
  <1>3. PICK left \in [1 .. n -> DOMAIN items \ rows] :
               /\ \A i, j \in DOMAIN left : i < j => left[i] < left[j]
               /\ items' = [i \in DOMAIN left |-> items[left[i]]]
    BY DEF RemoveSelected, Edit
  <1> HIDE DEF n
  <1>4. Len(items') = n /\ \A i \in 1 .. n : items'[i] = items[left[i]] /\ left[i] \in 1 .. Len(items)
    BY <1>1, <1>2, <1>3
  <1>5. ASSUME NEW i \in 1 .. n, NEW j \in 1 .. n, items'[i].id = items'[j].id
        PROVE  i = j
    <2>1. left[i] = left[j]
      BY <1>4, <1>5, SMTT(20) DEF Distinct
    <2>2. i \in Int /\ j \in Int /\ left[i] \in Int
      BY <1>2, <1>4
    <2>3. ~(i < j) /\ ~(j < i)
      BY <1>3, <2>1, <2>2
    <2>. QED
      BY <2>2, <2>3
  <1>. QED
    BY <1>4, <1>5 DEF Distinct, Keeps

LEMMA ReplaceKeeps ==
    ASSUME PanelTypeOK, Distinct(items), CaptureReplaces
    PROVE  Distinct(items') /\ Keeps(items', items)
  <1>1. items \in Seq(SequenceItem) /\ Len(items) \in Nat /\ DOMAIN items = 1 .. Len(items)
    BY DEF PanelTypeOK
  <1>2. CASE capture.row \in DOMAIN items
    <2> DEFINE new == Item(items[capture.row].id, "inline")
    <2>1. items' = [items EXCEPT ![capture.row] = new]
      BY <1>2 DEF CaptureReplaces
    <2>2. new.id = items[capture.row].id /\ new.status = "pending"
      BY DEF Item
    <2> HIDE DEF new
    <2>3. Len(items') = Len(items)
      BY <1>1, <1>2, <2>1
    <2>4. \A i \in 1 .. Len(items) : items'[i] = IF i = capture.row THEN new ELSE items[i]
      BY <1>1, <2>1
    <2>. QED
      BY <2>2, <2>3, <2>4 DEF Distinct, Keeps
  <1>3. CASE capture.row \notin DOMAIN items
    BY <1>3 DEF CaptureReplaces, Distinct, Keeps
  <1>. QED
    BY <1>2, <1>3

(* Whatever the user does to the list, every row that shows something is   *)
(* one that showed it before.                                              *)
LEMMA EditKeeps ==
    ASSUME IdsApart, PanelTypeOK, Distinct(items), EditStep
    PROVE  Distinct(items') /\ Keeps(items', items)
  <1>1. items \in Seq(SequenceItem) /\ DOMAIN items = 1 .. Len(items)
    BY DEF PanelTypeOK
  <1>2. ASSUME NEW new \in NewItems, NEW row \in 1 .. Len(items) + 1,
               InsertItem(new, row) \/ CaptureInserts(new, row)
        PROVE  Distinct(items') /\ Keeps(items', items)
    <2>1. new.id \in Id \ Reserved /\ new.kind \in ItemKind
      BY SequencerAssumption DEF IdsApart
    <2>2. /\ items' = InsertAt(items, row, Item(new.id, new.kind))
          /\ \A i \in DOMAIN items : items[i].id # new.id
      BY <1>2 DEF InsertItem, CaptureInserts, Edit
    <2>. QED
      BY <1>1, <2>1, <2>2, InsertKeeps
  <1>3. ASSUME NEW from \in DOMAIN items, NEW to \in DOMAIN items, MoveItem(from, to)
        PROVE  Distinct(items') /\ Keeps(items', items)
    BY <1>1, <1>3, MoveKeeps DEF MoveItem, Edit
  <1>4. CASE UNCHANGED items
    BY <1>4 DEF Distinct, Keeps
  <1>. QED
    BY <1>2, <1>3, <1>4, LoadKeeps, RemoveKeeps, ReplaceKeeps
       DEF EditStep, AskCapture, CancelCapture

-----------------------------------------------------------------------------

(* A message that has a row to show it names a node of the flow.           *)
IsNamed(m) == m.kind \in {"start", "done"} => m.node \in DOMAIN flow.node

(* What a step of the worker adds to the messages.                         *)
AddsNamed ==
    \/ \E m \in Message : Says(<<m>>) /\ IsNamed(m)
    \/ \E m, n \in Message : Says(<<m, n>>) /\ IsNamed(m) /\ IsNamed(n)
    \/ UNCHANGED told

LEMMA EndNames ==
    ASSUME TypeOK, run > 0, cur \in DOMAIN flow.node, NEW edge,
           Fail(edge) \/ Succeed(edge) \/ RaiseUnreported \/ (Follow(edge) /\ UNCHANGED told)
    PROVE  AddsNamed
  <1>1. /\ Tell("done", TRUE) \in Message /\ Tell("done", FALSE) \in Message
        /\ Tell("error", FALSE) \in Message
    BY TellIsMessage
  <1>2. /\ IsNamed(Tell("done", TRUE)) /\ IsNamed(Tell("done", FALSE))
        /\ IsNamed(Tell("error", FALSE))
    BY DEF IsNamed, Tell
  <1>. QED
    BY <1>1, <1>2 DEF AddsNamed, Fail, Succeed, RaiseUnreported

LEMMA WorkerNames ==
    ASSUME TypeOK, Worker
    PROVE  AddsNamed /\ UNCHANGED <<run, flow>>
  <1>1. run > 0
    BY DEF Worker, Loop, ExecPlay, ExecWait, ExecColor, ExecCounter, ExecEnd, Play, Store, Await,
           Halt, Forget, Report, Step, TypeOK, WalkTypeOK
  <1>2. at \in {"exec", "play", "store", "wait", "report"} => cur \in DOMAIN flow.node
    BY DEF TypeOK, WalkTypeOK
  <1>3. CASE Loop
    <2>1. /\ Tell("start", TRUE) \in Message /\ Tell("complete", TRUE) \in Message
          /\ Tell("error", FALSE) \in Message
      BY <1>1, TellIsMessage
    <2>2. /\ cur \in DOMAIN flow.node => IsNamed(Tell("start", TRUE))
          /\ IsNamed(Tell("complete", TRUE)) /\ IsNamed(Tell("error", FALSE))
      BY DEF IsNamed, Tell
    <2>. QED
      BY <1>3, <2>1, <2>2 DEF Loop, AddsNamed, control, local
  <1>4. CASE ExecPlay
    BY <1>1, <1>2, <1>4, EndNames DEF ExecPlay, AddsNamed, control
  <1>5. CASE ExecWait \/ ExecColor \/ ExecEnd
    BY <1>1, <1>2, <1>5, EndNames DEF ExecWait, ExecColor, ExecEnd, control
  <1>6. CASE ExecCounter
    BY <1>1, <1>2, <1>6, EndNames DEF ExecCounter, control
  <1>7. CASE Play
    BY <1>1, <1>2, <1>7, EndNames DEF Play, AddsNamed, control
  <1>8. CASE Store \/ Await \/ Halt \/ Forget
    BY <1>8 DEF Store, Await, Halt, Forget, Step, Follow, AddsNamed, local, control
  <1>9. CASE Report
    BY <1>1, <1>2, <1>9, EndNames DEF Report
  <1>. QED
    BY <1>3, <1>4, <1>5, <1>6, <1>7, <1>8, <1>9 DEF Worker

(* A panel that holds an engine shows the flow it was given.               *)
NodesOf(list) ==
    {NodeId(list, i) : i \in 1 .. Len(list)}
        \cup (IF MacrosOnly(list) THEN {WaitId[i] : i \in DOMAIN WaitId} ELSE {})
        \cup {"end_success", "end_error"}

Names ==
    \A n \in 1 .. Len(told) : told[n].run = run => IsNamed(told[n])

RowInv ==
    /\ Distinct(items)
    /\ Names
    /\ engine => /\ DOMAIN flow.node \subseteq NodesOf(items)
                 /\ \A i \in 1 .. Len(items) : items[i].node = NodeId(items, i)
    /\ RowsShowTheirNodes

LEMMA BuiltNodes ==
    ASSUME NEW list \in Rows, NEW gap \in BOOLEAN
    PROVE  DOMAIN BuildFlow(list, gap).node \subseteq NodesOf(list)
  <1> DEFINE rows == {NodeId(list, i) : i \in DOMAIN list}
             gaps == {WaitId[i] : i \in Gaps(list, gap)}
             ends == {"end_success"} \cup
                     IF \E i \in DOMAIN list : list[i].kind # "wait" THEN {"end_error"} ELSE {}
  <1>1. DOMAIN BuildFlow(list, gap).node = rows \cup gaps \cup ends
    BY DEF BuildFlow
  <1>2. DOMAIN list = 1 .. Len(list) /\ Len(list) \in Nat /\ Len(list) <= Len(MacroId)
        /\ DOMAIN WaitId = 1 .. Len(MacroId)
    BY SequencerAssumption DEF Rows
  <1>3. rows = {NodeId(list, i) : i \in 1 .. Len(list)}
    BY <1>2
  <1>4. gaps \subseteq IF MacrosOnly(list) THEN {WaitId[i] : i \in DOMAIN WaitId} ELSE {}
    BY <1>2 DEF Gaps
  <1>5. ends \subseteq {"end_success", "end_error"}
    OBVIOUS
  <1>. QED
    BY <1>1, <1>3, <1>4, <1>5 DEF NodesOf

(* _node_id_to_idx finds the row a node was made of, and no row for the    *)
(* others.                                                                 *)
LEMMA RowIsFound ==
    ASSUME IdsApart, items \in Rows, Distinct(items),
           NEW id \in NodesOf(items), NEW i \in 1 .. Len(items)
    PROVE  RowOf(id) = i <=> NodeId(items, i) = id
  <1> DEFINE named == {j \in DOMAIN items : items[j].id = id}
             numbered == {j \in DOMAIN items : MacroId[j] = id}
  <1>1. /\ DOMAIN items = 1 .. Len(items) /\ Len(items) \in Nat
        /\ Len(items) <= Len(MacroId) /\ DOMAIN MacroId = 1 .. Len(MacroId)
    BY SequencerAssumption DEF Rows
  <1>2. RowOf(id) = CASE named # {} -> CHOOSE j \in named : \A k \in named : j <= k
                      [] named = {} /\ numbered # {} -> CHOOSE j \in numbered : TRUE
                      [] OTHER -> 0
    BY DEF RowOf
  <1>3. CASE MacrosOnly(items)
    <2>1. id \in Reserved
      BY <1>1, <1>3 DEF NodesOf, NodeId, Reserved
    <2>2. named = {}
      BY <1>1, <2>1 DEF Distinct
    <2>3. NodeId(items, i) = MacroId[i]
      BY <1>3 DEF NodeId
    <2>4. \A j \in numbered : MacroId[j] = id /\ j \in DOMAIN MacroId
      BY <1>1
    <2>5. CASE MacroId[i] = id
      <3>1. numbered = {i}
        BY <1>1, <2>5 DEF IdsApart
      <3>2. RowOf(id) = CHOOSE j \in numbered : TRUE
        BY <1>2, <2>2, <3>1
      <3>. QED
        BY <2>3, <2>5, <3>1, <3>2
    <2>6. CASE MacroId[i] # id
      <3>1. i \notin numbered
        BY <2>6
      <3>2. RowOf(id) \in numbered \cup {0}
        BY <1>2, <2>2
      <3>. QED
        BY <1>1, <2>3, <2>6, <3>1, <3>2
    <2>. QED
      BY <2>5, <2>6
  <1>4. CASE ~MacrosOnly(items)
    <2>1. \A j \in 1 .. Len(items) : NodeId(items, j) = items[j].id
      BY <1>4 DEF NodeId
    <2>2. CASE id \in Reserved
      <3>1. id \in {"end_success", "end_error"}
        BY <1>4, <2>1, <2>2 DEF NodesOf, Distinct
      <3>2. named = {} /\ numbered = {}
        BY <1>1, <2>2, <3>1 DEF Distinct, IdsApart
      <3>. QED
        BY <1>1, <1>2, <2>1, <3>2
    <2>3. CASE id \notin Reserved
      <3>1. PICK k \in 1 .. Len(items) : items[k].id = id
        BY <1>4, <2>1, <2>3 DEF NodesOf, Reserved
      <3>2. named = {k}
        BY <1>1, <3>1 DEF Distinct
      <3>3. RowOf(id) = CHOOSE j \in named : \A l \in named : j <= l
        BY <1>2, <3>2
      <3>4. RowOf(id) = k
        BY <3>2, <3>3
      <3>. QED
        BY <2>1, <3>1, <3>4 DEF Distinct
    <2>. QED
      BY <2>2, <2>3
  <1>. QED
    BY <1>3, <1>4

(* The messages of the present run about the node of a row, so far.        *)
Said(node) == {n \in 1 .. seen : told[n].run = run /\ told[n].node = node
                                 /\ told[n].kind \in {"start", "done"}}
Shown(item) ==
    item.status # "pending" =>
        \E n \in Said(item.node) : /\ item.status = Shows(told[n])
                                   /\ engine => \A other \in Said(item.node) : other <= n

LEMMA RowsShown ==
    RowsShowTheirNodes <=> \A i \in DOMAIN items : Shown(items[i])
  BY DEF RowsShowTheirNodes, Shown, Said

(* What is shown stays true while nothing of the present run is heard.     *)
LEMMA ShownKept ==
    ASSUME PanelTypeOK, PanelTypeOK', RowsShowTheirNodes, Keeps(items', items), run' = run,
           seen' \in Nat, seen <= seen',
           \A n \in 1 .. seen : told'[n] = told[n],
           engine' => engine /\ \A n \in seen + 1 .. seen' : told'[n].run # run
    PROVE  RowsShowTheirNodes'
  <1>1. /\ DOMAIN items = 1 .. Len(items) /\ DOMAIN items' = 1 .. Len(items')
        /\ seen \in Nat
    BY DEF PanelTypeOK
  <1>2. \A i \in DOMAIN items : Shown(items[i])
    BY RowsShown
  <1>3. ASSUME NEW i \in DOMAIN items', NEW item, item = items'[i]
        PROVE  Shown(item)'
    <2>1. CASE item.status = "pending"
      BY <2>1 DEF Shown
    <2>2. CASE item.status # "pending"
      <3>1. PICK j \in DOMAIN items : item = items[j]
        BY <1>1, <1>3, <2>2 DEF Keeps
      <3>2. PICK n \in Said(item.node) :
                 /\ item.status = Shows(told[n])
                 /\ engine => \A other \in Said(item.node) : other <= n
        BY <1>2, <2>2, <3>1 DEF Shown
      <3>3. told'[n] = told[n] /\ n \in Said(item.node)'
        BY <1>1, <3>2 DEF Said
      <3>4. engine' => Said(item.node)' \subseteq Said(item.node)
        BY <1>1 DEF Said
      <3>. QED
        BY <3>2, <3>3, <3>4 DEF Shown, Shows
    <2>. QED
      BY <2>1, <2>2
  <1>4. (\A i \in DOMAIN items : Shown(items[i]))'
    BY <1>3, Zenon DEF Shown, Said
  <1>. QED
    BY <1>4, Zenon DEF RowsShowTheirNodes, Shown, Said

(* A message of the run the panel holds is shown by the row of its node.   *)
LEMMA ShowShows ==
    ASSUME IdsApart, SeqInv, PanelTypeOK', RowInv, engine, seen < Len(told), seen' = seen + 1,
           told[seen + 1].run = run, told[seen + 1].kind \in {"start", "done"},
           Show(told[seen + 1]), UNCHANGED vars
    PROVE  RowInv'
  <1> DEFINE msg == told[seen + 1]
  <1>1. /\ items \in Seq(SequenceItem) /\ Len(items) \in Nat /\ Len(items) <= MaxItems
        /\ seen \in Nat /\ Len(told) \in Nat /\ DOMAIN items = 1 .. Len(items)
    BY DEF SeqInv, EngineInv, TypeOK, PanelTypeOK
  <1>2. UNCHANGED <<run, told, flow, engine>>
    BY DEF vars, local, control, Show
  <1>3. msg.node \in NodesOf(items)
    BY <1>1 DEF RowInv, Names, IsNamed
  <1>4. /\ Len(items') = Len(items)
        /\ \A i \in 1 .. Len(items) :
              items'[i] = IF i = RowOf(msg.node) THEN [items[i] EXCEPT !.status = Shows(msg)]
                          ELSE items[i]
    BY <1>1 DEF Show
  <1>5. ASSUME NEW i \in 1 .. Len(items)
        PROVE  /\ items'[i].id = items[i].id /\ items'[i].kind = items[i].kind
               /\ items'[i].node = items[i].node
               /\ items'[i].status = IF i = RowOf(msg.node) THEN Shows(msg) ELSE items[i].status
    <2>1. items[i] \in SequenceItem
      BY <1>1
    <2>. QED
      BY <1>4, <2>1 DEF SequenceItem
  <1>6. /\ MacrosOnly(items') = MacrosOnly(items)
        /\ \A i \in 1 .. Len(items) : NodeId(items', i) = NodeId(items, i)
    <2>1. MacrosOnly(items') <=> MacrosOnly(items)
      BY <1>1, <1>4, <1>5, SMTT(20) DEF MacrosOnly, PanelTypeOK
    <2>. QED
      BY <1>5, <2>1 DEF NodeId, MacrosOnly
  <1>7. Distinct(items') /\ Names'
    BY <1>2, <1>4, <1>5 DEF RowInv, Distinct, Names, IsNamed
  <1>8. /\ DOMAIN flow'.node \subseteq NodesOf(items')
        /\ \A i \in 1 .. Len(items') : items'[i].node = NodeId(items', i)
    BY <1>2, <1>4, <1>5, <1>6 DEF RowInv, NodesOf
  <1>9. ASSUME NEW i \in 1 .. Len(items), NEW item, item = items'[i]
        PROVE  Shown(item)'
    <2>0. items \in Rows
      BY <1>1, SequencerAssumption DEF Rows
    <2>1. RowOf(msg.node) = i <=> items[i].node = msg.node
      BY <1>3, <2>0, RowIsFound DEF RowInv
    <2>2. CASE RowOf(msg.node) = i
      <3>1. seen + 1 \in Said(item.node)'
        BY <1>1, <1>2, <1>5, <1>9, <2>1, <2>2 DEF Said
      <3>2. \A other \in Said(item.node)' : other <= seen + 1
        BY <1>1 DEF Said
      <3>3. item.status = Shows(told'[seen + 1])
        BY <1>2, <1>5, <1>9, <2>2
      <3>. QED
        BY <3>1, <3>2, <3>3 DEF Shown, Shows
    <2>3. CASE RowOf(msg.node) # i
      <3>1. Said(item.node)' = Said(item.node)
        BY <1>1, <1>2, <1>5, <1>9, <2>1, <2>3 DEF Said
      <3>2. Shown(items[i]) /\ item = items[i]
        BY <1>1, <1>4, <1>9, <2>3, RowsShown DEF RowInv
      <3>. QED
        BY <1>2, <3>1, <3>2 DEF Shown, Shows
    <2>. QED
      BY <2>2, <2>3
  <1>10. RowsShowTheirNodes'
    <2>1. DOMAIN items' = 1 .. Len(items)
      BY <1>4 DEF PanelTypeOK
    <2>2. (\A i \in DOMAIN items : Shown(items[i]))'
      BY <1>9, <2>1, Zenon DEF Shown, Said
    <2>. QED
      BY <2>2, Zenon DEF RowsShowTheirNodes, Shown, Said
  <1>. QED
    BY <1>7, <1>8, <1>10 DEF RowInv

(* A step that neither starts a run nor handles a message.                 *)
LEMMA QuietStep ==
    ASSUME SeqInv, PanelTypeOK', RowInv,
           UNCHANGED <<run, flow, seen>>, engine' => engine,
           items' = items \/ (~engine' /\ Distinct(items') /\ Keeps(items', items)),
           AddsNamed
    PROVE  RowInv'
  <1>1. told \in Seq(Message) /\ Len(told) \in Nat /\ seen \in 0 .. Len(told)
    BY DEF SeqInv, EngineInv, TypeOK, PanelTypeOK
  <1>2. /\ Len(told') \in Nat
        /\ \A n \in 1 .. Len(told) : told'[n] = told[n]
        /\ \A n \in 1 .. Len(told') : n \in 1 .. Len(told) \/ IsNamed(told'[n])
    <2>1. ASSUME NEW m \in Message, Says(<<m>>), IsNamed(m)
          PROVE  <1>2!:
      BY <1>1, <2>1, SaysOne
    <2>2. ASSUME NEW m \in Message, NEW n \in Message, Says(<<m, n>>), IsNamed(m), IsNamed(n)
          PROVE  <1>2!:
      BY <1>1, <2>2, SaysTwo
    <2>. QED
      BY <1>1, <2>1, <2>2 DEF AddsNamed
  <1>3. Names'
    BY <1>2 DEF RowInv, Names, IsNamed
  <1>4. Distinct(items') /\ Keeps(items', items)
    BY DEF RowInv, Keeps
  <1>5. RowsShowTheirNodes'
    <2>1. \A n \in 1 .. seen : told'[n] = told[n]
      BY <1>1, <1>2
    <2>2. \A n \in seen + 1 .. seen' : told'[n].run # run
      BY <1>1
    <2>3. PanelTypeOK /\ RowsShowTheirNodes /\ run' = run
      BY DEF SeqInv, RowInv
    <2>. QED
      BY <1>1, <1>4, <2>1, <2>2, <2>3, ShownKept
  <1>. QED
    BY <1>3, <1>4, <1>5 DEF RowInv, NodesOf, NodeId, MacrosOnly

LEMMA DeliverRows ==
    ASSUME IdsApart, SeqInv, PanelTypeOK', RowInv, Deliver
    PROVE  RowInv'
  <1> DEFINE msg == told[seen + 1]
  <1>1. told \in Seq(Message) /\ Len(told) \in Nat /\ seen \in Nat /\ seen < Len(told)
    BY DEF SeqInv, EngineInv, TypeOK, PanelTypeOK, Deliver
  <1>2. seen' = seen + 1 /\ UNCHANGED vars /\ UNCHANGED <<run, told, flow>>
    BY DEF Deliver, vars, local, control
  <1>3. msg \in Message /\ msg.run \in 1 .. MaxRuns
    <2>1. msg \in Message
      BY <1>1, ElementOfSeq
    <2>. QED
      BY <2>1 DEF Message
  <1>4. active = IF engine THEN run ELSE None
    BY DEF SeqInv, PanelTypeOK
  <1>5. CASE msg.run = active /\ msg.kind \in {"start", "done"}
    <2>1. engine /\ msg.run = run
      BY <1>3, <1>4, <1>5, FlowAssumption
    <2>2. Show(msg)
      BY <1>5 DEF Deliver
    <2>. QED
      BY <1>1, <1>2, <1>5, <2>1, <2>2, ShowShows
  <1>6. CASE msg.run # active \/ msg.kind \notin {"start", "done"}
    <2>1. items' = items /\ (engine' => engine /\ msg.run # run)
      BY <1>4, <1>6 DEF Deliver, FinishGeneration
    <2>2. Distinct(items') /\ Names' /\ Keeps(items', items)
      BY <1>2, <2>1 DEF RowInv, Names, IsNamed, Keeps
    <2>3. RowsShowTheirNodes'
      <3>1. \A n \in seen + 1 .. seen' : n = seen + 1
        BY <1>1, <1>2
      <3>2. PanelTypeOK /\ RowsShowTheirNodes
        BY DEF SeqInv, RowInv
      <3>. QED
        BY <1>1, <1>2, <2>1, <2>2, <3>1, <3>2, ShownKept
    <2>. QED
      BY <1>2, <2>1, <2>2, <2>3 DEF RowInv, NodesOf, NodeId, MacrosOnly
  <1>. QED
    BY <1>5, <1>6

LEMMA RunRows ==
    ASSUME SeqInv, RowInv, PanelTypeOK',
           RunSequenceFails \/ \E gap \in BOOLEAN : RunSequence(gap)
    PROVE  RowInv'
  <1>1. /\ items \in Seq(SequenceItem) /\ Len(items) \in Nat /\ DOMAIN items = 1 .. Len(items)
        /\ run \in Nat /\ told \in Seq(Message) /\ Len(told) \in Nat
        /\ \A n \in 1 .. Len(told) : told[n].run <= run
    BY DEF SeqInv, EngineInv, TypeOK, WalkTypeOK, PanelTypeOK, ReportInv, Ordered
  <1>2. items' = Reset /\ items # <<>> /\ items \in Rows
    <2>1. items' = Reset /\ items # <<>>
      BY DEF RunSequence, RunSequenceFails
    <2>2. Len(items) <= MaxItems
      BY DEF SeqInv, PanelTypeOK
    <2>3. Len(items) >= 1
      BY <1>1, <2>1
    <2>4. MaxItems \in Nat /\ MaxItems <= Len(MacroId)
      BY SequencerAssumption
    <2>. QED
      BY <1>1, <2>1, <2>2, <2>3, <2>4 DEF Rows
  <1>3. Len(items') = Len(items)
    <2>1. DOMAIN items' = DOMAIN items
      BY <1>2 DEF Reset
    <2>2. Len(items') \in Nat /\ DOMAIN items' = 1 .. Len(items')
      BY DEF PanelTypeOK
    <2>. QED
      BY <1>1, <2>1, <2>2
  <1>4. ASSUME NEW i \in 1 .. Len(items)
        PROVE  /\ items'[i].id = items[i].id /\ items'[i].kind = items[i].kind
               /\ items'[i].node = NodeId(items, i) /\ items'[i].status = "pending"
    <2>1. items[i] \in SequenceItem
      BY <1>1
    <2>2. items'[i] = [items[i] EXCEPT !.status = "pending", !.node = NodeId(items, i)]
      BY <1>1, <1>2 DEF Reset
    <2>. QED
      BY <2>1, <2>2 DEF SequenceItem
  <1>5. /\ MacrosOnly(items') <=> MacrosOnly(items)
        /\ \A i \in 1 .. Len(items) : NodeId(items', i) = NodeId(items, i)
    <2>1. DOMAIN items' = 1 .. Len(items)
      BY <1>3 DEF PanelTypeOK
    <2>2. MacrosOnly(items') <=> MacrosOnly(items)
      BY <1>1, <1>4, <2>1, Zenon DEF MacrosOnly
    <2>. QED
      BY <1>4, <2>2 DEF NodeId
  <1>6. Distinct(items')
    BY <1>3, <1>4 DEF RowInv, Distinct
  <1>7. RowsShowTheirNodes'
    <2>1. DOMAIN items' = 1 .. Len(items)
      BY <1>3 DEF PanelTypeOK
    <2>. QED
      BY <1>4, <2>1 DEF RowsShowTheirNodes
  <1>8. CASE RunSequenceFails
    <2>1. ~engine' /\ UNCHANGED <<run, told, flow>>
      BY <1>8 DEF RunSequenceFails, StartFails, local
    <2>. QED
      BY <1>6, <1>7, <2>1 DEF RowInv, Names, IsNamed
  <1>9. ASSUME NEW gap \in BOOLEAN, RunSequence(gap)
        PROVE  RowInv'
    <2>1. run' = run + 1 /\ told' = told /\ flow' = BuildFlow(items, gap)
      BY <1>9 DEF RunSequence, Start, Launch
    <2>2. Names'
      <3>1. \A n \in 1 .. Len(told) : told[n].run # run'
        BY <1>1, <2>1
      <3>. QED
        BY <2>1, <3>1 DEF Names
    <2>3. DOMAIN flow'.node \subseteq NodesOf(items')
      <3>1. NodesOf(items') = NodesOf(items)
        BY <1>3, <1>5 DEF NodesOf
      <3>. QED
        BY <1>2, <2>1, <3>1, BuiltNodes
    <2>. QED
      BY <1>3, <1>4, <1>5, <1>6, <1>7, <2>2, <2>3 DEF RowInv
  <1>. QED
    BY <1>8, <1>9

LEMMA RowStep ==
    ASSUME IdsApart, SeqInv, RowInv, [SeqNext]_allVars
    PROVE  RowInv'
  <1>1. PanelTypeOK /\ PanelTypeOK' /\ TypeOK
    BY GuiTypes DEF SeqInv, EngineInv
  <1>2. CASE Engine(Worker)
    <2>1. UNCHANGED panel /\ AddsNamed /\ UNCHANGED <<run, flow>>
      BY <1>1, <1>2, WorkerNames DEF Engine
    <2>. QED
      BY <1>1, <2>1, QuietStep DEF panel
  <1>3. CASE Engine(Player) \/ Engine(StopPlayer(Gui) \/ StopJoin(Gui)) \/ StopSequence
    <2>1. UNCHANGED <<run, flow, told>>
      BY <1>3 DEF Engine, Player, PlayerEnds, PlayerCalls, PlayerDies, StopPlayer, StopJoin,
                  StopSequence, StopEnter, local, control
    <2>2. UNCHANGED panel
      BY <1>3 DEF Engine, StopSequence
    <2>. QED
      BY <1>1, <2>1, <2>2, QuietStep DEF panel, AddsNamed
  <1>4. CASE StopReturns \/ PollStopping
    <2>1. UNCHANGED <<run, flow, told, items, seen>>
      BY <1>4 DEF StopReturns, PollStopping, StopFinal, vars, local, control
    <2>2. engine' => engine
      BY <1>4 DEF StopReturns, PollStopping, FinishGeneration
    <2>. QED
      BY <1>1, <2>1, <2>2, QuietStep DEF AddsNamed
  <1>5. CASE Deliver
    BY <1>1, <1>5, DeliverRows
  <1>6. CASE EditStep
    <2>1. UNCHANGED <<run, flow, told, engine, seen>>
      BY <1>6
         DEF EditStep, LoadFlow, InsertItem, RemoveSelected, MoveItem, AskCapture, CaptureInserts,
             CaptureReplaces, CancelCapture, Edit, vars, local, control
    <2>2. items' = items \/ ~engine
      BY <1>6
         DEF EditStep, LoadFlow, InsertItem, RemoveSelected, MoveItem, AskCapture, CaptureInserts,
             CaptureReplaces, CancelCapture, Edit, Editable
    <2>3. Distinct(items') /\ Keeps(items', items)
      BY <1>1, <1>6, EditKeeps DEF RowInv
    <2>. QED
      BY <1>1, <2>1, <2>2, <2>3, QuietStep DEF AddsNamed
  <1>7. CASE RunSequenceFails \/ \E gap \in BOOLEAN : RunSequence(gap)
    BY <1>1, <1>7, RunRows
  <1>8. CASE UNCHANGED allVars
    BY <1>1, <1>8, QuietStep DEF allVars, vars, panel, local, control, AddsNamed
  <1>. QED
    BY <1>2, <1>3, <1>4, <1>5, <1>6, <1>7, <1>8 DEF SeqNext, GuiStep, Engine

(* What a row shows is what the present run said of the node built from    *)
(* it, and while the run goes on what it said last, however the list was    *)
(* edited before and whatever messages of earlier runs wait in the queue:  *)
(* for lists whose step ids are apart from the numbered names.             *)
THEOREM RowsTellTheRun == ASSUME IdsApart PROVE SeqSpec => []RowsShowTheirNodes
  <1>1. SeqInit => RowInv
    BY DEF SeqInit, Init, RowInv, Distinct, Names, RowsShowTheirNodes
  <1>2. SeqInv /\ RowInv /\ [SeqNext]_allVars => RowInv'
    BY RowStep
  <1>3. RowInv => RowsShowTheirNodes
    BY DEF RowInv
  <1>. QED
    BY <1>1, <1>2, <1>3, SequencerInv, PTL DEF SeqSpec

=============================================================================
