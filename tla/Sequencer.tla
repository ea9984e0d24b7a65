----------------------------- MODULE Sequencer -----------------------------
(***************************************************************************)
(* The sequencer panel, src/macroflow/ui/sequencer.py, composed with the   *)
(* flow engine it makes for every run: a list of items the user edits, the *)
(* flow built from it, and the engine walking that flow.  The engine's     *)
(* worker calls back through Qt signals: its messages wait in the event    *)
(* queue of the GUI thread, which handles them one at a time, in order,    *)
(* and never while it stands in a stop of the engine.                      *)
(***************************************************************************)
EXTENDS FlowEngine, SequencesExt

CONSTANTS
    Gui,            \* the GUI thread, the one caller of the engine
    MacroId,        \* <<"macro_000", "macro_001", ...>> and
    WaitId,         \* <<"wait_000", "wait_001", ...>>: the names
                    \* _build_canonical_flow gives the nodes of its rows
    Documents,      \* the lists of items that .macroflow files hold
    NewItems,       \* what _MacroItem and the add_* actions make
    MaxItems        \* bound: the items of the list

ItemKind == {"macro", "inline", "wait"}

ASSUME SequencerAssumption ==
    /\ Caller = {Gui}
    /\ MacroId \in Seq(Id) /\ WaitId \in Seq(Id) /\ Len(WaitId) = Len(MacroId)
    /\ "end_success" \in Id /\ "end_error" \in Id
    /\ MaxItems \in 1 .. Len(MacroId)
    /\ \A d \in Documents : Len(d) \in 1 .. MaxItems /\ d \in Seq([id : Id, kind : ItemKind])
    /\ NewItems \subseteq [id : Id, kind : ItemKind]

(* The names _build_canonical_flow gives by number, and the ends.          *)
Reserved == {MacroId[i] : i \in DOMAIN MacroId} \cup {WaitId[i] : i \in DOMAIN WaitId}
                \cup {"end_success", "end_error"}

(* No step is called by such a name, and no document has two of one name:  *)
(* the step_id is random where an item is made, unique where a v1.1        *)
(* document is saved.  It is not so for a document of v1.0, whose rows are *)
(* loaded under the names macro_NNN.                                       *)
IdsApart ==
    /\ \A i, j \in DOMAIN MacroId : MacroId[i] = MacroId[j] => i = j
    /\ \A i \in DOMAIN MacroId :
          /\ \A j \in DOMAIN WaitId : MacroId[i] # WaitId[j]
          /\ MacroId[i] \notin {"end_success", "end_error"}
    /\ \A d \in Documents : \A i, j \in DOMAIN d : d[i].id = d[j].id => i = j
    /\ \A d \in Documents : \A i \in DOMAIN d : d[i].id \notin Reserved
    /\ \A new \in NewItems : new.id \notin Reserved

VARIABLES
    items,          \* _items: id (the step_id), kind, status; and node, the
                    \* node the present run has for it (a history variable)
    engine,         \* _engine is not None
    active,         \* _active_generation
    seen,           \* how many of the messages the GUI has handled
    watch,          \* _stop_watch_timer is running
    capture         \* _f6_capture_cb: the item it is to replace and its row
                    \* when it was asked for, both None for a new item

panel == <<items, engine, active, seen, watch, capture>>
allVars == <<vars, panel>>

Idle == pc[Gui] = "idle"
Engine(action) == action /\ UNCHANGED panel

-----------------------------------------------------------------------------
(* Editing the list, while no engine is held.                              *)

Item(id, kind) == [id |-> id, kind |-> kind, status |-> "pending", node |-> None]

(* An edit after the last run would lead nowhere. *)
Editable == Idle /\ ~engine /\ run < MaxRuns

Edit(list) ==
    /\ Editable
    /\ items' = list
    /\ UNCHANGED <<vars, engine, active, seen, watch, capture>>

LoadFlow(d) == Edit([i \in DOMAIN d |-> Item(d[i].id, d[i].kind)])

(* The new item goes after the current row, or to the end. *)
InsertItem(new, row) ==
    /\ Len(items) < MaxItems
    /\ \A i \in DOMAIN items : items[i].id # new.id
    /\ Edit(InsertAt(items, row, Item(new.id, new.kind)))

(* The other rows stay, in their order. *)
RemoveSelected(rows) ==
    \E left \in [1 .. Len(items) - Cardinality(rows) -> DOMAIN items \ rows] :
        /\ \A i, j \in DOMAIN left : i < j => left[i] < left[j]
        /\ Edit([i \in DOMAIN left |-> items[left[i]]])

(* Drag and drop, which keeps the items and their status. *)
MoveItem(from, to) == Edit(InsertAt(RemoveAt(items, from), to, items[from]))

(* start_click_capture and start_color_wait_capture, for a new item or to  *)
(* edit a row in place; the next F6 gives the place on the screen.         *)
AskCapture(target) ==
    /\ Editable
    /\ capture' = target
    /\ UNCHANGED <<vars, items, engine, active, seen, watch>>

NewCapture == [id |-> None, row |-> None]
CaptureOf(row) == [id |-> items[row].id, row |-> row]

(* consume_f6_capture of a new item. *)
CaptureInserts(new, row) ==
    /\ Editable
    /\ capture = NewCapture /\ new.kind = "inline"
    /\ Len(items) < MaxItems
    /\ \A i \in DOMAIN items : items[i].id # new.id
    /\ items' = InsertAt(items, row, Item(new.id, new.kind))
    /\ capture' = None
    /\ UNCHANGED <<vars, engine, active, seen, watch>>

(* consume_f6_capture of an edit: the new action takes the row it was asked *)
(* for, and the step_id it finds there.                                     *)
CaptureReplaces ==
    /\ Editable
    /\ capture \notin {None, NewCapture}
    /\ items' = IF capture.row \in DOMAIN items
                THEN [items EXCEPT ![capture.row] = Item(@.id, "inline")]
                ELSE items
    /\ capture' = None
    /\ UNCHANGED <<vars, engine, active, seen, watch>>

CancelCapture ==
    /\ Idle /\ capture # None
    /\ capture' = None
    /\ UNCHANGED <<vars, items, engine, active, seen, watch>>

-----------------------------------------------------------------------------
(* The flow of a list: _build_canonical_flow and build_sequence_flow.      *)

PlayNode(kind, then) == [kind |-> kind, then |-> then, else |-> "end_error"]
WaitNode(then) == [kind |-> "wait", then |-> then]
EndNode(success) == [kind |-> "end", success |-> success]

MacrosOnly(list) == \A i \in DOMAIN list : list[i].kind = "macro"

(* The node a row becomes. *)
NodeId(list, i) == IF MacrosOnly(list) THEN MacroId[i] ELSE list[i].id
NextId(list, i) == IF i < Len(list) THEN NodeId(list, i + 1) ELSE "end_success"

(* The waits of a uniform gap stand between the rows of a list of macros. *)
Gaps(list, gap) == IF gap /\ MacrosOnly(list) THEN 1 .. Len(list) - 1 ELSE {}

BuildFlow(list, gap) ==
    LET After(i) == IF i \in Gaps(list, gap) THEN WaitId[i] ELSE NextId(list, i)
        RowNode(i) == IF list[i].kind = "wait" THEN WaitNode(After(i))
                      ELSE PlayNode(list[i].kind, After(i))
        rows == {NodeId(list, i) : i \in DOMAIN list}
        gaps == {WaitId[i] : i \in Gaps(list, gap)}
        ends == {"end_success"} \cup
                IF \E i \in DOMAIN list : list[i].kind # "wait" THEN {"end_error"} ELSE {}
    IN  [start |-> NodeId(list, 1),
         node |-> [id \in rows \cup gaps \cup ends |->
                     IF id \in ends THEN EndNode(id = "end_success")
                     ELSE IF id \in gaps
                     THEN WaitNode(NextId(list, CHOOSE i \in Gaps(list, gap) : WaitId[i] = id))
                     ELSE RowNode(CHOOSE i \in DOMAIN list : NodeId(list, i) = id)]]

(* _node_id_to_idx: the row of a node, or 0. *)
RowOf(id) ==
    LET named == {i \in DOMAIN items : items[i].id = id}
        numbered == {i \in DOMAIN items : MacroId[i] = id}
    IN  CASE named # {} -> CHOOSE i \in named : \A j \in named : i <= j
          [] named = {} /\ numbered # {} -> CHOOSE i \in numbered : TRUE
          [] OTHER -> 0

-----------------------------------------------------------------------------
(* _run_sequence *)
Reset == [i \in DOMAIN items |->
            [items[i] EXCEPT !.status = "pending", !.node = NodeId(items, i)]]

RunSequence(gap) ==
    /\ ~engine /\ items # <<>>
    /\ Start(Gui, BuildFlow(items, gap))
    /\ engine' = TRUE /\ active' = run'
    /\ items' = Reset /\ capture' = None
    /\ UNCHANGED <<seen, watch>>

(* The engine cannot start: the items are reset, and that is all. *)
RunSequenceFails ==
    /\ ~engine /\ items # <<>>
    /\ StartFails(Gui)
    /\ items' = Reset /\ capture' = None
    /\ UNCHANGED <<engine, active, seen, watch>>

(* _finish_stopped_generation *)
FinishGeneration == engine' = FALSE /\ active' = None /\ watch' = FALSE

(* _stop_sequence: the stop of the engine, and what follows its return. *)
StopSequence == engine /\ Engine(StopEnter(Gui))

(* Mutant of StopReturns: the engine is let go when the join timed out too. *)
StopReturnsAlways ==
    /\ StopFinal(Gui)
    /\ FinishGeneration
    /\ UNCHANGED <<items, seen, capture>>

(* Mutant of StopReturns: the watch timer is not started. *)
StopReturnsUnwatched ==
    /\ StopFinal(Gui)
    /\ IF Alive THEN UNCHANGED <<engine, active, watch>> ELSE FinishGeneration
    /\ UNCHANGED <<items, seen, capture>>

StopReturns ==
    /\ StopFinal(Gui)
    /\ IF Alive THEN watch' = TRUE /\ UNCHANGED <<engine, active>> ELSE FinishGeneration
    /\ UNCHANGED <<items, seen, capture>>

PollStopping ==
    /\ watch /\ Idle
    /\ engine /\ ~Alive
    /\ FinishGeneration
    /\ UNCHANGED <<vars, items, seen, capture>>

-----------------------------------------------------------------------------
(* The slots of the signals.                                               *)

(* The status a message gives to the item of its node. *)
Shows(msg) ==
    CASE msg.kind = "start" -> "running"
      [] msg.kind = "done" /\ msg.ok -> "done"
      [] msg.kind = "done" /\ ~msg.ok -> "error"

(* _apply_node_start, _apply_node_done *)
Show(msg) ==
    /\ items' = [i \in DOMAIN items |->
                    IF i = RowOf(msg.node) THEN [items[i] EXCEPT !.status = Shows(msg)]
                    ELSE items[i]]
    /\ UNCHANGED <<engine, active, watch>>

(* Mutant of Deliver: the messages of every run are shown. *)
DeliverAll ==
    /\ Idle /\ seen < Len(told)
    /\ seen' = seen + 1
    /\ LET msg == told[seen + 1]
       IN  IF msg.kind \in {"start", "done"}
           THEN Show(msg)
           ELSE FinishGeneration /\ UNCHANGED items
    /\ UNCHANGED <<vars, capture>>

(* A message of another generation changes nothing. *)
Deliver ==
    /\ Idle /\ seen < Len(told)
    /\ seen' = seen + 1
    /\ LET msg == told[seen + 1]
       IN  IF msg.run # active
           THEN UNCHANGED <<items, engine, active, watch>>
           ELSE \/ msg.kind \in {"start", "done"} /\ Show(msg)
                \/ msg.kind \in {"complete", "error"} /\ FinishGeneration /\ UNCHANGED items
    /\ UNCHANGED <<vars, capture>>

-----------------------------------------------------------------------------
SeqInit ==
    /\ Init
    /\ items = <<>> /\ engine = FALSE /\ active = None /\ seen = 0 /\ watch = FALSE
    /\ capture = None

EditStep ==
    \/ \E d \in Documents : LoadFlow(d)
    \/ \E new \in NewItems, row \in 1 .. Len(items) + 1 : InsertItem(new, row)
    \/ \E rows \in SUBSET DOMAIN items : RemoveSelected(rows)
    \/ \E from, to \in DOMAIN items : MoveItem(from, to)
    \/ AskCapture(NewCapture)
    \/ \E row \in DOMAIN items : items[row].kind = "inline" /\ AskCapture(CaptureOf(row))
    \/ \E new \in NewItems, row \in 1 .. Len(items) + 1 : CaptureInserts(new, row)
    \/ CaptureReplaces \/ CancelCapture

GuiStep == Engine(StopPlayer(Gui) \/ StopJoin(Gui)) \/ StopReturns \/ PollStopping \/ Deliver

SeqNext ==
    \/ Engine(Worker) \/ Engine(Player)
    \/ GuiStep \/ EditStep
    \/ StopSequence \/ RunSequenceFails
    \/ \E gap \in BOOLEAN : RunSequence(gap)

(* The GUI thread handles its events and timers. *)
SeqFairness ==
    /\ WF_allVars(Engine(Worker))
    /\ WF_allVars(Engine(Player) /\ (playerStop \/ player # "running"))
    /\ WF_allVars(GuiStep)

SeqSpec == SeqInit /\ [][SeqNext]_allVars
FairSeqSpec == SeqSpec /\ SeqFairness

-----------------------------------------------------------------------------
(* Properties.                                                             *)

Status == {"pending", "running", "done", "error"}
SequenceItem == [id : Id, kind : ItemKind, status : Status, node : Edge]

(* The panel keeps its types; a generation is active just while an engine  *)
(* is held, and the watch timer runs for nothing else.                     *)
PanelTypeOK ==
    /\ items \in Seq(SequenceItem) /\ Len(items) <= MaxItems
    /\ engine \in BOOLEAN /\ watch \in BOOLEAN
    /\ active = IF engine THEN run ELSE None
    /\ seen \in 0 .. Len(told)
    /\ watch => engine /\ stopFlag

(* The list is open for editing and for a new run, and the keyboard and    *)
(* mouse are the user's again, only when the worker of the last run is     *)
(* dead and its playback is over or was told to stop.                      *)
IdleMeansDead == ~engine => ~Alive /\ (player # "running" \/ playerStop)

(* What a row shows is what the present run said of the node built from    *)
(* it, and while the run goes on what it said last: however the list was   *)
(* edited before, and whatever messages of earlier runs were in the queue. *)
RowsShowTheirNodes ==
    \A i \in DOMAIN items :
        LET said == {n \in 1 .. seen : told[n].run = run /\ told[n].node = items[i].node
                                       /\ told[n].kind \in {"start", "done"}}
        IN  items[i].status # "pending" =>
               \E n \in said : /\ items[i].status = Shows(told[n])
                               /\ engine => \A other \in said : other <= n

(* A captured place is put into the step it was asked for, and into no      *)
(* other: rows may be added, moved and removed before F6 is pressed.       *)
CaptureKeepsOthers ==
    [][\A i \in DOMAIN items :
          CaptureReplaces /\ items[i].id # capture.id => items'[i] = items[i]]_allVars

(* An engine whose worker is dead is let go: the panel does not stay       *)
(* locked, whether the run ended by itself or the join of a stop timed out. *)
DeadEngineIsLetGo == (engine /\ ~Alive) ~> ~engine

=============================================================================
