------------------------------- MODULE Editor -------------------------------
(***************************************************************************)
(* The macro editor: the events of the loaded macro, the rows the table     *)
(* makes of them, edits of rows, insertions, and undo                       *)
(* (src/macroflow/ui/editor.py, editor_rows.py, editor_history.py,          *)
(* editor_actions.py, event_insertions.py, and the edits of macro_file.py). *)
(* An edit asks in a dialog first and is applied when the dialog is         *)
(* accepted.  Until then hotkeys still work: a recording may end, and a     *)
(* captured color be inserted.                                              *)
(*                                                                         *)
(* An event has its id, its kind, the button, key or axis it is about, its  *)
(* time, and a mark for all that edits change; an edit flips the mark.      *)
(***************************************************************************)
EXTENDS Integers, FiniteSets, Sequences, SequencesExt

CONSTANTS
    Macro,          \* recordings and files: sequences of events
    Name,           \* names of buttons, keys and axes, and of single events
    What,           \* keys that a key may be changed to
    May,            \* what users may do beside the ordinary
    MaxUndo,        \* _MAX_UNDO, states that can be gone back to
    MaxEdits,       \* bound: edits, insertions and loads
    MaxMoves        \* bound: undos, redos, appends, switches of the mouse
                    \* moves and of colour checks

Kind == {"press", "release", "down", "up", "wheel", "move", "single"}
Event == [id : Nat \ {0}, kind : Kind, what : Name, at : Int, mark : {0, 1}]

FirstMade == 100    \* the ids that macros come with are no larger

InTime(evs) == \A i, j \in DOMAIN evs : i < j => evs[i].at <= evs[j].at
Distinct(evs) == \A i, j \in DOMAIN evs : evs[i].id = evs[j].id => i = j
Apart(m, n) == \A i \in DOMAIN m, j \in DOMAIN n : m[i].id # n[j].id

(* Every event of a recording has an id of its own.  Recordings need not be *)
(* in the order of their time: colors and texts may come late (Recorder).   *)
ASSUME EditorAssumption ==
    /\ What \cup {"left", "text", "wait", "color"} \subseteq Name
    /\ Macro \subseteq Seq(Event)
    /\ \A m \in Macro : Distinct(m) /\ \A i \in DOMAIN m : m[i].id <= FirstMade
    /\ \A m, n \in Macro : m = n \/ Apart(m, n)
    /\ May \subseteq {"F6 in a dialog", "late answer", "late append", "merge twice"}
    /\ MaxUndo \in Nat \ {0} /\ MaxEdits \in Nat /\ MaxMoves \in Nat

VARIABLES
    events,         \* _macro.events
    raw,            \* _macro.raw_events
    undo, redo,     \* _undo_stack, _redo_stack
    generation,     \* _model_generation
    show,           \* _show_moves
    dialog,         \* the dialog that is open and what its edit remembers
    capture,        \* the color insertion that waits for F6
    base,           \* _append_base_macro, while a recording goes on from it
    made,           \* event ids given out
    edits,          \* counts for MaxEdits
    moves           \* counts for MaxMoves

vars == <<events, raw, undo, redo, generation, show, dialog, capture, base, made, edits, moves>>

Least(S) == CHOOSE i \in S : \A j \in S : i <= j
Most(S) == CHOOSE i \in S : \A j \in S : i >= j

(* The place of the k-th member of a set of places.                         *)
Place(S, k) == CHOOSE i \in S : Cardinality(S \cap 1 .. i) = k
Without(evs, S) ==
    LET kept == DOMAIN evs \ S
    IN  [k \in 1 .. Cardinality(kept) |-> evs[Place(kept, k)]]

-----------------------------------------------------------------------------
(* The rows: sets of places in events.                                      *)

Closes == [press |-> "release", down |-> "up"]

(* Mutant of RowAt: a gesture may end with an event of an earlier row. *)
RowAtAny(evs, i, consumed) ==
    LET e == evs[i]
        later == i + 1 .. Len(evs)
        ends == {j \in later : e.kind \in DOMAIN Closes
                    /\ evs[j].kind = Closes[e.kind] /\ evs[j].what = e.what}
    IN  IF ends = {} THEN {i} ELSE {i, Least(ends)}

(* What one row holds that begins at i.                                     *)
RowAt(evs, i, consumed) ==
    LET e == evs[i]
        later == (i + 1 .. Len(evs)) \ consumed
        ends == {j \in later : e.kind \in DOMAIN Closes
                    /\ evs[j].kind = Closes[e.kind] /\ evs[j].what = e.what}
        same(j) == j \notin consumed /\ evs[j].kind = "wheel" /\ evs[j].what = e.what
    IN  CASE e.kind = "press" /\ ends # {} ->
                {i, Least(ends)} \cup {j \in later : j < Least(ends) /\ evs[j].kind = "move"}
          [] e.kind = "down" /\ ends # {} -> {i, Least(ends)}
          [] e.kind = "wheel" -> {i} \cup {j \in later : \A k \in i + 1 .. j : same(k)}
          [] OTHER -> {i}

Begun == [consumed |-> {}, rows |-> <<>>]

Walked(evs, withMoves, before, i) ==
    IF i \in before.consumed THEN before
    ELSE LET row == RowAt(evs, i, before.consumed) IN
         [consumed |-> before.consumed \cup row,
          rows |-> IF evs[i].kind = "move" /\ ~withMoves THEN before.rows
                   ELSE Append(before.rows, row)]

BuildRows(evs, withMoves) ==
    LET walk[i \in 0 .. Len(evs)] ==
            IF i = 0 THEN Begun ELSE Walked(evs, withMoves, walk[i - 1], i)
    IN  walk[Len(evs)].rows

Rows == BuildRows(events, show)
RowSet == {Rows[r] : r \in DOMAIN Rows}
Primary(row) == Least(row)

-----------------------------------------------------------------------------
(* Undo.                                                                    *)

NoDialog == [kind |-> "none", id |-> 0, row |-> {}, shown |-> <<>>, cut |-> <<>>]
NoCapture == [on |-> FALSE, anchor |-> 0, generation |-> 0]
NoBase == [on |-> FALSE, events |-> <<>>, raw |-> <<>>]
Idle == dialog.kind = "none"
Edit == edits < MaxEdits /\ edits' = edits + 1

(* The undo stack keeps so many states and drops the oldest.                *)
Pushed == Append(IF Len(undo) < MaxUndo THEN undo ELSE Tail(undo), events)

(* Mutant of PushUndo: the redo stack is kept. *)
PushUndoOnly == undo' = Pushed /\ redo' = redo

PushUndo == undo' = Pushed /\ redo' = <<>>

(* _apply_events and what macro_changed leads to.                           *)
Applied(evs) == events' = evs /\ generation' = generation + 1

(* A change of the events that can be undone.                               *)
Change(evs) == PushUndo /\ Applied(evs)

(* An edit that finds nothing to edit takes back its snapshot, but the redo *)
(* stack is gone, and the state the snapshot pushed out.                    *)
Missed == undo' = Front(Pushed) /\ redo' = <<>> /\ UNCHANGED <<events, generation>>

UndoStep ==
    /\ Idle /\ undo # <<>> /\ moves < MaxMoves
    /\ redo' = Append(redo, events)
    /\ undo' = Front(undo)
    /\ Applied(Last(undo))
    /\ moves' = moves + 1
    /\ UNCHANGED <<raw, show, dialog, capture, base, made, edits>>

RedoStep ==
    /\ Idle /\ redo # <<>> /\ moves < MaxMoves
    /\ undo' = Pushed
    /\ redo' = Front(redo)
    /\ Applied(Last(redo))
    /\ moves' = moves + 1
    /\ UNCHANGED <<raw, show, dialog, capture, base, made, edits>>

ToggleMoves ==
    /\ Idle /\ moves < MaxMoves
    /\ show' = ~show
    /\ moves' = moves + 1
    /\ UNCHANGED <<events, raw, undo, redo, generation, dialog, capture, base, made, edits>>

-----------------------------------------------------------------------------
(* Loading.  A recording may end while a dialog is open.                    *)

New(k, kind, what, at) == [id |-> made + k, kind |-> kind, what |-> what, at |-> at, mark |-> 0]
Renewed(evs) == [i \in DOMAIN evs |-> [evs[i] EXCEPT !.id = made + i]]
ShiftedTo(evs, at) == [i \in DOMAIN evs |-> [evs[i] EXCEPT !.at = at + @ - evs[1].at]]
End(evs) == IF evs = <<>> THEN 0 ELSE Most({evs[i].at : i \in DOMAIN evs})

Loaded(evs, original) ==
    /\ events' = evs /\ raw' = original
    /\ undo' = <<>> /\ redo' = <<>>
    /\ generation' = generation + 1
    /\ UNCHANGED <<show, dialog, capture, moves>>

Unasked == dialog.kind # "cut" \/ "late answer" \in May

(* An append puts the places a dialog remembers back to what they were when *)
(* the recording began.                                                     *)
InPlace == base.on /\ ~Idle => base.events = events \/ "late append" \in May

(* A recording that goes on from the macro goes on from what it was when it *)
(* began.                                                                   *)
StartAppend ==
    /\ Idle /\ ~base.on /\ moves < MaxMoves
    /\ base' = [on |-> TRUE, events |-> events, raw |-> raw]
    /\ moves' = moves + 1
    /\ UNCHANGED <<events, raw, undo, redo, generation, show, dialog, capture, made, edits>>

Recorded(m) ==
    /\ Edit /\ Unasked /\ InPlace
    /\ IF base.on
       THEN Loaded(base.events \o ShiftedTo(Renewed(m), End(base.events)), base.raw)
       ELSE Loaded(Renewed(m), Renewed(m))
    /\ base' = NoBase
    /\ made' = made + Len(m)

Opened(m) ==
    /\ Idle /\ Edit
    /\ Loaded(m, m)
    /\ UNCHANGED <<base, made>>

(* The sequencer merges its list into the editor.  Without a step of        *)
(* another kind in the list, ids stay as they are.                          *)
Merged(m, n) ==
    /\ Idle /\ Edit
    /\ m = n => "merge twice" \in May
    /\ LET both == IF m = <<>> THEN n ELSE m \o ShiftedTo(n, End(m) + 1) IN Loaded(both, both)
    /\ UNCHANGED <<base, made>>

Deduplicated(m, n) == IF m = n THEN Renewed(n) ELSE n

MergedWithWait(m, n) ==
    /\ Idle /\ Edit
    /\ LET wait == New(Len(n) + 1, "single", "wait", End(m))
           both == m \o <<wait>> \o ShiftedTo(Deduplicated(m, n), End(m))
       IN  Loaded(both, both)
    /\ made' = made + Len(n) + 1
    /\ UNCHANGED base

-----------------------------------------------------------------------------
(* Insertions.  The dialogs of a text and of a click look at the selection  *)
(* and the events only when they are accepted, so each is one step.         *)

(* Mutant of Inserted: what follows is not shifted. *)
InsertedUnshifted(after, new, budget) ==
    SubSeq(events, 1, after) \o new \o SubSeq(events, after + 1, Len(events))

Inserted(after, new, budget) ==
    SubSeq(events, 1, after) \o new
        \o [i \in 1 .. Len(events) - after |->
                [events[after + i] EXCEPT !.at = @ + budget]]

(* _selected_insert_after_event_idx: after the last selected row.           *)
Places == {Most(row) : row \in RowSet} \cup {Len(events)}

Base(after) == IF events = <<>> THEN 0 ELSE events[IF after = 0 THEN Len(events) ELSE after].at

InsertText(after) ==
    /\ Idle /\ Edit
    /\ Change(Inserted(after, <<New(1, "single", "text", Base(after) + 1)>>, 1))
    /\ made' = made + 1
    /\ UNCHANGED <<raw, show, dialog, capture, base, moves>>

(* The click dialog may capture a position itself, and ends every capture   *)
(* when it is closed.                                                       *)
InsertClick(after, what, double) ==
    /\ Idle /\ Edit
    /\ LET click(k) == <<New(k, "press", what, Base(after) + k), New(k + 1, "release", what, Base(after) + k + 1)>>
       IN  Change(IF double THEN Inserted(after, click(1) \o click(3), 4)
                            ELSE Inserted(after, click(1), 2))
    /\ made' = made + IF double THEN 4 ELSE 2
    /\ capture' = NoCapture
    /\ UNCHANGED <<raw, show, dialog, base, moves>>

StartCapture(after) ==
    /\ Idle /\ Edit
    /\ capture' = [on |-> TRUE, generation |-> generation,
                   anchor |-> IF after = 0 THEN 0 ELSE events[after].id]
    /\ UNCHANGED <<events, raw, undo, redo, generation, show, dialog, base, made, moves>>

CancelCapture ==
    /\ capture.on
    /\ capture' = NoCapture
    /\ UNCHANGED <<events, raw, undo, redo, generation, show, dialog, base, made, edits, moves>>

StillThere == capture.generation = generation

(* F6 puts the color behind the anchor, unless the macro has changed.       *)
Capture ==
    /\ capture.on
    /\ Idle \/ ("F6 in a dialog" \in May /\ Unasked)
    /\ LET anchors == {i \in DOMAIN events : events[i].id = capture.anchor}
           after == IF anchors = {} THEN 0 ELSE Least(anchors)
       IN  IF StillThere /\ (capture.anchor # 0 => anchors # {})
           THEN /\ Change(Inserted(after, <<New(1, "single", "color", Base(after) + 1)>>, 1))
                /\ made' = made + 1
           ELSE UNCHANGED <<events, undo, redo, generation, made>>
    /\ capture' = NoCapture
    /\ UNCHANGED <<raw, show, dialog, base, edits, moves>>

-----------------------------------------------------------------------------
(* Edits.                                                                   *)

DeleteRows(rows) ==
    /\ Idle /\ Edit /\ rows # {}
    /\ Change(Without(events, UNION rows))
    /\ UNCHANGED <<raw, show, dialog, capture, base, made, moves>>

(* delete_after_group, worked out before the question.                      *)
Cut(row) == SubSeq(events, 1, Most(row))

Kinds(row) ==
    LET kind == events[Primary(row)].kind
        what == events[Primary(row)].what
    IN  {"delay", "remark", "cut", "moves", "delays", "reset"}
        \cup (IF kind \in {"down", "up"} THEN {"key"} ELSE {})
        \cup (IF kind \in {"press", "release", "move"} THEN {"position"} ELSE {})
        \cup (IF kind = "wheel" THEN {"wheel"} ELSE {})
        \cup (IF what = "text" THEN {"text"} ELSE {})

Open(kind, row) ==
    /\ Idle /\ Edit /\ kind \in Kinds(row)
    /\ kind = "cut" => Cut(row) # events
    /\ kind = "moves" => \E i \in DOMAIN events : events[i].kind = "move"
    /\ dialog' = [kind |-> kind, id |-> events[Primary(row)].id, row |-> row,
                  shown |-> events, cut |-> IF kind = "cut" THEN Cut(row) ELSE <<>>]
    /\ UNCHANGED <<events, raw, undo, redo, generation, show, capture, base, made, moves>>

Flip(evs, S) == [i \in DOMAIN evs |-> IF i \in S THEN [evs[i] EXCEPT !.mark = 1 - @] ELSE evs[i]]

(* set_delay_single, edit_position and the like edit the first event with   *)
(* an id.                                                                   *)
With(id) == {i \in DOMAIN events : events[i].id = id}
Found == With(dialog.id)
First == {Least(Found)}

(* The other events of the row are looked up at the places they had.        *)
Others(kinds) == {Least(With(events[i].id)) :
    i \in {j \in dialog.row \ {Primary(dialog.row)} :
            j \in DOMAIN events /\ events[j].kind \in kinds}}

(* Mutant of Repositioned: only the primary event is moved. *)
RepositionedFirst == Flip(events, First)

Repositioned == Flip(events, First \cup Others({"press", "release", "move"}))

(* The notches of a scroll become one event.                                *)
Rewheeled == Without(Flip(events, First), dialog.row \ {Primary(dialog.row)})

(* The key of a press and of its release.                                   *)
Rekeyed(key) ==
    LET changed == First \cup Others({"down", "up"})
    IN  [i \in DOMAIN events |-> IF i \in changed THEN [events[i] EXCEPT !.what = key] ELSE events[i]]

(* The color check of a click is switched at once.                          *)
SetCheck(row) ==
    /\ Idle /\ moves < MaxMoves /\ events[Primary(row)].kind = "press"
    /\ Change(Flip(events, {Least(With(events[Primary(row)].id))}))
    /\ moves' = moves + 1
    /\ UNCHANGED <<raw, show, dialog, capture, base, made, edits>>

EditOne ==
    IF Found = {} THEN IF dialog.kind = "text" THEN Change(events) ELSE Missed
    ELSE CASE dialog.kind \in {"delay", "remark", "text"} -> Change(Flip(events, First))
           [] dialog.kind = "position" -> Change(Repositioned)
           [] dialog.kind = "wheel" -> Change(Rewheeled)
           [] dialog.kind = "key" -> \E key \in What : Change(Rekeyed(key))

Primaries == {Primary(row) : row \in RowSet}

EditAll ==
    CASE dialog.kind = "cut" -> Change(dialog.cut)
      [] dialog.kind = "moves" ->
            Change(Without(events, {i \in DOMAIN events : events[i].kind = "move"}))
      [] dialog.kind = "delays" ->
            Change(Flip(events, {i \in DOMAIN events : \E p \in Primaries : events[p].id = events[i].id}))
      [] dialog.kind = "reset" -> Change(raw)

ById == {"delay", "remark", "text", "position", "wheel", "key"}

(* The position dialog ends every capture when it is closed.                *)
Close ==
    /\ dialog' = NoDialog
    /\ capture' = IF dialog.kind = "position" THEN NoCapture ELSE capture
    /\ UNCHANGED <<raw, show, base, made, edits, moves>>

Accept ==
    /\ ~Idle
    /\ IF dialog.kind \in ById THEN EditOne ELSE EditAll
    /\ Close

Reject ==
    /\ ~Idle /\ Close
    /\ UNCHANGED <<events, undo, redo, generation>>

-----------------------------------------------------------------------------

Init ==
    /\ events \in Macro /\ raw = events
    /\ undo = <<>> /\ redo = <<>> /\ generation = 1 /\ show \in BOOLEAN
    /\ dialog = NoDialog /\ capture = NoCapture /\ base = NoBase
    /\ made = FirstMade /\ edits = 0 /\ moves = 0

Next ==
    \/ UndoStep \/ RedoStep \/ ToggleMoves \/ StartAppend
    \/ \E m \in Macro : Recorded(m) \/ Opened(m)
    \/ \E m, n \in Macro : Merged(m, n) \/ MergedWithWait(m, n)
    \/ \E p \in Places : InsertText(p) \/ StartCapture(p)
    \/ \E p \in Places, double \in BOOLEAN : InsertClick(p, "left", double)
    \/ CancelCapture \/ Capture
    \/ \E rows \in SUBSET RowSet : DeleteRows(rows)
    \/ \E row \in RowSet : SetCheck(row) \/ \E kind \in Kinds(row) : Open(kind, row)
    \/ Accept \/ Reject

Spec == Init /\ [][Next]_vars

-----------------------------------------------------------------------------

Asking == ById \cup {"none", "cut", "moves", "delays", "reset"}

TypeOK ==
    /\ events \in Seq(Event) /\ raw \in Seq(Event)
    /\ undo \in Seq(Seq(Event)) /\ redo \in Seq(Seq(Event)) /\ Len(undo) <= MaxUndo
    /\ generation \in Nat /\ show \in BOOLEAN
    /\ dialog \in [kind : Asking, id : Nat, row : SUBSET Nat, shown : Seq(Event), cut : Seq(Event)]
    /\ capture \in [on : BOOLEAN, anchor : Nat, generation : Nat]
    /\ base \in [on : BOOLEAN, events : Seq(Event), raw : Seq(Event)]
    /\ made \in Nat /\ edits \in 0 .. MaxEdits /\ moves \in 0 .. MaxMoves

(* An edit of one row changes the events of that row and no other, whatever *)
(* has happened while its dialog was open: the same events are left of the  *)
(* others, in their order; and a cut never brings back what is gone.        *)
RowIds == {dialog.shown[i].id : i \in dialog.row}
Rest(evs, ids) == Without(evs, {i \in DOMAIN evs : evs[i].id \in ids})
EditTouchesItsRow ==
    [][~Idle /\ dialog' = NoDialog =>
        /\ dialog.kind \in ById =>
            /\ Rest(events', RowIds) = Rest(events, RowIds)
            /\ events = dialog.shown /\ dialog.kind # "wheel" =>
                \A i \in DOMAIN events \ dialog.row : events'[i] = events[i]
        /\ dialog.kind = "position" /\ events' # events =>
            \A i, j \in DOMAIN events : {events[i].id, events[j].id} \subseteq RowIds =>
                (events'[i] = events[i] <=> events'[j] = events[j])
        /\ dialog.kind = "cut" => events' = SubSeq(events, 1, Len(events'))]_vars

(* Every change of a loaded macro can be undone by one step, and undoing    *)
(* and redoing walk the same history, none of which they lose: what was on  *)
(* screen before is what comes back.  Only a new change drops a state, the  *)
(* oldest, and only when the stack holds as many as it may.                 *)
History == undo \o <<events>> \o Reverse(redo)
EveryEditIsUndoable ==
    [][events' # events =>
        \/ undo' = <<>> /\ redo' = <<>>
        \/ History' = History
        \/ LET all == undo \o <<events, events'>> IN
           History' = IF Len(undo) < MaxUndo THEN all ELSE Tail(all)]_vars

(* A recording that goes on from the macro takes nothing of it away, edits  *)
(* made while it ran included.                                              *)
AppendKeepsEdits == [][base.on /\ ~base'.on => IsPrefix(events, events')]_vars

(* The rows show every event once, but for hidden mouse moves, in the order *)
(* of their first events, however the gestures of the macro overlap.        *)
RowsShowEveryEvent ==
    LET rows == Rows IN
    /\ \A i \in DOMAIN events :
        LET of == {r \in DOMAIN rows : i \in rows[r]} IN
        Cardinality(of) = 1 \/ (of = {} /\ ~show /\ events[i].kind = "move")
    /\ \A r, s \in DOMAIN rows : r < s => Primary(rows[r]) < Primary(rows[s])

(* No edit, insertion, merge or append makes time run backwards, when it    *)
(* does not in what is recorded and opened.                                 *)
EditsKeepTime == InTime(events)

=============================================================================
