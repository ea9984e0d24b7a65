----------------------------- MODULE Favorites -----------------------------
(***************************************************************************)
(* The favorites panel: a directory of macro files and _index.json, which   *)
(* puts every file into a group (src/macroflow/ui/favorites.py,             *)
(* favorites_batch.py, favorites_index.py).  An operation changes files and *)
(* index one after the other and takes back what it did when the index      *)
(* cannot be saved.  Every access to the disk is a step: it may fail, and   *)
(* the program may end after it.                                            *)
(*                                                                         *)
(* The order of groups and of files in a group, the names of groups and     *)
(* what is expanded are left out.  A content stands for one saved macro.    *)
(***************************************************************************)
EXTENDS Integers, FiniteSets, Functions

CONSTANTS
    Name,           \* names of favorite files
    Group,          \* group ids
    Default,        \* the group that is never deleted
    None,
    MixedDrag,      \* rows and groups may be selected and dragged together
    MaxEdits,       \* bound: operations of the user
    MaxMishaps      \* bound: disk errors and ends of the program

ASSUME FavoritesAssumption ==
    /\ IsFiniteSet(Name)
    /\ Default \in Group
    /\ MixedDrag \in BOOLEAN
    /\ MaxEdits \in Nat /\ MaxMishaps \in Nat

VARIABLES
    files,          \* the macro files: name -> content
    hidden,         \* .delete-*.tmp: pairs of the old name and the content
    stored,         \* _index.json: group -> files, None when there is none
    index,          \* _index, and what the tree shows
    pc,             \* "off", "idle" or the step an operation has reached
    op,             \* the locals of the operation
    made,           \* contents saved so far
    edits,          \* counts for MaxEdits
    mishaps,        \* counts for MaxMishaps
    outside         \* history: names another program added or deleted since
                    \* the directory was last read, contents it deleted

vars == <<files, hidden, stored, index, pc, op, made, edits, mishaps, outside>>

Empty == [x \in {} |-> None]
EmptyIndex == [g \in {Default} |-> {}]
Put(f, x, v) == [y \in DOMAIN f \cup {x} |-> IF y = x THEN v ELSE f[y]]
Drop(f, x) == Restrict(f, DOMAIN f \ {x})

Listed(idx) == UNION {idx[g] : g \in DOMAIN idx}
GroupsOf(idx, f) == {g \in DOMAIN idx : f \in idx[g]}
EnsureDefault(idx) == [g \in DOMAIN idx \cup {Default} |-> IF g \in DOMAIN idx THEN idx[g] ELSE {}]

(* pre, and what files and index were on disk; the paths still to be hidden *)
(* and the ones that are; the two names of a rename; whether the tree is    *)
(* rebuilt at the end, and whether something could not be taken back.       *)
NoOp == [pre |-> Empty, files |-> Empty, stored |-> None, left |-> {}, chosen |-> {},
         staged |-> {}, renamed |-> <<>>, rebuild |-> TRUE, undo |-> TRUE, broken |-> FALSE]
NewOp == [NoOp EXCEPT !.pre = index, !.files = files, !.stored = stored]

Edit == edits < MaxEdits /\ edits' = edits + 1
Mishap == mishaps < MaxMishaps /\ mishaps' = mishaps + 1

-----------------------------------------------------------------------------
(* _rebuild_tree: files no group lists go to the default group, and what    *)
(* does not exist is dropped.  A save that fails does not matter: the       *)
(* preimage is rebuilt again and shown.                                     *)

(* Mutant of Rebuilt: only what does not exist is dropped. *)
RebuiltWithoutOrphans(idx) == [g \in DOMAIN idx |-> idx[g] \cap DOMAIN files]

Rebuilt(idx) ==
    [g \in DOMAIN idx |->
        (idx[g] \cup (IF g = Default THEN DOMAIN files \ Listed(idx) ELSE {})) \cap DOMAIN files]

Saved(idx) == stored' = idx /\ UNCHANGED mishaps
NotSaved == UNCHANGED stored /\ Mishap

(* The directory is read; contents deleted outside stay on record.          *)
Reread == outside' = [outside EXCEPT !.names = {}]

Refresh ==
    /\ pc = "refresh"
    /\ index' = Rebuilt(index)
    /\ Saved(index') \/ NotSaved
    /\ pc' = "idle" /\ op' = NoOp /\ Reread
    /\ UNCHANGED <<files, hidden, made, edits>>

(* _load_index: without an index, or with one that cannot be read, all      *)
(* groups are forgotten.                                                    *)
Start ==
    /\ pc = "off"
    /\ \/ /\ stored # None
          /\ index' = EnsureDefault(stored)
          /\ UNCHANGED <<stored, mishaps>>
       \/ /\ stored # None
          /\ index' = EmptyIndex
          /\ NotSaved
       \/ /\ stored = None
          /\ index' = EmptyIndex
          /\ Saved(EmptyIndex) \/ NotSaved
    /\ pc' = "refresh"
    /\ UNCHANGED <<files, hidden, op, made, edits, outside>>

AskRefresh ==
    /\ pc = "idle" /\ Edit
    /\ pc' = "refresh"
    /\ UNCHANGED <<files, hidden, stored, index, op, made, mishaps, outside>>

-----------------------------------------------------------------------------
(* Operations on the index alone.                                           *)

Change(new, rebuild) ==
    /\ pc = "idle" /\ Edit
    /\ index' = new
    /\ op' = [NewOp EXCEPT !.rebuild = rebuild]
    /\ pc' = "save"
    /\ UNCHANGED <<files, hidden, stored, made, mishaps, outside>>

AddGroup(g) == g \notin DOMAIN index /\ Change(Put(index, g, {}), TRUE)

DeleteGroup(g) ==
    /\ g \in DOMAIN index \ {Default}
    /\ LET moved == IF Default \in DOMAIN index
                    THEN [index EXCEPT ![Default] = @ \cup index[g]] ELSE index
       IN  Change(Drop(moved, g), TRUE)

(* _move_item_to_group: out of the first group that lists it.               *)
MoveItem(f, from, to) ==
    /\ f \in index[from] /\ to # from
    /\ Change([index EXCEPT ![from] = @ \ {f}, ![to] = @ \cup {f}], TRUE)

(* move_filenames_to_group: out of all others.                              *)
MoveSelected(fs, to) ==
    LET new == [g \in DOMAIN index |-> IF g = to THEN index[g] \cup fs ELSE index[g] \ fs]
    IN  Cardinality(fs) > 1 /\ fs \subseteq Listed(index) /\ new # index /\ Change(new, TRUE)

(* dropEvent looks only at the item under the mouse, and Qt moves whatever  *)
(* is selected.  _on_item_moved reads the index from the tree: a group in a *)
(* group and a file in none are left out of it.                             *)
Rows == {r \in Group \X Name : r[1] \in DOMAIN index /\ r[2] \in index[r[1]]}
Without(rows, gs) == [g \in DOMAIN index \ gs |-> {f \in index[g] : <<g, f>> \notin rows}]

DragItem(rows, gs, to) ==
    /\ rows # {} /\ to \in DOMAIN index \ gs
    /\ gs # {} => MixedDrag
    /\ LET rest == Without(rows, gs) IN
       Change([rest EXCEPT ![to] = @ \cup {r[2] : r \in rows}], FALSE)

DragGroup(rows) ==
    /\ rows # {} => MixedDrag
    /\ Change(Without(rows, {}), FALSE)

-----------------------------------------------------------------------------
(* Operations on files.                                                     *)

(* add_favorite: under a name that is free.  It does not mind an index that *)
(* was not saved.                                                           *)
Add(f) ==
    /\ pc = "idle" /\ Edit
    /\ f \notin DOMAIN files
    /\ files' = Put(files, f, made + 1)
    /\ made' = made + 1
    /\ index' = [EnsureDefault(index) EXCEPT ![Default] = @ \cup {f}]
    /\ op' = [NewOp EXCEPT !.undo = FALSE]
    /\ pc' = "save"
    /\ UNCHANGED <<hidden, stored, mishaps, outside>>

(* _rename_item: the file first, to a name that is free, then the index,    *)
(* where one entry is renamed.  A file that is gone only asks for a refresh.*)
Rename(f, new, g) ==
    /\ pc = "idle" /\ Edit
    /\ g \in DOMAIN index /\ f \in index[g]
    /\ IF f \in DOMAIN files
       THEN /\ new \in DOMAIN files => new = f
            /\ files' = Put(Drop(files, f), new, files[f])
            /\ index' = [index EXCEPT ![g] = (@ \ {f}) \cup {new}]
            /\ op' = [NewOp EXCEPT !.renamed = <<f, new>>]
            /\ pc' = "save"
       ELSE pc' = "refresh" /\ UNCHANGED <<files, index, op>>
    /\ UNCHANGED <<hidden, stored, made, mishaps, outside>>

(* _remove_item, _remove_paths: the files are hidden first.                 *)
Remove(fs) ==
    /\ pc = "idle" /\ Edit
    /\ fs # {} /\ fs \subseteq Listed(index)
    /\ op' = [NewOp EXCEPT !.left = fs, !.chosen = fs]
    /\ pc' = "stage"
    /\ UNCHANGED <<files, hidden, stored, index, made, mishaps, outside>>

(* stage_favorite_paths.                                                    *)
Stage(f) ==
    /\ pc = "stage" /\ f \in op.left
    /\ LET rest == [op EXCEPT !.left = @ \ {f}] IN
       \/ /\ f \notin DOMAIN files
          /\ op' = rest /\ UNCHANGED <<files, hidden, mishaps>>
       \/ /\ f \in DOMAIN files
          /\ files' = Drop(files, f)
          /\ hidden' = hidden \cup {<<f, files[f]>>}
          /\ op' = [rest EXCEPT !.staged = @ \cup {<<f, files[f]>>}]
          /\ UNCHANGED mishaps
       \/ f \in DOMAIN files /\ Mishap /\ op' = rest /\ UNCHANGED <<files, hidden>>
    /\ UNCHANGED <<stored, index, pc, made, edits, outside>>

(* A single file that could not be hidden ends the operation.               *)
Staged ==
    /\ pc = "stage" /\ op.left = {}
    /\ LET removed == op.chosen \ DOMAIN files IN
       IF removed = {} /\ Cardinality(op.chosen) = 1
       THEN pc' = "idle" /\ op' = NoOp /\ UNCHANGED index
       ELSE /\ index' = [g \in DOMAIN index |-> index[g] \ removed]
            /\ pc' = "save" /\ UNCHANGED op
    /\ UNCHANGED <<files, hidden, stored, made, edits, mishaps, outside>>

-----------------------------------------------------------------------------
(* How every operation ends.                                                *)

(* Mutant of AfterSave: the files are deleted whether the index is saved or not. *)
CommitAnyway(ok) ==
    IF op.staged # {} THEN "commit" ELSE IF ok THEN "refresh" ELSE "undo"

AfterSave(ok) ==
    CASE ~ok /\ op.undo -> "undo"
      [] op.staged # {} -> "commit"
      [] op.rebuild -> "refresh"
      [] OTHER -> "idle"

(* _save_index, which replaces the file or leaves it.                       *)
Save ==
    /\ pc = "save"
    /\ \/ Saved(index) /\ pc' = AfterSave(TRUE)
       \/ NotSaved /\ pc' = AfterSave(FALSE)
    /\ op' = IF pc' = "idle" THEN NoOp ELSE op
    /\ UNCHANGED <<files, hidden, index, made, edits, outside>>

(* commit_staged_favorites.                                                 *)
Commit ==
    /\ pc = "commit"
    /\ \E s \in op.staged :
        /\ op' = [op EXCEPT !.staged = @ \ {s}]
        /\ pc' = IF op.staged = {s} THEN "refresh" ELSE pc
        /\ \/ hidden' = hidden \ {s} /\ UNCHANGED mishaps
           \/ Mishap /\ UNCHANGED hidden
    /\ UNCHANGED <<files, stored, index, made, edits, outside>>

(* rollback_staged_favorites, and the rename taken back.                    *)
Unstage(s) ==
    \/ /\ files' = Put(files, s[1], s[2])
       /\ hidden' = hidden \ {s}
       /\ op' = [op EXCEPT !.staged = @ \ {s}]
       /\ UNCHANGED mishaps
    \/ /\ Mishap
       /\ op' = [op EXCEPT !.staged = @ \ {s}, !.broken = TRUE]
       /\ UNCHANGED <<files, hidden>>

RenameBack ==
    LET f == op.renamed[1]
        new == op.renamed[2]
    IN  /\ \/ /\ files' = Put(Drop(files, new), f, files[new])
              /\ op' = [op EXCEPT !.renamed = <<>>]
              /\ UNCHANGED mishaps
           \/ /\ Mishap
              /\ op' = [op EXCEPT !.renamed = <<>>, !.broken = TRUE]
              /\ UNCHANGED files
        /\ UNCHANGED hidden

Undo ==
    /\ pc = "undo"
    /\ (\E s \in op.staged : Unstage(s)) \/ (op.renamed # <<>> /\ RenameBack)
    /\ UNCHANGED <<stored, index, pc, made, edits, outside>>

(* Mutant of Restored: the change stays in the index. *)
KeptChange == Rebuilt(index)

Restored == Rebuilt(op.pre)

(* _restore_failed_index_change: if something could not be taken back, the  *)
(* index is saved as the files are now.                                     *)
Undone ==
    /\ pc = "undo" /\ op.staged = {} /\ op.renamed = <<>>
    /\ index' = Restored
    /\ IF op.broken THEN Saved(index') \/ NotSaved ELSE UNCHANGED <<stored, mishaps>>
    /\ pc' = "idle" /\ op' = NoOp /\ Reread
    /\ UNCHANGED <<files, hidden, made, edits>>

-----------------------------------------------------------------------------
(* The end of the program, and other programs in the directory.             *)

Ends == pc' = "off" /\ index' = Empty /\ op' = NoOp

Quit ==
    /\ pc = "idle" /\ Ends
    /\ UNCHANGED <<files, hidden, stored, made, edits, mishaps, outside>>

Dies ==
    /\ pc # "off" /\ Mishap /\ Ends
    /\ UNCHANGED <<files, hidden, stored, made, edits, outside>>

Outsider(f) ==
    /\ pc \in {"off", "idle"} /\ Edit
    /\ \/ /\ f \in DOMAIN files
          /\ files' = Drop(files, f)
          /\ outside' = [names |-> outside.names \cup {f}, gone |-> outside.gone \cup {files[f]}]
          /\ UNCHANGED made
       \/ /\ f \notin DOMAIN files
          /\ files' = Put(files, f, made + 1) /\ made' = made + 1
          /\ outside' = [outside EXCEPT !.names = @ \cup {f}]
    /\ UNCHANGED <<hidden, stored, index, pc, op, mishaps>>

-----------------------------------------------------------------------------

(* An index may list a file twice after a migration has merged two.         *)
Init ==
    /\ \E fs \in SUBSET Name : \E b \in [fs -> 1 .. Cardinality(fs)] :
        /\ \A x, y \in fs : b[x] = b[y] => x = y
        /\ files = b /\ made = Cardinality(fs)
        /\ stored \in {None} \cup [Group -> SUBSET fs]
    /\ hidden = {} /\ index = Empty /\ pc = "off" /\ op = NoOp
    /\ edits = 0 /\ mishaps = 0
    /\ outside = [names |-> {}, gone |-> {}]

Operation ==
    \/ AskRefresh
    \/ \E g \in Group : AddGroup(g) \/ DeleteGroup(g)
    \/ \E f \in Name, from, to \in DOMAIN index : MoveItem(f, from, to)
    \/ \E fs \in SUBSET Name, to \in DOMAIN index : MoveSelected(fs, to)
    \/ \E rows \in SUBSET Rows :
        \/ DragGroup(rows)
        \/ \E gs \in SUBSET DOMAIN index, to \in DOMAIN index : DragItem(rows, gs, to)
    \/ \E f \in Name : Add(f)
    \/ \E f, new \in Name, g \in Group : Rename(f, new, g)
    \/ \E fs \in SUBSET Name : Remove(fs)

Next ==
    \/ Start \/ Quit \/ Dies
    \/ Operation
    \/ \E f \in Name : Stage(f) \/ Outsider(f)
    \/ Staged \/ Save \/ Commit \/ Undo \/ Undone \/ Refresh

Spec == Init /\ [][Next]_vars

-----------------------------------------------------------------------------

Contents == {files[f] : f \in DOMAIN files} \cup {h[2] : h \in hidden}

(* A macro leaves the disk only because the user removed it, and only when  *)
(* the index on disk no longer has it ("Permanently delete files only after *)
(* their index removal is durable", commit_staged_favorites): no failed     *)
(* rename, removal or addition costs one.                                   *)
NothingDestroyed ==
    [][\A c \in Contents \ Contents' :
        \/ c \in outside'.gone
        \/ \E s \in op.staged : s[2] = c /\ (stored # None => s[1] \notin Listed(stored))]_vars

(* Between two operations the tree shows the files there are, also after an *)
(* operation that failed half-way and a start after a crash: no file is     *)
(* without a group, no row without a file.                                  *)
EveryFileListed ==
    pc = "idle" =>
        \A f \in Name \ outside.names : f \in DOMAIN files <=> f \in Listed(index)

(* An operation that could not be saved and was taken back has left no      *)
(* trace, neither on disk nor in the groups.                                *)
FailureLeavesNoTrace ==
    [][pc = "undo" /\ pc' = "idle" /\ ~op.broken =>
        /\ files' = op.files /\ stored' = op.stored
        /\ \A f \in DOMAIN files' \cap Listed(op.pre) :
                GroupsOf(index', f) = GroupsOf(op.pre, f)]_vars

(* What the tree widget promises: groups stay at the root and files in a    *)
(* group, wherever they are dropped.                                        *)
DropsKeepGroups == pc = "idle" => Default \in DOMAIN index

(* Indexes put names into groups; a file has a content that was made.       *)
IsIndex(idx) == DOMAIN idx \subseteq Group /\ \A g \in DOMAIN idx : idx[g] \subseteq Name

TypeOK ==
    /\ DOMAIN files \subseteq Name /\ files \in [DOMAIN files -> 1 .. made]
    /\ hidden \subseteq Name \X (1 .. made)
    /\ IsIndex(index) /\ (stored # None => IsIndex(stored))
    /\ pc \in {"off", "refresh", "idle", "stage", "save", "commit", "undo"}
    /\ made \in Nat /\ edits \in 0 .. MaxEdits /\ mishaps \in 0 .. MaxMishaps

=============================================================================
