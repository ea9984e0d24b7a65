-------------------------- MODULE FavoritesProofs --------------------------
(***************************************************************************)
(* No favorite is lost, none is without a group, and an operation that is  *)
(* taken back leaves no trace: proved for any names and groups and any     *)
(* number of operations, disk errors and ends of the program.              *)
(***************************************************************************)
EXTENDS Favorites, FiniteSetTheorems, TLAPS

-----------------------------------------------------------------------------
(* The invariant.                                                          *)

(* Dragging groups and files together may take the default group out of the *)
(* index, and files with it.                                               *)
HasDefault(idx) == ~MixedDrag => Default \in DOMAIN idx

Matches == ~MixedDrag => \A f \in Name \ outside.names : f \in DOMAIN files <=> f \in Listed(index)

Op(pre, fs, st, left, chosen, staged, renamed, rebuild, undo, broken) ==
    [pre |-> pre, files |-> fs, stored |-> st, left |-> left, chosen |-> chosen,
     staged |-> staged, renamed |-> renamed, rebuild |-> rebuild, undo |-> undo,
     broken |-> broken]

IsOp(w) == w = Op(w.pre, w.files, w.stored, w.left, w.chosen, w.staged, w.renamed,
                  w.rebuild, w.undo, w.broken)

OpShape ==
    /\ IsOp(op)
    /\ op.rebuild \in BOOLEAN /\ op.undo \in BOOLEAN /\ op.broken \in BOOLEAN
    /\ outside = [names |-> outside.names, gone |-> outside.gone]

DefaultOK ==
    /\ pc # "off" => HasDefault(index)
    /\ pc \in {"stage", "save", "undo"} => IsIndex(op.pre) /\ HasDefault(op.pre)

(* Staged files are hidden, one of each name, and no other file has taken  *)
(* the name of one.                                                        *)
StagedOK ==
    pc \in {"stage", "save", "undo"} =>
        /\ op.staged \subseteq hidden
        /\ \A s, t \in op.staged : s[1] = t[1] => s = t
        /\ \A s \in op.staged : s[1] \notin DOMAIN files
        /\ op.staged # {} => op.undo /\ op.renamed = <<>>

(* A renamed file has its new name and left its old one.                   *)
HasMoved(old, now, f, new) ==
    /\ f \in DOMAIN old /\ f \in Name /\ (new \in DOMAIN old => new = f)
    /\ DOMAIN now = (DOMAIN old \ {f}) \cup {new}
    /\ now[new] = old[f]
    /\ \A x \in DOMAIN old \ {f} : x # new => now[x] = old[x]

RenamedOK ==
    pc \in {"save", "undo"} /\ op.renamed # <<>> =>
        /\ op.staged = {} /\ ~op.broken
        /\ HasMoved(op.files, files, op.renamed[1], op.renamed[2])

IsFun(f) == f = [x \in DOMAIN f |-> f[x]]

(* With what is staged the directory is as it was, unless something could  *)
(* not be taken back.                                                      *)
TakenFrom(old, now, staged) ==
    /\ DOMAIN old = DOMAIN now \cup {s[1] : s \in staged}
    /\ \A x \in DOMAIN now : old[x] = now[x]
    /\ \A s \in staged : old[s[1]] = s[2]

TraceOK ==
    pc \in {"stage", "save", "undo"} =>
        /\ op.stored = stored
        /\ IsFun(op.files)
        /\ op.undo /\ ~op.broken /\ op.renamed = <<>> => TakenFrom(op.files, files, op.staged)

(* What the steps of an operation rely on.                                 *)
StageOK ==
    /\ op.undo /\ op.rebuild /\ ~op.broken /\ op.renamed = <<>>
    /\ op.left \subseteq op.chosen /\ \A s \in op.staged : s[1] \in op.chosen
    /\ ~MixedDrag => \A f \in Name \ outside.names :
          f \in Listed(index) <=> f \in DOMAIN files \/ \E s \in op.staged : s[1] = f

StepOK ==
    /\ pc = "idle" => Matches
    /\ pc = "stage" => StageOK
    /\ pc = "save" =>
        /\ \A s \in op.staged : s[1] \notin Listed(index)
        /\ ~op.rebuild => op.staged = {} /\ Matches
    /\ pc = "commit" /\ stored # None => \A s \in op.staged : s[1] \notin Listed(stored)
    /\ pc = "undo" => op.undo

FavInv == TypeOK /\ OpShape /\ DefaultOK /\ StagedOK /\ RenamedOK /\ TraceOK /\ StepOK

-----------------------------------------------------------------------------
(* Functions, groups and operations.                                       *)

LEMMA Puts == \A f, x, v :
    /\ DOMAIN Put(f, x, v) = DOMAIN f \cup {x}
    /\ Put(f, x, v)[x] = v
    /\ \A y \in DOMAIN f : y # x => Put(f, x, v)[y] = f[y]
BY DEF Put

LEMMA Drops == \A f, x :
    /\ DOMAIN Drop(f, x) = DOMAIN f \ {x}
    /\ \A y \in DOMAIN f \ {x} : Drop(f, x)[y] = f[y]
BY DEF Drop, Restrict

LEMMA InGroup == \A idx, f : f \in Listed(idx) <=> \E g \in DOMAIN idx : f \in idx[g]
BY Zenon DEF Listed

(* Reading the directory again puts every file there is into a group.      *)
LEMMA Rebuilds == ASSUME NEW idx, IsIndex(idx), HasDefault(idx), DOMAIN files \subseteq Name
                  PROVE  /\ IsIndex(Rebuilt(idx)) /\ HasDefault(Rebuilt(idx))
                         /\ ~MixedDrag => Listed(Rebuilt(idx)) = DOMAIN files
                         /\ \A f \in DOMAIN files \cap Listed(idx) :
                               GroupsOf(Rebuilt(idx), f) = GroupsOf(idx, f)
PROOF
<1> DEFINE new == Rebuilt(idx)  lost == DOMAIN files \ Listed(idx)
<1>1. /\ DOMAIN new = DOMAIN idx
      /\ \A g \in DOMAIN idx : new[g] = (idx[g] \cup (IF g = Default THEN lost ELSE {})) \cap DOMAIN files
    BY DEF Rebuilt
<1>2. /\ \A g \in DOMAIN idx : new[g] \subseteq DOMAIN files
      /\ \A g \in DOMAIN idx : \A f \in DOMAIN files \cap Listed(idx) : f \in new[g] <=> f \in idx[g]
      /\ ~MixedDrag => Default \in DOMAIN new /\ lost \subseteq new[Default]
    BY <1>1 DEF HasDefault
<1> HIDE DEF new, lost
<1>3. \A f : f \in Listed(new) <=> \E g \in DOMAIN new : f \in new[g] BY InGroup, Zenon
<1>4. \A f : f \in Listed(idx) <=> \E g \in DOMAIN idx : f \in idx[g] BY InGroup, Zenon
<1>5. IsIndex(new) BY <1>1, <1>2, Zenon DEF IsIndex
<1>6. ASSUME ~MixedDrag PROVE Listed(new) = DOMAIN files
    <2>1. ASSUME NEW f \in DOMAIN files PROVE f \in Listed(new)
        <3>1. CASE f \in lost BY <1>2, <1>3, <1>6, <3>1, Zenon
        <3>2. CASE f \in Listed(idx) BY <1>1, <1>2, <1>3, <1>4, <3>2, Zenon
        <3> QED BY <3>1, <3>2 DEF lost
    <2>2. ASSUME NEW f \in Listed(new) PROVE f \in DOMAIN files BY <1>1, <1>2, <1>3, Zenon
    <2> QED BY <2>1, <2>2
<1>7. \A f \in DOMAIN files \cap Listed(idx) : GroupsOf(new, f) = GroupsOf(idx, f)
    <2> SUFFICES ASSUME NEW f \in DOMAIN files \cap Listed(idx)
                 PROVE  \A g : g \in GroupsOf(new, f) <=> g \in GroupsOf(idx, f)
        BY Zenon
    <2>1. \A h, g : g \in GroupsOf(h, f) <=> g \in DOMAIN h /\ f \in h[g] BY Zenon DEF GroupsOf
    <2> QED BY <1>1, <1>2, <2>1, Zenon
<1>8. HasDefault(new) BY <1>1, Zenon DEF HasDefault
<1> QED BY <1>5, <1>6, <1>7, <1>8, Zenon DEF new

Kept(n, w) == /\ n.pre = w.pre /\ n.files = w.files /\ n.stored = w.stored
              /\ n.chosen = w.chosen /\ n.rebuild = w.rebuild /\ n.undo = w.undo

WithLeft(w, v) == [w EXCEPT !.left = v]
WithStaged(w, v) == [w EXCEPT !.staged = v]
WithRenamed(w, v) == [w EXCEPT !.renamed = v]
WithBroken(w, v) == [w EXCEPT !.broken = v]
LeftSet(n, w, v) == /\ IsOp(n) /\ Kept(n, w) /\ n.left = v
                    /\ n.staged = w.staged /\ n.renamed = w.renamed /\ n.broken = w.broken
StagedSet(n, w, v) == /\ IsOp(n) /\ Kept(n, w) /\ n.staged = v
                      /\ n.left = w.left /\ n.renamed = w.renamed /\ n.broken = w.broken
RenamedSet(n, w, v) == /\ IsOp(n) /\ Kept(n, w) /\ n.renamed = v
                       /\ n.left = w.left /\ n.staged = w.staged /\ n.broken = w.broken
BrokenSet(n, w, v) == /\ IsOp(n) /\ Kept(n, w) /\ n.broken = v
                      /\ n.left = w.left /\ n.staged = w.staged /\ n.renamed = w.renamed

LEMMA Edits == \A w, v : IsOp(w) =>
    /\ LeftSet(WithLeft(w, v), w, v)
    /\ StagedSet(WithStaged(w, v), w, v)
    /\ RenamedSet(WithRenamed(w, v), w, v)
    /\ BrokenSet(WithBroken(w, v), w, v)
PROOF
<1> SUFFICES ASSUME NEW w, NEW v, IsOp(w)
             PROVE  /\ LeftSet(WithLeft(w, v), w, v)
                    /\ StagedSet(WithStaged(w, v), w, v)
                    /\ RenamedSet(WithRenamed(w, v), w, v)
                    /\ BrokenSet(WithBroken(w, v), w, v)
    BY Zenon
<1>1. PICK pre, fs, st, left, chosen, staged, renamed, rebuild, undo, broken :
          w = Op(pre, fs, st, left, chosen, staged, renamed, rebuild, undo, broken)
    BY Zenon DEF IsOp
<1> QED BY <1>1 DEF Op, IsOp, Kept, WithLeft, WithStaged, WithRenamed, WithBroken,
                    LeftSet, StagedSet, RenamedSet, BrokenSet

LEMMA NewOps == /\ NoOp = Op(Empty, Empty, None, {}, {}, {}, <<>>, TRUE, TRUE, FALSE)
                /\ NewOp = Op(index, files, stored, {}, {}, {}, <<>>, TRUE, TRUE, FALSE)
PROOF
<1>1. NoOp = Op(Empty, Empty, None, {}, {}, {}, <<>>, TRUE, TRUE, FALSE) BY DEF NoOp, Op
<1>2. NewOp = [[[NoOp EXCEPT !.pre = index] EXCEPT !.files = files] EXCEPT !.stored = stored]
    BY Zenon DEF NewOp
<1> QED BY <1>1, <1>2 DEF Op

(* Between operations only the index and the files matter.                 *)
LEMMA Calm == ASSUME TypeOK', OpShape', pc' \in {"off", "refresh", "idle"},
                     pc' # "off" => HasDefault(index'), pc' = "idle" => Matches'
              PROVE  FavInv'
PROOF
<1>1. pc' \notin {"stage", "save", "commit", "undo"} OBVIOUS
<1>2. DefaultOK' BY <1>1, Zenon DEF DefaultOK
<1>3. StagedOK' BY <1>1, Zenon DEF StagedOK
<1>4. RenamedOK' BY <1>1, Zenon DEF RenamedOK
<1>5. TraceOK' BY <1>1, Zenon DEF TraceOK
<1>6. StepOK' BY <1>1, Zenon DEF StepOK
<1> QED BY <1>2, <1>3, <1>4, <1>5, <1>6, Zenon DEF FavInv

(* An operation that goes straight to saving the index.                    *)
LEMMA Saving == ASSUME TypeOK, TypeOK', IsIndex(index), HasDefault(index),
                       HasDefault(index'), pc' = "save",
                       NEW renamed, NEW rebuild \in BOOLEAN, NEW undo \in BOOLEAN,
                       op' = Op(index, files, stored, {}, {}, {}, renamed, rebuild, undo, FALSE),
                       outside' = outside, outside = [names |-> outside.names, gone |-> outside.gone],
                       stored' = stored,
                       renamed # <<>> => HasMoved(files, files', renamed[1], renamed[2]),
                       undo /\ renamed = <<>> => files' = files,
                       ~rebuild => Matches'
                PROVE  FavInv'
PROOF
<1>1. /\ op'.pre = index /\ op'.files = files /\ op'.stored = stored /\ op'.left = {}
      /\ op'.chosen = {} /\ op'.staged = {} /\ op'.renamed = renamed /\ op'.rebuild = rebuild
      /\ op'.undo = undo /\ op'.broken = FALSE
    BY DEF Op
<1>2. OpShape' BY <1>1, Zenon DEF OpShape, IsOp
<1>3. DefaultOK' BY <1>1, Zenon DEF DefaultOK
<1>4. StagedOK' BY <1>1, Zenon DEF StagedOK
<1>5. RenamedOK' BY <1>1, Zenon DEF RenamedOK
<1>6. TraceOK'
    <2>1. IsFun(files) BY DEF TypeOK, IsFun
    <2>2. ASSUME undo, renamed = <<>> PROVE TakenFrom(op'.files, files', op'.staged)
        BY <1>1, <2>2 DEF TakenFrom
    <2> QED BY <1>1, <2>1, <2>2, Zenon DEF TraceOK
<1>7. StepOK' BY <1>1, Zenon DEF StepOK
<1> QED BY <1>2, <1>3, <1>4, <1>5, <1>6, <1>7, Zenon DEF FavInv

-----------------------------------------------------------------------------
(* The directory read and the groups changed.                              *)

LEMMA Rested == OpShape /\ op' = NoOp /\ outside' = [names |-> outside'.names, gone |-> outside'.gone]
                => OpShape'
PROOF
<1> SUFFICES ASSUME op' = NoOp, outside' = [names |-> outside'.names, gone |-> outside'.gone]
             PROVE  OpShape'
    OBVIOUS
<1>1. op' = Op(Empty, Empty, None, {}, {}, {}, <<>>, TRUE, TRUE, FALSE) BY NewOps, Zenon
<1>2. /\ op'.pre = Empty /\ op'.files = Empty /\ op'.stored = None /\ op'.left = {}
      /\ op'.chosen = {} /\ op'.staged = {} /\ op'.renamed = <<>> /\ op'.rebuild = TRUE
      /\ op'.undo = TRUE /\ op'.broken = FALSE
    BY <1>1 DEF Op
<1> QED BY <1>1, <1>2, Zenon DEF OpShape, IsOp

LEMMA Rereads == OpShape /\ Reread =>
                    /\ outside' = [names |-> {}, gone |-> outside.gone]
                    /\ outside'.names = {} /\ outside'.gone = outside.gone
PROOF
<1> SUFFICES ASSUME OpShape, Reread PROVE outside' = [names |-> {}, gone |-> outside.gone] OBVIOUS
<1>1. outside = [names |-> outside.names, gone |-> outside.gone] BY Zenon DEF OpShape
<1>2. outside' = [outside EXCEPT !.names = {}] BY Zenon DEF Reread
<1> QED BY <1>1, <1>2

LEMMA RefreshStep == ASSUME FavInv, Refresh PROVE FavInv'
PROOF
<1>1. /\ pc = "refresh" /\ pc' = "idle" /\ op' = NoOp /\ Reread /\ index' = Rebuilt(index)
      /\ files' = files /\ hidden' = hidden /\ made' = made /\ edits' = edits
      /\ stored' \in {stored, index'} /\ (mishaps' = mishaps \/ Mishap)
    BY DEF Refresh, Saved, NotSaved
<1>2. TypeOK /\ OpShape /\ HasDefault(index) BY <1>1 DEF FavInv, DefaultOK
<1>3. IsIndex(index) /\ DOMAIN files \subseteq Name BY <1>2 DEF TypeOK
<1>4. IsIndex(index') /\ HasDefault(index') /\ (~MixedDrag => Listed(index') = DOMAIN files)
    BY <1>1, <1>2, <1>3, Rebuilds, Zenon
<1>5. outside'.names = {} /\ OpShape' BY <1>1, <1>2, Rereads, Rested, Zenon
<1>6. mishaps' \in 0 .. MaxMishaps BY <1>1, <1>2, FavoritesAssumption DEF Mishap, TypeOK
<1>7. TypeOK' BY <1>1, <1>2, <1>4, <1>6, Zenon DEF TypeOK
<1>8. Matches' BY <1>1, <1>4, Zenon DEF Matches
<1> QED BY <1>1, <1>2, <1>4, <1>5, <1>7, <1>8, Calm, Zenon

LEMMA StartStep == ASSUME FavInv, Start PROVE FavInv'
PROOF
<1>1. /\ pc' = "refresh"
      /\ op' = op /\ outside' = outside /\ files' = files /\ hidden' = hidden
      /\ made' = made /\ edits' = edits
      /\ (stored # None /\ index' = EnsureDefault(stored)) \/ index' = EmptyIndex
      /\ stored' \in {stored, EmptyIndex} /\ (mishaps' = mishaps \/ Mishap)
    BY DEF Start, Saved, NotSaved
<1>2. TypeOK /\ OpShape BY DEF FavInv
<1>3. IsIndex(EmptyIndex) /\ Default \in DOMAIN EmptyIndex
    BY FavoritesAssumption DEF IsIndex, EmptyIndex
<1>4. \A idx : IsIndex(idx) => IsIndex(EnsureDefault(idx)) /\ Default \in DOMAIN EnsureDefault(idx)
    BY FavoritesAssumption DEF IsIndex, EnsureDefault
<1>5. IsIndex(index') /\ HasDefault(index') /\ (stored' # None => IsIndex(stored'))
    BY <1>1, <1>2, <1>3, <1>4 DEF TypeOK, HasDefault
<1>6. mishaps' \in 0 .. MaxMishaps BY <1>1, <1>2, FavoritesAssumption DEF Mishap, TypeOK
<1>7. TypeOK' BY <1>1, <1>2, <1>5, <1>6, Zenon DEF TypeOK
<1>8. OpShape' BY <1>1, <1>2, Zenon DEF OpShape
<1>9. pc' # "idle" BY <1>1
<1> QED BY <1>1, <1>5, <1>7, <1>8, <1>9, Calm, Zenon

LEMMA Counts == ASSUME TypeOK PROVE /\ Edit => edits' \in 0 .. MaxEdits
                                    /\ Mishap => mishaps' \in 0 .. MaxMishaps
BY FavoritesAssumption DEF TypeOK, Edit, Mishap

LEMMA AskRefreshStep == ASSUME FavInv, AskRefresh PROVE FavInv'
PROOF
<1>1. /\ pc = "idle" /\ Edit /\ pc' = "refresh"
      /\ UNCHANGED <<files, hidden, stored, index, op, made, mishaps, outside>>
    BY Zenon DEF AskRefresh
<1>2. TypeOK /\ OpShape /\ HasDefault(index) BY <1>1 DEF FavInv, DefaultOK
<1>3. edits' \in 0 .. MaxEdits BY <1>1, <1>2, Counts, Zenon
<1>4. TypeOK' BY <1>1, <1>2, <1>3 DEF TypeOK
<1>5. OpShape' BY <1>1, <1>2, Zenon DEF OpShape
<1>6. pc' # "idle" BY <1>1
<1> QED BY <1>1, <1>2, <1>4, <1>5, <1>6, Calm, Zenon

LEMMA ChangeStep == ASSUME FavInv, NEW new, NEW rebuild \in BOOLEAN, Change(new, rebuild),
                           IsIndex(new), HasDefault(new),
                           ~rebuild /\ ~MixedDrag => Listed(new) = Listed(index)
                    PROVE  FavInv'
PROOF
<1>1. /\ pc = "idle" /\ Edit /\ pc' = "save" /\ index' = new
      /\ op' = [NewOp EXCEPT !.rebuild = rebuild]
      /\ files' = files /\ hidden' = hidden /\ stored' = stored /\ made' = made
      /\ mishaps' = mishaps /\ outside' = outside
    BY DEF Change
<1>2. TypeOK /\ OpShape /\ HasDefault(index) /\ Matches
    BY <1>1 DEF FavInv, DefaultOK, StepOK
<1>3. op' = Op(index, files, stored, {}, {}, {}, <<>>, rebuild, TRUE, FALSE)
    BY <1>1, NewOps DEF Op
<1>4. edits' \in 0 .. MaxEdits BY <1>1, <1>2, Counts, Zenon
<1>5. TypeOK' BY <1>1, <1>2, <1>4 DEF TypeOK
<1>6. IsIndex(index) /\ outside = [names |-> outside.names, gone |-> outside.gone]
    BY <1>2, Zenon DEF TypeOK, OpShape
<1>7. ~rebuild => Matches' BY <1>1, <1>2, Zenon DEF Matches
<1> QED BY <1>1, <1>2, <1>3, <1>5, <1>6, <1>7, Saving, Zenon

-----------------------------------------------------------------------------
(* The operations of the user, which all go by Change, or save by          *)
(* themselves.                                                             *)

LEMMA AddGroupStep == ASSUME FavInv, NEW g \in Group, AddGroup(g) PROVE FavInv'
PROOF
<1> DEFINE new == Put(index, g, {})
<1>1. pc = "idle" /\ Change(new, TRUE) BY Zenon DEF AddGroup, Change
<1>2. IsIndex(index) /\ HasDefault(index) BY <1>1 DEF FavInv, DefaultOK, TypeOK
<1>3. IsIndex(new) /\ HasDefault(new) BY <1>2 DEF IsIndex, Put, HasDefault
<1> HIDE DEF new
<1> QED BY <1>1, <1>3, ChangeStep, Zenon

LEMMA DeleteGroupStep == ASSUME FavInv, NEW g \in Group, DeleteGroup(g) PROVE FavInv'
PROOF
<1> DEFINE moved == IF Default \in DOMAIN index
                    THEN [index EXCEPT ![Default] = @ \cup index[g]] ELSE index
           new == Drop(moved, g)
<1>1. pc = "idle" /\ g \in DOMAIN index \ {Default} /\ Change(new, TRUE)
    BY Zenon DEF DeleteGroup, Change
<1>2. IsIndex(index) /\ HasDefault(index) BY <1>1 DEF FavInv, DefaultOK, TypeOK
<1>3. IsIndex(moved) /\ DOMAIN moved = DOMAIN index BY <1>1, <1>2 DEF IsIndex, HasDefault
<1> HIDE DEF moved
<1>4. DOMAIN new = DOMAIN moved \ {g} /\ \A h \in DOMAIN moved \ {g} : new[h] = moved[h]
    BY Drops, Zenon
<1> HIDE DEF new
<1>5. IsIndex(new) /\ HasDefault(new) BY <1>1, <1>2, <1>3, <1>4 DEF IsIndex, HasDefault
<1> QED BY <1>1, <1>5, ChangeStep, Zenon

LEMMA MoveItemStep == ASSUME FavInv, NEW f \in Name, NEW from \in DOMAIN index,
                             NEW to \in DOMAIN index, MoveItem(f, from, to)
                      PROVE  FavInv'
PROOF
<1> DEFINE new == [index EXCEPT ![from] = @ \ {f}, ![to] = @ \cup {f}]
<1>1. pc = "idle" /\ to # from /\ Change(new, TRUE) BY Zenon DEF MoveItem, Change
<1>2. IsIndex(index) /\ HasDefault(index) BY <1>1 DEF FavInv, DefaultOK, TypeOK
<1>3. IsIndex(new) /\ HasDefault(new) BY <1>1, <1>2 DEF IsIndex, HasDefault
<1> HIDE DEF new
<1> QED BY <1>1, <1>3, ChangeStep, Zenon

LEMMA MoveSelectedStep == ASSUME FavInv, NEW fs \in SUBSET Name, NEW to \in DOMAIN index,
                                 MoveSelected(fs, to)
                          PROVE  FavInv'
PROOF
<1> DEFINE new == [g \in DOMAIN index |-> IF g = to THEN index[g] \cup fs ELSE index[g] \ fs]
<1>1. pc = "idle" /\ Change(new, TRUE) BY Zenon DEF MoveSelected, Change
<1>2. IsIndex(index) /\ HasDefault(index) BY <1>1 DEF FavInv, DefaultOK, TypeOK
<1>3. IsIndex(new) /\ HasDefault(new) BY <1>2 DEF IsIndex, HasDefault
<1> HIDE DEF new
<1> QED BY <1>1, <1>3, ChangeStep, Zenon

(* Without groups among them, dragged files are only moved.                *)
LEMMA DragItemStep == ASSUME FavInv, NEW rows \in SUBSET Rows, NEW gs \in SUBSET DOMAIN index,
                             NEW to \in DOMAIN index, DragItem(rows, gs, to)
                      PROVE  FavInv'
PROOF
<1> DEFINE fs == {r[2] : r \in rows}  new == [Without(rows, gs) EXCEPT ![to] = @ \cup fs]
<1>1. /\ pc = "idle" /\ Change(new, FALSE) /\ to \in DOMAIN index \ gs
      /\ ~MixedDrag => gs = {}
    BY Zenon DEF DragItem, Change
<1>2. IsIndex(index) /\ HasDefault(index) BY <1>1 DEF FavInv, DefaultOK, TypeOK
<1>3. /\ \A r \in rows : r[1] \in DOMAIN index /\ r[2] \in index[r[1]]
      /\ fs \subseteq Name
    BY DEF Rows
<1>4. /\ DOMAIN new = DOMAIN index \ gs
      /\ \A g \in DOMAIN index \ gs :
            new[g] = {f \in index[g] : <<g, f>> \notin rows} \cup (IF g = to THEN fs ELSE {})
    BY <1>1 DEF Without
<1>5. /\ \A g \in DOMAIN new : \A f : f \in new[g] => f \in index[g] \/ f \in fs
      /\ \A g \in DOMAIN new : \A f \in index[g] : f \in new[g] \/ <<g, f>> \in rows
      /\ to \in DOMAIN new /\ fs \subseteq new[to]
    BY <1>1, <1>4
<1>6. \A g, f : <<g, f>> \in rows => f \in fs
    <2> SUFFICES ASSUME NEW g, NEW f, <<g, f>> \in rows PROVE f \in fs OBVIOUS
    <2>1. <<g, f>>[2] = f OBVIOUS
    <2> QED BY <2>1, Zenon
<1>7. \A f \in fs : \E g \in DOMAIN index : f \in index[g] BY <1>3, Zenon
<1> HIDE DEF fs, new
<1>8. IsIndex(new) BY <1>2, <1>3, <1>4, <1>5 DEF IsIndex
<1>9. HasDefault(new) BY <1>1, <1>2, <1>4 DEF HasDefault
<1>10. ASSUME ~MixedDrag PROVE Listed(new) = Listed(index)
    <2>1. DOMAIN new = DOMAIN index BY <1>1, <1>4, <1>10
    <2>2. \A f : (\E g \in DOMAIN new : f \in new[g]) <=> \E g \in DOMAIN index : f \in index[g]
        BY <1>5, <1>6, <1>7, <2>1, Zenon
    <2>3. \A f : f \in Listed(new) <=> f \in Listed(index) BY <2>2, InGroup, Zenon
    <2> QED BY <2>3
<1> QED BY <1>1, <1>8, <1>9, <1>10, ChangeStep, Zenon

LEMMA DragGroupStep == ASSUME FavInv, NEW rows \in SUBSET Rows, DragGroup(rows) PROVE FavInv'
PROOF
<1> DEFINE new == Without(rows, {})
<1>1. pc = "idle" /\ Change(new, FALSE) /\ (~MixedDrag => rows = {}) BY Zenon DEF DragGroup, Change
<1>2. IsIndex(index) /\ HasDefault(index) BY <1>1 DEF FavInv, DefaultOK, TypeOK
<1>3. /\ DOMAIN new = DOMAIN index /\ \A g \in DOMAIN index : new[g] \subseteq index[g]
      /\ rows = {} => \A g \in DOMAIN index : new[g] = index[g]
    BY DEF Without
<1> HIDE DEF new
<1>4. IsIndex(new) /\ HasDefault(new) BY <1>2, <1>3 DEF IsIndex, HasDefault
<1>5. ASSUME rows = {} PROVE \A f : f \in Listed(new) <=> f \in Listed(index)
    BY <1>3, <1>5, InGroup, Zenon
<1>6. ~MixedDrag => Listed(new) = Listed(index) BY <1>1, <1>5
<1> QED BY <1>1, <1>4, <1>6, ChangeStep, Zenon

LEMMA Makes == ASSUME TypeOK, NEW f \in Name, files' = Put(files, f, made + 1), made' = made + 1
               PROVE  /\ made' \in Nat /\ DOMAIN files' \subseteq Name
                      /\ files' \in [DOMAIN files' -> 1 .. made']
PROOF
<1>1. made \in Nat /\ files \in [DOMAIN files -> 1 .. made] /\ DOMAIN files \subseteq Name BY DEF TypeOK
<1>2. DOMAIN files' = DOMAIN files \cup {f} /\ IsFun(files')
      /\ files'[f] = made + 1 /\ \A y \in DOMAIN files : y # f => files'[y] = files[y]
    BY DEF Put, IsFun
<1>3. \A y \in DOMAIN files' : files'[y] \in 1 .. made' BY <1>1, <1>2
<1> QED BY <1>1, <1>2, <1>3 DEF IsFun

LEMMA AddStep == ASSUME FavInv, NEW f \in Name, Add(f) PROVE FavInv'
PROOF
<1>1. /\ pc = "idle" /\ Edit /\ pc' = "save"
      /\ files' = Put(files, f, made + 1) /\ made' = made + 1
      /\ index' = [EnsureDefault(index) EXCEPT ![Default] = @ \cup {f}]
      /\ op' = [NewOp EXCEPT !.undo = FALSE]
      /\ hidden' = hidden /\ stored' = stored /\ mishaps' = mishaps /\ outside' = outside
    BY DEF Add
<1>2. TypeOK /\ OpShape /\ HasDefault(index) /\ IsIndex(index)
    BY <1>1 DEF FavInv, DefaultOK, TypeOK
<1>3. op' = Op(index, files, stored, {}, {}, {}, <<>>, TRUE, FALSE, FALSE)
    BY <1>1, NewOps DEF Op
<1>4. IsIndex(index') /\ HasDefault(index')
    BY <1>1, <1>2, FavoritesAssumption DEF IsIndex, EnsureDefault, HasDefault
<1>5. /\ made' \in Nat /\ DOMAIN files' \subseteq Name /\ files' \in [DOMAIN files' -> 1 .. made']
    BY <1>1, <1>2, Makes, Zenon
<1>6. edits' \in 0 .. MaxEdits BY <1>1, <1>2, Counts, Zenon
<1>7. hidden' \subseteq Name \X (1 .. made') BY <1>1, <1>2 DEF TypeOK
<1>8. TypeOK' BY <1>1, <1>2, <1>4, <1>5, <1>6, <1>7 DEF TypeOK
<1>9. outside = [names |-> outside.names, gone |-> outside.gone] BY <1>2, Zenon DEF OpShape
<1> QED BY <1>1, <1>2, <1>3, <1>4, <1>8, <1>9, Saving, Zenon

LEMMA Moves == ASSUME NEW f \in DOMAIN files, NEW new \in Name, DOMAIN files \subseteq Name,
                      new \in DOMAIN files => new = f,
                      files' = Put(Drop(files, f), new, files[f])
               PROVE  /\ HasMoved(files, files', f, new)
                      /\ IsFun(files')
PROOF
<1>1. DOMAIN Drop(files, f) = DOMAIN files \ {f}
      /\ \A y \in DOMAIN files \ {f} : Drop(files, f)[y] = files[y]
    BY Drops, Zenon
<1>2. DOMAIN files' = DOMAIN Drop(files, f) \cup {new} /\ files'[new] = files[f]
      /\ \A y \in DOMAIN Drop(files, f) : y # new => files'[y] = Drop(files, f)[y]
    BY DEF Put
<1>3. IsFun(files') BY DEF Put, IsFun
<1> QED BY <1>1, <1>2, <1>3 DEF HasMoved

LEMMA RenameStep == ASSUME FavInv, NEW f \in Name, NEW new \in Name, NEW g \in Group, Rename(f, new, g)
                    PROVE  FavInv'
PROOF
<1>1. /\ pc = "idle" /\ Edit
      /\ hidden' = hidden /\ stored' = stored /\ made' = made /\ mishaps' = mishaps /\ outside' = outside
      /\ g \in DOMAIN index /\ f \in index[g]
    BY DEF Rename
<1>2. TypeOK /\ OpShape /\ HasDefault(index) /\ IsIndex(index)
    BY <1>1 DEF FavInv, DefaultOK, TypeOK
<1>3. edits' \in 0 .. MaxEdits BY <1>1, <1>2, Counts, Zenon
<1>4. outside = [names |-> outside.names, gone |-> outside.gone] BY <1>2, Zenon DEF OpShape
<1>5. CASE f \in DOMAIN files
    <2>1. /\ new \in DOMAIN files => new = f
          /\ files' = Put(Drop(files, f), new, files[f])
          /\ index' = [index EXCEPT ![g] = (@ \ {f}) \cup {new}]
          /\ op' = [NewOp EXCEPT !.renamed = <<f, new>>]
          /\ pc' = "save"
        BY <1>5 DEF Rename
    <2> DEFINE both == <<f, new>>
    <2>2. both # <<>> /\ both[1] = f /\ both[2] = new OBVIOUS
    <2> HIDE DEF both
    <2>3. op' = Op(index, files, stored, {}, {}, {}, both, TRUE, TRUE, FALSE)
        BY <2>1, NewOps DEF Op, both
    <2>4. DOMAIN files \subseteq Name BY <1>2 DEF TypeOK
    <2>5. HasMoved(files, files', f, new) /\ IsFun(files')
        BY <1>5, <2>1, <2>4, Moves, Zenon
    <2>6. IsIndex(index') /\ HasDefault(index') BY <1>2, <2>1 DEF IsIndex, HasDefault
    <2>7. DOMAIN files' \subseteq Name /\ \A y \in DOMAIN files' : files'[y] \in 1 .. made'
        BY <1>1, <1>2, <2>5 DEF TypeOK, HasMoved
    <2>8. files' \in [DOMAIN files' -> 1 .. made'] BY <2>5, <2>7 DEF IsFun
    <2>9. TypeOK' BY <1>1, <1>2, <1>3, <2>1, <2>6, <2>7, <2>8 DEF TypeOK
    <2> QED BY <1>1, <1>2, <1>4, <2>1, <2>2, <2>3, <2>5, <2>6, <2>9, Saving, Zenon
<1>6. CASE f \notin DOMAIN files
    <2>1. pc' = "refresh" /\ files' = files /\ index' = index /\ op' = op BY <1>6 DEF Rename
    <2>2. TypeOK' BY <1>1, <1>2, <1>3, <2>1 DEF TypeOK
    <2>3. OpShape' BY <1>1, <1>2, <2>1, Zenon DEF OpShape
    <2>4. pc' # "idle" BY <2>1
    <2> QED BY <1>2, <2>1, <2>2, <2>3, <2>4, Calm, Zenon
<1> QED BY <1>5, <1>6

-----------------------------------------------------------------------------
(* A removal hides the files first.                                        *)

LEMMA RemoveStep == ASSUME FavInv, NEW fs \in SUBSET Name, Remove(fs) PROVE FavInv'
PROOF
<1>1. /\ pc = "idle" /\ Edit /\ pc' = "stage"
      /\ op' = [NewOp EXCEPT !.left = fs, !.chosen = fs]
      /\ files' = files /\ hidden' = hidden /\ stored' = stored /\ index' = index
      /\ made' = made /\ mishaps' = mishaps /\ outside' = outside
    BY DEF Remove
<1>2. TypeOK /\ OpShape /\ HasDefault(index) /\ Matches
    BY <1>1 DEF FavInv, DefaultOK, StepOK
<1>3. op' = Op(index, files, stored, fs, fs, {}, <<>>, TRUE, TRUE, FALSE)
    BY <1>1, NewOps DEF Op
<1>4. /\ op'.pre = index /\ op'.files = files /\ op'.stored = stored /\ op'.left = fs
      /\ op'.chosen = fs /\ op'.staged = {} /\ op'.renamed = <<>> /\ op'.rebuild = TRUE
      /\ op'.undo = TRUE /\ op'.broken = FALSE
    BY <1>3 DEF Op
<1>5. edits' \in 0 .. MaxEdits BY <1>1, <1>2, Counts, Zenon
<1>6. TypeOK' BY <1>1, <1>2, <1>5 DEF TypeOK
<1>7. OpShape' BY <1>1, <1>2, <1>3, <1>4, Zenon DEF OpShape, IsOp
<1>8. DefaultOK' BY <1>1, <1>2, <1>4, Zenon DEF DefaultOK, TypeOK
<1>9. StagedOK' BY <1>4, Zenon DEF StagedOK
<1>10. RenamedOK' BY <1>4, Zenon DEF RenamedOK
<1>11. TraceOK'
    <2>1. IsFun(files) BY <1>2 DEF TypeOK, IsFun
    <2>2. TakenFrom(op'.files, files', op'.staged) BY <1>1, <1>4 DEF TakenFrom
    <2> QED BY <1>1, <1>4, <2>1, <2>2, Zenon DEF TraceOK
<1>12. StepOK'
    <2>1. StageOK' BY <1>1, <1>2, <1>4, Zenon DEF StageOK, Matches
    <2> QED BY <1>1, <2>1 DEF StepOK
<1> QED BY <1>6, <1>7, <1>8, <1>9, <1>10, <1>11, <1>12, Zenon DEF FavInv

(* What hiding a file changes.                                             *)
LEMMA StageFacts == ASSUME FavInv, NEW f \in Name, Stage(f), NEW s, s = <<f, files[f]>>
    PROVE  /\ pc = "stage" /\ pc' = "stage" /\ f \in op.chosen
           /\ stored' = stored /\ index' = index /\ made' = made /\ edits' = edits /\ outside' = outside
           /\ IsOp(op') /\ Kept(op', op) /\ op'.left = op.left \ {f}
           /\ op'.renamed = op.renamed /\ op'.broken = op.broken
           /\ \/ op'.staged = op.staged /\ files' = files /\ hidden' = hidden
                 /\ (mishaps' = mishaps \/ Mishap)
              \/ /\ f \in DOMAIN files /\ files' = Drop(files, f) /\ mishaps' = mishaps
                 /\ hidden' = hidden \cup {s} /\ op'.staged = op.staged \cup {s}
PROOF
<1>1. /\ pc = "stage" /\ pc' = "stage" /\ f \in op.left
      /\ stored' = stored /\ index' = index /\ made' = made /\ edits' = edits /\ outside' = outside
    BY DEF Stage
<1>2. StageOK /\ IsOp(op) BY <1>1 DEF FavInv, StepOK, OpShape
<1>3. f \in op.chosen BY <1>1, <1>2 DEF StageOK
<1> DEFINE rest == WithLeft(op, op.left \ {f})  more == WithStaged(rest, rest.staged \cup {s})
<1>4. \/ op' = rest /\ files' = files /\ hidden' = hidden /\ (mishaps' = mishaps \/ Mishap)
      \/ /\ f \in DOMAIN files /\ files' = Drop(files, f) /\ mishaps' = mishaps
         /\ hidden' = hidden \cup {s} /\ op' = more
    BY Zenon DEF Stage, WithLeft, WithStaged
<1>5. LeftSet(rest, op, op.left \ {f}) BY <1>2, Edits, Zenon
<1>6. /\ IsOp(more) /\ Kept(more, op) /\ more.left = op.left \ {f}
      /\ more.staged = op.staged \cup {s} /\ more.renamed = op.renamed /\ more.broken = op.broken
    <2> HIDE DEF rest
    <2>1. StagedSet(more, rest, rest.staged \cup {s})
        <3>1. IsOp(rest) BY <1>5, Zenon DEF LeftSet
        <3> QED BY <3>1, Edits, Zenon
    <2> HIDE DEF more
    <2> QED BY <1>5, <2>1, Zenon DEF Kept, LeftSet, StagedSet
<1> HIDE DEF more, rest
<1>7. CASE op' = rest /\ files' = files /\ hidden' = hidden /\ (mishaps' = mishaps \/ Mishap)
    BY <1>1, <1>3, <1>5, <1>7, Zenon DEF LeftSet
<1>8. CASE /\ f \in DOMAIN files /\ files' = Drop(files, f) /\ mishaps' = mishaps
           /\ hidden' = hidden \cup {s} /\ op' = more
    BY <1>1, <1>3, <1>6, <1>8, Zenon
<1> QED BY <1>4, <1>7, <1>8, Zenon

LEMMA StageStep == ASSUME FavInv, NEW f \in Name, Stage(f) PROVE FavInv'
PROOF
<1> DEFINE s == <<f, files[f]>>
<1>1. /\ pc = "stage" /\ pc' = "stage" /\ f \in op.chosen
      /\ stored' = stored /\ index' = index /\ made' = made /\ edits' = edits /\ outside' = outside
      /\ IsOp(op') /\ Kept(op', op) /\ op'.left = op.left \ {f}
      /\ op'.renamed = op.renamed /\ op'.broken = op.broken
    BY StageFacts, Zenon
<1>2. \/ op'.staged = op.staged /\ files' = files /\ hidden' = hidden
                 /\ (mishaps' = mishaps \/ Mishap)
      \/ /\ f \in DOMAIN files /\ files' = Drop(files, f) /\ mishaps' = mishaps
         /\ hidden' = hidden \cup {s} /\ op'.staged = op.staged \cup {s}
    BY StageFacts, Zenon
<1>3. s[1] = f /\ s[2] = files[f] OBVIOUS
<1> HIDE DEF s
<1>4. /\ TypeOK /\ OpShape /\ StageOK /\ HasDefault(index)
      /\ IsIndex(op.pre) /\ HasDefault(op.pre)
      /\ op.staged \subseteq hidden
      /\ \A x, t \in op.staged : x[1] = t[1] => x = t
      /\ \A x \in op.staged : x[1] \notin DOMAIN files
    BY <1>1 DEF FavInv, StepOK, DefaultOK, StagedOK
<1>5. op.undo /\ op.rebuild /\ ~op.broken /\ op.renamed = <<>> BY <1>4, Zenon DEF StageOK
<1>6. op.stored = stored /\ IsFun(op.files)
      /\ TakenFrom(op.files, files, op.staged)
    BY <1>1, <1>5 DEF FavInv, TraceOK
<1>7. /\ op'.pre = op.pre /\ op'.files = op.files /\ op'.stored = op.stored
      /\ op'.left = op.left \ {f} /\ op'.chosen = op.chosen /\ op'.renamed = <<>>
      /\ op'.rebuild = op.rebuild /\ op'.undo = op.undo /\ op'.broken = op.broken
    BY <1>1, <1>5, Zenon DEF Kept
<1>8. OpShape' BY <1>1, <1>4, <1>7, Zenon DEF OpShape
<1>9. DefaultOK' BY <1>1, <1>4, <1>7, Zenon DEF DefaultOK
<1>10. RenamedOK' BY <1>7, Zenon DEF RenamedOK
<1>11. CASE op'.staged = op.staged /\ files' = files /\ hidden' = hidden
                 /\ (mishaps' = mishaps \/ Mishap)
    <2>1. mishaps' \in 0 .. MaxMishaps BY <1>4, <1>11, Counts DEF TypeOK
    <2>2. TypeOK' BY <1>1, <1>4, <1>11, <2>1 DEF TypeOK
    <2>3. StagedOK' BY <1>4, <1>5, <1>7, <1>11, Zenon DEF StagedOK
    <2>4. TraceOK' BY <1>1, <1>6, <1>7, <1>11, Zenon DEF TraceOK
    <2>5. op'.left \subseteq op'.chosen BY <1>4, <1>7 DEF StageOK
    <2>6. StageOK' BY <1>1, <1>4, <1>5, <1>7, <1>11, <2>5, Zenon DEF StageOK
    <2>7. StepOK' BY <1>1, <2>6 DEF StepOK
    <2> QED BY <1>8, <1>9, <1>10, <2>2, <2>3, <2>4, <2>7, Zenon DEF FavInv
<1>12. CASE /\ f \in DOMAIN files /\ files' = Drop(files, f) /\ mishaps' = mishaps
            /\ hidden' = hidden \cup {s} /\ op'.staged = op.staged \cup {s}
    <2>1. DOMAIN files' = DOMAIN files \ {f} /\ \A y \in DOMAIN files \ {f} : files'[y] = files[y]
        BY <1>12, Drops, Zenon
    <2>2. IsFun(files') BY <1>12 DEF Drop, Restrict, IsFun
    <2>3. s \in Name \X (1 .. made) BY <1>4, <1>12 DEF TypeOK, s
    <2>4. TypeOK'
        <3>1. DOMAIN files' \subseteq Name /\ \A y \in DOMAIN files' : files'[y] \in 1 .. made'
            BY <1>1, <1>4, <2>1 DEF TypeOK
        <3>2. files' \in [DOMAIN files' -> 1 .. made'] BY <2>2, <3>1 DEF IsFun
        <3> QED BY <1>1, <1>4, <1>12, <2>3, <3>1, <3>2 DEF TypeOK
    <2>5. StagedOK'
        <3>1. op'.staged \subseteq hidden' BY <1>4, <1>12
        <3>2. \A x \in op'.staged : x[1] \notin DOMAIN files' BY <1>3, <1>4, <1>12, <2>1
        <3>3. \A x, t \in op'.staged : x[1] = t[1] => x = t BY <1>3, <1>4, <1>12
        <3> QED BY <1>5, <1>7, <3>1, <3>2, <3>3, Zenon DEF StagedOK
    <2>6. TraceOK'
        <3>1. \A x : x \in DOMAIN op.files <=> x \in DOMAIN files \/ \E t \in op.staged : t[1] = x
            BY <1>6, Zenon DEF TakenFrom
        <3>2. \A x : x \in DOMAIN files' \cup {t[1] : t \in op'.staged}
                     <=> x \in DOMAIN files' \/ \E t \in op'.staged : t[1] = x
            BY Zenon
        <3>3. DOMAIN op.files = DOMAIN files' \cup {t[1] : t \in op'.staged}
            BY <1>3, <1>12, <2>1, <3>1, <3>2
        <3>4. TakenFrom(op.files, files', op'.staged)
            BY <1>3, <1>6, <1>12, <2>1, <3>3 DEF TakenFrom
        <3> QED BY <1>1, <1>6, <1>7, <3>4, Zenon DEF TraceOK
    <2>7. StepOK'
        <3>1. op'.left \subseteq op'.chosen BY <1>4, <1>7 DEF StageOK
        <3>2. \A t \in op'.staged : t[1] \in op'.chosen BY <1>1, <1>3, <1>4, <1>7, <1>12 DEF StageOK
        <3>3. ASSUME ~MixedDrag, NEW x \in Name \ outside'.names
              PROVE  x \in Listed(index') <=> x \in DOMAIN files' \/ \E t \in op'.staged : t[1] = x
            <4>1. x \in Listed(index) <=> x \in DOMAIN files \/ \E t \in op.staged : t[1] = x
                BY <1>1, <1>4, <3>3, Zenon DEF StageOK
            <4> QED BY <1>1, <1>3, <1>12, <2>1, <4>1
        <3>4. StageOK' BY <1>5, <1>7, <3>1, <3>2, <3>3, Zenon DEF StageOK
        <3> QED BY <1>1, <3>4 DEF StepOK
    <2> QED BY <1>8, <1>9, <1>10, <2>4, <2>5, <2>6, <2>7, Zenon DEF FavInv
<1> QED BY <1>2, <1>11, <1>12, Zenon

LEMMA StagedStep == ASSUME FavInv, Staged PROVE FavInv'
PROOF
<1> DEFINE removed == op.chosen \ DOMAIN files
           new == [g \in DOMAIN index |-> index[g] \ removed]
<1>1. /\ pc = "stage"
      /\ UNCHANGED <<files, hidden, stored, made, edits, mishaps, outside>>
      /\ \/ removed = {} /\ pc' = "idle" /\ op' = NoOp /\ index' = index
         \/ index' = new /\ pc' = "save" /\ op' = op
    BY Zenon DEF Staged
<1>2. /\ TypeOK /\ OpShape /\ StageOK /\ HasDefault(index)
      /\ IsIndex(op.pre) /\ HasDefault(op.pre)
      /\ op.staged \subseteq hidden
      /\ \A x, t \in op.staged : x[1] = t[1] => x = t
      /\ \A x \in op.staged : x[1] \notin DOMAIN files
    BY <1>1 DEF FavInv, StepOK, DefaultOK, StagedOK
<1>3. op.undo /\ op.rebuild /\ ~op.broken /\ op.renamed = <<>> BY <1>2, Zenon DEF StageOK
<1>4. \A s \in op.staged : s[1] \in removed BY <1>2 DEF StageOK
<1>5. DOMAIN new = DOMAIN index /\ \A g \in DOMAIN index : new[g] = index[g] \ removed OBVIOUS
<1> HIDE DEF removed, new
<1>6. CASE removed = {} /\ pc' = "idle" /\ op' = NoOp /\ index' = index
    <2>1. TypeOK' BY <1>1, <1>2, <1>6 DEF TypeOK
    <2>2. outside' = [names |-> outside'.names, gone |-> outside'.gone]
        BY <1>1, <1>2, Zenon DEF OpShape
    <2>3. OpShape' BY <1>2, <1>6, <2>2, Rested, Zenon
    <2>4. ~ \E s \in op.staged : TRUE BY <1>4, <1>6
    <2>5. Matches' BY <1>1, <1>2, <1>6, <2>4, Zenon DEF Matches, StageOK
    <2> QED BY <1>2, <1>6, <2>1, <2>3, <2>5, Calm, Zenon
<1>7. CASE index' = new /\ pc' = "save" /\ op' = op
    <2>1. IsIndex(index') /\ HasDefault(index') BY <1>2, <1>5, <1>7 DEF TypeOK, IsIndex, HasDefault
    <2>2. TypeOK' BY <1>1, <1>2, <1>7, <2>1 DEF TypeOK
    <2>3. OpShape' BY <1>1, <1>2, <1>7, Zenon DEF OpShape
    <2>4. DefaultOK' BY <1>2, <1>7, <2>1, Zenon DEF DefaultOK
    <2>5. StagedOK' BY <1>1, <1>2, <1>3, <1>7, Zenon DEF StagedOK
    <2>6. RenamedOK' BY <1>3, <1>7, Zenon DEF RenamedOK
    <2>7. TraceOK' BY <1>1, <1>7, Zenon DEF FavInv, TraceOK
    <2>8. \A s \in op'.staged : s[1] \notin Listed(index')
        <3>1. \A s \in op.staged : ~ \E g \in DOMAIN index' : s[1] \in index'[g]
            BY <1>4, <1>5, <1>7
        <3> QED BY <1>7, <3>1, InGroup, Zenon
    <2>9. StepOK' BY <1>3, <1>7, <2>8 DEF StepOK
    <2> QED BY <2>2, <2>3, <2>4, <2>5, <2>6, <2>7, <2>9, Zenon DEF FavInv
<1> QED BY <1>1, <1>6, <1>7, Zenon

-----------------------------------------------------------------------------
(* The index is saved, and what was hidden is deleted.                     *)

LEMMA SaveStep == ASSUME FavInv, Save PROVE FavInv'
PROOF
<1>1. /\ pc = "save"
      /\ files' = files /\ hidden' = hidden /\ index' = index /\ made' = made /\ edits' = edits
      /\ outside' = outside
      /\ op' = IF pc' = "idle" THEN NoOp ELSE op
    BY DEF Save
<1>2. \/ stored' = index /\ mishaps' = mishaps /\ pc' = AfterSave(TRUE)
      \/ stored' = stored /\ Mishap /\ pc' = AfterSave(FALSE)
    BY DEF Save, Saved, NotSaved
<1>3. /\ TypeOK /\ OpShape /\ HasDefault(index)
      /\ IsIndex(op.pre) /\ HasDefault(op.pre)
      /\ op.staged \subseteq hidden
      /\ \A x, t \in op.staged : x[1] = t[1] => x = t
      /\ \A x \in op.staged : x[1] \notin DOMAIN files
      /\ op.staged # {} => op.undo /\ op.renamed = <<>>
      /\ \A s \in op.staged : s[1] \notin Listed(index)
      /\ ~op.rebuild => op.staged = {} /\ Matches
    BY <1>1 DEF FavInv, StepOK, DefaultOK, StagedOK
<1>4. /\ pc' \in {"undo", "commit", "refresh", "idle"}
      /\ pc' = "undo" => stored' = stored /\ op.undo
      /\ pc' = "commit" => stored' = index
      /\ pc' = "idle" => ~op.rebuild
    BY <1>2, <1>3 DEF AfterSave
<1>5. mishaps' \in 0 .. MaxMishaps BY <1>2, <1>3, Counts DEF TypeOK
<1>6. IsIndex(index) /\ (stored' # None => IsIndex(stored')) BY <1>2, <1>3 DEF TypeOK
<1>7. TypeOK' BY <1>1, <1>3, <1>4, <1>5, <1>6 DEF TypeOK
<1>8. outside' = [names |-> outside'.names, gone |-> outside'.gone]
    BY <1>1, <1>3, Zenon DEF OpShape
<1>9. OpShape'
    <2>1. CASE pc' = "idle" BY <1>1, <1>3, <1>8, <2>1, Rested, Zenon
    <2>2. CASE pc' # "idle" BY <1>1, <1>3, <2>2, Zenon DEF OpShape
    <2> QED BY <2>1, <2>2
<1>10. CASE pc' \in {"refresh", "idle"}
    <2>1. pc' = "idle" => Matches' BY <1>1, <1>3, <1>4, Zenon DEF Matches
    <2>2. pc' \in {"off", "refresh", "idle"} BY <1>10
    <2> QED BY <1>1, <1>3, <1>7, <1>9, <2>1, <2>2, Calm, Zenon
<1>11. CASE pc' = "commit"
    <2>1. op' = op BY <1>1, <1>11
    <2>2. pc' \notin {"stage", "save", "undo"} /\ pc' # "idle" /\ pc' # "undo" BY <1>11
    <2>3. DefaultOK' BY <1>1, <1>3, <2>2, Zenon DEF DefaultOK
    <2>4. StagedOK' BY <2>2, Zenon DEF StagedOK
    <2>5. RenamedOK' BY <2>2 DEF RenamedOK
    <2>6. TraceOK' BY <2>2, Zenon DEF TraceOK
    <2>7. StepOK' BY <1>3, <1>4, <1>11, <2>1 DEF StepOK
    <2> QED BY <1>7, <1>9, <2>3, <2>4, <2>5, <2>6, <2>7, Zenon DEF FavInv
<1>12. CASE pc' = "undo"
    <2>1. op' = op /\ stored' = stored BY <1>1, <1>4, <1>12
    <2>2. DefaultOK' BY <1>1, <1>3, <2>1, Zenon DEF DefaultOK
    <2>3. StagedOK' BY <1>1, <1>3, <2>1, Zenon DEF StagedOK
    <2>4. RenamedOK'
        <3>1. op.renamed # <<>> => op.staged = {} /\ ~op.broken
                                   /\ HasMoved(op.files, files, op.renamed[1], op.renamed[2])
            BY <1>1 DEF FavInv, RenamedOK
        <3> QED BY <1>1, <2>1, <3>1, Zenon DEF RenamedOK
    <2>5. TraceOK'
        <3>1. op.stored = stored /\ IsFun(op.files)
              /\ (op.undo /\ ~op.broken /\ op.renamed = <<>> => TakenFrom(op.files, files, op.staged))
            BY <1>1 DEF FavInv, TraceOK
        <3> QED BY <1>1, <2>1, <3>1, Zenon DEF TraceOK
    <2>6. StepOK' BY <1>4, <1>12, <2>1 DEF StepOK
    <2> QED BY <1>7, <1>9, <2>2, <2>3, <2>4, <2>5, <2>6, Zenon DEF FavInv
<1> QED BY <1>4, <1>10, <1>11, <1>12

LEMMA CommitFacts == ASSUME FavInv, Commit
    PROVE  /\ pc = "commit" /\ pc' \in {"refresh", "commit"}
           /\ files' = files /\ stored' = stored /\ index' = index /\ made' = made /\ edits' = edits
           /\ outside' = outside
           /\ IsOp(op') /\ Kept(op', op) /\ op'.broken = op.broken
           /\ op'.staged \subseteq op.staged
           /\ \E s \in op.staged : /\ op'.staged = op.staged \ {s}
                                   /\ hidden' = hidden \ {s} \/ hidden' = hidden
           /\ (mishaps' = mishaps \/ Mishap)
PROOF
<1>1. PICK s \in op.staged :
          /\ op' = WithStaged(op, op.staged \ {s})
          /\ pc' = (IF op.staged = {s} THEN "refresh" ELSE pc)
          /\ hidden' = hidden \ {s} \/ hidden' = hidden
          /\ (mishaps' = mishaps \/ Mishap)
    BY Zenon DEF Commit, WithStaged
<1>2. /\ pc = "commit"
      /\ files' = files /\ stored' = stored /\ index' = index /\ made' = made /\ edits' = edits
      /\ outside' = outside
    BY DEF Commit
<1>3. IsOp(op) BY Zenon DEF FavInv, OpShape
<1>4. StagedSet(op', op, op.staged \ {s}) BY <1>1, <1>3, Edits, Zenon
<1>5. IsOp(op') /\ Kept(op', op) /\ op'.broken = op.broken /\ op'.staged = op.staged \ {s}
    BY <1>4, Zenon DEF StagedSet
<1>6. pc' \in {"refresh", "commit"} /\ op'.staged \subseteq op.staged BY <1>1, <1>2, <1>5
<1> QED BY <1>1, <1>2, <1>5, <1>6, Zenon

LEMMA CommitStep == ASSUME FavInv, Commit PROVE FavInv'
PROOF
<1>1. /\ pc = "commit" /\ pc' \in {"refresh", "commit"}
      /\ files' = files /\ stored' = stored /\ index' = index /\ made' = made /\ edits' = edits
      /\ outside' = outside
      /\ IsOp(op') /\ Kept(op', op) /\ op'.broken = op.broken
      /\ op'.staged \subseteq op.staged
      /\ hidden' \subseteq hidden
      /\ (mishaps' = mishaps \/ Mishap)
    BY CommitFacts
<1>2. TypeOK /\ OpShape /\ HasDefault(index) BY <1>1 DEF FavInv, DefaultOK
<1>3. stored # None => \A s \in op.staged : s[1] \notin Listed(stored)
    BY <1>1 DEF FavInv, StepOK
<1>4. mishaps' \in 0 .. MaxMishaps BY <1>1, <1>2, Counts DEF TypeOK
<1>5. TypeOK' BY <1>1, <1>2, <1>4 DEF TypeOK
<1>6. OpShape' BY <1>1, <1>2, Zenon DEF OpShape, Kept
<1>7. CASE pc' = "refresh"
    <2>1. pc' \in {"off", "refresh", "idle"} /\ pc' # "idle" BY <1>7
    <2> QED BY <1>1, <1>2, <1>5, <1>6, <2>1, Calm, Zenon
<1>8. CASE pc' = "commit"
    <2>1. pc' \notin {"stage", "save", "undo"} /\ pc' # "idle" /\ pc' # "undo" BY <1>8
    <2>2. DefaultOK' BY <1>1, <1>2, <2>1, Zenon DEF DefaultOK
    <2>3. StagedOK' BY <2>1, Zenon DEF StagedOK
    <2>4. RenamedOK' BY <2>1 DEF RenamedOK
    <2>5. TraceOK' BY <2>1, Zenon DEF TraceOK
    <2>6. StepOK' BY <1>1, <1>3, <1>8 DEF StepOK
    <2> QED BY <1>5, <1>6, <2>2, <2>3, <2>4, <2>5, <2>6, Zenon DEF FavInv
<1> QED BY <1>1, <1>7, <1>8

-----------------------------------------------------------------------------
(* What was done to the files is taken back.                               *)

LEMMA UnstageFacts == ASSUME FavInv, pc = "undo", NEW s \in op.staged, Unstage(s)
    PROVE  /\ IsOp(op') /\ Kept(op', op) /\ op'.left = op.left /\ op'.staged = op.staged \ {s}
           /\ op'.renamed = op.renamed
           /\ \/ /\ files' = Put(files, s[1], s[2]) /\ hidden' = hidden \ {s}
                 /\ op'.broken = op.broken /\ mishaps' = mishaps
              \/ files' = files /\ hidden' = hidden /\ op'.broken = TRUE /\ Mishap
PROOF
<1> DEFINE less == WithStaged(op, op.staged \ {s})  broken == WithBroken(less, TRUE)
<1>1. \/ files' = Put(files, s[1], s[2]) /\ hidden' = hidden \ {s} /\ mishaps' = mishaps /\ op' = less
      \/ files' = files /\ hidden' = hidden /\ Mishap /\ op' = broken
    BY Zenon DEF Unstage, WithStaged, WithBroken
<1>2. IsOp(op) BY Zenon DEF FavInv, OpShape
<1>3. StagedSet(less, op, op.staged \ {s}) BY <1>2, Edits, Zenon
<1>4. IsOp(less) BY <1>3, Zenon DEF StagedSet
<1> HIDE DEF less
<1>5. BrokenSet(broken, less, TRUE) BY <1>4, Edits, Zenon
<1> HIDE DEF broken
<1>6. CASE files' = Put(files, s[1], s[2]) /\ hidden' = hidden \ {s} /\ mishaps' = mishaps /\ op' = less
    BY <1>3, <1>6, Zenon DEF StagedSet
<1>7. CASE files' = files /\ hidden' = hidden /\ Mishap /\ op' = broken
    BY <1>3, <1>5, <1>7, Zenon DEF StagedSet, BrokenSet, Kept
<1> QED BY <1>1, <1>6, <1>7, Zenon

LEMMA UnstageStep == ASSUME FavInv, Undo, NEW s \in op.staged, Unstage(s) PROVE FavInv'
PROOF
<1>1. /\ pc = "undo" /\ pc' = "undo"
      /\ stored' = stored /\ index' = index /\ made' = made /\ edits' = edits /\ outside' = outside
    BY DEF Undo
<1>2. /\ IsOp(op') /\ Kept(op', op) /\ op'.left = op.left /\ op'.staged = op.staged \ {s}
      /\ op'.renamed = op.renamed
      /\ \/ /\ files' = Put(files, s[1], s[2]) /\ hidden' = hidden \ {s}
            /\ op'.broken = op.broken /\ mishaps' = mishaps
         \/ files' = files /\ hidden' = hidden /\ op'.broken = TRUE /\ Mishap
    BY <1>1, UnstageFacts, Zenon
<1>3. /\ TypeOK /\ OpShape /\ HasDefault(index)
      /\ IsIndex(op.pre) /\ HasDefault(op.pre)
      /\ op.staged \subseteq hidden
      /\ \A x, t \in op.staged : x[1] = t[1] => x = t
      /\ \A x \in op.staged : x[1] \notin DOMAIN files
      /\ op.undo /\ op.renamed = <<>>
    BY <1>1 DEF FavInv, StepOK, DefaultOK, StagedOK
<1>4. op.stored = stored /\ IsFun(op.files)
      /\ (~op.broken => TakenFrom(op.files, files, op.staged))
    BY <1>1, <1>3 DEF FavInv, TraceOK
<1>5. /\ op'.pre = op.pre /\ op'.files = op.files /\ op'.stored = op.stored
      /\ op'.chosen = op.chosen /\ op'.rebuild = op.rebuild /\ op'.undo = op.undo
    BY <1>2, Zenon DEF Kept
<1>6. OpShape'
    <2>1. op'.broken \in BOOLEAN BY <1>2, <1>3, Zenon DEF OpShape
    <2> QED BY <1>1, <1>2, <1>3, <1>5, <2>1, Zenon DEF OpShape
<1>7. DefaultOK' BY <1>1, <1>3, <1>5, Zenon DEF DefaultOK
<1>8. RenamedOK' BY <1>2, <1>3, Zenon DEF RenamedOK
<1>9. StepOK' BY <1>1, <1>3, <1>5 DEF StepOK
<1>10. CASE /\ files' = Put(files, s[1], s[2]) /\ hidden' = hidden \ {s}
            /\ op'.broken = op.broken /\ mishaps' = mishaps
    <2>1. /\ DOMAIN files' = DOMAIN files \cup {s[1]} /\ files'[s[1]] = s[2] /\ IsFun(files')
          /\ \A y \in DOMAIN files : y # s[1] => files'[y] = files[y]
        BY <1>10 DEF Put, IsFun
    <2>2. s[1] \in Name /\ s[2] \in 1 .. made BY <1>3 DEF TypeOK
    <2>3. TypeOK'
        <3>1. DOMAIN files' \subseteq Name /\ \A y \in DOMAIN files' : files'[y] \in 1 .. made'
            BY <1>1, <1>3, <2>1, <2>2 DEF TypeOK
        <3>2. files' \in [DOMAIN files' -> 1 .. made'] BY <2>1, <3>1 DEF IsFun
        <3> QED BY <1>1, <1>3, <1>10, <3>1, <3>2 DEF TypeOK
    <2>4. StagedOK'
        <3>1. op'.staged \subseteq hidden' BY <1>2, <1>3, <1>10
        <3>2. \A x, t \in op'.staged : x[1] = t[1] => x = t BY <1>2, <1>3
        <3>3. \A x \in op'.staged : x[1] \notin DOMAIN files' BY <1>2, <1>3, <2>1
        <3> QED BY <1>2, <1>3, <1>5, <3>1, <3>2, <3>3, Zenon DEF StagedOK
    <2>5. TraceOK'
        <3>1. ASSUME ~op.broken PROVE TakenFrom(op.files, files', op'.staged)
            <4> TakenFrom(op.files, files, op.staged) BY <1>4, <3>1, Zenon
            <4>1. /\ \A x \in DOMAIN files : op.files[x] = files[x]
                  /\ \A t \in op.staged : op.files[t[1]] = t[2]
                BY Zenon DEF TakenFrom
            <4>2. \A x : x \in DOMAIN op.files <=> x \in DOMAIN files \/ \E t \in op.staged : t[1] = x
                BY Zenon DEF TakenFrom
            <4>3. \A x : x \in DOMAIN files' \cup {t[1] : t \in op'.staged}
                         <=> x \in DOMAIN files' \/ \E t \in op'.staged : t[1] = x
                BY Zenon
            <4>4. \A x : x \in DOMAIN op.files
                         <=> x \in DOMAIN files' \/ \E t \in op'.staged : t[1] = x
                BY <1>2, <1>3, <2>1, <4>2
            <4>5. DOMAIN op.files = DOMAIN files' \cup {t[1] : t \in op'.staged} BY <4>3, <4>4
            <4>6. \A x \in DOMAIN files' : op.files[x] = files'[x] BY <2>1, <4>1
            <4>7. \A t \in op'.staged : op.files[t[1]] = t[2] BY <1>2, <4>1
            <4> QED BY <4>5, <4>6, <4>7, Zenon DEF TakenFrom
        <3> QED BY <1>1, <1>4, <1>5, <1>10, <3>1, Zenon DEF TraceOK
    <2> QED BY <1>6, <1>7, <1>8, <1>9, <2>3, <2>4, <2>5, Zenon DEF FavInv
<1>11. CASE files' = files /\ hidden' = hidden /\ op'.broken = TRUE /\ Mishap
    <2>1. mishaps' \in 0 .. MaxMishaps BY <1>3, <1>11, Counts
    <2>2. TypeOK' BY <1>1, <1>3, <1>11, <2>1 DEF TypeOK
    <2>3. StagedOK'
        <3>1. op'.staged \subseteq op.staged BY <1>2
        <3>2. op'.staged \subseteq hidden' BY <1>3, <1>11, <3>1
        <3> QED BY <1>2, <1>3, <1>5, <1>11, <3>1, <3>2, Zenon DEF StagedOK
    <2>4. TraceOK' BY <1>1, <1>4, <1>5, <1>11, Zenon DEF TraceOK
    <2> QED BY <1>6, <1>7, <1>8, <1>9, <2>2, <2>3, <2>4, Zenon DEF FavInv
<1> QED BY <1>2, <1>10, <1>11, Zenon

(* Renaming back gives the directory there was before.                     *)
LEMMA MovesBack == ASSUME NEW old, NEW f, NEW new, HasMoved(old, files, f, new),
                          files' = Put(Drop(files, new), f, files[new])
                   PROVE  TakenFrom(old, files', {}) /\ IsFun(files')
PROOF
<1>1. DOMAIN Drop(files, new) = DOMAIN files \ {new}
      /\ \A y \in DOMAIN files \ {new} : Drop(files, new)[y] = files[y]
    BY Drops, Zenon
<1>2. DOMAIN files' = DOMAIN Drop(files, new) \cup {f} /\ files'[f] = files[new]
      /\ \A y \in DOMAIN Drop(files, new) : y # f => files'[y] = Drop(files, new)[y]
    BY DEF Put
<1>3. IsFun(files') BY DEF Put, IsFun
<1>4. DOMAIN old = DOMAIN files' BY <1>1, <1>2 DEF HasMoved
<1>5. \A x \in DOMAIN files' : old[x] = files'[x] BY <1>1, <1>2 DEF HasMoved
<1> QED BY <1>3, <1>4, <1>5 DEF TakenFrom

LEMMA RenameBackFacts == ASSUME FavInv, pc = "undo", RenameBack
    PROVE  /\ IsOp(op') /\ Kept(op', op) /\ op'.left = op.left /\ op'.staged = op.staged
           /\ op'.renamed = <<>> /\ hidden' = hidden
           /\ \/ /\ files' = Put(Drop(files, op.renamed[2]), op.renamed[1], files[op.renamed[2]])
                 /\ op'.broken = op.broken /\ mishaps' = mishaps
              \/ files' = files /\ op'.broken = TRUE /\ Mishap
PROOF
<1> DEFINE back == WithRenamed(op, <<>>)  broken == WithBroken(back, TRUE)
           moved == files' = Put(Drop(files, op.renamed[2]), op.renamed[1], files[op.renamed[2]])
<1>1. /\ hidden' = hidden
      /\ \/ moved /\ mishaps' = mishaps /\ op' = back
         \/ files' = files /\ Mishap /\ op' = broken
    BY Zenon DEF RenameBack, WithRenamed, WithBroken
<1> HIDE DEF moved
<1>2. IsOp(op) BY Zenon DEF FavInv, OpShape
<1>3. RenamedSet(back, op, <<>>) BY <1>2, Edits, Zenon
<1>4. IsOp(back) BY <1>3, Zenon DEF RenamedSet
<1> HIDE DEF back
<1>5. BrokenSet(broken, back, TRUE) BY <1>4, Edits, Zenon
<1> HIDE DEF broken
<1>6. CASE moved /\ mishaps' = mishaps /\ op' = back
    BY <1>1, <1>3, <1>6, Zenon DEF RenamedSet, moved
<1>7. CASE files' = files /\ Mishap /\ op' = broken
    BY <1>1, <1>3, <1>5, <1>7, Zenon DEF RenamedSet, BrokenSet, Kept
<1> QED BY <1>1, <1>6, <1>7, Zenon

LEMMA RenameBackStep == ASSUME FavInv, Undo, op.renamed # <<>>, RenameBack PROVE FavInv'
PROOF
<1> DEFINE f == op.renamed[1]  new == op.renamed[2]
<1>1. /\ pc = "undo" /\ pc' = "undo"
      /\ stored' = stored /\ index' = index /\ made' = made /\ edits' = edits /\ outside' = outside
    BY DEF Undo
<1>2. /\ IsOp(op') /\ Kept(op', op) /\ op'.left = op.left /\ op'.staged = op.staged
      /\ op'.renamed = <<>> /\ hidden' = hidden
      /\ \/ /\ files' = Put(Drop(files, new), f, files[new])
            /\ op'.broken = op.broken /\ mishaps' = mishaps
         \/ files' = files /\ op'.broken = TRUE /\ Mishap
    BY <1>1, RenameBackFacts, Zenon
<1>3. /\ TypeOK /\ OpShape /\ HasDefault(index)
      /\ IsIndex(op.pre) /\ HasDefault(op.pre) /\ op.undo
      /\ op.staged = {} /\ ~op.broken /\ HasMoved(op.files, files, f, new)
      /\ op.stored = stored /\ IsFun(op.files)
    BY <1>1 DEF FavInv, StepOK, DefaultOK, RenamedOK, TraceOK
<1> HIDE DEF f, new
<1>4. /\ op'.pre = op.pre /\ op'.files = op.files /\ op'.stored = op.stored
      /\ op'.chosen = op.chosen /\ op'.rebuild = op.rebuild /\ op'.undo = op.undo
    BY <1>2, Zenon DEF Kept
<1>5. OpShape'
    <2>1. op'.broken \in BOOLEAN BY <1>2, <1>3, Zenon DEF OpShape
    <2> QED BY <1>1, <1>2, <1>3, <1>4, <2>1, Zenon DEF OpShape
<1>6. DefaultOK' BY <1>1, <1>3, <1>4, Zenon DEF DefaultOK
<1>7. RenamedOK' BY <1>2, Zenon DEF RenamedOK
<1>8. StagedOK'
    <2>1. op'.staged = {} BY <1>2, <1>3
    <2> QED BY <2>1 DEF StagedOK
<1>9. StepOK' BY <1>1, <1>3, <1>4 DEF StepOK
<1>10. CASE /\ files' = Put(Drop(files, new), f, files[new])
            /\ op'.broken = op.broken /\ mishaps' = mishaps
    <2>1. TakenFrom(op.files, files', {}) /\ IsFun(files') BY <1>3, <1>10, MovesBack, Zenon
    <2>2. /\ f \in Name /\ new \in DOMAIN files
          /\ DOMAIN files' = (DOMAIN files \ {new}) \cup {f} /\ files'[f] = files[new]
          /\ \A y \in DOMAIN files \ {new} : y # f => files'[y] = files[y]
        BY <1>3, <1>10 DEF HasMoved, Put, Drop, Restrict
    <2>3. DOMAIN files' \subseteq Name /\ \A y \in DOMAIN files' : files'[y] \in 1 .. made'
        BY <1>1, <1>3, <2>2 DEF TypeOK
    <2>4. files' \in [DOMAIN files' -> 1 .. made'] BY <2>1, <2>3 DEF IsFun
    <2>5. TypeOK' BY <1>1, <1>2, <1>3, <1>10, <2>3, <2>4 DEF TypeOK
    <2>6. TraceOK' BY <1>1, <1>2, <1>3, <1>4, <2>1, Zenon DEF TraceOK
    <2> QED BY <1>5, <1>6, <1>7, <1>8, <1>9, <2>5, <2>6, Zenon DEF FavInv
<1>11. CASE files' = files /\ op'.broken = TRUE /\ Mishap
    <2>1. mishaps' \in 0 .. MaxMishaps BY <1>3, <1>11, Counts
    <2>2. TypeOK' BY <1>1, <1>2, <1>3, <1>11, <2>1 DEF TypeOK
    <2>3. TraceOK' BY <1>1, <1>3, <1>4, <1>11, Zenon DEF TraceOK
    <2> QED BY <1>5, <1>6, <1>7, <1>8, <1>9, <2>2, <2>3, Zenon DEF FavInv
<1> QED BY <1>2, <1>10, <1>11, Zenon

LEMMA UndoneFacts == ASSUME FavInv, Undone
    PROVE  /\ pc = "undo" /\ pc' = "idle" /\ op' = NoOp /\ op.staged = {} /\ op.renamed = <<>>
           /\ index' = Rebuilt(op.pre) /\ files' = files /\ hidden' = hidden /\ made' = made
           /\ edits' = edits
           /\ ~op.broken => stored' = stored
           /\ stored' \in {stored, index'} /\ (mishaps' = mishaps \/ Mishap)
           /\ IsIndex(index') /\ HasDefault(index') /\ (~MixedDrag => Listed(index') = DOMAIN files)
           /\ \A f \in DOMAIN files \cap Listed(op.pre) : GroupsOf(index', f) = GroupsOf(op.pre, f)
PROOF
<1>1. /\ pc = "undo" /\ pc' = "idle" /\ op' = NoOp /\ op.staged = {} /\ op.renamed = <<>>
      /\ index' = Rebuilt(op.pre) /\ files' = files /\ hidden' = hidden /\ made' = made
      /\ edits' = edits
      /\ ~op.broken => stored' = stored
      /\ stored' \in {stored, index'} /\ (mishaps' = mishaps \/ Mishap)
    BY DEF Undone, Restored, Saved, NotSaved
<1>2. TypeOK /\ IsIndex(op.pre) /\ HasDefault(op.pre) BY <1>1 DEF FavInv, DefaultOK
<1>3. DOMAIN files \subseteq Name BY <1>2 DEF TypeOK
<1> QED BY <1>1, <1>2, <1>3, Rebuilds

LEMMA UndoneStep == ASSUME FavInv, Undone PROVE FavInv'
PROOF
<1>1. /\ pc' = "idle" /\ op' = NoOp
      /\ files' = files /\ hidden' = hidden /\ made' = made /\ edits' = edits
      /\ stored' \in {stored, index'} /\ (mishaps' = mishaps \/ Mishap)
      /\ IsIndex(index') /\ HasDefault(index') /\ (~MixedDrag => Listed(index') = DOMAIN files)
    BY UndoneFacts
<1>2. Reread BY DEF Undone
<1>3. TypeOK /\ OpShape BY DEF FavInv
<1>4. outside'.names = {} /\ OpShape' BY <1>1, <1>2, <1>3, Rereads, Rested, Zenon
<1>5. mishaps' \in 0 .. MaxMishaps BY <1>1, <1>3, Counts DEF TypeOK
<1>6. TypeOK' BY <1>1, <1>3, <1>5 DEF TypeOK
<1>7. Matches' BY <1>1, Zenon DEF Matches
<1>8. pc' \in {"off", "refresh", "idle"} BY <1>1
<1> QED BY <1>1, <1>4, <1>6, <1>7, <1>8, Calm, Zenon

-----------------------------------------------------------------------------
(* The program ends, other programs change the directory.                  *)

LEMMA EndsStep == ASSUME FavInv, Quit \/ Dies PROVE FavInv'
PROOF
<1>1. /\ pc' = "off" /\ index' = Empty /\ op' = NoOp
      /\ files' = files /\ hidden' = hidden /\ stored' = stored /\ made' = made /\ edits' = edits
      /\ outside' = outside /\ (mishaps' = mishaps \/ Mishap)
    BY DEF Quit, Dies, Ends
<1>2. TypeOK /\ OpShape BY DEF FavInv
<1>3. IsIndex(Empty) BY DEF IsIndex, Empty
<1>4. mishaps' \in 0 .. MaxMishaps BY <1>1, <1>2, Counts DEF TypeOK
<1>5. TypeOK' BY <1>1, <1>2, <1>3, <1>4 DEF TypeOK
<1>6. outside' = [names |-> outside'.names, gone |-> outside'.gone]
    BY <1>1, <1>2, Zenon DEF OpShape
<1>7. OpShape' BY <1>1, <1>2, <1>6, Rested, Zenon
<1>8. pc' \in {"off", "refresh", "idle"} /\ pc' # "idle" BY <1>1
<1> QED BY <1>1, <1>5, <1>7, <1>8, Calm, Zenon

LEMMA OutsiderStep == ASSUME FavInv, NEW f \in Name, Outsider(f) PROVE FavInv'
PROOF
<1>1. /\ pc \in {"off", "idle"} /\ pc' = pc /\ Edit
      /\ hidden' = hidden /\ stored' = stored /\ index' = index /\ op' = op /\ mishaps' = mishaps
    BY DEF Outsider
<1>2. /\ TypeOK /\ OpShape
      /\ pc # "off" => HasDefault(index)
      /\ pc = "idle" => Matches
    BY DEF FavInv, DefaultOK, StepOK
<1>3. edits' \in 0 .. MaxEdits BY <1>1, <1>2, Counts
<1>4. outside = [names |-> outside.names, gone |-> outside.gone] BY <1>2, Zenon DEF OpShape
<1>5. /\ outside'.names = outside.names \cup {f}
      /\ outside' = [names |-> outside'.names, gone |-> outside'.gone]
    BY <1>4 DEF Outsider
<1>6. OpShape' BY <1>1, <1>2, <1>5, Zenon DEF OpShape
<1>7. /\ \A x : x # f => (x \in DOMAIN files' <=> x \in DOMAIN files)
      /\ TypeOK'
    <2>1. CASE files' = Drop(files, f) /\ made' = made
        <3>1. DOMAIN files' = DOMAIN files \ {f} /\ IsFun(files')
              /\ \A y \in DOMAIN files' : files'[y] = files[y]
            BY <2>1 DEF Drop, Restrict, IsFun
        <3>2. DOMAIN files' \subseteq Name /\ \A y \in DOMAIN files' : files'[y] \in 1 .. made'
            BY <1>2, <2>1, <3>1 DEF TypeOK
        <3>3. files' \in [DOMAIN files' -> 1 .. made'] BY <3>1, <3>2 DEF IsFun
        <3> QED BY <1>1, <1>2, <1>3, <2>1, <3>1, <3>2, <3>3 DEF TypeOK
    <2>2. CASE files' = Put(files, f, made + 1) /\ made' = made + 1
        <3>1. DOMAIN files' = DOMAIN files \cup {f} BY <2>2, Puts, Zenon
        <3>2. /\ made' \in Nat /\ DOMAIN files' \subseteq Name
              /\ files' \in [DOMAIN files' -> 1 .. made']
            BY <1>2, <2>2, Makes, Zenon
        <3>3. hidden' \subseteq Name \X (1 .. made') BY <1>1, <1>2, <2>2 DEF TypeOK
        <3> QED BY <1>1, <1>2, <1>3, <3>1, <3>2, <3>3 DEF TypeOK
    <2> QED BY <2>1, <2>2 DEF Outsider
<1>8. pc' = "idle" => Matches'
    <2> SUFFICES ASSUME ~MixedDrag, pc = "idle", NEW x \in Name \ outside'.names
                 PROVE  x \in DOMAIN files' <=> x \in Listed(index')
        BY <1>1, Zenon DEF Matches
    <2>1. x # f /\ x \in Name \ outside.names BY <1>5
    <2> QED BY <1>1, <1>2, <1>7, <2>1, Zenon DEF Matches
<1>9. pc' \in {"off", "refresh", "idle"} BY <1>1
<1> QED BY <1>1, <1>2, <1>6, <1>7, <1>8, <1>9, Calm, Zenon

LEMMA Starts == Init => FavInv
PROOF
<1> SUFFICES ASSUME Init PROVE FavInv OBVIOUS
<1>1. PICK fs \in SUBSET Name : \E b \in [fs -> 1 .. Cardinality(fs)] :
          /\ files = b /\ made = Cardinality(fs) /\ stored \in {None} \cup [Group -> SUBSET fs]
    BY Zenon DEF Init
<1>2. /\ files \in [fs -> 1 .. made] /\ made = Cardinality(fs)
      /\ stored \in {None} \cup [Group -> SUBSET fs]
    BY <1>1
<1>3. /\ hidden = {} /\ index = Empty /\ pc = "off" /\ op = NoOp /\ edits = 0 /\ mishaps = 0
      /\ outside = [names |-> {}, gone |-> {}]
    BY DEF Init
<1>4. made \in Nat
    <2>1. IsFiniteSet(fs) BY FavoritesAssumption, FS_Subset
    <2> QED BY <1>2, <2>1, FS_CardinalityType
<1>5. IsIndex(index) /\ (stored # None => IsIndex(stored))
    BY <1>2, <1>3 DEF IsIndex, Empty
<1>6. TypeOK BY <1>2, <1>3, <1>4, <1>5, FavoritesAssumption DEF TypeOK
<1>7. OpShape
    <2>1. op = Op(Empty, Empty, None, {}, {}, {}, <<>>, TRUE, TRUE, FALSE) BY <1>3, NewOps, Zenon
    <2>2. /\ op.pre = Empty /\ op.files = Empty /\ op.stored = None /\ op.left = {}
          /\ op.chosen = {} /\ op.staged = {} /\ op.renamed = <<>> /\ op.rebuild = TRUE
          /\ op.undo = TRUE /\ op.broken = FALSE
        BY <2>1 DEF Op
    <2>3. outside.names = {} /\ outside.gone = {} BY <1>3
    <2> QED BY <1>3, <2>1, <2>2, <2>3, Zenon DEF OpShape, IsOp
<1>8. pc \notin {"stage", "save", "commit", "undo", "idle"} BY <1>3
<1>9. DefaultOK BY <1>3 DEF DefaultOK
<1>10. StagedOK BY <1>8, Zenon DEF StagedOK
<1>11. RenamedOK BY <1>8, Zenon DEF RenamedOK
<1>12. TraceOK BY <1>8, Zenon DEF TraceOK
<1>13. StepOK BY <1>8, Zenon DEF StepOK
<1> QED BY <1>6, <1>7, <1>9, <1>10, <1>11, <1>12, <1>13, Zenon DEF FavInv

LEMMA Rests == ASSUME FavInv, UNCHANGED vars PROVE FavInv'
PROOF
<1>1. /\ files' = files /\ hidden' = hidden /\ stored' = stored /\ index' = index /\ pc' = pc
      /\ op' = op /\ made' = made /\ edits' = edits /\ mishaps' = mishaps /\ outside' = outside
    BY DEF vars
<1>2. TypeOK' BY <1>1 DEF FavInv, TypeOK
<1>3. OpShape' BY <1>1, Zenon DEF FavInv, OpShape
<1>4. DefaultOK' BY <1>1, Zenon DEF FavInv, DefaultOK
<1>5. StagedOK' BY <1>1, Zenon DEF FavInv, StagedOK
<1>6. RenamedOK' BY <1>1, Zenon DEF FavInv, RenamedOK
<1>7. TraceOK' BY <1>1, Zenon DEF FavInv, TraceOK
<1>8. StepOK' BY <1>1, Zenon DEF FavInv, StepOK, StageOK, Matches
<1> QED BY <1>2, <1>3, <1>4, <1>5, <1>6, <1>7, <1>8, Zenon DEF FavInv

LEMMA StepKeeps == ASSUME FavInv, [Next]_vars PROVE FavInv'
PROOF
<1>1. CASE Operation
    <2>1. CASE AskRefresh BY <2>1, AskRefreshStep
    <2>2. CASE \E g \in Group : AddGroup(g) \/ DeleteGroup(g)
        BY <2>2, AddGroupStep, DeleteGroupStep, Zenon
    <2>3. CASE \E f \in Name, from, to \in DOMAIN index : MoveItem(f, from, to)
        BY <2>3, MoveItemStep, Zenon
    <2>4. CASE \E fs \in SUBSET Name, to \in DOMAIN index : MoveSelected(fs, to)
        BY <2>4, MoveSelectedStep, Zenon
    <2>5. CASE \E rows \in SUBSET Rows :
                  \/ DragGroup(rows)
                  \/ \E gs \in SUBSET DOMAIN index, to \in DOMAIN index : DragItem(rows, gs, to)
        BY <2>5, DragGroupStep, DragItemStep, Zenon
    <2>6. CASE \E f \in Name : Add(f) BY <2>6, AddStep, Zenon
    <2>7. CASE \E f, new \in Name, g \in Group : Rename(f, new, g) BY <2>7, RenameStep, Zenon
    <2>8. CASE \E fs \in SUBSET Name : Remove(fs) BY <2>8, RemoveStep, Zenon
    <2> QED BY <1>1, <2>1, <2>2, <2>3, <2>4, <2>5, <2>6, <2>7, <2>8, Zenon DEF Operation
<1>2. CASE Undo BY <1>2, UnstageStep, RenameBackStep, Zenon DEF Undo
<1>3. CASE \E f \in Name : Stage(f) \/ Outsider(f) BY <1>3, StageStep, OutsiderStep, Zenon
<1>4. CASE Start \/ Quit \/ Dies BY <1>4, StartStep, EndsStep, Zenon
<1>5. CASE Staged \/ Save \/ Commit \/ Undone \/ Refresh
    BY <1>5, StagedStep, SaveStep, CommitStep, UndoneStep, RefreshStep, Zenon
<1>6. CASE UNCHANGED vars BY <1>6, Rests, Zenon
<1> QED BY <1>1, <1>2, <1>3, <1>4, <1>5, <1>6, Zenon DEF Next

LEMMA Invariant == Spec => []FavInv
BY Starts, StepKeeps, PTL DEF Spec

(* Files, indexes, contents and steps keep their kinds.                    *)
THEOREM TypesHold == Spec => []TypeOK
BY Invariant, PTL DEF FavInv

(* Unless groups and files are dragged together, the tree shows the files  *)
(* there are whenever no operation runs: also after one that failed        *)
(* half-way, and after a start that follows a crash (_rebuild_tree,        *)
(* _restore_failed_index_change).                                          *)
THEOREM NoFileUnlisted == ASSUME ~MixedDrag PROVE Spec => []EveryFileListed
PROOF
<1>1. FavInv => EveryFileListed BY Zenon DEF FavInv, StepOK, Matches, EveryFileListed
<1> QED BY <1>1, Invariant, PTL

-----------------------------------------------------------------------------
(* No content leaves the disk unasked.                                     *)

LEMMA ContentsOf == \A c : c \in Contents <=> (\E f \in DOMAIN files : files[f] = c)
                                              \/ \E h \in hidden : h[2] = c
BY Zenon DEF Contents

LEMMA ContentsNext == \A c : c \in Contents' <=> (\E f \in DOMAIN files' : files'[f] = c)
                                                 \/ \E h \in hidden' : h[2] = c
BY Zenon DEF Contents

(* Every file and every hidden content is there after the step.            *)
LEMMA AllKept == ASSUME \A f \in DOMAIN files : \/ \E x \in DOMAIN files' : files'[x] = files[f]
                                                \/ \E h \in hidden' : h[2] = files[f],
                        \A h \in hidden : \/ h \in hidden'
                                          \/ \E x \in DOMAIN files' : files'[x] = h[2]
                 PROVE  Contents \ Contents' = {}
PROOF
<1>1. \A c : c \in Contents => c \in Contents' BY ContentsOf, ContentsNext, Zenon
<1> QED BY <1>1

Step == \A c \in Contents \ Contents' :
            \/ c \in outside'.gone
            \/ \E s \in op.staged : s[2] = c /\ (stored # None => s[1] \notin Listed(stored))

LEMMA NothingLost == ASSUME FavInv, [Next]_vars PROVE Step
PROOF
<1>1. CASE files' = files /\ hidden' = hidden
    <2>1. Contents \ Contents' = {} BY <1>1, Zenon, AllKept
    <2> QED BY <2>1 DEF Step
<1>2. CASE \E f \in Name : Add(f)
    <2>1. PICK f \in Name : f \notin DOMAIN files /\ files' = Put(files, f, made + 1) /\ hidden' = hidden
        BY <1>2, Zenon DEF Add
    <2>2. DOMAIN files \subseteq DOMAIN files' /\ \A x \in DOMAIN files : files'[x] = files[x]
        BY <2>1 DEF Put
    <2>3. Contents \ Contents' = {} BY <2>1, <2>2, AllKept, Zenon
    <2> QED BY <2>3 DEF Step
<1>3. CASE \E f, new \in Name, g \in Group : Rename(f, new, g)
    <2>1. PICK f \in Name, new \in Name, g \in Group : Rename(f, new, g) BY <1>3
    <2>2. CASE f \in DOMAIN files
        <3>1. /\ new \in DOMAIN files => new = f
              /\ files' = Put(Drop(files, f), new, files[f]) /\ hidden' = hidden
            BY <2>1, <2>2 DEF Rename
        <3>2. DOMAIN files \subseteq Name BY DEF FavInv, TypeOK
        <3>3. HasMoved(files, files', f, new) BY <2>2, <3>1, <3>2, Moves, Zenon
        <3>4. \A x \in DOMAIN files : \E y \in DOMAIN files' : files'[y] = files[x]
            BY <3>3 DEF HasMoved
        <3>5. Contents \ Contents' = {} BY <3>1, <3>4, AllKept, Zenon
        <3> QED BY <3>5 DEF Step
    <2>3. CASE f \notin DOMAIN files BY <1>1, <2>1, <2>3 DEF Rename
    <2> QED BY <2>2, <2>3
<1>4. CASE \E f \in Name : Stage(f)
    <2>1. PICK f \in Name : Stage(f) BY <1>4
    <2>2. CASE /\ f \in DOMAIN files /\ files' = Drop(files, f)
               /\ hidden' = hidden \cup {<<f, files[f]>>}
        <3> DEFINE s == <<f, files[f]>>
        <3>1. s[2] = files[f] /\ s \in hidden' BY <2>2
        <3> HIDE DEF s
        <3>2. \A x \in DOMAIN files : x # f => x \in DOMAIN files' /\ files'[x] = files[x]
            BY <2>2, Drops
        <3>3. hidden \subseteq hidden' BY <2>2
        <3>4. \A x \in DOMAIN files : \/ \E y \in DOMAIN files' : files'[y] = files[x]
                                      \/ \E h \in hidden' : h[2] = files[x]
            BY <3>1, <3>2, Zenon
        <3>5. Contents \ Contents' = {} BY <3>3, <3>4, AllKept, Zenon
        <3> QED BY <3>5 DEF Step
    <2>3. CASE files' = files /\ hidden' = hidden BY <1>1, <2>3
    <2> QED BY <2>1, <2>2, <2>3, Zenon DEF Stage
<1>5. CASE \E f \in Name : Outsider(f)
    <2>1. PICK f \in Name : Outsider(f) BY <1>5
    <2>2. hidden' = hidden BY <2>1 DEF Outsider
    <2>3. CASE files' = Drop(files, f) /\ f \in DOMAIN files
                 /\ outside' = [names |-> outside.names \cup {f}, gone |-> outside.gone \cup {files[f]}]
        <3>1. outside'.gone = outside.gone \cup {files[f]} BY <2>3
        <3>2. \A x \in DOMAIN files : x # f => x \in DOMAIN files' /\ files'[x] = files[x]
            BY <2>3, Drops
        <3>3. \A c \in Contents \ Contents' : c = files[f]
            <4>1. \A c \in Contents : c \in Contents' \/ c = files[f]
                BY <2>2, <3>2, ContentsOf, ContentsNext, Zenon
            <4> QED BY <4>1
        <3> QED BY <3>1, <3>3 DEF Step
    <2>4. CASE f \notin DOMAIN files /\ files' = Put(files, f, made + 1)
        <3>1. DOMAIN files \subseteq DOMAIN files' /\ \A x \in DOMAIN files : files'[x] = files[x]
            BY <2>4 DEF Put
        <3>2. Contents \ Contents' = {} BY <2>2, <3>1, AllKept, Zenon
        <3> QED BY <3>2 DEF Step
    <2> QED BY <2>1, <2>3, <2>4 DEF Outsider
<1>6. CASE Commit
    <2>1. /\ pc = "commit" /\ files' = files
          /\ \E s \in op.staged : hidden' = hidden \ {s} \/ hidden' = hidden
        BY <1>6, CommitFacts, Zenon
    <2>2. PICK s \in op.staged : hidden' = hidden \ {s} \/ hidden' = hidden BY <2>1
    <2>3. stored # None => s[1] \notin Listed(stored) BY <2>1 DEF FavInv, StepOK
    <2>4. \A h \in hidden : h \in hidden' \/ h = s BY <2>2
    <2>5. \A c \in Contents : c \in Contents' \/ c = s[2]
        BY <2>1, <2>4, ContentsOf, ContentsNext, Zenon
    <2>6. \A c \in Contents \ Contents' : c = s[2] BY <2>5
    <2> QED BY <2>3, <2>6, Zenon DEF Step
<1>7. CASE Undo
    <2>1. pc = "undo" BY <1>7 DEF Undo
    <2>2. CASE \E s \in op.staged : Unstage(s)
        <3>1. PICK s \in op.staged : Unstage(s) BY <2>2
        <3>2. s[1] \notin DOMAIN files BY <2>1 DEF FavInv, StagedOK
        <3>3. CASE files' = Put(files, s[1], s[2]) /\ hidden' = hidden \ {s}
            <4>1. /\ DOMAIN files \subseteq DOMAIN files' /\ \A x \in DOMAIN files : files'[x] = files[x]
                  /\ s[1] \in DOMAIN files' /\ files'[s[1]] = s[2]
                BY <3>2, <3>3 DEF Put
            <4>2. \A h \in hidden : h \in hidden' \/ h = s BY <3>3
            <4>3. Contents \ Contents' = {} BY <4>1, <4>2, AllKept, Zenon
            <4> QED BY <4>3 DEF Step
        <3>4. CASE files' = files /\ hidden' = hidden BY <1>1, <3>4
        <3> QED BY <3>1, <3>3, <3>4 DEF Unstage
    <2>3. CASE op.renamed # <<>> /\ RenameBack
        <3>1. HasMoved(op.files, files, op.renamed[1], op.renamed[2])
            BY <2>1, <2>3 DEF FavInv, RenamedOK
        <3>2. PICK f, new : f = op.renamed[1] /\ new = op.renamed[2] BY Zenon
        <3>3. CASE files' = Put(Drop(files, new), f, files[new]) /\ hidden' = hidden
            <4>1. /\ DOMAIN files' = (DOMAIN files \ {new}) \cup {f} /\ files'[f] = files[new]
                  /\ \A y \in DOMAIN files \ {new} : y # f => files'[y] = files[y]
                BY <3>3 DEF Put, Drop, Restrict
            <4>2. f \in DOMAIN files => f = new BY <3>1, <3>2 DEF HasMoved
            <4>3. \A x \in DOMAIN files : \E y \in DOMAIN files' : files'[y] = files[x]
                BY <4>1, <4>2
            <4>4. Contents \ Contents' = {} BY <3>3, <4>3, AllKept, Zenon
            <4> QED BY <4>4 DEF Step
        <3>4. CASE files' = files /\ hidden' = hidden BY <1>1, <3>4
        <3> QED BY <2>3, <3>2, <3>3, <3>4, Zenon DEF RenameBack
    <2> QED BY <1>7, <2>2, <2>3, Zenon DEF Undo
<1>8. CASE Start \/ Quit \/ Dies \/ Staged \/ Save \/ Undone \/ Refresh \/ UNCHANGED vars
    BY <1>1, <1>8 DEF Start, Quit, Dies, Staged, Save, Undone, Refresh, vars
<1>9. CASE \/ AskRefresh
           \/ \E g \in Group : AddGroup(g) \/ DeleteGroup(g)
           \/ \E f \in Name, from, to \in DOMAIN index : MoveItem(f, from, to)
           \/ \E fs \in SUBSET Name, to \in DOMAIN index : MoveSelected(fs, to)
           \/ \E rows \in SUBSET Rows :
               \/ DragGroup(rows)
               \/ \E gs \in SUBSET DOMAIN index, to \in DOMAIN index : DragItem(rows, gs, to)
           \/ \E fs \in SUBSET Name : Remove(fs)
    <2>1. \A new, rebuild : Change(new, rebuild) => files' = files /\ hidden' = hidden
        BY Zenon DEF Change
    <2>2. files' = files /\ hidden' = hidden
        BY <1>9, <2>1, Zenon DEF AskRefresh, AddGroup, DeleteGroup, MoveItem, MoveSelected,
                                 DragGroup, DragItem, Remove
    <2> QED BY <1>1, <2>2
<1> QED BY <1>2, <1>3, <1>4, <1>5, <1>6, <1>7, <1>8, <1>9, Zenon DEF Next, Operation

(* Whatever is dragged, renamed, added or removed, whatever fails and      *)
(* wherever the program ends: a content leaves the disk only by another    *)
(* program, or as one the user removed and the saved index no longer lists *)
(* (commit_staged_favorites).                                              *)
THEOREM NothingIsDestroyed == Spec => NothingDestroyed
PROOF
<1>1. FavInv /\ [Next]_vars => [Step]_vars BY NothingLost, Zenon
<1>2. Spec => [][Step]_vars BY <1>1, Invariant, PTL DEF Spec
<1> QED BY <1>2, PTL DEF Step, NothingDestroyed

-----------------------------------------------------------------------------
(* What is taken back leaves no trace.                                     *)

Traceless == pc = "undo" /\ pc' = "idle" /\ ~op.broken =>
                /\ files' = op.files /\ stored' = op.stored
                /\ \A f \in DOMAIN files' \cap Listed(op.pre) :
                        GroupsOf(index', f) = GroupsOf(op.pre, f)

LEMMA OnlyUndone == ASSUME [Next]_vars, pc = "undo", pc' = "idle" PROVE Undone
PROOF
<1>1. ~Operation
    BY DEF Operation, AskRefresh, AddGroup, DeleteGroup, MoveItem, MoveSelected,
                      DragGroup, DragItem, Add, Rename, Remove, Change
<1>2. ~(Start \/ Quit \/ Dies \/ Staged \/ Save \/ Commit \/ Refresh)
    BY DEF Start, Quit, Dies, Ends, Staged, Save, Commit, Refresh
<1>3. ~Undo /\ ~UNCHANGED vars BY DEF Undo, vars
<1>4. ~\E f \in Name : Stage(f) \/ Outsider(f) BY DEF Stage, Outsider
<1> QED BY <1>1, <1>2, <1>3, <1>4, Zenon DEF Next

LEMMA TakenBack == ASSUME FavInv, [Next]_vars PROVE Traceless
PROOF
<1> SUFFICES ASSUME pc = "undo", pc' = "idle", ~op.broken
             PROVE  /\ files' = op.files /\ stored' = op.stored
                    /\ \A f \in DOMAIN files' \cap Listed(op.pre) :
                            GroupsOf(index', f) = GroupsOf(op.pre, f)
    BY Zenon DEF Traceless
<1>1. Undone BY OnlyUndone
<1>2. /\ op.staged = {} /\ op.renamed = <<>> /\ files' = files /\ stored' = stored
      /\ \A f \in DOMAIN files \cap Listed(op.pre) : GroupsOf(index', f) = GroupsOf(op.pre, f)
    BY <1>1, UndoneFacts, Zenon
<1>3. op.stored = stored /\ IsFun(op.files) /\ TakenFrom(op.files, files, op.staged)
    BY <1>2 DEF FavInv, TraceOK, StepOK
<1>4. DOMAIN op.files = DOMAIN files /\ \A x \in DOMAIN files : op.files[x] = files[x]
    BY <1>2, <1>3 DEF TakenFrom
<1>5. IsFun(files) BY DEF FavInv, TypeOK, IsFun
<1>6. op.files = files BY <1>3, <1>4, <1>5 DEF IsFun
<1> QED BY <1>2, <1>3, <1>6

(* An operation that could not be saved and was taken back without another *)
(* error: files and index are as before it, and every file is in the       *)
(* groups it was in (_restore_failed_index_change).                        *)
THEOREM TakenBackWithoutTrace == Spec => FailureLeavesNoTrace
PROOF
<1>1. FavInv /\ [Next]_vars => [Traceless]_vars BY TakenBack, Zenon
<1>2. Spec => [][Traceless]_vars BY <1>1, Invariant, PTL DEF Spec
<1> QED BY <1>2, PTL DEF Traceless, FailureLeavesNoTrace

=============================================================================
