---------------------------- MODULE EditorProofs ----------------------------
(***************************************************************************)
(* Proofs about Editor: its types, what the rows show, undo, and what an    *)
(* edit touches.                                                            *)
(***************************************************************************)
EXTENDS Editor, FiniteSetTheorems, SequenceTheorems, WellFoundedInduction, TLAPS

(* What is recorded and opened is in the order of its time.                 *)
Ordered == \A m \in Macro : InTime(m)

(* Lists of events without ids above n; in the order of their time, if what *)
(* is recorded is; and of ordinary users, each with an id of its own.       *)
Fine(n) == {s \in Seq(Event) :
    /\ Ordered => InTime(s)
    /\ May = {} => Distinct(s)
    /\ \A i \in DOMAIN s : s[i].id <= n}

Bases(n) == [on : BOOLEAN, events : Fine(n), raw : Fine(n)]
Dialogs(n) == [kind : Asking, id : Nat, row : SUBSET Nat, shown : Fine(n), cut : Fine(n)]

ListsFine ==
    /\ events \in Fine(made) /\ raw \in Fine(made)
    /\ undo \in Seq(Fine(made)) /\ redo \in Seq(Fine(made)) /\ Len(undo) + Len(redo) <= MaxUndo
    /\ base \in Bases(made) /\ dialog \in Dialogs(made)

Counts ==
    /\ made \in Nat /\ FirstMade <= made
    /\ edits \in 0 .. MaxEdits /\ moves \in 0 .. MaxMoves
    /\ show \in BOOLEAN

(* A capture that is on and would find the macro as it was has an anchor,   *)
(* or the macro is empty.                                                   *)
CaptureKnows ==
    /\ generation \in Nat
    /\ capture \in [on : BOOLEAN, anchor : Nat, generation : Nat]
    /\ capture.on => capture.generation <= generation
    /\ capture.on /\ StillThere /\ capture.anchor = 0 => events = <<>>

Grown(m, n) == Len(m) <= Len(n) /\ \A i \in DOMAIN m : n[i] = m[i]

(* What a dialog remembers is the row it was opened on, and that row is     *)
(* where it was, or the macro has no event of the old one.                  *)
DialogKnows == dialog.kind # "none" =>
    /\ dialog.row # {} /\ dialog.row \subseteq DOMAIN dialog.shown
    /\ dialog.id = dialog.shown[Least(dialog.row)].id
    /\ dialog.kind = "position" =>
        \A i \in dialog.row : dialog.shown[i].kind \in {"press", "release", "move"}
    /\ May = {} =>
        /\ dialog.kind = "cut" => events = dialog.shown /\ dialog.cut = Cut(dialog.row)
        /\ Grown(dialog.shown, events) \/ Apart(dialog.shown, events)

EditorInv == ListsFine /\ Counts /\ CaptureKnows /\ DialogKnows

-----------------------------------------------------------------------------
(* The least and the greatest of a set of places.                           *)

LEMMA SomeLeast == ASSUME NEW T, T \subseteq Nat, T # {} PROVE \E k \in T : \A j \in T : k <= j
PROOF
<1>1. \E x \in T : \A y \in T : ~(<<y, x>> \in OpToRel(<, Nat)) BY NatLessThanWellFounded, WFMin, Zenon
<1>2. PICK x \in T : \A y \in T : <<y, x>> \notin OpToRel(<, Nat) BY <1>1
<1>3. \A y \in T : ~(y < x) BY <1>2 DEF OpToRel
<1> QED BY <1>3

LEMMA LeastFacts == ASSUME NEW T, T \subseteq Nat, T # {}
    PROVE Least(T) \in T /\ \A j \in T : Least(T) <= j
    BY SomeLeast, Zenon DEF Least

LEMMA LeastIs == ASSUME NEW T, T \subseteq Nat, NEW i \in T, \A j \in T : i <= j PROVE Least(T) = i
PROOF
<1>1. Least(T) \in T /\ Least(T) <= i BY LeastFacts, Zenon
<1>2. i <= Least(T) BY <1>1
<1>3. i \in Nat /\ Least(T) \in Nat BY <1>1
<1> QED BY <1>1, <1>2, <1>3

LEMMA MostFacts == ASSUME NEW n \in Nat, NEW T, T \subseteq 0 .. n, T # {}
    PROVE Most(T) \in T /\ \A j \in T : j <= Most(T)
PROOF
<1> DEFINE U == {k \in 0 .. n : n - k \in T}
<1>1. U \subseteq Nat /\ U # {}
  <2>1. PICK j \in T : TRUE OBVIOUS
  <2>2. n - j \in 0 .. n /\ n - (n - j) = j BY <2>1
  <2> QED BY <2>2
<1>2. PICK k \in U : \A j \in U : k <= j BY <1>1, SomeLeast, Zenon
<1>3. \A j \in T : n - j \in U BY SMT
<1>4. \A j \in T : j <= n - k BY <1>2, <1>3
<1>5. \E i \in T : \A j \in T : i >= j BY <1>2, <1>4
<1>6. Most(T) \in T /\ \A j \in T : Most(T) >= j BY <1>5, Zenon DEF Most
<1> QED BY <1>6

-----------------------------------------------------------------------------
(* Counting the members of a set of places, and what Without leaves.        *)

Count(T, i) == Cardinality(T \cap 1 .. i)

LEMMA CountType == ASSUME NEW T, NEW i \in Nat
    PROVE  IsFiniteSet(T \cap 1 .. i) /\ Count(T, i) \in Nat
PROOF
<1>1. IsFiniteSet(1 .. i) BY FS_Interval
<1>2. IsFiniteSet(T \cap 1 .. i) BY <1>1, FS_Intersection
<1> QED BY <1>2, FS_CardinalityType DEF Count

LEMMA CountZero == ASSUME NEW T PROVE Count(T, 0) = 0
PROOF
<1>1. T \cap 1 .. 0 = {} OBVIOUS
<1> QED BY <1>1, FS_EmptySet DEF Count

LEMMA CountNext == ASSUME NEW T, NEW i \in Nat \ {0}
    PROVE  Count(T, i) = IF i \in T THEN Count(T, i - 1) + 1 ELSE Count(T, i - 1)
PROOF
<1> DEFINE A == T \cap 1 .. (i - 1)
<1>1. IsFiniteSet(A) BY CountType, i - 1 \in Nat
<1>2. CASE i \in T
  <2>1. T \cap 1 .. i = A \cup {i} BY <1>2
  <2>2. i \notin A OBVIOUS
  <2>3. Cardinality(A \cup {i}) = Cardinality(A) + 1 BY <1>1, <2>2, FS_AddElement
  <2> QED BY <1>2, <2>1, <2>3 DEF Count
<1>3. CASE i \notin T
  <2>1. T \cap 1 .. i = A BY <1>3
  <2> QED BY <1>3, <2>1 DEF Count
<1> QED BY <1>2, <1>3

LEMMA CountGrows == ASSUME NEW T, NEW i \in Nat, NEW j \in Nat, i <= j
    PROVE  Count(T, i) <= Count(T, j) /\ (i < j /\ j \in T => Count(T, i) < Count(T, j))
PROOF
<1>1. \A a, b \in Nat : a <= b => Count(T, a) <= Count(T, b)
  <2>1. SUFFICES ASSUME NEW a \in Nat, NEW b \in Nat, a <= b PROVE Count(T, a) <= Count(T, b) OBVIOUS
  <2>2. (T \cap 1 .. a) \subseteq (T \cap 1 .. b) BY <2>1
  <2>3. IsFiniteSet(T \cap 1 .. b) BY CountType
  <2> QED BY <2>2, <2>3, FS_Subset DEF Count
<1>2. ASSUME i < j, j \in T PROVE Count(T, i) < Count(T, j)
  <2>1. Count(T, i) <= Count(T, j - 1) BY <1>1, <1>2
  <2>2. Count(T, j) = Count(T, j - 1) + 1 BY <1>2, CountNext
  <2>3. j - 1 \in Nat BY <1>2
  <2>4. Count(T, i) \in Nat BY CountType
  <2>5. Count(T, j - 1) \in Nat BY <2>3, CountType
  <2> QED BY <2>1, <2>2, <2>4, <2>5
<1> QED BY <1>1, <1>2

LEMMA CountAll == ASSUME NEW n \in Nat, NEW T, T \subseteq 1 .. n
    PROVE  IsFiniteSet(T) /\ Cardinality(T) \in Nat /\ Count(T, n) = Cardinality(T)
PROOF
<1>1. T \cap 1 .. n = T OBVIOUS
<1> QED BY <1>1, CountType DEF Count

LEMMA PlaceFacts == ASSUME NEW n \in Nat, NEW T, T \subseteq 1 .. n, NEW k \in 1 .. Cardinality(T)
    PROVE  Place(T, k) \in T /\ Count(T, Place(T, k)) = k
PROOF
<1> DEFINE X == {i \in 0 .. n : k <= Count(T, i)}
<1>a. Count(T, n) = Cardinality(T) /\ Cardinality(T) \in Nat BY CountAll
<1>0. Count(T, n) = Cardinality(T) /\ Cardinality(T) \in Nat /\ k \in Nat BY <1>a
<1>1. n \in X /\ X \subseteq Nat BY <1>0
<1>2. PICK i \in X : \A j \in X : i <= j BY <1>1, SomeLeast
<1>3. i \in Nat /\ k <= Count(T, i) /\ i <= n BY <1>2
<1>4. i # 0 BY <1>3, CountZero
<1>5. i - 1 \in Nat /\ i - 1 \in 0 .. n BY <1>3, <1>4
<1>6. ~(k <= Count(T, i - 1)) BY <1>2, <1>3, <1>5
<1>7. Count(T, i - 1) \in Nat /\ Count(T, i) \in Nat BY <1>3, <1>5, CountType
<1>8. i \in T /\ Count(T, i) = k BY <1>3, <1>4, <1>6, <1>7, CountNext
<1>9. \E x \in T : Cardinality(T \cap 1 .. x) = k BY <1>8 DEF Count
<1> QED BY <1>9, Zenon DEF Place, Count

LEMMA PlaceRises == ASSUME NEW n \in Nat, NEW T, T \subseteq 1 .. n
    PROVE  \A k, l \in 1 .. Cardinality(T) : k < l => Place(T, k) < Place(T, l)
PROOF
<1> SUFFICES ASSUME NEW k \in 1 .. Cardinality(T), NEW l \in 1 .. Cardinality(T), k < l
             PROVE  Place(T, k) < Place(T, l)
    OBVIOUS
<1>1. Place(T, k) \in T /\ Count(T, Place(T, k)) = k BY PlaceFacts
<1>2. Place(T, l) \in T /\ Count(T, Place(T, l)) = l BY PlaceFacts
<1>3. \A i \in T : i \in Nat OBVIOUS
<1>4. k \in Int /\ l \in Int /\ Place(T, k) \in Nat /\ Place(T, l) \in Nat
  <2>1. k \in Int /\ l \in Int OBVIOUS
  <2>2. Place(T, k) \in Nat /\ Place(T, l) \in Nat BY <1>1, <1>2, <1>3, Zenon
  <2> QED BY <2>1, <2>2
<1>5. Place(T, l) <= Place(T, k) => Count(T, Place(T, l)) <= Count(T, Place(T, k)) BY <1>4, CountGrows
<1> QED BY <1>1, <1>2, <1>4, <1>5

LEMMA PlaceOfCount == ASSUME NEW n \in Nat, NEW T, T \subseteq 1 .. n, NEW i \in T
    PROVE  Count(T, i) \in 1 .. Cardinality(T) /\ Place(T, Count(T, i)) = i
PROOF
<1>0. i \in Nat \ {0} /\ i <= n BY SMT
<1>1. Count(T, i) <= Cardinality(T) /\ Cardinality(T) \in Nat BY <1>0, CountGrows, CountAll
<1>a. i - 1 \in Nat BY <1>0
<1>b. Count(T, i - 1) \in Nat BY <1>a, CountType
<1>c. Count(T, i) = Count(T, i - 1) + 1 BY <1>0, CountNext
<1>2. Count(T, i) = Count(T, i - 1) + 1 /\ Count(T, i - 1) \in Nat BY <1>b, <1>c
<1>3. Count(T, i) \in 1 .. Cardinality(T) BY <1>1, <1>2
<1> DEFINE p == Place(T, Count(T, i))
<1>4. p \in T /\ Count(T, p) = Count(T, i) BY <1>3, PlaceFacts
<1>d. p \in Nat
  <2>1. \A x \in T : x \in Nat OBVIOUS
  <2> QED BY <2>1, <1>4, Zenon
<1>e. Count(T, p) \in Nat BY <1>d, CountType
<1>5. p \in Nat /\ Count(T, p) \in Nat BY <1>d, <1>e
<1>6. ~(p < i) BY <1>0, <1>4, <1>5, CountGrows
<1>7. ~(i < p) BY <1>0, <1>4, <1>5, CountGrows
<1> QED BY <1>0, <1>3, <1>5, <1>6, <1>7

Left(s, S) == DOMAIN s \ S

LEMMA WithoutFacts == ASSUME NEW E, NEW s \in Seq(E), NEW S
    PROVE  /\ Without(s, S) \in Seq(E)
           /\ Len(Without(s, S)) = Cardinality(Left(s, S)) /\ Cardinality(Left(s, S)) \in Nat
           /\ DOMAIN Without(s, S) = 1 .. Cardinality(Left(s, S))
           /\ \A k \in 1 .. Cardinality(Left(s, S)) :
                /\ Place(Left(s, S), k) \in Left(s, S)
                /\ Place(Left(s, S), k) \in DOMAIN s
                /\ Without(s, S)[k] = s[Place(Left(s, S), k)]
           /\ \A k, l \in 1 .. Cardinality(Left(s, S)) : k < l => Place(Left(s, S), k) < Place(Left(s, S), l)
PROOF
<1> DEFINE T == Left(s, S)  c == Cardinality(T)
<1>1. Len(s) \in Nat /\ DOMAIN s = 1 .. Len(s) OBVIOUS
<1>2. T \subseteq 1 .. Len(s) BY <1>1 DEF Left
<1>3. c \in Nat BY <1>1, <1>2, CountAll
<1>4. \A k \in 1 .. c : Place(T, k) \in T BY <1>1, <1>2, PlaceFacts
<1>5. \A k \in 1 .. c : Place(T, k) \in DOMAIN s BY <1>1, <1>2, <1>4
<1>6. \A k, l \in 1 .. c : k < l => Place(T, k) < Place(T, l) BY <1>1, <1>2, PlaceRises
<1>7. Without(s, S) = [k \in 1 .. c |-> s[Place(T, k)]] BY DEF Without, Left
<1> HIDE DEF T, c
<1>8. \A i \in DOMAIN s : s[i] \in E BY <1>1
<1>9. [k \in 1 .. c |-> s[Place(T, k)]] \in Seq(E) BY <1>3, <1>5, <1>8, IsASeq
<1>10. Len(Without(s, S)) = c BY <1>3, <1>7
<1>11. DOMAIN Without(s, S) = 1 .. c BY <1>3, <1>7
<1>12. \A k \in 1 .. c : Without(s, S)[k] = s[Place(T, k)] BY <1>3, <1>7
<1> QED BY <1>3, <1>4, <1>5, <1>6, <1>7, <1>9, <1>10, <1>11, <1>12 DEF T, c

-----------------------------------------------------------------------------
(* Operations on lists of events that are fine give lists that are fine.    *)

LEMMA InFine == ASSUME NEW n
    PROVE  \A s : s \in Fine(n) <=>
            /\ s \in Seq(Event) /\ (Ordered => InTime(s))
            /\ May = {} => Distinct(s)
            /\ \A i \in DOMAIN s : s[i].id <= n
    BY DEF Fine

LEMMA EventFields == ASSUME NEW e \in Event
    PROVE  e.id \in Nat \ {0} /\ e.kind \in Kind /\ e.what \in Name /\ e.at \in Int /\ e.mark \in {0, 1}
    BY DEF Event

LEMMA EventsOf == ASSUME NEW s \in Seq(Event)
    PROVE  /\ Len(s) \in Nat /\ DOMAIN s = 1 .. Len(s)
           /\ \A i \in DOMAIN s :
                /\ s[i] \in Event /\ s[i].id \in Nat \ {0} /\ s[i].kind \in Kind
                /\ s[i].what \in Name /\ s[i].at \in Int /\ s[i].mark \in {0, 1}
PROOF
<1>1. \A i \in DOMAIN s : s[i] \in Event OBVIOUS
<1> QED BY <1>1, EventFields

LEMMA FineGrows == ASSUME NEW n \in Nat, NEW m \in Nat, n <= m
    PROVE  Fine(n) \subseteq Fine(m) /\ Seq(Fine(n)) \subseteq Seq(Fine(m))
PROOF
<1>1. ASSUME NEW s \in Fine(n) PROVE s \in Fine(m)
  <2>1. s \in Seq(Event) /\ \A i \in DOMAIN s : s[i].id <= n BY InFine
  <2>2. \A i \in DOMAIN s : s[i].id \in Nat BY <2>1, EventsOf
  <2>3. \A i \in DOMAIN s : s[i].id <= m BY <2>1, <2>2
  <2> QED BY <2>3, InFine, Zenon
<1>2. Fine(n) \subseteq Fine(m) BY <1>1
<1> QED BY <1>2, SeqMonotonic

LEMMA SameShape == ASSUME NEW n, NEW s \in Fine(n), NEW t \in Seq(Event), DOMAIN t = DOMAIN s,
                          \A i \in DOMAIN s : t[i].id = s[i].id /\ t[i].at = s[i].at
    PROVE  t \in Fine(n)
PROOF
<1>1. (Ordered => InTime(s)) /\ (May = {} => Distinct(s)) /\ \A i \in DOMAIN s : s[i].id <= n BY InFine, Zenon
<1>2. Ordered => InTime(t) BY <1>1 DEF InTime
<1>3. May = {} => Distinct(t) BY <1>1, Zenon DEF Distinct
<1>4. \A i \in DOMAIN t : t[i].id <= n BY <1>1
<1> QED BY <1>2, <1>3, <1>4, InFine, Zenon

LEMMA Flipped == ASSUME NEW e \in Event
    PROVE  /\ [e EXCEPT !.mark = 1 - @] \in Event
           /\ [e EXCEPT !.mark = 1 - @].id = e.id
           /\ [e EXCEPT !.mark = 1 - @].at = e.at
           /\ [e EXCEPT !.mark = 1 - @].kind = e.kind
           /\ [e EXCEPT !.mark = 1 - @] # e
PROOF
<1>1. e.mark \in {0, 1} BY EventFields
<1>2. 1 - e.mark \in {0, 1} /\ 1 - e.mark # e.mark BY <1>1
<1>3. [e EXCEPT !.mark = 1 - @].mark = 1 - e.mark BY DEF Event
<1>4. [e EXCEPT !.mark = 1 - @] # e BY <1>2, <1>3
<1>5. [e EXCEPT !.mark = 1 - @] \in Event BY <1>2 DEF Event
<1> QED BY <1>4, <1>5 DEF Event

LEMMA FlipFacts == ASSUME NEW s \in Seq(Event), NEW S
    PROVE  /\ Flip(s, S) \in Seq(Event) /\ DOMAIN Flip(s, S) = DOMAIN s /\ Len(Flip(s, S)) = Len(s)
           /\ \A i \in DOMAIN s :
                /\ Flip(s, S)[i].id = s[i].id
                /\ Flip(s, S)[i].at = s[i].at
                /\ Flip(s, S)[i] = s[i] <=> i \notin S
PROOF
<1> DEFINE F(i) == IF i \in S THEN [s[i] EXCEPT !.mark = 1 - @] ELSE s[i]
<1>1. Len(s) \in Nat /\ DOMAIN s = 1 .. Len(s) /\ \A i \in DOMAIN s : s[i] \in Event BY EventsOf
<1>2. \A i \in DOMAIN s : F(i) \in Event /\ F(i).id = s[i].id /\ F(i).at = s[i].at /\ (F(i) = s[i] <=> i \notin S)
    BY <1>1, Flipped
<1>3. Flip(s, S) = [i \in 1 .. Len(s) |-> F(i)] BY <1>1 DEF Flip
<1> HIDE DEF F
<1>4. [i \in 1 .. Len(s) |-> F(i)] \in Seq(Event) BY <1>1, <1>2, IsASeq
<1>5. DOMAIN Flip(s, S) = DOMAIN s /\ Len(Flip(s, S)) = Len(s) BY <1>1, <1>3
<1>6. \A i \in DOMAIN s : Flip(s, S)[i] = F(i) BY <1>1, <1>3
<1> QED BY <1>2, <1>3, <1>4, <1>5, <1>6

LEMMA FlipFine == ASSUME NEW n, NEW s \in Fine(n), NEW S PROVE Flip(s, S) \in Fine(n)
PROOF
<1>1. s \in Seq(Event) BY InFine
<1> QED BY <1>1, FlipFacts, SameShape

(* Choosing events of a list in their order.                                *)
LEMMA ChosenFine == ASSUME NEW n, NEW s \in Fine(n), NEW t \in Seq(Event),
                           NEW f \in [DOMAIN t -> DOMAIN s],
                           \A k \in DOMAIN t : t[k] = s[f[k]],
                           \A k, l \in DOMAIN t : k < l => f[k] < f[l]
    PROVE  t \in Fine(n)
PROOF
<1>1. s \in Seq(Event) /\ (Ordered => InTime(s)) /\ (May = {} => Distinct(s)) /\ \A i \in DOMAIN s : s[i].id <= n BY InFine, Zenon
<1>2. DOMAIN t = 1 .. Len(t) /\ Len(t) \in Nat /\ DOMAIN s = 1 .. Len(s) /\ Len(s) \in Nat BY <1>1
<1>3. \A k, l \in DOMAIN t : k < l => f[k] \in DOMAIN s /\ f[l] \in DOMAIN s /\ f[k] < f[l] OBVIOUS
<1>4. Ordered => InTime(t) BY <1>1, <1>3 DEF InTime
<1>5. ASSUME May = {} PROVE Distinct(t)
  <2>1. SUFFICES ASSUME NEW k \in DOMAIN t, NEW l \in DOMAIN t, t[k].id = t[l].id PROVE k = l BY DEF Distinct
  <2>2. f[k] = f[l] BY <1>1, <1>5, <2>1 DEF Distinct
  <2>3. f[k] \in Nat /\ f[l] \in Nat /\ k \in Nat /\ l \in Nat BY <1>2
  <2>4. ~(k < l) /\ ~(l < k) BY <1>3, <2>2, <2>3
  <2> QED BY <2>3, <2>4
<1>6. \A k \in DOMAIN t : t[k].id <= n BY <1>1
<1> QED BY <1>4, <1>5, <1>6, InFine, Zenon

LEMMA WithoutFine == ASSUME NEW n, NEW s \in Fine(n), NEW S PROVE Without(s, S) \in Fine(n)
PROOF
<1> DEFINE t == Without(s, S)  T == Left(s, S)  c == Cardinality(T)  f == [k \in 1 .. c |-> Place(T, k)]
<1>1. s \in Seq(Event) BY InFine
<1>2. t \in Seq(Event) /\ DOMAIN t = 1 .. c BY <1>1, WithoutFacts
<1>3. \A k \in 1 .. c : Place(T, k) \in DOMAIN s /\ t[k] = s[Place(T, k)] BY <1>1, WithoutFacts
<1>4. \A k, l \in 1 .. c : k < l => Place(T, k) < Place(T, l) BY <1>1, WithoutFacts
<1> HIDE DEF t, T, c
<1>5. f \in [DOMAIN t -> DOMAIN s] BY <1>2, <1>3
<1>6. \A k \in DOMAIN t : t[k] = s[f[k]] BY <1>2, <1>3
<1>7. \A k, l \in DOMAIN t : k < l => f[k] < f[l] BY <1>2, <1>4
<1>8. t \in Fine(n) BY <1>2, <1>5, <1>6, <1>7, ChosenFine
<1> QED BY <1>8 DEF t

LEMMA PrefixFine == ASSUME NEW n, NEW s \in Fine(n), NEW k \in 0 .. Len(s) PROVE SubSeq(s, 1, k) \in Fine(n)
PROOF
<1> DEFINE t == SubSeq(s, 1, k)  f == [i \in 1 .. k |-> i]
<1>1. s \in Seq(Event) BY InFine
<1>2. Len(s) \in Nat /\ DOMAIN s = 1 .. Len(s) /\ k \in Nat BY <1>1
<1>3. t \in Seq(Event) /\ DOMAIN t = 1 .. k /\ \A i \in 1 .. k : t[i] = s[i] BY <1>1, <1>2
<1> HIDE DEF t
<1>4. f \in [DOMAIN t -> DOMAIN s] BY <1>2, <1>3
<1>5. \A i \in DOMAIN t : t[i] = s[f[i]] BY <1>3
<1>6. \A i, j \in DOMAIN t : i < j => f[i] < f[j] BY <1>3
<1>7. t \in Fine(n) BY <1>3, <1>4, <1>5, <1>6, ChosenFine
<1> QED BY <1>7 DEF t

LEMMA JoinFine == ASSUME NEW n, NEW s \in Fine(n), NEW t \in Fine(n),
                         Ordered => \A i \in DOMAIN s, j \in DOMAIN t : s[i].at <= t[j].at,
                         May = {} => Apart(s, t)
    PROVE  s \o t \in Fine(n)
PROOF
<1>1. s \in Seq(Event) /\ (Ordered => InTime(s)) /\ (May = {} => Distinct(s)) /\ \A i \in DOMAIN s : s[i].id <= n BY InFine, Zenon
<1>2. t \in Seq(Event) /\ (Ordered => InTime(t)) /\ (May = {} => Distinct(t)) /\ \A i \in DOMAIN t : t[i].id <= n BY InFine, Zenon
<1> DEFINE u == s \o t  a == Len(s)  b == Len(t)
<1>3. a \in Nat /\ b \in Nat /\ DOMAIN s = 1 .. a /\ DOMAIN t = 1 .. b BY <1>1, <1>2
<1>4. u \in Seq(Event) /\ DOMAIN u = 1 .. (a + b) BY <1>1, <1>2, <1>3
<1>5. \A i \in 1 .. (a + b) : u[i] = IF i <= a THEN s[i] ELSE t[i - a] BY <1>1, <1>2
<1>6. \A i \in 1 .. (a + b) : (i <= a => i \in DOMAIN s) /\ (~(i <= a) => i - a \in DOMAIN t) BY <1>3
<1> HIDE DEF u, a, b
<1>7. ASSUME Ordered PROVE InTime(u)
  <2>0. InTime(s) /\ InTime(t) /\ \A i \in DOMAIN s, j \in DOMAIN t : s[i].at <= t[j].at BY <1>1, <1>2, <1>7
  <2>1. SUFFICES ASSUME NEW i \in 1 .. (a + b), NEW j \in 1 .. (a + b), i < j PROVE u[i].at <= u[j].at
      BY <1>4 DEF InTime
  <2>2. i \in Nat /\ j \in Nat BY <1>3
  <2>3. CASE j <= a
    <3>1. i <= a BY <1>3, <2>1, <2>2, <2>3
    <3> QED BY <2>0, <1>5, <1>6, <2>1, <2>3, <3>1 DEF InTime
  <2>4. CASE i <= a /\ ~(j <= a) BY <1>5, <1>6, <2>0, <2>4
  <2>5. CASE ~(i <= a)
    <3>1. ~(j <= a) /\ i - a < j - a BY <1>3, <2>1, <2>2, <2>5
    <3> QED BY <2>0, <1>5, <1>6, <2>5, <3>1 DEF InTime
  <2> QED BY <2>3, <2>4, <2>5
<1>8. ASSUME May = {} PROVE Distinct(u)
  <2>1. SUFFICES ASSUME NEW i \in 1 .. (a + b), NEW j \in 1 .. (a + b), u[i].id = u[j].id PROVE i = j
      BY <1>4 DEF Distinct
  <2>2. i \in Nat /\ j \in Nat BY <1>3
  <2>3. Distinct(s) /\ Distinct(t) /\ Apart(s, t) BY <1>1, <1>2, <1>8
  <2>4. CASE i <= a /\ j <= a BY <1>5, <1>6, <2>1, <2>3, <2>4 DEF Distinct
  <2>5. CASE i <= a /\ ~(j <= a)
    <3>1. s[i].id = t[j - a].id BY <1>5, <2>1, <2>5
    <3> QED BY <1>6, <2>3, <2>5, <3>1 DEF Apart
  <2>6. CASE ~(i <= a) /\ j <= a
    <3>1. s[j].id = t[i - a].id BY <1>5, <2>1, <2>6
    <3> QED BY <1>6, <2>3, <2>6, <3>1 DEF Apart
  <2>7. CASE ~(i <= a) /\ ~(j <= a)
    <3>1. t[i - a].id = t[j - a].id BY <1>5, <2>1, <2>7
    <3>2. i - a = j - a BY <1>6, <2>3, <2>7, <3>1 DEF Distinct
    <3> QED BY <1>3, <2>2, <3>2
  <2> QED BY <2>4, <2>5, <2>6, <2>7
<1>9. \A i \in DOMAIN u : u[i].id <= n BY <1>1, <1>2, <1>4, <1>5, <1>6
<1>10. u \in Fine(n) BY <1>4, <1>7, <1>8, <1>9, InFine, Zenon
<1> QED BY <1>10 DEF u

LEMMA Renumbered == ASSUME NEW e \in Event, NEW k \in Nat \ {0}
    PROVE  /\ [e EXCEPT !.id = k] \in Event
           /\ [e EXCEPT !.id = k].id = k /\ [e EXCEPT !.id = k].at = e.at
    BY DEF Event

LEMMA Moved == ASSUME NEW e \in Event, NEW t \in Int
    PROVE  /\ [e EXCEPT !.at = t] \in Event
           /\ [e EXCEPT !.at = t].id = e.id /\ [e EXCEPT !.at = t].at = t
    BY DEF Event

LEMMA RenewedFine == ASSUME NEW m \in Macro, made \in Nat, FirstMade <= made
    PROVE  /\ Renewed(m) \in Fine(made + Len(m)) /\ made + Len(m) \in Nat /\ made <= made + Len(m)
           /\ \A i \in DOMAIN Renewed(m) : Renewed(m)[i].id > made
PROOF
<1> DEFINE R == Renewed(m)  c == Len(m)  F(i) == [m[i] EXCEPT !.id = made + i]
<1>1. m \in Seq(Event) /\ (Ordered => InTime(m)) BY EditorAssumption, Zenon DEF Ordered
<1>2. c \in Nat /\ DOMAIN m = 1 .. c /\ \A i \in DOMAIN m : m[i] \in Event BY <1>1, EventsOf
<1>3. \A i \in 1 .. c : made + i \in Nat \ {0} /\ made + i > made /\ made + i <= made + c BY <1>2
<1>4. \A i \in 1 .. c : F(i) \in Event /\ F(i).id = made + i /\ F(i).at = m[i].at BY <1>2, <1>3, Renumbered
<1>5. R = [i \in 1 .. c |-> F(i)] BY <1>2 DEF Renewed
<1> HIDE DEF R, c, F
<1>6. [i \in 1 .. c |-> F(i)] \in Seq(Event) BY <1>2, <1>4, IsASeq
<1>7. R \in Seq(Event) /\ DOMAIN R = 1 .. c BY <1>2, <1>5, <1>6
<1>8. \A i \in 1 .. c : R[i].id = made + i /\ R[i].at = m[i].at BY <1>4, <1>5
<1>9. Ordered => InTime(R) BY <1>1, <1>2, <1>7, <1>8 DEF InTime
<1>10. Distinct(R)
  <2>1. SUFFICES ASSUME NEW i \in 1 .. c, NEW j \in 1 .. c, R[i].id = R[j].id PROVE i = j BY <1>7 DEF Distinct
  <2>2. made + i = made + j BY <1>8, <2>1
  <2> QED BY <1>2, <2>2
<1>11. \A i \in DOMAIN R : R[i].id <= made + c /\ R[i].id > made BY <1>3, <1>7, <1>8
<1>12. R \in Fine(made + c) BY <1>7, <1>9, <1>10, <1>11, InFine, Zenon
<1>13. made + c \in Nat /\ made <= made + c BY <1>2
<1> QED BY <1>11, <1>12, <1>13 DEF R, c

LEMMA MacroFine == ASSUME NEW m \in Macro, NEW n \in Nat, FirstMade <= n PROVE m \in Fine(n)
PROOF
<1>1. m \in Seq(Event) /\ (Ordered => InTime(m)) /\ Distinct(m) BY EditorAssumption, Zenon DEF Ordered
<1>2. \A i \in DOMAIN m : m[i].id <= FirstMade BY EditorAssumption
<1>3. \A i \in DOMAIN m : m[i].id \in Nat BY <1>1, EventsOf
<1>4. \A i \in DOMAIN m : m[i].id <= n BY <1>2, <1>3 DEF FirstMade
<1> QED BY <1>1, <1>4, InFine, Zenon

LEMMA ShiftedFine == ASSUME NEW n, NEW s \in Fine(n), NEW t \in Int
    PROVE  /\ ShiftedTo(s, t) \in Fine(n)
           /\ DOMAIN ShiftedTo(s, t) = DOMAIN s
           /\ \A i \in DOMAIN s : (Ordered => ShiftedTo(s, t)[i].at >= t) /\ ShiftedTo(s, t)[i].id = s[i].id
PROOF
<1> DEFINE R == ShiftedTo(s, t)  c == Len(s)  F(i) == [s[i] EXCEPT !.at = t + @ - s[1].at]
<1>1. s \in Seq(Event) /\ (Ordered => InTime(s)) /\ (May = {} => Distinct(s)) /\ \A i \in DOMAIN s : s[i].id <= n BY InFine, Zenon
<1>2. c \in Nat /\ DOMAIN s = 1 .. c BY <1>1
<1>3. \A i \in 1 .. c : s[i] \in Event /\ s[i].at \in Int BY <1>1, <1>2, EventsOf
<1>4. \A i \in 1 .. c : 1 \in 1 .. c BY <1>2
<1>5. \A i \in 1 .. c : (Ordered => s[1].at <= s[i].at) /\ s[1].at \in Int
  <2>1. TAKE i \in 1 .. c
  <2>2. CASE i = 1 BY <1>3, <2>2
  <2>3. CASE i # 1
    <3>1. 1 \in DOMAIN s /\ i \in DOMAIN s /\ 1 < i BY <1>2, <1>4, <2>3
    <3>2. Ordered => s[1].at <= s[i].at BY <1>1, <3>1 DEF InTime
    <3> QED BY <1>3, <1>4, <3>2
  <2> QED BY <2>2, <2>3
<1>6. \A i \in 1 .. c : t + s[i].at - s[1].at \in Int /\ (Ordered => t + s[i].at - s[1].at >= t)
  <2>1. TAKE i \in 1 .. c
  <2>2. (Ordered => s[1].at <= s[i].at) /\ s[1].at \in Int /\ s[i].at \in Int BY <1>3, <1>5
  <2> QED BY <2>2
<1>7. \A i \in 1 .. c : F(i) \in Event /\ F(i).id = s[i].id /\ F(i).at = t + s[i].at - s[1].at BY <1>3, <1>6, Moved
<1>8. R = [i \in 1 .. c |-> F(i)] BY <1>2 DEF ShiftedTo
<1> HIDE DEF R, c, F
<1>9. [i \in 1 .. c |-> F(i)] \in Seq(Event) BY <1>2, <1>7, IsASeq
<1>10. R \in Seq(Event) /\ DOMAIN R = 1 .. c BY <1>2, <1>8, <1>9
<1>11. \A i \in 1 .. c : R[i].id = s[i].id /\ R[i].at = t + s[i].at - s[1].at BY <1>7, <1>8
<1>12. ASSUME Ordered PROVE InTime(R)
  <2>1. SUFFICES ASSUME NEW i \in 1 .. c, NEW j \in 1 .. c, i < j PROVE R[i].at <= R[j].at BY <1>10 DEF InTime
  <2>2. s[i].at <= s[j].at BY <1>1, <1>2, <1>12, <2>1 DEF InTime
  <2>3. s[1].at \in Int /\ s[i].at \in Int /\ s[j].at \in Int BY <1>3, <1>5
  <2>4. t + s[i].at - s[1].at <= t + s[j].at - s[1].at BY <2>2, <2>3
  <2> QED BY <1>11, <2>4
<1>13. May = {} => Distinct(R) BY <1>1, <1>2, <1>10, <1>11 DEF Distinct
<1>14. \A i \in DOMAIN R : R[i].id <= n BY <1>1, <1>2, <1>10, <1>11
<1>15. R \in Fine(n) BY <1>10, <1>12, <1>13, <1>14, InFine, Zenon
<1> QED BY <1>2, <1>6, <1>10, <1>11, <1>15 DEF R

(* Some event is as late as any: of the events that are as late as all      *)
(* before them, the last.                                                   *)
LEMMA SomeLatest == ASSUME NEW n \in Nat \ {0}, NEW f, \A i \in 1 .. n : f[i] \in Int
    PROVE  \E i \in 1 .. n : \A j \in 1 .. n : f[j] <= f[i]
PROOF
<1> DEFINE T == {i \in 1 .. n : \A j \in 1 .. i : f[j] <= f[i]}  z == Most(T)
<1>1. 1 \in T
  <2>1. \A j \in 1 .. 1 : j = 1 OBVIOUS
  <2> QED BY <2>1
<1>2. T \subseteq 0 .. n /\ T # {} BY <1>1
<1>3. z \in T /\ \A j \in T : j <= z BY <1>2, MostFacts
<1>4. z \in 1 .. n /\ \A j \in 1 .. z : f[j] <= f[z] BY <1>3
<1> HIDE DEF z
<1> DEFINE U == {j \in 1 .. n : ~(f[j] <= f[z])}  k == Least(U)
<1>5. ASSUME U # {} PROVE FALSE
  <2>1. U \subseteq Nat OBVIOUS
  <2>2. k \in U /\ \A j \in U : k <= j BY <1>5, <2>1, LeastFacts
  <2> HIDE DEF k
  <2>3. k \in 1 .. n /\ ~(f[k] <= f[z]) BY <2>2
  <2>4. \A j \in 1 .. k : f[j] <= f[k]
    <3>1. TAKE j \in 1 .. k
    <3>2. j \in 1 .. n /\ f[j] \in Int /\ f[k] \in Int /\ f[z] \in Int BY <1>4, <2>3
    <3>3. CASE j = k BY <3>2, <3>3
    <3>4. CASE j # k
      <4>1. ~(k <= j) BY <2>3, <3>4
      <4>2. f[j] <= f[z] BY <2>2, <3>2, <4>1
      <4> QED BY <2>3, <3>2, <4>2
    <3> QED BY <3>3, <3>4
  <2>5. k \in T BY <2>3, <2>4
  <2>6. k <= z BY <1>3, <2>5
  <2> QED BY <1>4, <2>3, <2>6
<1> QED BY <1>4, <1>5

LEMMA EndFacts == ASSUME NEW n, NEW s \in Fine(n)
    PROVE  End(s) \in Int /\ \A i \in DOMAIN s : s[i].at <= End(s)
PROOF
<1>1. s \in Seq(Event) BY InFine, Zenon
<1>2. Len(s) \in Nat /\ DOMAIN s = 1 .. Len(s) /\ \A i \in DOMAIN s : s[i].at \in Int BY <1>1, EventsOf
<1>3. CASE s = <<>>
  <2>1. DOMAIN s = {} BY <1>3
  <2> QED BY <1>3, <2>1 DEF End
<1>4. CASE s # <<>>
  <2> DEFINE l == Len(s)  S == {s[i].at : i \in DOMAIN s}  f == [i \in 1 .. l |-> s[i].at]
  <2>1. l \in Nat \ {0} BY <1>1, <1>2, <1>4
  <2>2. \A i \in 1 .. l : f[i] \in Int BY <1>2
  <2>3. PICK z \in 1 .. l : \A j \in 1 .. l : f[j] <= f[z] BY <2>1, <2>2, SomeLatest
  <2>4. s[z].at \in S /\ \A j \in S : j \in Int /\ s[z].at >= j BY <1>2, <2>3
  <2>5. Most(S) \in S /\ \A j \in S : Most(S) >= j
    <3> HIDE DEF S
    <3>1. \E i \in S : \A j \in S : i >= j BY <2>4
    <3> QED BY <3>1, Zenon DEF Most
  <2>6. End(s) = Most(S) BY <1>4 DEF End
  <2>7. \A i \in DOMAIN s : s[i].at \in S OBVIOUS
  <2> HIDE DEF S
  <2> QED BY <2>4, <2>5, <2>6, <2>7
<1> QED BY <1>3, <1>4

-----------------------------------------------------------------------------
(* Insertions.                                                              *)

LEMMA NewFacts == ASSUME made \in Nat, NEW k \in Nat \ {0}, NEW kind \in Kind, NEW what \in Name, NEW t \in Int
    PROVE  /\ New(k, kind, what, t) \in Event
           /\ New(k, kind, what, t).id = made + k /\ New(k, kind, what, t).at = t
    BY DEF New, Event

LEMMA Words == "wait" \in Name /\ "text" \in Name /\ "color" \in Name /\ "left" \in Name
PROOF
<1>1. {"left", "text", "wait", "color"} \subseteq Name BY EditorAssumption, Zenon
<1> QED BY <1>1

LEMMA OneFine == ASSUME made \in Nat, NEW k \in Nat \ {0}, NEW kind \in Kind, NEW what \in Name, NEW t \in Int,
                        NEW n \in Nat, made + k <= n
    PROVE  /\ <<New(k, kind, what, t)>> \in Fine(n)
           /\ DOMAIN <<New(k, kind, what, t)>> = {1}
           /\ <<New(k, kind, what, t)>>[1].id = made + k
           /\ <<New(k, kind, what, t)>>[1].at = t
PROOF
<1> DEFINE e == New(k, kind, what, t)
<1>1. e \in Event /\ e.id = made + k /\ e.at = t BY NewFacts
<1> HIDE DEF e
<1>2. <<e>> \in Seq(Event) /\ DOMAIN <<e>> = {1} /\ <<e>>[1] = e BY <1>1
<1>3. InTime(<<e>>) /\ Distinct(<<e>>) BY <1>2 DEF InTime, Distinct
<1>4. \A i \in DOMAIN <<e>> : <<e>>[i].id <= n BY <1>1, <1>2
<1>5. <<e>> \in Fine(n) BY <1>2, <1>3, <1>4, InFine, Zenon
<1> QED BY <1>1, <1>2, <1>5 DEF e

LEMMA InsertedFine == ASSUME NEW n, events \in Fine(n), NEW after \in 0 .. Len(events), NEW new \in Fine(n), NEW budget \in Nat,
                             Ordered => \A i \in DOMAIN events, j \in DOMAIN new :
                                /\ i <= after => events[i].at <= new[j].at
                                /\ ~(i <= after) => new[j].at <= events[i].at + budget,
                             May = {} => Apart(events, new)
    PROVE  Inserted(after, new, budget) \in Fine(n)
PROOF
<1> DEFINE l == Len(events)  before == SubSeq(events, 1, after)
           F(i) == [events[after + i] EXCEPT !.at = @ + budget]  behind == [i \in 1 .. l - after |-> F(i)]
<1>1. events \in Seq(Event) /\ (Ordered => InTime(events)) /\ (May = {} => Distinct(events)) /\ \A i \in DOMAIN events : events[i].id <= n
    BY InFine, Zenon
<1>2. l \in Nat /\ DOMAIN events = 1 .. l /\ after \in Nat /\ after <= l BY <1>1
<1>3. \A i \in DOMAIN events : events[i] \in Event /\ events[i].at \in Int BY <1>1, EventsOf
<1>4. before \in Fine(n) BY <1>2, PrefixFine
<1>5. DOMAIN before = 1 .. after /\ \A i \in 1 .. after : before[i] = events[i] BY <1>1, <1>2
<1>6. \A i \in 1 .. l - after : after + i \in DOMAIN events /\ ~(after + i <= after) /\ after + i \in Nat BY <1>2
<1>7. \A i \in 1 .. l - after : F(i) \in Event /\ F(i).id = events[after + i].id /\ F(i).at = events[after + i].at + budget
  <2>1. TAKE i \in 1 .. l - after
  <2>2. events[after + i] \in Event /\ events[after + i].at + budget \in Int BY <1>3, <1>6
  <2> QED BY <2>2, Moved
<1>8. l - after \in Nat BY <1>2
<1>9. Inserted(after, new, budget) = (before \o new) \o behind BY DEF Inserted
<1> HIDE DEF before, F, l
<1>10. behind \in Seq(Event) /\ DOMAIN behind = 1 .. l - after BY <1>7, <1>8, IsASeq
<1>11. \A i \in 1 .. l - after : behind[i].id = events[after + i].id /\ behind[i].at = events[after + i].at + budget BY <1>7
<1> HIDE DEF behind
<1>12. behind \in Fine(n)
  <2>1. ASSUME Ordered PROVE InTime(behind)
    <3>1. SUFFICES ASSUME NEW i \in 1 .. l - after, NEW j \in 1 .. l - after, i < j PROVE behind[i].at <= behind[j].at
        BY <1>10 DEF InTime
    <3>2. after + i < after + j BY <1>2, <1>8, <3>1
    <3>3. events[after + i].at <= events[after + j].at BY <1>1, <1>6, <2>1, <3>2 DEF InTime
    <3>4. events[after + i].at \in Int /\ events[after + j].at \in Int BY <1>3, <1>6
    <3>5. behind[i].at = events[after + i].at + budget /\ behind[j].at = events[after + j].at + budget BY <1>11
    <3> QED BY <3>3, <3>4, <3>5
  <2>2. ASSUME May = {} PROVE Distinct(behind)
    <3>1. SUFFICES ASSUME NEW i \in 1 .. l - after, NEW j \in 1 .. l - after, behind[i].id = behind[j].id PROVE i = j
        BY <1>10 DEF Distinct
    <3>2. after + i = after + j BY <1>1, <1>6, <1>11, <2>2, <3>1 DEF Distinct
    <3> QED BY <1>2, <1>8, <3>2
  <2>3. \A i \in DOMAIN behind : behind[i].id <= n BY <1>1, <1>6, <1>10, <1>11
  <2> QED BY <1>10, <2>1, <2>2, <2>3, InFine, Zenon
<1>13. new \in Seq(Event) /\ Len(new) \in Nat /\ DOMAIN new = 1 .. Len(new) BY InFine, EventsOf
<1>14. \A j \in DOMAIN new : new[j].at \in Int BY <1>13, EventsOf
<1>15. before \o new \in Fine(n)
  <2>1. Ordered => \A i \in DOMAIN before, j \in DOMAIN new : before[i].at <= new[j].at
    <3>1. \A i \in 1 .. after : i \in DOMAIN events /\ i <= after BY <1>2
    <3> QED BY <1>5, <3>1
  <2>2. May = {} => Apart(before, new)
    <3>1. \A i \in 1 .. after : i \in DOMAIN events BY <1>2
    <3> QED BY <1>5, <3>1 DEF Apart
  <2> QED BY <1>4, <2>1, <2>2, JoinFine
<1>16. before \in Seq(Event) /\ Len(before) = after BY <1>4, <1>5, InFine, EventsOf, <1>2
<1> DEFINE u == before \o new  m == Len(new)
<1>17. DOMAIN u = 1 .. (after + m) /\ \A i \in 1 .. (after + m) :
            \/ i \in 1 .. after /\ u[i] = events[i] /\ i \in DOMAIN events
            \/ i - after \in 1 .. m /\ u[i] = new[i - after] /\ i - after \in DOMAIN new
  <2>1. DOMAIN u = 1 .. (after + m) BY <1>2, <1>13, <1>16, SMTT(20)
  <2>2. \A i \in 1 .. (after + m) : u[i] = IF i <= after THEN before[i] ELSE new[i - after] BY <1>2, <1>13, <1>16
  <2>3. \A i \in 1 .. (after + m) : i <= after => i \in 1 .. after /\ i \in DOMAIN events BY <1>2
  <2>4. \A i \in 1 .. (after + m) : ~(i <= after) => i - after \in 1 .. m BY <1>2, <1>13
  <2> HIDE DEF u, m
  <2> QED BY <1>5, <1>13, <2>1, <2>2, <2>3, <2>4 DEF m
<1> HIDE DEF u, m
<1>18. ASSUME Ordered PROVE \A i \in DOMAIN u, j \in DOMAIN behind : u[i].at <= behind[j].at
  <2>1. TAKE i \in DOMAIN u, j \in DOMAIN behind
  <2>2. after + j \in DOMAIN events /\ behind[j].at = events[after + j].at + budget /\ events[after + j].at \in Int
      BY <1>3, <1>6, <1>10, <1>11
  <2>3. CASE i \in 1 .. after /\ u[i] = events[i] /\ i \in DOMAIN events
    <3>1. i < after + j BY <1>2, <1>8, <1>10, <2>3
    <3>2. events[i].at <= events[after + j].at /\ events[i].at \in Int BY <1>1, <1>3, <1>18, <2>2, <2>3, <3>1 DEF InTime
    <3> QED BY <2>2, <2>3, <3>2
  <2>4. CASE u[i] = new[i - after] /\ i - after \in DOMAIN new
    <3>1. new[i - after].at <= events[after + j].at + budget BY <1>6, <1>10, <1>18, <2>4
    <3> QED BY <2>2, <2>4, <3>1
  <2> QED BY <1>17, <2>3, <2>4
<1>19. ASSUME May = {} PROVE Apart(u, behind)
  <2>1. SUFFICES ASSUME NEW i \in DOMAIN u, NEW j \in DOMAIN behind PROVE u[i].id # behind[j].id BY DEF Apart
  <2>2. after + j \in DOMAIN events /\ behind[j].id = events[after + j].id BY <1>6, <1>10, <1>11
  <2>3. CASE i \in 1 .. after /\ u[i] = events[i] /\ i \in DOMAIN events
    <3>1. i # after + j BY <1>2, <1>8, <1>10, <2>3
    <3> QED BY <1>1, <1>19, <2>2, <2>3, <3>1 DEF Distinct
  <2>4. CASE u[i] = new[i - after] /\ i - after \in DOMAIN new BY <1>19, <2>2, <2>4 DEF Apart
  <2> QED BY <1>17, <2>3, <2>4
<1>20. u \o behind \in Fine(n) BY <1>12, <1>15, <1>18, <1>19, JoinFine DEF u
<1> QED BY <1>9, <1>20 DEF u

-----------------------------------------------------------------------------
(* The walk that makes the rows: it exists, and what it has made of the     *)
(* first n events.                                                          *)

IsWalk(f, evs, withMoves, n) == f = [i \in 0 .. n |->
    IF i = 0 THEN Begun ELSE Walked(evs, withMoves, f[i - 1], i)]

LEMMA WalkExists == ASSUME NEW evs, NEW withMoves, NEW n \in Nat
    PROVE  \E f : IsWalk(f, evs, withMoves, n)
PROOF
<1> DEFINE Bad == {k \in Nat : ~\E f : IsWalk(f, evs, withMoves, k)}
<1>1. SUFFICES ASSUME n \in Bad PROVE FALSE OBVIOUS
<1>2. PICK k \in Bad : \A j \in Bad : k <= j BY <1>1, SomeLeast
<1>3. k \in Nat /\ ~\E f : IsWalk(f, evs, withMoves, k) BY <1>2
<1>4. CASE k = 0
  <2> DEFINE g == [i \in 0 .. 0 |-> Begun]
  <2>1. g = [i \in 0 .. 0 |-> IF i = 0 THEN Begun ELSE Walked(evs, withMoves, g[i - 1], i)] OBVIOUS
  <2>2. IsWalk(g, evs, withMoves, 0) BY <2>1 DEF IsWalk
  <2> QED BY <1>3, <1>4, <2>2
<1>5. CASE k # 0
  <2>1. k - 1 \in Nat /\ ~(k <= k - 1) BY <1>3, <1>5
  <2>2. k - 1 \notin Bad BY <1>2, <2>1
  <2>3. PICK f : IsWalk(f, evs, withMoves, k - 1) BY <2>1, <2>2
  <2> DEFINE g == [i \in 0 .. k |-> IF i = k THEN Walked(evs, withMoves, f[k - 1], k) ELSE f[i]]
  <2>4. \A i \in 0 .. k - 1 : f[i] = IF i = 0 THEN Begun ELSE Walked(evs, withMoves, f[i - 1], i) BY <2>3 DEF IsWalk
  <2>5. \A i \in 0 .. k : g[i] = IF i = 0 THEN Begun ELSE Walked(evs, withMoves, g[i - 1], i)
    <3>1. TAKE i \in 0 .. k
    <3>2. CASE i = k
      <4>1. k - 1 \in 0 .. k /\ k - 1 # k BY <1>3, <1>5
      <4>2. g[k - 1] = f[k - 1] BY <4>1
      <4> QED BY <1>5, <3>2, <4>2
    <3>3. CASE i # k
      <4>1. i \in 0 .. k - 1 BY <1>3, <3>3
      <4>2. i # 0 => i - 1 \in 0 .. k /\ i - 1 # k BY <1>3, <3>3
      <4>3. i # 0 => g[i - 1] = f[i - 1] BY <4>2
      <4> QED BY <2>4, <3>3, <4>1, <4>3
    <3> QED BY <3>2, <3>3
  <2> HIDE DEF Bad
  <2>6. g = [i \in 0 .. k |-> IF i = 0 THEN Begun ELSE Walked(evs, withMoves, g[i - 1], i)] BY <2>5
  <2>7. IsWalk(g, evs, withMoves, k) BY <2>6 DEF IsWalk
  <2> QED BY <1>3, <2>7
<1> QED BY <1>4, <1>5

LEMMA RowsWalked == ASSUME NEW evs, NEW withMoves, Len(evs) \in Nat
    PROVE  \E f : IsWalk(f, evs, withMoves, Len(evs)) /\ BuildRows(evs, withMoves) = f[Len(evs)].rows
PROOF
<1> DEFINE walk == CHOOSE f : f = [i \in 0 .. Len(evs) |->
                IF i = 0 THEN Begun ELSE Walked(evs, withMoves, f[i - 1], i)]
<1>1. \E f : f = [i \in 0 .. Len(evs) |-> IF i = 0 THEN Begun ELSE Walked(evs, withMoves, f[i - 1], i)]
  <2>1. \E f : IsWalk(f, evs, withMoves, Len(evs)) BY WalkExists
  <2> QED BY <2>1, Zenon DEF IsWalk
<1>2. walk = [i \in 0 .. Len(evs) |-> IF i = 0 THEN Begun ELSE Walked(evs, withMoves, walk[i - 1], i)]
    BY <1>1, Zenon
<1>3. IsWalk(walk, evs, withMoves, Len(evs)) BY <1>2, Zenon DEF IsWalk
<1>4. BuildRows(evs, withMoves) = walk[Len(evs)].rows BY DEF BuildRows
<1> QED BY <1>3, <1>4, Zenon

(* A row begins at its first event, takes none that another has, and a row  *)
(* whose position can be edited is one press or move, or the press, the     *)
(* moves and the release of a click.                                        *)
Positions == {"press", "release", "move"}
RowFrom(row, evs, i) ==
    /\ i \in row /\ row \subseteq DOMAIN evs
    /\ \A j \in row : i <= j
    /\ evs[i].kind \in Positions => \A j \in row : evs[j].kind \in Positions
    /\ evs[i].kind = "move" => row = {i}

LEMMA RowAtFacts == ASSUME NEW evs \in Seq(Event), NEW i \in DOMAIN evs, NEW C, i \notin C
    PROVE  RowFrom(RowAt(evs, i, C), evs, i) /\ RowAt(evs, i, C) \cap C = {}
PROOF
<1> DEFINE e == evs[i]  row == RowAt(evs, i, C)
           later == (i + 1 .. Len(evs)) \ C
           ends == {j \in later : e.kind \in DOMAIN Closes
                        /\ evs[j].kind = Closes[e.kind] /\ evs[j].what = e.what}
           same(j) == j \notin C /\ evs[j].kind = "wheel" /\ evs[j].what = e.what
<1>1. Len(evs) \in Nat /\ DOMAIN evs = 1 .. Len(evs) BY EventsOf
<1>2. i \in Nat /\ i >= 1 /\ i <= Len(evs) BY <1>1
<1>3. \A j \in later : j \in DOMAIN evs /\ j \notin C /\ j \in Nat /\ i <= j BY <1>1, <1>2
<1>4. Closes = [k \in {"press", "down"} |-> IF k = "press" THEN "release" ELSE "up"] BY DEF Closes
<1>5. row = CASE e.kind = "press" /\ ends # {} ->
                    {i, Least(ends)} \cup {j \in later : j < Least(ends) /\ evs[j].kind = "move"}
              [] e.kind = "down" /\ ends # {} -> {i, Least(ends)}
              [] e.kind = "wheel" -> {i} \cup {j \in later : \A k \in i + 1 .. j : same(k)}
              [] OTHER -> {i}
    BY Zenon DEF RowAt
<1>6. ends # {} => Least(ends) \in ends
  <2>1. ends \subseteq Nat BY <1>3
  <2> QED BY <2>1, LeastFacts
<1>7. CASE e.kind = "press" /\ ends # {}
  <2>1. row = {i, Least(ends)} \cup {j \in later : j < Least(ends) /\ evs[j].kind = "move"} BY <1>5, <1>7
  <2>2. Least(ends) \in later /\ evs[Least(ends)].kind = "release" BY <1>4, <1>6, <1>7
  <2> HIDE DEF later, ends, row, e
  <2>3. \A j \in row : j = i \/ (j \in later /\ evs[j].kind \in {"release", "move"}) BY <2>1, <2>2
  <2>4. i \in row BY <2>1
  <2>5. \A j \in row : j \in DOMAIN evs /\ i <= j /\ j \notin C /\ (j = i \/ evs[j].kind \in Positions)
      BY <1>2, <1>3, <2>3 DEF Positions
  <2>6. evs[i].kind = "press" BY <1>7 DEF e
  <2>7. RowFrom(row, evs, i) BY <2>4, <2>5, <2>6 DEF RowFrom, Positions
  <2>8. row \cap C = {} BY <2>5
  <2> QED BY <2>7, <2>8 DEF row
<1>8. CASE e.kind = "down" /\ ends # {}
  <2>1. row = {i, Least(ends)} BY <1>5, <1>8
  <2>2. Least(ends) \in later BY <1>6, <1>8
  <2> HIDE DEF later, ends, row, e
  <2>3. \A j \in row : j \in DOMAIN evs /\ i <= j /\ j \notin C BY <1>2, <1>3, <2>1, <2>2
  <2>4. evs[i].kind = "down" BY <1>8 DEF e
  <2>5. RowFrom(row, evs, i) BY <2>1, <2>3, <2>4 DEF RowFrom, Positions
  <2>6. row \cap C = {} BY <2>3
  <2> QED BY <2>5, <2>6 DEF row
<1>9. CASE e.kind = "wheel"
  <2>1. row = {i} \cup {j \in later : \A k \in i + 1 .. j : same(k)} BY <1>5, <1>9
  <2> HIDE DEF later, ends, row, e, same
  <2>2. \A j \in row : j \in DOMAIN evs /\ i <= j /\ j \notin C BY <1>2, <1>3, <2>1
  <2>3. evs[i].kind = "wheel" BY <1>9 DEF e
  <2>4. RowFrom(row, evs, i) BY <2>1, <2>2, <2>3 DEF RowFrom, Positions
  <2>5. row \cap C = {} BY <2>2
  <2> QED BY <2>4, <2>5 DEF row
<1>10. CASE ~(e.kind = "press" /\ ends # {}) /\ ~(e.kind = "down" /\ ends # {}) /\ e.kind # "wheel"
  <2>1. row = {i} BY <1>5, <1>10
  <2> HIDE DEF later, ends, row, e
  <2>2. RowFrom(row, evs, i) BY <1>2, <2>1 DEF RowFrom
  <2> QED BY <2>1, <2>2 DEF row
<1> QED BY <1>7, <1>8, <1>9, <1>10

Rising(rows) == \A r, s \in DOMAIN rows : r < s => Least(rows[r]) < Least(rows[s]) /\ rows[r] \cap rows[s] = {}
Shown(rows, evs, withMoves, i) ==
    (\E r \in DOMAIN rows : i \in rows[r]) \/ (~withMoves /\ evs[i].kind = "move")
WalkInv(st, evs, withMoves, n) ==
    /\ st.consumed \subseteq DOMAIN evs /\ 1 .. n \subseteq st.consumed
    /\ st.rows \in Seq(SUBSET DOMAIN evs)
    /\ \A r \in DOMAIN st.rows : st.rows[r] \subseteq st.consumed /\ \E i \in 1 .. n : RowFrom(st.rows[r], evs, i)
    /\ Rising(st.rows)
    /\ \A i \in st.consumed : Shown(st.rows, evs, withMoves, i)

LEMMA RowLeast == ASSUME NEW evs \in Seq(Event), NEW row, NEW i, RowFrom(row, evs, i)
    PROVE  Least(row) = i /\ row # {} /\ i \in DOMAIN evs
PROOF
<1>1. DOMAIN evs \subseteq Nat BY EventsOf
<1>2. row \subseteq Nat /\ i \in row /\ \A j \in row : i <= j BY <1>1 DEF RowFrom
<1>3. Least(row) = i BY <1>2, LeastIs
<1> QED BY <1>2, <1>3 DEF RowFrom

LEMMA WalkBegins == ASSUME NEW evs, NEW withMoves PROVE WalkInv(Begun, evs, withMoves, 0)
PROOF
<1>1. Begun.consumed = {} /\ Begun.rows = <<>> BY DEF Begun
<1>2. DOMAIN Begun.rows = {} /\ Begun.rows \in Seq(SUBSET DOMAIN evs) BY <1>1
<1>3. 1 .. 0 = {} OBVIOUS
<1> QED BY <1>1, <1>2, <1>3 DEF WalkInv, Rising

LEMMA WalkGoesOn == ASSUME NEW evs \in Seq(Event), NEW withMoves, NEW n \in Nat, n + 1 \in DOMAIN evs,
                           NEW st, WalkInv(st, evs, withMoves, n)
    PROVE  WalkInv(Walked(evs, withMoves, st, n + 1), evs, withMoves, n + 1)
PROOF
<1> DEFINE i == n + 1  row == RowAt(evs, i, st.consumed)  new == Walked(evs, withMoves, st, i)
<1>1. 1 .. i = 1 .. n \cup {i} OBVIOUS
<1>2. i \in DOMAIN evs OBVIOUS
<1> HIDE DEF i
<1>3. CASE i \in st.consumed
  <2>1. new = st BY <1>3 DEF Walked
  <2>2. 1 .. i \subseteq st.consumed BY <1>1, <1>3 DEF WalkInv
  <2>3. WalkInv(st, evs, withMoves, i) BY <1>1, <2>2 DEF WalkInv
  <2> QED BY <2>1, <2>3 DEF i
<1>4. CASE i \notin st.consumed
  <2>1. RowFrom(row, evs, i) /\ row \cap st.consumed = {} BY <1>2, <1>4, RowAtFacts
  <2>2. /\ new.consumed = st.consumed \cup row
        /\ new.rows = IF evs[i].kind = "move" /\ ~withMoves THEN st.rows ELSE Append(st.rows, row)
    <3>1. new = [consumed |-> st.consumed \cup row,
                 rows |-> IF evs[i].kind = "move" /\ ~withMoves THEN st.rows ELSE Append(st.rows, row)]
        BY <1>4, Zenon DEF Walked
    <3> HIDE DEF new, row
    <3> QED BY <3>1
  <2> HIDE DEF row, new
  <2>3. i \in row /\ row \subseteq DOMAIN evs BY <2>1 DEF RowFrom
  <2>4. st.consumed \subseteq DOMAIN evs /\ 1 .. n \subseteq st.consumed /\ st.rows \in Seq(SUBSET DOMAIN evs) BY DEF WalkInv
  <2>5. new.consumed \subseteq DOMAIN evs /\ 1 .. i \subseteq new.consumed BY <1>1, <2>2, <2>3, <2>4
  <2>6. CASE evs[i].kind = "move" /\ ~withMoves
    <3>1. new.rows = st.rows /\ row = {i} BY <2>1, <2>2, <2>6 DEF RowFrom
    <3>2. \A r \in DOMAIN st.rows : st.rows[r] \subseteq new.consumed /\ \E j \in 1 .. i : RowFrom(st.rows[r], evs, j)
        BY <1>1, <2>2 DEF WalkInv
    <3>3. \A j \in new.consumed : Shown(st.rows, evs, withMoves, j) BY <2>2, <2>6, <3>1 DEF WalkInv, Shown
    <3> QED BY <2>4, <2>5, <3>1, <3>2, <3>3 DEF WalkInv, new, i
  <2>7. CASE ~(evs[i].kind = "move" /\ ~withMoves)
    <3> DEFINE l == Len(st.rows)
    <3>1. new.rows = Append(st.rows, row) BY <2>2, <2>7
    <3>2. l \in Nat /\ DOMAIN st.rows = 1 .. l BY <2>4
    <3>3. /\ new.rows \in Seq(SUBSET DOMAIN evs)
          /\ DOMAIN new.rows = 1 .. l + 1
          /\ new.rows[l + 1] = row
          /\ \A r \in 1 .. l : new.rows[r] = st.rows[r]
      BY <2>3, <2>4, <3>1, <3>2
    <3>4. \A r \in DOMAIN new.rows : r \in DOMAIN st.rows \/ r = l + 1 BY <3>2, <3>3
    <3>5. \A r \in DOMAIN st.rows : st.rows[r] \subseteq st.consumed /\ \E j \in 1 .. n : RowFrom(st.rows[r], evs, j)
        BY DEF WalkInv
    <3>6. \A r \in DOMAIN new.rows : new.rows[r] \subseteq new.consumed /\ \E j \in 1 .. i : RowFrom(new.rows[r], evs, j)
      <4>1. TAKE r \in DOMAIN new.rows
      <4>2. CASE r = l + 1
        <5>1. new.rows[r] = row /\ i \in 1 .. i BY <1>1, <3>3, <4>2
        <5> QED BY <2>1, <2>2, <5>1
      <4>3. CASE r \in DOMAIN st.rows
        <5>1. new.rows[r] = st.rows[r] BY <3>2, <3>3, <4>3
        <5>2. st.rows[r] \subseteq st.consumed /\ \E j \in 1 .. n : RowFrom(st.rows[r], evs, j) BY <3>5, <4>3
        <5> QED BY <1>1, <2>2, <5>1, <5>2
      <4> QED BY <3>4, <4>2, <4>3
    <3>7. Rising(new.rows)
      <4>1. SUFFICES ASSUME NEW r \in DOMAIN new.rows, NEW s \in DOMAIN new.rows, r < s
                     PROVE  Least(new.rows[r]) < Least(new.rows[s]) /\ new.rows[r] \cap new.rows[s] = {}
          BY DEF Rising
      <4>2. r \in DOMAIN st.rows /\ new.rows[r] = st.rows[r] BY <3>2, <3>3, <4>1
      <4>3. CASE s \in DOMAIN st.rows
        <5>1. new.rows[s] = st.rows[s] BY <3>2, <3>3, <4>3
        <5> QED BY <4>1, <4>2, <4>3, <5>1 DEF WalkInv, Rising
      <4>4. CASE s = l + 1
        <5>1. new.rows[s] = row BY <3>3, <4>4
        <5>2. PICK j \in 1 .. n : RowFrom(st.rows[r], evs, j) BY <3>5, <4>2
        <5>3. Least(st.rows[r]) = j BY <5>2, RowLeast
        <5>4. Least(row) = i BY <2>1, RowLeast
        <5>5. j < i BY <5>2 DEF i
        <5>6. st.rows[r] \cap row = {} BY <2>1, <3>5, <4>2
        <5> QED BY <4>2, <5>1, <5>3, <5>4, <5>5, <5>6
      <4> QED BY <3>4, <4>3, <4>4
    <3>8. \A j \in new.consumed : Shown(new.rows, evs, withMoves, j)
      <4>1. TAKE j \in new.consumed
      <4>2. CASE j \in row
        <5>1. l + 1 \in DOMAIN new.rows BY <3>2, <3>3
        <5> QED BY <3>3, <4>2, <5>1 DEF Shown
      <4>3. CASE j \in st.consumed
        <5>1. Shown(st.rows, evs, withMoves, j) BY <4>3 DEF WalkInv
        <5>2. \A r \in DOMAIN st.rows : r \in DOMAIN new.rows /\ new.rows[r] = st.rows[r] BY <3>2, <3>3
        <5> QED BY <5>1, <5>2 DEF Shown
      <4> QED BY <2>2, <4>2, <4>3
    <3> HIDE DEF l
    <3> QED BY <2>5, <3>3, <3>6, <3>7, <3>8 DEF WalkInv, new, i
  <2> QED BY <2>6, <2>7
<1> QED BY <1>3, <1>4

RowsFact(rows, evs, withMoves) ==
    /\ rows \in Seq(SUBSET DOMAIN evs)
    /\ \A r \in DOMAIN rows : \E i \in DOMAIN evs : RowFrom(rows[r], evs, i)
    /\ Rising(rows)
    /\ \A i \in DOMAIN evs : Shown(rows, evs, withMoves, i)

LEMMA RowsFacts == ASSUME NEW evs \in Seq(Event), NEW withMoves
    PROVE  RowsFact(BuildRows(evs, withMoves), evs, withMoves)
PROOF
<1> DEFINE n == Len(evs)
<1>1. n \in Nat /\ DOMAIN evs = 1 .. n BY EventsOf
<1>2. PICK f : IsWalk(f, evs, withMoves, n) /\ BuildRows(evs, withMoves) = f[n].rows BY <1>1, RowsWalked, Zenon
<1>3. \A i \in 0 .. n : f[i] = IF i = 0 THEN Begun ELSE Walked(evs, withMoves, f[i - 1], i) BY <1>2 DEF IsWalk
<1> DEFINE Bad == {k \in 0 .. n : ~WalkInv(f[k], evs, withMoves, k)}
<1>4. WalkInv(f[n], evs, withMoves, n)
  <2>1. SUFFICES ASSUME n \in Bad PROVE FALSE BY <1>1
  <2>2. Bad \subseteq Nat BY <1>1
  <2>3. PICK k \in Bad : \A j \in Bad : k <= j BY <2>1, <2>2, SomeLeast
  <2>4. k \in 0 .. n /\ ~WalkInv(f[k], evs, withMoves, k) BY <2>3
  <2>5. k # 0
    <3>1. f[0] = Begun BY <1>1, <1>3
    <3> QED BY <2>4, <3>1, WalkBegins
  <2> DEFINE j == k - 1
  <2>6. j \in Nat /\ j \in 0 .. n /\ ~(k <= j) /\ k = j + 1 /\ k \in DOMAIN evs BY <1>1, <2>4, <2>5
  <2>7. f[k] = Walked(evs, withMoves, f[j], k) BY <1>3, <2>4, <2>5
  <2> HIDE DEF j
  <2>8. WalkInv(f[j], evs, withMoves, j) BY <2>3, <2>6
  <2>9. WalkInv(Walked(evs, withMoves, f[j], j + 1), evs, withMoves, j + 1) BY <2>6, <2>8, WalkGoesOn
  <2> QED BY <2>4, <2>6, <2>7, <2>9
<1>5. f[n].consumed = DOMAIN evs BY <1>1, <1>4 DEF WalkInv
<1> HIDE DEF n
<1> QED BY <1>1, <1>2, <1>4, <1>5 DEF WalkInv, RowsFact

-----------------------------------------------------------------------------
(* Rows of the table and places behind them.                                *)

LEMMA RowSetFacts == ASSUME events \in Seq(Event)
    PROVE  \A row \in RowSet : /\ \E i \in DOMAIN events : RowFrom(row, events, i)
                               /\ row # {} /\ row \subseteq DOMAIN events /\ Least(row) \in row
                               /\ Most(row) \in row /\ \A j \in row : j <= Most(row)
PROOF
<1>1. RowsFact(Rows, events, show) BY RowsFacts DEF Rows
<1>2. SUFFICES ASSUME NEW row \in RowSet
               PROVE  /\ \E i \in DOMAIN events : RowFrom(row, events, i)
                      /\ row # {} /\ row \subseteq DOMAIN events /\ Least(row) \in row
                      /\ Most(row) \in row /\ \A j \in row : j <= Most(row)
    OBVIOUS
<1>3. PICK i \in DOMAIN events : RowFrom(row, events, i) BY <1>1, <1>2 DEF RowSet, RowsFact
<1>4. Least(row) = i /\ row # {} BY <1>3, RowLeast
<1>5. i \in row /\ row \subseteq DOMAIN events BY <1>3 DEF RowFrom
<1>6. Len(events) \in Nat /\ DOMAIN events = 1 .. Len(events) BY EventsOf
<1>7. row \subseteq 0 .. Len(events) BY <1>5, <1>6
<1>8. Most(row) \in row /\ \A j \in row : j <= Most(row) BY <1>4, <1>6, <1>7, MostFacts
<1> QED BY <1>3, <1>4, <1>5, <1>8

LEMMA PlacesFacts == ASSUME events \in Seq(Event), NEW p \in Places
    PROVE  p \in 0 .. Len(events) /\ (p = 0 => events = <<>>)
PROOF
<1>1. Len(events) \in Nat /\ DOMAIN events = 1 .. Len(events) BY EventsOf
<1>2. CASE p = Len(events) BY <1>1, <1>2, EmptySeq
<1>3. CASE p # Len(events)
  <2>1. PICK row \in RowSet : p = Most(row) BY <1>3 DEF Places
  <2>2. p \in DOMAIN events BY <2>1, RowSetFacts
  <2> QED BY <1>1, <2>2
<1> QED BY <1>2, <1>3

LEMMA BaseFacts == ASSUME NEW n, events \in Fine(n), NEW p \in 0 .. Len(events), p = 0 => events = <<>>
    PROVE  /\ Base(p) \in Int
           /\ Ordered => \A i \in DOMAIN events : (i <= p => events[i].at <= Base(p)) /\ (~(i <= p) => Base(p) <= events[i].at)
PROOF
<1>1. events \in Seq(Event) /\ (Ordered => InTime(events)) BY InFine, Zenon
<1>2. Len(events) \in Nat /\ DOMAIN events = 1 .. Len(events) /\ \A i \in DOMAIN events : events[i].at \in Int
    BY <1>1, EventsOf
<1>3. CASE events = <<>>
  <2>1. DOMAIN events = {} BY <1>3
  <2> QED BY <1>3, <2>1 DEF Base
<1>4. CASE events # <<>>
  <2>1. p # 0 /\ p \in DOMAIN events /\ Base(p) = events[p].at BY <1>2, <1>4 DEF Base
  <2>2. Ordered => \A i \in DOMAIN events : i < p => events[i].at <= events[p].at BY <1>1, <2>1 DEF InTime
  <2>3. Ordered => \A i \in DOMAIN events : p < i => events[p].at <= events[i].at BY <1>1, <2>1 DEF InTime
  <2>4. \A i \in DOMAIN events : i < p \/ i = p \/ p < i BY <1>2, <2>1
  <2> HIDE DEF Base
  <2> QED BY <1>2, <2>1, <2>2, <2>3, <2>4
<1> QED BY <1>3, <1>4

(* Events with ids of their own, put behind place p.                        *)
LEMMA NewBehind == ASSUME made \in Nat, events \in Fine(made), NEW p \in 0 .. Len(events), p = 0 => events = <<>>,
                          NEW n \in Nat, made <= n, NEW new \in Fine(n), NEW budget \in Nat,
                          \A j \in DOMAIN new : new[j].id > made /\ new[j].at >= Base(p) /\ new[j].at <= Base(p) + budget
    PROVE  Inserted(p, new, budget) \in Fine(n)
PROOF
<1>1. events \in Fine(n) BY FineGrows
<1>2. events \in Seq(Event) /\ \A i \in DOMAIN events : events[i].id <= made BY InFine
<1>3. \A i \in DOMAIN events : events[i].id \in Nat /\ events[i].at \in Int BY <1>2, EventsOf
<1>4. new \in Seq(Event) BY InFine
<1>5. \A j \in DOMAIN new : new[j].id \in Nat /\ new[j].at \in Int BY <1>4, EventsOf
<1>6. Base(p) \in Int BY BaseFacts
<1>7. Ordered => \A i \in DOMAIN events : (i <= p => events[i].at <= Base(p)) /\ (~(i <= p) => Base(p) <= events[i].at) BY BaseFacts
<1>8. ASSUME Ordered
      PROVE  \A i \in DOMAIN events, j \in DOMAIN new :
        /\ i <= p => events[i].at <= new[j].at
        /\ ~(i <= p) => new[j].at <= events[i].at + budget
  <2>1. SUFFICES ASSUME NEW i \in DOMAIN events, NEW j \in DOMAIN new
                 PROVE  /\ i <= p => events[i].at <= new[j].at
                        /\ ~(i <= p) => new[j].at <= events[i].at + budget
      OBVIOUS
  <2>2. new[j].at \in Int /\ events[i].at \in Int /\ new[j].at >= Base(p) /\ new[j].at <= Base(p) + budget BY <1>3, <1>5
  <2>3. (i <= p => events[i].at <= Base(p)) /\ (~(i <= p) => Base(p) <= events[i].at) BY <1>7, <1>8
  <2> QED BY <1>6, <2>2, <2>3
<1>9. Apart(events, new)
  <2>1. SUFFICES ASSUME NEW i \in DOMAIN events, NEW j \in DOMAIN new PROVE events[i].id # new[j].id BY DEF Apart
  <2> QED BY <1>2, <1>3, <1>5
<1> QED BY <1>1, <1>8, <1>9, InsertedFine

LEMMA OneBehind == ASSUME made \in Nat, events \in Fine(made), NEW p \in 0 .. Len(events), p = 0 => events = <<>>,
                          NEW what \in Name
    PROVE  Inserted(p, <<New(1, "single", what, Base(p) + 1)>>, 1) \in Fine(made + 1)
PROOF
<1> DEFINE t == Base(p) + 1  new == <<New(1, "single", what, t)>>
<1>1. Base(p) \in Int BY BaseFacts
<1>2. t \in Int /\ made + 1 \in Nat /\ made <= made + 1 BY <1>1
<1>3. "single" \in Kind BY DEF Kind
<1> HIDE DEF t
<1>4. new \in Fine(made + 1) /\ DOMAIN new = {1} /\ new[1].id = made + 1 /\ new[1].at = t BY <1>2, <1>3, OneFine
<1> HIDE DEF new
<1>5. \A j \in DOMAIN new : new[j].id > made /\ new[j].at >= Base(p) /\ new[j].at <= Base(p) + 1 BY <1>1, <1>4 DEF t
<1>6. Inserted(p, new, 1) \in Fine(made + 1) BY <1>2, <1>4, <1>5, NewBehind
<1> QED BY <1>6 DEF new, t

(* A click.                                                                 *)
LEMMA ClickFine == ASSUME made \in Nat, NEW k \in Nat \ {0}, NEW t \in Int, NEW what \in Name, NEW n \in Nat, made + k + 1 <= n
    PROVE  LET c == <<New(k, "press", what, t + k), New(k + 1, "release", what, t + k + 1)>> IN
           /\ c \in Fine(n) /\ DOMAIN c = {1, 2}
           /\ c[1].id = made + k /\ c[2].id = made + k + 1
           /\ c[1].at = t + k /\ c[2].at = t + k + 1
PROOF
<1> DEFINE a == New(k, "press", what, t + k)  b == New(k + 1, "release", what, t + k + 1)  c == <<a, b>>
<1>1. "press" \in Kind /\ "release" \in Kind BY DEF Kind
<1>2. t + k \in Int /\ t + k + 1 \in Int /\ k + 1 \in Nat \ {0} OBVIOUS
<1>3. a \in Event /\ a.id = made + k /\ a.at = t + k BY <1>1, <1>2, NewFacts
<1>4. b \in Event /\ b.id = made + (k + 1) /\ b.at = t + k + 1 BY <1>1, <1>2, NewFacts
<1> HIDE DEF a, b
<1>5. c \in Seq(Event) /\ DOMAIN c = {1, 2} /\ c[1] = a /\ c[2] = b BY <1>3, <1>4
<1> HIDE DEF c
<1>6. InTime(c)
  <2>1. a.at <= b.at BY <1>3, <1>4
  <2>2. \A i, j \in DOMAIN c : i < j => i = 1 /\ j = 2 BY <1>5
  <2> QED BY <1>5, <2>1, <2>2 DEF InTime
<1>7. Distinct(c)
  <2>1. a.id # b.id BY <1>3, <1>4
  <2>2. \A i \in DOMAIN c : i = 1 \/ i = 2 BY <1>5
  <2> QED BY <1>5, <2>1, <2>2 DEF Distinct
<1>8. \A i \in DOMAIN c : c[i].id <= n BY <1>3, <1>4, <1>5
<1>9. c \in Fine(n) BY <1>5, <1>6, <1>7, <1>8, InFine, Zenon
<1>10. made + (k + 1) = made + k + 1 OBVIOUS
<1> QED BY <1>3, <1>4, <1>5, <1>9, <1>10 DEF a, b, c

LEMMA JoinedAt == ASSUME NEW s \in Seq(Event), NEW t \in Seq(Event)
    PROVE  /\ s \o t \in Seq(Event) /\ Len(s \o t) = Len(s) + Len(t) /\ DOMAIN (s \o t) = 1 .. Len(s) + Len(t)
           /\ \A i \in 1 .. Len(s) + Len(t) : (s \o t)[i] = IF i <= Len(s) THEN s[i] ELSE t[i - Len(s)]
    OBVIOUS

Double(s) == Len(s) = 2
LEMMA FourInAll == ASSUME NEW s \in Seq(Event), NEW t \in Seq(Event), Double(s), Double(t)
    PROVE  LET u == s \o t IN
           DOMAIN u = 1 .. 4 /\ u[1] = s[1] /\ u[2] = s[2] /\ u[3] = t[1] /\ u[4] = t[2]
PROOF
<1> DEFINE u == s \o t  l == Len(s)  m == Len(t)
<1>1. DOMAIN u = 1 .. l + m /\ \A i \in 1 .. l + m : u[i] = IF i <= l THEN s[i] ELSE t[i - l] BY JoinedAt
<1>2. l = 2 /\ m = 2 BY DEF Double
<1> HIDE DEF u, l, m
<1> QED BY <1>1, <1>2 DEF u

LEMMA ClickBehind == ASSUME made \in Nat, events \in Fine(made), NEW p \in 0 .. Len(events), p = 0 => events = <<>>,
                            NEW what \in Name, NEW double \in BOOLEAN
    PROVE  LET click(k) == <<New(k, "press", what, Base(p) + k), New(k + 1, "release", what, Base(p) + k + 1)>>
           IN  /\ double => Inserted(p, click(1) \o click(3), 4) \in Fine(made + 4)
               /\ ~double => Inserted(p, click(1), 2) \in Fine(made + 2)
PROOF
<1> DEFINE t == Base(p)  click(k) == <<New(k, "press", what, t + k), New(k + 1, "release", what, t + k + 1)>>
           one == click(1)  two == click(3)
<1>1. t \in Int BY BaseFacts
<1> HIDE DEF t
<1>2. made + 2 \in Nat /\ made + 4 \in Nat /\ made + 1 + 1 <= made + 2 /\ made + 1 + 1 <= made + 4
      /\ made + 3 + 1 <= made + 4 /\ made <= made + 2 /\ made <= made + 4 OBVIOUS
<1>3. one \in Fine(made + 2) /\ DOMAIN one = {1, 2} /\ one[1].id = made + 1 /\ one[2].id = made + 1 + 1
      /\ one[1].at = t + 1 /\ one[2].at = t + 1 + 1 /\ one \in Fine(made + 4)
  <2>1. 1 \in Nat \ {0} /\ made + 1 + 1 <= made + 2 /\ made + 1 + 1 <= made + 4 BY <1>2
  <2>2. \A n \in Nat : made + 1 + 1 <= n => one \in Fine(n) /\ DOMAIN one = {1, 2}
            /\ one[1].id = made + 1 /\ one[2].id = made + 1 + 1 /\ one[1].at = t + 1 /\ one[2].at = t + 1 + 1
      BY <1>1, <2>1, ClickFine, ZenonT(40)
  <2> HIDE DEF one
  <2> QED BY <1>2, <2>1, <2>2
<1>5. two \in Fine(made + 4) /\ DOMAIN two = {1, 2} /\ two[1].id = made + 3 /\ two[2].id = made + 3 + 1
      /\ two[1].at = t + 3 /\ two[2].at = t + 3 + 1
  <2>1. 3 \in Nat \ {0} OBVIOUS
  <2> QED BY <1>1, <1>2, <2>1, ClickFine, ZenonT(60)
<1> HIDE DEF one, two
<1>6. Inserted(p, one, 2) \in Fine(made + 2)
  <2>1. \A j \in DOMAIN one : one[j].id > made /\ one[j].at >= t /\ one[j].at <= t + 2 BY <1>1, <1>3
  <2> QED BY <1>2, <1>3, <2>1, NewBehind DEF t
<1>7. Inserted(p, one \o two, 4) \in Fine(made + 4)
  <2>1. \A i \in DOMAIN one, j \in DOMAIN two : one[i].at <= two[j].at /\ one[i].id # two[j].id BY <1>1, <1>3, <1>5
  <2>2. one \o two \in Fine(made + 4) BY <1>3, <1>5, <2>1, JoinFine DEF Apart
  <2> DEFINE u == one \o two
  <2>3. one \in Seq(Event) /\ two \in Seq(Event) BY <1>3, <1>5, InFine
  <2>4. Len(one) = 2 /\ Len(two) = 2 BY <1>3, <1>5, <2>3
  <2>5. DOMAIN u = 1 .. 4 /\ u[1] = one[1] /\ u[2] = one[2] /\ u[3] = two[1] /\ u[4] = two[2] BY <2>3, <2>4, FourInAll, Zenon DEF Double
  <2> HIDE DEF u
  <2>6. \A j \in DOMAIN u : j = 1 \/ j = 2 \/ j = 3 \/ j = 4 BY <2>5
  <2>7. \A j \in DOMAIN u : u[j].id > made /\ u[j].at >= t /\ u[j].at <= t + 4 BY <1>1, <1>3, <1>5, <2>5, <2>6
  <2>8. Inserted(p, u, 4) \in Fine(made + 4) BY <1>2, <2>2, <2>7, NewBehind DEF t, u
  <2> QED BY <2>8 DEF u
<1> QED BY <1>6, <1>7 DEF one, two, t

-----------------------------------------------------------------------------
(* What every edit and every load keeps.                                    *)

LEMMA EmptyFine == ASSUME NEW n
    PROVE  <<>> \in Fine(n) /\ <<>> \in Seq(Fine(n)) /\ NoBase \in Bases(n) /\ NoDialog \in Dialogs(n)
PROOF
<1>1. DOMAIN <<>> = {} /\ <<>> \in Seq(Event) OBVIOUS
<1>2. <<>> \in Fine(n) BY <1>1 DEF Fine, InTime, Distinct
<1>3. NoBase \in Bases(n) BY <1>2 DEF NoBase, Bases
<1>4. NoDialog \in Dialogs(n) BY <1>2 DEF NoDialog, Dialogs, Asking
<1> QED BY <1>2, <1>3, <1>4

LEMMA RecordsGrow == ASSUME NEW n \in Nat, NEW m \in Nat, n <= m
    PROVE  Bases(n) \subseteq Bases(m) /\ Dialogs(n) \subseteq Dialogs(m)
PROOF
<1>1. Fine(n) \subseteq Fine(m) BY FineGrows
<1>2. Bases(n) \subseteq Bases(m) BY <1>1 DEF Bases
<1>3. Dialogs(n) \subseteq Dialogs(m) BY <1>1 DEF Dialogs
<1> QED BY <1>2, <1>3

LEMMA Bounds == MaxEdits \in Nat /\ MaxMoves \in Nat /\ MaxUndo \in Nat \ {0} BY EditorAssumption, Zenon

LEMMA EditCounts == ASSUME Edit, edits \in 0 .. MaxEdits PROVE edits' \in 0 .. MaxEdits
    BY Bounds DEF Edit

LEMMA MoveCounts == ASSUME moves \in 0 .. MaxMoves, moves < MaxMoves, moves' = moves + 1 PROVE moves' \in 0 .. MaxMoves
    BY Bounds

LEMMA IdleKnows == (dialog' = NoDialog \/ (Idle /\ dialog' = dialog)) => DialogKnows'
PROOF
<1>1. NoDialog.kind = "none" BY DEF NoDialog
<1> QED BY <1>1 DEF Idle, DialogKnows

(* The dialogs and captures that a change leaves as they are or closes.     *)
Rests ==
    /\ dialog' \in {dialog, NoDialog} /\ capture' \in {capture, NoCapture}
    /\ show' \in BOOLEAN /\ edits' \in 0 .. MaxEdits /\ moves' \in 0 .. MaxMoves
    /\ made' \in Nat /\ made <= made'

LEMMA CaptureApplied == ASSUME CaptureKnows, generation' = generation + 1, capture' \in {capture, NoCapture}
    PROVE  CaptureKnows'
PROOF
<1>1. generation' \in Nat /\ ~(generation' <= generation) BY DEF CaptureKnows
<1>2. NoCapture \in [on : BOOLEAN, anchor : Nat, generation : Nat] /\ ~NoCapture.on BY DEF NoCapture
<1>3. CASE capture' = NoCapture BY <1>1, <1>2, <1>3 DEF CaptureKnows
<1>4. CASE capture' = capture
  <2>1. capture' \in [on : BOOLEAN, anchor : Nat, generation : Nat] BY <1>4 DEF CaptureKnows
  <2>2. capture'.on => capture'.generation <= generation /\ capture'.generation \in Nat BY <1>4 DEF CaptureKnows
  <2>3. capture'.on => capture'.generation <= generation' /\ capture'.generation # generation' BY <1>1, <2>2 DEF CaptureKnows
  <2> QED BY <1>1, <2>1, <2>3 DEF CaptureKnows, StillThere
<1> QED BY <1>3, <1>4

LEMMA CaptureRests == ASSUME CaptureKnows, UNCHANGED <<generation, events>>, capture' \in {capture, NoCapture}
    PROVE  CaptureKnows'
PROOF
<1>1. NoCapture \in [on : BOOLEAN, anchor : Nat, generation : Nat] /\ ~NoCapture.on BY DEF NoCapture
<1>2. CASE capture' = NoCapture BY <1>1, <1>2 DEF CaptureKnows
<1>3. CASE capture' = capture BY <1>3 DEF CaptureKnows, StillThere
<1> QED BY <1>2, <1>3

LEMMA CountsRest == ASSUME Counts, Rests PROVE Counts' /\ made \in Nat /\ made' \in Nat /\ made <= made' /\ FirstMade <= made'
PROOF
<1>1. made \in Nat /\ FirstMade <= made /\ made' \in Nat /\ made <= made' BY DEF Counts, Rests
<1>2. FirstMade <= made' BY <1>1 DEF FirstMade
<1> QED BY <1>1, <1>2 DEF Counts, Rests

LEMMA FrontLast == ASSUME NEW S, NEW s \in Seq(S), s # <<>>
    PROVE  /\ Front(s) \in Seq(S) /\ Last(s) \in S
           /\ Len(s) \in Nat \ {0} /\ Last(s) = s[Len(s)]
           /\ Len(Front(s)) = Len(s) - 1 /\ DOMAIN Front(s) = 1 .. Len(s) - 1
           /\ \A i \in 1 .. Len(s) - 1 : Front(s)[i] = s[i]
PROOF
<1>1. Len(s) \in Nat /\ Len(s) # 0 /\ DOMAIN s = 1 .. Len(s) BY EmptySeq
<1>2. Len(s) \in DOMAIN s BY <1>1
<1> QED BY <1>1, <1>2 DEF Front, Last

(* A state that is pushed is on the stack, and the stack holds no more than  *)
(* it may.                                                                  *)
LEMMA PushedFacts == ASSUME NEW S, undo \in Seq(S), events \in S, Len(undo) <= MaxUndo
    PROVE  /\ Pushed \in Seq(S) /\ Pushed # <<>> /\ Len(Pushed) \in Nat /\ Len(Pushed) <= MaxUndo
           /\ Front(Pushed) \in Seq(S) /\ Len(Front(Pushed)) \in Nat /\ Len(Front(Pushed)) <= MaxUndo
PROOF
<1> DEFINE rest == IF Len(undo) < MaxUndo THEN undo ELSE Tail(undo)
<1>1. MaxUndo \in Nat \ {0} /\ Len(undo) \in Nat BY Bounds
<1>2. rest \in Seq(S) /\ Len(rest) \in Nat /\ Len(rest) < MaxUndo
  <2>1. CASE Len(undo) < MaxUndo BY <1>1, <2>1
  <2>2. CASE ~(Len(undo) < MaxUndo)
    <3>1. Len(undo) # 0 /\ undo # <<>> BY <1>1, <2>2
    <3>2. Tail(undo) \in Seq(S) /\ Len(Tail(undo)) = Len(undo) - 1 BY <3>1, HeadTailProperties
    <3> QED BY <1>1, <2>2, <3>1, <3>2
  <2> QED BY <2>1, <2>2
<1>3. Pushed = Append(rest, events) BY DEF Pushed
<1> HIDE DEF rest
<1>4. Pushed \in Seq(S) /\ Len(Pushed) = Len(rest) + 1 BY <1>2, <1>3, AppendProperties
<1>5. Len(Pushed) \in Nat /\ Len(Pushed) # 0 /\ Len(Pushed) <= MaxUndo BY <1>1, <1>2, <1>4
<1>6. Pushed # <<>> BY <1>5
<1>7. Front(Pushed) \in Seq(S) /\ Len(Front(Pushed)) = Len(Pushed) - 1 BY <1>4, <1>6, FrontLast
<1>8. Len(Pushed) - 1 \in Nat /\ Len(Pushed) - 1 <= MaxUndo BY <1>1, <1>5
<1> QED BY <1>4, <1>5, <1>6, <1>7, <1>8

LEMMA StacksFit == ASSUME EditorInv
    PROVE  /\ undo \in Seq(Fine(made)) /\ redo \in Seq(Fine(made)) /\ events \in Fine(made)
           /\ Len(undo) \in Nat /\ Len(redo) \in Nat /\ Len(undo) + Len(redo) <= MaxUndo /\ Len(undo) <= MaxUndo
PROOF
<1>1. undo \in Seq(Fine(made)) /\ redo \in Seq(Fine(made)) /\ events \in Fine(made) /\ Len(undo) + Len(redo) <= MaxUndo
    BY DEF EditorInv, ListsFine
<1>2. Len(undo) \in Nat /\ Len(redo) \in Nat BY <1>1, LenProperties
<1>3. Len(undo) <= MaxUndo BY <1>1, <1>2, Bounds
<1> QED BY <1>1, <1>2, <1>3

LEMMA EditKeeps == ASSUME EditorInv, NEW evs, evs \in Fine(made'), Change(evs), Rests, DialogKnows', UNCHANGED <<raw, base>>
    PROVE  EditorInv'
PROOF
<1>1. Counts' /\ made \in Nat /\ made' \in Nat /\ made <= made' BY CountsRest DEF EditorInv
<1>2. Fine(made) \subseteq Fine(made') /\ Seq(Fine(made)) \subseteq Seq(Fine(made')) BY <1>1, FineGrows
<1>3. Bases(made) \subseteq Bases(made') /\ Dialogs(made) \subseteq Dialogs(made') BY <1>1, RecordsGrow
<1>4. events' = evs /\ generation' = generation + 1 /\ undo' = Pushed /\ redo' = <<>>
    BY DEF Change, Applied, PushUndo
<1>5. undo \in Seq(Fine(made)) /\ events \in Fine(made) /\ Len(undo) <= MaxUndo BY StacksFit
<1>6. Pushed \in Seq(Fine(made)) /\ Len(Pushed) \in Nat /\ Len(Pushed) <= MaxUndo BY <1>5, PushedFacts
<1>7. undo' \in Seq(Fine(made')) /\ redo' \in Seq(Fine(made')) /\ Len(undo') + Len(redo') <= MaxUndo
  <2>1. undo' \in Seq(Fine(made')) /\ redo' \in Seq(Fine(made')) BY <1>2, <1>4, <1>6, EmptyFine
  <2>2. Len(undo') = Len(Pushed) /\ Len(redo') = 0 BY <1>4
  <2>3. Len(undo') + Len(redo') <= MaxUndo BY <1>6, <2>2
  <2> QED BY <2>1, <2>3
<1>8. events' \in Fine(made') /\ raw' \in Fine(made') BY <1>2, <1>4 DEF EditorInv, ListsFine
<1>9. base' \in Bases(made') /\ dialog' \in Dialogs(made') BY <1>3, EmptyFine DEF EditorInv, ListsFine, Rests
<1>10. ListsFine' BY <1>7, <1>8, <1>9 DEF ListsFine, Bases, Dialogs, Fine
<1>11. CaptureKnows' BY <1>4, CaptureApplied DEF EditorInv, Rests
<1> QED BY <1>1, <1>10, <1>11 DEF EditorInv

LEMMA LoadKeeps == ASSUME EditorInv, NEW evs, evs \in Fine(made'), NEW original, original \in Fine(made'),
                          Loaded(evs, original), Edit, base' \in {base, NoBase}, made' \in Nat, made <= made', DialogKnows'
    PROVE  EditorInv'
PROOF
<1>0. Rests BY EditCounts DEF EditorInv, Counts, Loaded, Rests
<1>1. Counts' /\ made \in Nat /\ made' \in Nat /\ made <= made' BY <1>0, CountsRest DEF EditorInv
<1>2. Bases(made) \subseteq Bases(made') /\ Dialogs(made) \subseteq Dialogs(made') BY <1>1, RecordsGrow
<1>3. events' = evs /\ raw' = original /\ undo' = <<>> /\ redo' = <<>> /\ generation' = generation + 1 BY DEF Loaded
<1>4. base' \in Bases(made') /\ dialog' \in Dialogs(made') BY <1>0, <1>2, EmptyFine DEF EditorInv, ListsFine, Rests
<1>5. ListsFine'
  <2>1. Len(undo') + Len(redo') <= MaxUndo BY <1>3, Bounds
  <2> QED BY <1>3, <1>4, <2>1, EmptyFine DEF ListsFine, Bases, Dialogs, Fine
<1>6. CaptureKnows' BY <1>0, <1>3, CaptureApplied DEF EditorInv, Rests
<1> QED BY <1>1, <1>5, <1>6 DEF EditorInv

(* Nothing is changed but the stacks, dialogs, captures and counts.         *)
LEMMA StacksKeep == ASSUME EditorInv, Rests, DialogKnows', UNCHANGED <<events, raw, base, generation>>,
                           undo' \in Seq(Fine(made)), redo' \in Seq(Fine(made)), Len(undo') + Len(redo') <= MaxUndo
    PROVE  EditorInv'
PROOF
<1>1. Counts' /\ made \in Nat /\ made' \in Nat /\ made <= made' BY CountsRest DEF EditorInv
<1>2. Fine(made) \subseteq Fine(made') /\ Seq(Fine(made)) \subseteq Seq(Fine(made')) BY <1>1, FineGrows
<1>3. Bases(made) \subseteq Bases(made') /\ Dialogs(made) \subseteq Dialogs(made') BY <1>1, RecordsGrow
<1>4. base' \in Bases(made') /\ dialog' \in Dialogs(made') BY <1>3, EmptyFine DEF EditorInv, ListsFine, Rests
<1>5. ListsFine' BY <1>2, <1>4, EmptyFine DEF EditorInv, ListsFine, Bases, Dialogs, Fine
<1>6. CaptureKnows' BY CaptureRests DEF EditorInv, Rests
<1> QED BY <1>1, <1>5, <1>6 DEF EditorInv

(* The stacks neither.                                                      *)
LEMMA RestKeeps == ASSUME EditorInv, Rests, DialogKnows', UNCHANGED <<events, raw, undo, redo, base, generation>>
    PROVE  EditorInv'
    BY StacksFit, StacksKeep

-----------------------------------------------------------------------------
(* Every step keeps the invariant.                                          *)

LEMMA Parts == ASSUME EditorInv
    PROVE  /\ events \in Fine(made) /\ raw \in Fine(made) /\ events \in Seq(Event)
           /\ undo \in Seq(Fine(made)) /\ redo \in Seq(Fine(made))
           /\ base.events \in Fine(made) /\ base.raw \in Fine(made) /\ base.on \in BOOLEAN
           /\ dialog.kind \in Asking /\ dialog.shown \in Fine(made) /\ dialog.cut \in Fine(made)
           /\ made \in Nat /\ FirstMade <= made
           /\ edits \in 0 .. MaxEdits /\ moves \in 0 .. MaxMoves /\ show \in BOOLEAN
PROOF
<1>1. events \in Fine(made) /\ raw \in Fine(made) /\ undo \in Seq(Fine(made)) /\ redo \in Seq(Fine(made))
    BY DEF EditorInv, ListsFine
<1>2. base.events \in Fine(made) /\ base.raw \in Fine(made) /\ base.on \in BOOLEAN BY DEF EditorInv, ListsFine, Bases
<1>3. dialog.kind \in Asking /\ dialog.shown \in Fine(made) /\ dialog.cut \in Fine(made)
    BY DEF EditorInv, ListsFine, Dialogs
<1>4. events \in Seq(Event) BY <1>1, InFine
<1> QED BY <1>1, <1>2, <1>3, <1>4 DEF EditorInv, Counts

LEMMA UndoKeeps == ASSUME EditorInv, UndoStep PROVE EditorInv'
PROOF
<1>1. moves' \in 0 .. MaxMoves BY Parts, MoveCounts DEF UndoStep
<1>2. Rests BY <1>1, Parts DEF UndoStep, Rests
<1>3. Counts' /\ made' = made BY <1>2, CountsRest DEF EditorInv, UndoStep
<1>4. Front(undo) \in Seq(Fine(made)) /\ Last(undo) \in Fine(made) BY Parts, FrontLast DEF UndoStep
<1>5. Append(redo, events) \in Seq(Fine(made)) /\ Len(Front(undo)) + Len(Append(redo, events)) <= MaxUndo
  <2>1. Len(Front(undo)) = Len(undo) - 1 BY Parts, FrontLast DEF UndoStep
  <2>2. Append(redo, events) \in Seq(Fine(made)) /\ Len(Append(redo, events)) = Len(redo) + 1 BY Parts, AppendProperties
  <2>3. Len(undo) - 1 + (Len(redo) + 1) <= MaxUndo BY StacksFit, Bounds
  <2> QED BY <2>1, <2>2, <2>3
<1>6. events' = Last(undo) /\ undo' = Front(undo) /\ redo' = Append(redo, events) /\ generation' = generation + 1
      /\ UNCHANGED <<raw, base, dialog>>
    BY DEF UndoStep, Applied
<1>7. ListsFine' BY <1>3, <1>4, <1>5, <1>6 DEF EditorInv, ListsFine, Bases, Dialogs, Fine
<1>8. CaptureKnows' BY <1>2, <1>6, CaptureApplied DEF EditorInv, Rests
<1>9. DialogKnows' BY IdleKnows DEF UndoStep
<1> QED BY <1>3, <1>7, <1>8, <1>9 DEF EditorInv

(* Redo pushes nothing out.                                                 *)
LEMMA RedoFits == ASSUME EditorInv, RedoStep
    PROVE  /\ Pushed = Append(undo, events)
           /\ Pushed \in Seq(Fine(made)) /\ Len(Pushed) + Len(Front(redo)) <= MaxUndo
PROOF
<1>1. redo # <<>> /\ Len(redo) \in Nat \ {0} /\ Len(Front(redo)) = Len(redo) - 1 BY Parts, FrontLast DEF RedoStep
<1>2. Len(undo) < MaxUndo BY <1>1, StacksFit, Bounds
<1>3. Pushed = Append(undo, events) BY <1>2 DEF Pushed
<1>4. Append(undo, events) \in Seq(Fine(made)) /\ Len(Append(undo, events)) = Len(undo) + 1 BY StacksFit, AppendProperties
<1>5. Len(undo) + 1 + (Len(redo) - 1) <= MaxUndo BY <1>1, StacksFit, Bounds
<1> QED BY <1>1, <1>3, <1>4, <1>5

LEMMA RedoKeeps == ASSUME EditorInv, RedoStep PROVE EditorInv'
PROOF
<1>1. moves' \in 0 .. MaxMoves BY Parts, MoveCounts DEF RedoStep
<1>2. Rests BY <1>1, Parts DEF RedoStep, Rests
<1>3. Counts' /\ made' = made BY <1>2, CountsRest DEF EditorInv, RedoStep
<1>4. Front(redo) \in Seq(Fine(made)) /\ Last(redo) \in Fine(made) BY Parts, FrontLast DEF RedoStep
<1>5. Pushed \in Seq(Fine(made)) /\ Len(Pushed) + Len(Front(redo)) <= MaxUndo BY RedoFits
<1>6. events' = Last(redo) /\ redo' = Front(redo) /\ undo' = Pushed /\ generation' = generation + 1
      /\ UNCHANGED <<raw, base, dialog>>
    BY DEF RedoStep, Applied
<1>7. ListsFine' BY <1>3, <1>4, <1>5, <1>6 DEF EditorInv, ListsFine, Bases, Dialogs, Fine
<1>8. CaptureKnows' BY <1>2, <1>6, CaptureApplied DEF EditorInv, Rests
<1>9. DialogKnows' BY IdleKnows DEF RedoStep
<1> QED BY <1>3, <1>7, <1>8, <1>9 DEF EditorInv

LEMMA ToggleKeeps == ASSUME EditorInv, ToggleMoves PROVE EditorInv'
PROOF
<1>1. moves' \in 0 .. MaxMoves BY Parts, MoveCounts DEF ToggleMoves
<1>2. Rests BY <1>1, Parts DEF ToggleMoves, Rests
<1>3. DialogKnows' BY IdleKnows DEF ToggleMoves
<1> QED BY <1>2, <1>3, RestKeeps DEF ToggleMoves

LEMMA StartAppendKeeps == ASSUME EditorInv, StartAppend PROVE EditorInv'
PROOF
<1>1. moves' \in 0 .. MaxMoves BY Parts, MoveCounts DEF StartAppend
<1>2. Rests BY <1>1, Parts DEF StartAppend, Rests
<1>3. Counts' /\ made' = made BY <1>2, CountsRest DEF EditorInv, StartAppend
<1>4. base' \in Bases(made) BY Parts DEF StartAppend, Bases
<1>5. ListsFine' BY <1>3, <1>4 DEF EditorInv, StartAppend, ListsFine, Bases, Dialogs, Fine
<1>6. CaptureKnows' BY <1>2, CaptureRests DEF EditorInv, Rests, StartAppend
<1>7. DialogKnows' BY IdleKnows DEF StartAppend
<1> QED BY <1>3, <1>5, <1>6, <1>7 DEF EditorInv

(* What does not hang on the events of a macro that changes under a dialog. *)
RowRemembered ==
    /\ dialog.row # {} /\ dialog.row \subseteq DOMAIN dialog.shown
    /\ dialog.id = dialog.shown[Least(dialog.row)].id
    /\ dialog.kind = "position" =>
        \A i \in dialog.row : dialog.shown[i].kind \in {"press", "release", "move"}

LEMMA Remembered == ASSUME dialog' = dialog, DialogKnows,
                           dialog.kind # "none" /\ May = {} =>
                                dialog.kind # "cut" /\ (Grown(dialog.shown, events') \/ Apart(dialog.shown, events'))
    PROVE  DialogKnows'
PROOF
<1>1. dialog.kind # "none" => RowRemembered BY Zenon DEF DialogKnows, RowRemembered
<1> QED BY <1>1, Zenon DEF DialogKnows, RowRemembered

LEMMA NewApart == ASSUME NEW n \in Nat, NEW s \in Fine(n), NEW t \in Seq(Event), \A i \in DOMAIN t : t[i].id > n
    PROVE  Apart(s, t)
PROOF
<1>1. s \in Seq(Event) /\ \A i \in DOMAIN s : s[i].id <= n BY InFine
<1>2. \A i \in DOMAIN s : s[i].id \in Nat BY <1>1, EventsOf
<1>3. \A i \in DOMAIN t : t[i].id \in Nat BY EventsOf
<1> QED BY <1>1, <1>2, <1>3 DEF Apart

LEMMA RecordedKeeps == ASSUME EditorInv, NEW m \in Macro, Recorded(m) PROVE EditorInv'
PROOF
<1> DEFINE new == Renewed(m)  later == ShiftedTo(new, End(base.events))  old == base.events
<1>1. made' = made + Len(m) /\ base' = NoBase /\ Edit /\ dialog' = dialog BY DEF Recorded, Loaded
<1>2. made \in Nat /\ FirstMade <= made BY Parts
<1>3. /\ new \in Fine(made') /\ made' \in Nat /\ made <= made'
      /\ \A i \in DOMAIN new : new[i].id > made
    BY <1>1, <1>2, RenewedFine
<1>4. Fine(made) \subseteq Fine(made') BY <1>2, <1>3, FineGrows
<1>5. old \in Fine(made) /\ old \in Fine(made') /\ base.raw \in Fine(made') BY <1>4, Parts
<1> HIDE DEF new, old
<1>6. End(old) \in Int /\ \A i \in DOMAIN old : old[i].at <= End(old) BY <1>5, EndFacts
<1>7. later \in Fine(made') /\ DOMAIN later = DOMAIN new
      /\ \A i \in DOMAIN new : (Ordered => later[i].at >= End(old)) /\ later[i].id = new[i].id
    BY <1>3, <1>6, ShiftedFine DEF old
<1> HIDE DEF later
<1>8. later \in Seq(Event) /\ new \in Seq(Event) /\ old \in Seq(Event) BY <1>3, <1>5, <1>7, InFine
<1>9. \A i \in DOMAIN later : later[i].id > made BY <1>3, <1>7
<1>10. old \o later \in Fine(made')
  <2>1. Apart(old, later) BY <1>2, <1>5, <1>8, <1>9, NewApart
  <2>2. ASSUME Ordered PROVE \A i \in DOMAIN old, j \in DOMAIN later : old[i].at <= later[j].at
    <3>1. SUFFICES ASSUME NEW i \in DOMAIN old, NEW j \in DOMAIN later PROVE old[i].at <= later[j].at OBVIOUS
    <3>2. old[i].at \in Int /\ later[j].at \in Int BY <1>8, EventsOf
    <3>3. old[i].at <= End(old) /\ later[j].at >= End(old) BY <1>6, <1>7, <2>2
    <3> QED BY <1>6, <3>2, <3>3
  <2> QED BY <1>5, <1>7, <2>1, <2>2, JoinFine
<1>11. dialog.shown \in Fine(made) BY Parts
<1>12. CASE base.on
  <2>1. Loaded(old \o later, base.raw) BY <1>12 DEF Recorded, old, later, new
  <2>2. events' = old \o later BY <2>1 DEF Loaded
  <2>3. ASSUME dialog.kind # "none", May = {}
        PROVE  dialog.kind # "cut" /\ (Grown(dialog.shown, events') \/ Apart(dialog.shown, events'))
    <3>1. dialog.kind # "cut" BY <2>3 DEF Recorded, Unasked
    <3>2. old = events BY <1>12, <2>3 DEF Recorded, InPlace, Idle, old
    <3>3. Grown(dialog.shown, events) \/ Apart(dialog.shown, events) BY <2>3 DEF EditorInv, DialogKnows
    <3>4. /\ DOMAIN events' = 1 .. Len(old) + Len(later) /\ Len(events') = Len(old) + Len(later)
          /\ \A i \in 1 .. Len(old) + Len(later) : events'[i] = IF i <= Len(old) THEN old[i] ELSE later[i - Len(old)]
        BY <1>8, <2>2, JoinedAt
    <3>5. Len(old) \in Nat /\ Len(later) \in Nat /\ DOMAIN old = 1 .. Len(old) /\ DOMAIN later = 1 .. Len(later) BY <1>8
    <3>6. \A i \in 1 .. Len(old) : events'[i] = old[i] BY <3>4, <3>5
    <3>7. Len(dialog.shown) \in Nat /\ DOMAIN dialog.shown = 1 .. Len(dialog.shown) BY <1>11, InFine, EventsOf
    <3>8. CASE Grown(dialog.shown, events)
      <4>1. Len(dialog.shown) <= Len(old) /\ \A i \in DOMAIN dialog.shown : old[i] = dialog.shown[i] BY <3>2, <3>8 DEF Grown
      <4>2. Grown(dialog.shown, events') BY <3>4, <3>5, <3>6, <3>7, <4>1 DEF Grown
      <4> QED BY <3>1, <4>2
    <3>9. CASE Apart(dialog.shown, events)
      <4>1. Apart(dialog.shown, later) BY <1>2, <1>8, <1>9, <1>11, NewApart
      <4>2. \A j \in DOMAIN events' : (j \in DOMAIN old /\ events'[j] = old[j])
                                    \/ (j - Len(old) \in DOMAIN later /\ events'[j] = later[j - Len(old)])
          BY <3>4, <3>5
      <4>3. Apart(dialog.shown, events')
        <5>1. SUFFICES ASSUME NEW i \in DOMAIN dialog.shown, NEW j \in DOMAIN events'
                       PROVE  dialog.shown[i].id # events'[j].id
            BY DEF Apart
        <5>2. CASE j \in DOMAIN old /\ events'[j] = old[j] BY <3>2, <3>9, <5>2 DEF Apart
        <5>3. CASE j - Len(old) \in DOMAIN later /\ events'[j] = later[j - Len(old)] BY <4>1, <5>3 DEF Apart
        <5> QED BY <4>2, <5>2, <5>3
      <4> QED BY <3>1, <4>3
    <3> QED BY <3>3, <3>8, <3>9
  <2>4. DialogKnows' BY <1>1, <2>3, Remembered DEF EditorInv
  <2> QED BY <1>1, <1>3, <1>5, <1>10, <2>1, <2>4, LoadKeeps
<1>13. CASE ~base.on
  <2>1. Loaded(new, new) BY <1>13 DEF Recorded, new
  <2>2. events' = new BY <2>1 DEF Loaded
  <2>3. Apart(dialog.shown, new) BY <1>2, <1>3, <1>8, <1>11, NewApart
  <2>4. May = {} => dialog.kind # "cut" BY DEF Recorded, Unasked
  <2>5. DialogKnows' BY <1>1, <2>2, <2>3, <2>4, Remembered DEF EditorInv
  <2> QED BY <1>1, <1>3, <2>1, <2>5, LoadKeeps
<1> QED BY <1>12, <1>13

LEMMA OpenedKeeps == ASSUME EditorInv, NEW m \in Macro, Opened(m) PROVE EditorInv'
PROOF
<1>1. Edit /\ Loaded(m, m) /\ base' = base /\ made' = made /\ Idle /\ dialog' = dialog BY DEF Opened, Loaded
<1>2. made \in Nat /\ FirstMade <= made BY Parts
<1>3. m \in Fine(made') BY <1>1, <1>2, MacroFine
<1>4. DialogKnows' BY <1>1, IdleKnows
<1> QED BY <1>1, <1>2, <1>3, <1>4, LoadKeeps

LEMMA MergedKeeps == ASSUME EditorInv, NEW m \in Macro, NEW n \in Macro, Merged(m, n) PROVE EditorInv'
PROOF
<1> DEFINE later == ShiftedTo(n, End(m) + 1)  joined == m \o later  both == IF m = <<>> THEN n ELSE joined
<1>1. Edit /\ Loaded(both, both) /\ base' = base /\ made' = made /\ Idle /\ dialog' = dialog BY DEF Merged, Loaded
<1>2. made \in Nat /\ FirstMade <= made BY Parts
<1>3. m \in Fine(made) /\ n \in Fine(made) BY <1>2, MacroFine
<1>4. End(m) \in Int /\ \A i \in DOMAIN m : m[i].at <= End(m) BY <1>3, EndFacts
<1>5. End(m) + 1 \in Int BY <1>4
<1>6. later \in Fine(made) /\ DOMAIN later = DOMAIN n
      /\ \A i \in DOMAIN n : (Ordered => later[i].at >= End(m) + 1) /\ later[i].id = n[i].id
    BY <1>3, <1>5, ShiftedFine
<1> HIDE DEF later
<1>7. ASSUME Ordered PROVE \A i \in DOMAIN m, j \in DOMAIN later : m[i].at <= later[j].at
  <2>1. SUFFICES ASSUME NEW i \in DOMAIN m, NEW j \in DOMAIN later PROVE m[i].at <= later[j].at OBVIOUS
  <2>2. m \in Seq(Event) /\ later \in Seq(Event) BY <1>3, <1>6, InFine
  <2>3. m[i].at \in Int /\ later[j].at \in Int BY <2>2, EventsOf
  <2>4. m[i].at <= End(m) /\ later[j].at >= End(m) + 1 BY <1>4, <1>6, <1>7
  <2> QED BY <1>4, <2>3, <2>4
<1>8. ASSUME May = {} PROVE Apart(m, later)
  <2>1. m # n BY <1>8 DEF Merged
  <2>2. Apart(m, n) BY <2>1, EditorAssumption, Zenon
  <2> QED BY <1>6, <2>2 DEF Apart
<1>9. both \in Fine(made)
  <2>1. joined \in Fine(made) BY <1>3, <1>6, <1>7, <1>8, JoinFine
  <2> HIDE DEF joined
  <2> QED BY <1>3, <2>1
<1>10. DialogKnows' BY <1>1, IdleKnows
<1> QED BY <1>1, <1>2, <1>9, <1>10, LoadKeeps

LEMMA MergedWithWaitKeeps == ASSUME EditorInv, NEW m \in Macro, NEW n \in Macro, MergedWithWait(m, n) PROVE EditorInv'
PROOF
<1> DEFINE k == Len(n) + 1  wait == <<New(k, "single", "wait", End(m))>>  own == Deduplicated(m, n)
           later == ShiftedTo(own, End(m))  both == m \o wait \o later
<1>1. Edit /\ Loaded(both, both) /\ base' = base /\ made' = made + Len(n) + 1 /\ Idle /\ dialog' = dialog
    BY DEF MergedWithWait, Loaded
<1>2. made \in Nat /\ FirstMade <= made BY Parts
<1>3. n \in Seq(Event) BY EditorAssumption
<1>4. Len(n) \in Nat BY <1>3
<1>5. k \in Nat \ {0} /\ made' \in Nat /\ made <= made' /\ made + Len(n) \in Nat /\ made + Len(n) <= made'
      /\ made + k <= made' /\ FirstMade <= made' /\ made + k = made + Len(n) + 1
    BY <1>1, <1>2, <1>4 DEF FirstMade
<1> HIDE DEF k
<1>6. m \in Fine(made) /\ m \in Fine(made') /\ n \in Fine(made) BY <1>2, <1>5, MacroFine
<1>7. End(m) \in Int /\ \A i \in DOMAIN m : m[i].at <= End(m) BY <1>6, EndFacts
<1>8. wait \in Fine(made') /\ DOMAIN wait = {1} /\ wait[1].id = made + k /\ wait[1].at = End(m)
  <2> HIDE DEF wait, later, both, own
  <2>1. "single" \in Kind BY Zenon DEF Kind
  <2>2. "wait" \in Name BY Words, Zenon
  <2>3. <<New(k, "single", "wait", End(m))>> \in Fine(made')
        /\ DOMAIN <<New(k, "single", "wait", End(m))>> = {1}
        /\ <<New(k, "single", "wait", End(m))>>[1].id = made + k
        /\ <<New(k, "single", "wait", End(m))>>[1].at = End(m)
      BY <1>2, <1>5, <1>7, <2>1, <2>2, OneFine, SMTT(30)
  <2> QED BY <2>3, Zenon DEF wait
<1>9. /\ own \in Fine(made + Len(n)) /\ own \in Fine(made')
      /\ own = n \/ \A i \in DOMAIN own : own[i].id > made
      /\ m # n => own = n
  <2>1. Fine(made) \subseteq Fine(made') /\ Fine(made + Len(n)) \subseteq Fine(made')
      /\ Fine(made) \subseteq Fine(made + Len(n))
    BY <1>2, <1>4, <1>5, FineGrows
  <2>2. CASE m = n
    <3>1. own = Renewed(n) BY <2>2 DEF Deduplicated
    <3> QED BY <1>2, <2>1, <2>2, <3>1, RenewedFine
  <2>3. CASE m # n
    <3>1. own = n BY <2>3 DEF Deduplicated
    <3> QED BY <1>6, <2>1, <3>1
  <2> QED BY <2>2, <2>3
<1> HIDE DEF own, wait
<1>10. later \in Fine(made') /\ later \in Fine(made + Len(n)) /\ DOMAIN later = DOMAIN own
      /\ \A i \in DOMAIN own : (Ordered => later[i].at >= End(m)) /\ later[i].id = own[i].id
    BY <1>7, <1>9, ShiftedFine
<1> HIDE DEF later
<1>11. m \in Seq(Event) /\ wait \in Seq(Event) /\ later \in Seq(Event) /\ own \in Seq(Event)
       /\ \A i \in DOMAIN m : m[i].id <= made
    BY <1>6, <1>8, <1>9, <1>10, InFine
<1>12. \A i \in DOMAIN m : m[i].id \in Nat /\ m[i].at \in Int BY <1>11, EventsOf
<1>13. \A i \in DOMAIN later : later[i].id \in Nat /\ later[i].at \in Int /\ later[i].id <= made + Len(n)
    BY <1>10, <1>11, EventsOf, InFine
<1>14. m \o wait \in Fine(made')
  <2>1. \A i \in DOMAIN m, j \in DOMAIN wait : m[i].at <= wait[j].at BY <1>7, <1>8
  <2>2. \A j \in DOMAIN wait : wait[j].id > made BY <1>2, <1>5, <1>8
  <2>3. Apart(m, wait) BY <1>2, <1>6, <1>11, <2>2, NewApart
  <2> QED BY <1>6, <1>8, <2>1, <2>3, JoinFine
<1>15. \A j \in DOMAIN (m \o wait) :
          \/ j \in DOMAIN m /\ (m \o wait)[j] = m[j]
          \/ (m \o wait)[j] = wait[1]
  <2> DEFINE u == m \o wait
  <2>1. DOMAIN u = 1 .. Len(m) + Len(wait)
        /\ \A i \in 1 .. Len(m) + Len(wait) : u[i] = IF i <= Len(m) THEN m[i] ELSE wait[i - Len(m)]
      BY <1>11, JoinedAt
  <2>2. Len(m) \in Nat /\ DOMAIN m = 1 .. Len(m) /\ Len(wait) \in Nat /\ DOMAIN wait = 1 .. Len(wait) BY <1>11
  <2>3. \A i \in 1 .. Len(m) + Len(wait) : ~(i <= Len(m)) => i - Len(m) \in 1 .. Len(wait) BY <2>2
  <2>4. \A i \in 1 .. Len(m) + Len(wait) : i <= Len(m) => i \in 1 .. Len(m) BY <2>2
  <2>5. 1 .. Len(wait) = {1} BY <1>8, <2>2
  <2> HIDE DEF u
  <2> QED BY <2>1, <2>2, <2>3, <2>4, <2>5 DEF u
<1>16. ASSUME Ordered PROVE \A i \in DOMAIN (m \o wait), j \in DOMAIN later : (m \o wait)[i].at <= later[j].at
  <2>1. SUFFICES ASSUME NEW i \in DOMAIN (m \o wait), NEW j \in DOMAIN later PROVE (m \o wait)[i].at <= later[j].at OBVIOUS
  <2>2. later[j].at >= End(m) /\ later[j].at \in Int BY <1>10, <1>13, <1>16
  <2>3. CASE i \in DOMAIN m /\ (m \o wait)[i] = m[i] BY <1>7, <1>12, <2>2, <2>3
  <2>4. CASE (m \o wait)[i] = wait[1] BY <1>7, <1>8, <2>2, <2>4
  <2> QED BY <1>15, <2>3, <2>4
<1>17. ASSUME May = {} PROVE Apart(m \o wait, later)
  <2>1. SUFFICES ASSUME NEW i \in DOMAIN (m \o wait), NEW j \in DOMAIN later PROVE (m \o wait)[i].id # later[j].id
      BY DEF Apart
  <2>2. later[j].id = own[j].id /\ j \in DOMAIN own BY <1>10
  <2>3. CASE i \in DOMAIN m /\ (m \o wait)[i] = m[i]
    <3>1. CASE m # n
      <4>1. own = n /\ Apart(m, n) BY <1>9, <3>1, EditorAssumption, Zenon
      <4> QED BY <2>2, <2>3, <4>1 DEF Apart
    <3>2. CASE own = n /\ m = n
      <4>1. Renewed(n) = n BY <3>2 DEF own, Deduplicated
      <4>2. \A x \in DOMAIN n : n[x].id > made BY <1>2, <4>1, RenewedFine
      <4>3. m[i].id > made BY <2>3, <3>2, <4>2
      <4> QED BY <1>2, <1>11, <1>12, <2>3, <4>3
    <3>3. CASE \A x \in DOMAIN own : own[x].id > made
      <4>1. later[j].id > made /\ m[i].id <= made /\ m[i].id \in Nat /\ later[j].id \in Nat
          BY <1>11, <1>12, <1>13, <2>2, <2>3, <3>3
      <4> QED BY <1>2, <2>3, <4>1
    <3> QED BY <1>9, <3>1, <3>2, <3>3
  <2>4. CASE (m \o wait)[i] = wait[1]
    <3>1. later[j].id <= made + Len(n) /\ later[j].id \in Nat BY <1>13
    <3>2. wait[1].id = made + Len(n) + 1 BY <1>5, <1>8
    <3> QED BY <1>2, <1>4, <2>4, <3>1, <3>2
  <2> QED BY <1>15, <2>3, <2>4
<1>18. both \in Fine(made') BY <1>10, <1>14, <1>16, <1>17, JoinFine
<1>19. DialogKnows' BY <1>1, IdleKnows
<1> HIDE DEF both
<1> QED BY <1>1, <1>2, <1>5, <1>18, <1>19, LoadKeeps

LEMMA InsertTextKeeps == ASSUME EditorInv, NEW p \in Places, InsertText(p) PROVE EditorInv'
PROOF
<1> DEFINE evs == Inserted(p, <<New(1, "single", "text", Base(p) + 1)>>, 1)
<1>1. Edit /\ Change(evs) /\ made' = made + 1 /\ Idle /\ UNCHANGED <<raw, show, dialog, capture, base, moves>>
    BY DEF InsertText
<1>2. made \in Nat /\ events \in Fine(made) /\ events \in Seq(Event) BY Parts
<1>3. p \in 0 .. Len(events) /\ (p = 0 => events = <<>>) BY <1>2, PlacesFacts
<1>4. evs \in Fine(made')
  <2>1. "text" \in Name BY Words, Zenon
  <2>2. evs \in Fine(made + 1) BY <1>2, <1>3, <2>1, OneBehind, ZenonT(40)
  <2> QED BY <1>1, <2>2, Zenon
<1> HIDE DEF evs
<1>5. edits' \in 0 .. MaxEdits BY <1>1, Parts, EditCounts
<1>6. Rests BY <1>1, <1>2, <1>5, Parts DEF Rests
<1>7. DialogKnows' BY <1>1, IdleKnows
<1> QED BY <1>1, <1>4, <1>6, <1>7, EditKeeps

LEMMA InsertClickKeeps == ASSUME EditorInv, NEW p \in Places, NEW double \in BOOLEAN, InsertClick(p, "left", double)
    PROVE  EditorInv'
PROOF
<1> DEFINE click(k) == <<New(k, "press", "left", Base(p) + k), New(k + 1, "release", "left", Base(p) + k + 1)>>
           two == Inserted(p, click(1) \o click(3), 4)  one == Inserted(p, click(1), 2)
           evs == IF double THEN two ELSE one
<1>1. Edit /\ Idle /\ made' = made + (IF double THEN 4 ELSE 2) /\ capture' = NoCapture
      /\ UNCHANGED <<raw, show, dialog, base, moves>>
    BY DEF InsertClick
<1>2. Change(evs) BY Zenon DEF InsertClick
<1>3. made \in Nat /\ events \in Fine(made) /\ events \in Seq(Event) BY Parts
<1>4. p \in 0 .. Len(events) /\ (p = 0 => events = <<>>) BY <1>3, PlacesFacts
<1>5. (double => two \in Fine(made + 4)) /\ (~double => one \in Fine(made + 2))
  <2>1. "left" \in Name BY Words, Zenon
  <2> QED BY <1>3, <1>4, <2>1, ClickBehind, ZenonT(60)
<1> HIDE DEF two, one
<1>6. evs \in Fine(made') BY <1>1, <1>5
<1> HIDE DEF evs
<1>7. edits' \in 0 .. MaxEdits BY <1>1, Parts, EditCounts
<1>8. made' \in Nat /\ made <= made' BY <1>1, <1>3
<1>9. Rests BY <1>1, <1>7, <1>8, Parts DEF Rests
<1>10. DialogKnows' BY <1>1, IdleKnows
<1> QED BY <1>1, <1>2, <1>6, <1>9, <1>10, EditKeeps

LEMMA StartCaptureKeeps == ASSUME EditorInv, NEW p \in Places, StartCapture(p) PROVE EditorInv'
PROOF
<1>1. Edit /\ Idle /\ UNCHANGED <<events, raw, undo, redo, generation, show, dialog, base, made, moves>>
      /\ capture' = [on |-> TRUE, generation |-> generation, anchor |-> IF p = 0 THEN 0 ELSE events[p].id]
    BY DEF StartCapture
<1>2. made \in Nat /\ events \in Seq(Event) /\ show \in BOOLEAN /\ moves \in 0 .. MaxMoves /\ FirstMade <= made BY Parts
<1>3. p \in 0 .. Len(events) /\ (p = 0 => events = <<>>) BY <1>2, PlacesFacts
<1>4. edits' \in 0 .. MaxEdits BY <1>1, Parts, EditCounts
<1>5. Counts' BY <1>1, <1>2, <1>4 DEF Counts
<1>6. ListsFine' BY <1>1 DEF EditorInv, ListsFine, Bases, Dialogs, Fine
<1>7. p # 0 => events[p].id \in Nat \ {0}
  <2>1. Len(events) \in Nat /\ DOMAIN events = 1 .. Len(events) BY <1>2
  <2>2. p # 0 => p \in DOMAIN events BY <1>3, <2>1
  <2> QED BY <1>2, <2>2, EventsOf
<1>8. generation \in Nat BY DEF EditorInv, CaptureKnows
<1>9. capture' \in [on : BOOLEAN, anchor : Nat, generation : Nat] BY <1>1, <1>7, <1>8
<1>10. capture'.generation <= generation' BY <1>1, <1>8
<1>11. capture'.anchor = 0 => events' = <<>> BY <1>1, <1>3, <1>7
<1>12. CaptureKnows' BY <1>1, <1>8, <1>9, <1>10, <1>11 DEF CaptureKnows
<1>13. DialogKnows' BY <1>1, IdleKnows
<1> QED BY <1>5, <1>6, <1>12, <1>13 DEF EditorInv

LEMMA CancelCaptureKeeps == ASSUME EditorInv, CancelCapture PROVE EditorInv'
PROOF
<1>1. capture' = NoCapture /\ UNCHANGED <<events, raw, undo, redo, generation, show, dialog, base, made, edits, moves>>
    BY DEF CancelCapture
<1>2. Rests BY <1>1, Parts DEF Rests
<1>3. DialogKnows' BY <1>1 DEF EditorInv, DialogKnows, Cut
<1> QED BY <1>1, <1>2, <1>3, RestKeeps

LEMMA CaptureKeeps == ASSUME EditorInv, Capture PROVE EditorInv'
PROOF
<1> DEFINE anchors == {i \in DOMAIN events : events[i].id = capture.anchor}
           after == IF anchors = {} THEN 0 ELSE Least(anchors)
           known == StillThere /\ (capture.anchor # 0 => anchors # {})
           evs == Inserted(after, <<New(1, "single", "color", Base(after) + 1)>>, 1)
<1>1. /\ capture.on /\ (Idle \/ May # {}) /\ capture' = NoCapture
      /\ UNCHANGED <<raw, show, dialog, base, edits, moves>>
    BY DEF Capture
<1>2. IF known THEN Change(evs) /\ made' = made + 1 ELSE UNCHANGED <<events, undo, redo, generation, made>>
    BY Zenon DEF Capture
<1>3. made \in Nat /\ events \in Fine(made) /\ events \in Seq(Event) BY Parts
<1>4. DialogKnows'
  <2>1. CASE Idle BY <1>1, <2>1, IdleKnows
  <2>2. CASE May # {} BY <1>1, <2>2, Remembered DEF EditorInv
  <2> QED BY <1>1, <2>1, <2>2
<1>5. CASE known
  <2>1. Change(evs) /\ made' = made + 1 BY <1>2, <1>5
  <2>2. after \in 0 .. Len(events) /\ (after = 0 => events = <<>>)
    <3>1. Len(events) \in Nat /\ DOMAIN events = 1 .. Len(events) BY <1>3
    <3>2. CASE anchors = {}
      <4>1. capture.anchor = 0 BY <1>5, <3>2
      <4>2. events = <<>> BY <1>1, <1>5, <4>1 DEF EditorInv, CaptureKnows
      <4> QED BY <3>1, <3>2, <4>2
    <3>3. CASE anchors # {}
      <4>1. anchors \subseteq Nat BY <3>1
      <4>2. Least(anchors) \in anchors BY <3>3, <4>1, LeastFacts
      <4>3. after \in DOMAIN events BY <3>3, <4>2
      <4> QED BY <3>1, <4>3
    <3> QED BY <3>2, <3>3
  <2> HIDE DEF after
  <2>3. evs \in Fine(made + 1) BY <1>3, <2>2, Words, OneBehind, SMTT(30)
  <2> HIDE DEF evs
  <2>4. made' \in Nat /\ made <= made' /\ evs \in Fine(made') BY <1>3, <2>1, <2>3
  <2>5. Rests BY <1>1, <2>4, Parts DEF Rests
  <2> QED BY <1>1, <1>4, <2>1, <2>4, <2>5, EditKeeps
<1>6. CASE ~known
  <2>1. UNCHANGED <<events, undo, redo, generation, made>> BY <1>2, <1>6
  <2>2. Rests BY <1>1, <2>1, Parts DEF Rests
  <2> QED BY <1>1, <1>4, <2>1, <2>2, RestKeeps
<1> QED BY <1>5, <1>6

LEMMA DeleteRowsKeeps == ASSUME EditorInv, NEW rows, DeleteRows(rows) PROVE EditorInv'
PROOF
<1> DEFINE evs == Without(events, UNION rows)
<1>1. Idle /\ Edit /\ Change(evs) /\ UNCHANGED <<raw, show, dialog, capture, base, made, moves>> BY DEF DeleteRows
<1>2. evs \in Fine(made) BY Parts, WithoutFine
<1> HIDE DEF evs
<1>3. edits' \in 0 .. MaxEdits BY <1>1, Parts, EditCounts
<1>4. Rests BY <1>1, <1>3, Parts DEF Rests
<1>5. DialogKnows' BY <1>1, IdleKnows
<1> QED BY <1>1, <1>2, <1>4, <1>5, EditKeeps

LEMMA SetCheckKeeps == ASSUME EditorInv, NEW row, SetCheck(row) PROVE EditorInv'
PROOF
<1> DEFINE evs == Flip(events, {Least(With(events[Primary(row)].id))})
<1>1. /\ Idle /\ Change(evs) /\ moves < MaxMoves /\ moves' = moves + 1
      /\ UNCHANGED <<raw, show, dialog, capture, base, made, edits>> BY DEF SetCheck
<1>2. evs \in Fine(made) BY Parts, FlipFine
<1> HIDE DEF evs
<1>3. moves' \in 0 .. MaxMoves BY <1>1, Parts, MoveCounts
<1>4. Rests BY <1>1, <1>3, Parts DEF Rests
<1>5. DialogKnows' BY <1>1, IdleKnows
<1> QED BY <1>1, <1>2, <1>4, <1>5, EditKeeps

LEMMA CutFine == ASSUME NEW n, events \in Fine(n), NEW row \in RowSet PROVE Cut(row) \in Fine(n)
PROOF
<1>1. events \in Seq(Event) BY InFine
<1>2. Len(events) \in Nat /\ DOMAIN events = 1 .. Len(events) BY <1>1
<1>3. Most(row) \in DOMAIN events BY <1>1, RowSetFacts
<1>4. Most(row) \in 0 .. Len(events) BY <1>2, <1>3
<1> QED BY <1>4, PrefixFine DEF Cut

LEMMA KindsAsked == ASSUME NEW row, NEW kind \in Kinds(row)
    PROVE  kind \in Asking /\ (kind = "position" => events[Primary(row)].kind \in Positions)
    BY DEF Kinds, Asking, ById, Positions

LEMMA OpenKeeps == ASSUME EditorInv, NEW row \in RowSet, NEW kind \in Kinds(row), Open(kind, row) PROVE EditorInv'
PROOF
<1> DEFINE cut == IF kind = "cut" THEN Cut(row) ELSE <<>>  id == events[Primary(row)].id
<1>1. /\ Edit
      /\ dialog' = [kind |-> kind, id |-> id, row |-> row, shown |-> events, cut |-> cut]
      /\ UNCHANGED <<events, raw, undo, redo, generation, show, capture, base, made, moves>>
    BY DEF Open
<1>2. made \in Nat /\ FirstMade <= made /\ events \in Fine(made) /\ events \in Seq(Event) /\ show \in BOOLEAN
      /\ moves \in 0 .. MaxMoves
    BY Parts
<1>3. PICK i \in DOMAIN events : RowFrom(row, events, i) BY <1>2, RowSetFacts
<1>4. Least(row) = i /\ row # {} BY <1>2, <1>3, RowLeast
<1>5. row \subseteq DOMAIN events /\ i \in row BY <1>3 DEF RowFrom
<1>6. DOMAIN events \subseteq Nat BY <1>2
<1>7. cut \in Fine(made) BY <1>2, CutFine, EmptyFine
<1>8. id \in Nat
  <2>1. \A x \in DOMAIN events : events[x].id \in Nat BY <1>2, EventsOf
  <2> QED BY <1>4, <1>5, <2>1 DEF Primary
<1>9. kind \in Asking BY KindsAsked
<1>10. kind = "position" => \A j \in row : events[j].kind \in Positions
  <2>1. kind = "position" => events[i].kind \in Positions BY <1>4, KindsAsked DEF Primary
  <2> QED BY <1>3, <2>1 DEF RowFrom
<1>11. kind = "cut" => cut = Cut(row) BY Zenon
<1>12. id = events[Least(row)].id BY Zenon DEF Primary
<1> HIDE DEF cut, id
<1>13. dialog' \in Dialogs(made) BY <1>1, <1>2, <1>5, <1>6, <1>7, <1>8, <1>9 DEF Dialogs
<1>14. dialog'.kind = kind /\ dialog'.id = id /\ dialog'.row = row /\ dialog'.shown = events /\ dialog'.cut = cut BY <1>1
<1>15. Grown(events, events)
  <2>1. Len(events) \in Nat BY <1>2
  <2> QED BY <2>1 DEF Grown
<1>16. DialogKnows'
  <2>1. events' = events BY <1>1
  <2>2. SubSeq(events', 1, Most(dialog'.row)) = Cut(row) BY <1>14, <2>1, Zenon DEF Cut
  <2>3. kind = "cut" => dialog'.cut = SubSeq(events', 1, Most(dialog'.row)) BY <1>11, <1>14, <2>2
  <2>4. kind = "position" => \A j \in row : events[j].kind \in {"press", "release", "move"} BY <1>10, Zenon DEF Positions
  <2>5. dialog'.row # {} /\ dialog'.row \subseteq DOMAIN dialog'.shown /\ dialog'.id = dialog'.shown[Least(dialog'.row)].id
      BY <1>4, <1>5, <1>12, <1>14
  <2>6. dialog'.kind = "position" => \A j \in dialog'.row : dialog'.shown[j].kind \in {"press", "release", "move"}
      BY <1>14, <2>4
  <2>7. (dialog'.kind = "cut" => events' = dialog'.shown /\ dialog'.cut = SubSeq(events', 1, Most(dialog'.row)))
        /\ Grown(dialog'.shown, events')
      BY <1>14, <1>15, <2>1, <2>3
  <2> QED BY <2>5, <2>6, <2>7, Zenon DEF DialogKnows, Cut
<1>17. edits' \in 0 .. MaxEdits BY <1>1, Parts, EditCounts
<1>18. Counts' BY <1>1, <1>2, <1>17 DEF Counts
<1>19. ListsFine'
  <2>1. raw \in Fine(made) /\ undo \in Seq(Fine(made)) /\ redo \in Seq(Fine(made)) /\ base \in Bases(made)
        /\ Len(undo) + Len(redo) <= MaxUndo
      BY DEF EditorInv, ListsFine
  <2>2. UNCHANGED <<events, raw, undo, redo, base, made>> BY <1>1
  <2> QED BY <1>2, <1>13, <2>1, <2>2 DEF ListsFine, Bases, Dialogs, Fine
<1>20. CaptureKnows' BY <1>1 DEF EditorInv, CaptureKnows, StillThere
<1> QED BY <1>16, <1>18, <1>19, <1>20 DEF EditorInv

LEMMA Renamed == ASSUME NEW e \in Event, NEW key \in Name
    PROVE  /\ [e EXCEPT !.what = key] \in Event
           /\ [e EXCEPT !.what = key].id = e.id /\ [e EXCEPT !.what = key].at = e.at
    BY DEF Event

LEMMA RekeyedFacts == ASSUME events \in Seq(Event), NEW key \in What
    PROVE  LET changed == First \cup Others({"down", "up"}) IN
           /\ Rekeyed(key) \in Seq(Event) /\ DOMAIN Rekeyed(key) = DOMAIN events
           /\ \A i \in DOMAIN events :
                /\ Rekeyed(key)[i].id = events[i].id /\ Rekeyed(key)[i].at = events[i].at
                /\ i \notin changed => Rekeyed(key)[i] = events[i]
PROOF
<1> DEFINE changed == First \cup Others({"down", "up"})  t == Rekeyed(key)
           F(i) == IF i \in changed THEN [events[i] EXCEPT !.what = key] ELSE events[i]
<1>1. Len(events) \in Nat /\ DOMAIN events = 1 .. Len(events) /\ \A i \in DOMAIN events : events[i] \in Event BY EventsOf
<1>2. key \in Name BY EditorAssumption, Zenon
<1>3. t = [i \in 1 .. Len(events) |-> F(i)] BY <1>1, Zenon DEF Rekeyed
<1> HIDE DEF changed, t
<1>4. \A i \in DOMAIN events : F(i) \in Event /\ F(i).id = events[i].id /\ F(i).at = events[i].at
                               /\ (i \notin changed => F(i) = events[i])
    BY <1>1, <1>2, Renamed
<1> HIDE DEF F
<1>5. [i \in 1 .. Len(events) |-> F(i)] \in Seq(Event) BY <1>1, <1>4, IsASeq
<1>6. t \in Seq(Event) /\ DOMAIN t = DOMAIN events /\ \A i \in DOMAIN events : t[i] = F(i) BY <1>1, <1>3, <1>5
<1>7. \A i \in DOMAIN events : t[i].id = events[i].id /\ t[i].at = events[i].at /\ (i \notin changed => t[i] = events[i])
    BY <1>4, <1>6
<1> QED BY <1>6, <1>7 DEF changed, t

(* An edit finds nothing, or changes the events into events that are fine.  *)
LEMMA OneEdit == ASSUME EditorInv, dialog.kind \in ById, EditOne
    PROVE  Missed \/ \E evs \in Fine(made) : Change(evs)
PROOF
<1>1. events \in Fine(made) /\ events \in Seq(Event) BY Parts
<1>2. CASE Found = {}
  <2>1. Change(events) \/ Missed BY <1>2, Zenon DEF EditOne
  <2> QED BY <1>1, <2>1
<1>3. CASE Found # {} /\ dialog.kind \in {"delay", "remark", "text"}
  <2>1. Change(Flip(events, First)) BY <1>3 DEF EditOne
  <2>2. Flip(events, First) \in Fine(made) BY <1>1, FlipFine
  <2> QED BY <2>1, <2>2
<1>4. CASE Found # {} /\ dialog.kind = "position"
  <2>1. Change(Repositioned) BY <1>4 DEF EditOne
  <2>2. Repositioned \in Fine(made) BY <1>1, FlipFine DEF Repositioned
  <2> QED BY <2>1, <2>2
<1>5. CASE Found # {} /\ dialog.kind = "wheel"
  <2>1. Change(Rewheeled) BY <1>5 DEF EditOne
  <2>2. Flip(events, First) \in Fine(made) BY <1>1, FlipFine
  <2>3. Rewheeled \in Fine(made) BY <2>2, WithoutFine DEF Rewheeled
  <2> QED BY <2>1, <2>3
<1>6. CASE Found # {} /\ dialog.kind = "key"
  <2>1. PICK key \in What : Change(Rekeyed(key)) BY <1>6 DEF EditOne
  <2>2. Rekeyed(key) \in Seq(Event) /\ DOMAIN Rekeyed(key) = DOMAIN events
        /\ \A i \in DOMAIN events : Rekeyed(key)[i].id = events[i].id /\ Rekeyed(key)[i].at = events[i].at
      BY <1>1, RekeyedFacts, Zenon
  <2>3. Rekeyed(key) \in Fine(made) BY <1>1, <2>2, SameShape
  <2> QED BY <2>1, <2>3
<1> QED BY <1>2, <1>3, <1>4, <1>5, <1>6, Zenon DEF ById

LEMMA AllEdit == ASSUME EditorInv, dialog.kind \in {"cut", "moves", "delays", "reset"}, EditAll
    PROVE  \E evs \in Fine(made) : Change(evs)
PROOF
<1>1. events \in Fine(made) /\ raw \in Fine(made) /\ dialog.cut \in Fine(made) BY Parts
<1>2. CASE dialog.kind = "cut" BY <1>1, <1>2 DEF EditAll
<1>3. CASE dialog.kind = "moves"
  <2>1. Change(Without(events, {i \in DOMAIN events : events[i].kind = "move"})) BY <1>3 DEF EditAll
  <2> QED BY <1>1, <2>1, WithoutFine
<1>4. CASE dialog.kind = "delays"
  <2>1. Change(Flip(events, {i \in DOMAIN events : \E p \in Primaries : events[p].id = events[i].id}))
      BY <1>4 DEF EditAll
  <2> QED BY <1>1, <2>1, FlipFine
<1>5. CASE dialog.kind = "reset" BY <1>1, <1>5 DEF EditAll
<1> QED BY <1>2, <1>3, <1>4, <1>5

LEMMA Closed == ASSUME EditorInv, Close
    PROVE  Rests /\ DialogKnows' /\ made' = made /\ UNCHANGED <<raw, base>>
PROOF
<1>1. dialog' = NoDialog /\ capture' \in {capture, NoCapture} /\ UNCHANGED <<raw, show, base, made, edits, moves>>
    BY DEF Close
<1>2. Rests BY <1>1, Parts DEF Rests
<1> QED BY <1>1, <1>2, IdleKnows

LEMMA AcceptKeeps == ASSUME EditorInv, Accept PROVE EditorInv'
PROOF
<1>1. ~Idle /\ Close /\ (dialog.kind \in ById => EditOne) /\ (dialog.kind \notin ById => EditAll) BY DEF Accept
<1>2. Rests /\ DialogKnows' /\ made' = made /\ UNCHANGED <<raw, base>> BY <1>1, Closed
<1>3. dialog.kind \in ById \cup {"cut", "moves", "delays", "reset"} BY <1>1, Parts DEF Asking, Idle
<1>4. Missed \/ \E evs \in Fine(made) : Change(evs)
  <2>1. CASE dialog.kind \in ById BY <1>1, <2>1, OneEdit
  <2>2. CASE dialog.kind \notin ById BY <1>1, <1>3, <2>2, AllEdit
  <2> QED BY <2>1, <2>2
<1>5. CASE Missed
  <2>1. undo \in Seq(Fine(made)) /\ events \in Fine(made) /\ Len(undo) <= MaxUndo BY StacksFit
  <2>2. Front(Pushed) \in Seq(Fine(made)) /\ Len(Front(Pushed)) \in Nat /\ Len(Front(Pushed)) <= MaxUndo BY <2>1, PushedFacts
  <2>3. undo' = Front(Pushed) /\ redo' = <<>> /\ UNCHANGED <<events, generation>> BY <1>5 DEF Missed
  <2>4. redo' \in Seq(Fine(made)) /\ Len(undo') + Len(redo') <= MaxUndo
    <3>1. Len(undo') = Len(Front(Pushed)) /\ Len(redo') = 0 BY <2>3
    <3> QED BY <2>2, <2>3, <3>1, EmptyFine
  <2> QED BY <1>2, <2>2, <2>3, <2>4, StacksKeep
<1>6. ASSUME NEW evs \in Fine(made), Change(evs) PROVE EditorInv' BY <1>2, <1>6, EditKeeps
<1> QED BY <1>4, <1>5, <1>6

LEMMA RejectKeeps == ASSUME EditorInv, Reject PROVE EditorInv'
PROOF
<1>1. Close /\ UNCHANGED <<events, undo, redo, generation>> BY DEF Reject
<1>2. Rests /\ DialogKnows' /\ made' = made /\ UNCHANGED <<raw, base>> BY <1>1, Closed
<1> QED BY <1>1, <1>2, RestKeeps

LEMMA EditorInit == Init => EditorInv
PROOF
<1> SUFFICES ASSUME Init PROVE EditorInv OBVIOUS
<1>1. made = FirstMade /\ events \in Macro /\ raw = events /\ undo = <<>> /\ redo = <<>> /\ dialog = NoDialog
      /\ base = NoBase /\ capture = NoCapture /\ generation = 1 /\ show \in BOOLEAN /\ edits = 0 /\ moves = 0
    BY DEF Init
<1>2. made \in Nat /\ FirstMade <= made BY <1>1 DEF FirstMade
<1>3. events \in Fine(made) BY <1>1, <1>2, MacroFine
<1>4. ListsFine
  <2>1. Len(undo) + Len(redo) <= MaxUndo BY <1>1, Bounds
  <2> QED BY <1>1, <1>3, <2>1, EmptyFine DEF ListsFine
<1>5. Counts BY <1>1, <1>2, Bounds DEF Counts
<1>6. CaptureKnows BY <1>1 DEF CaptureKnows, NoCapture
<1>7. DialogKnows BY <1>1 DEF DialogKnows, NoDialog
<1> QED BY <1>4, <1>5, <1>6, <1>7 DEF EditorInv

LEMMA EditorRests == ASSUME EditorInv, UNCHANGED vars PROVE EditorInv'
    BY DEF vars, EditorInv, ListsFine, Counts, CaptureKnows, DialogKnows, StillThere, Cut, Fine, Bases, Dialogs

LEMMA EditorNext == EditorInv /\ [Next]_vars => EditorInv'
PROOF
<1> SUFFICES ASSUME EditorInv, [Next]_vars PROVE EditorInv' OBVIOUS
<1>1. CASE UndoStep \/ RedoStep \/ ToggleMoves \/ StartAppend BY <1>1, UndoKeeps, RedoKeeps, ToggleKeeps, StartAppendKeeps
<1>2. CASE \E m \in Macro : Recorded(m) \/ Opened(m) BY <1>2, RecordedKeeps, OpenedKeeps
<1>3. CASE \E m, n \in Macro : Merged(m, n) \/ MergedWithWait(m, n) BY <1>3, MergedKeeps, MergedWithWaitKeeps
<1>4. CASE \E p \in Places : InsertText(p) \/ StartCapture(p) BY <1>4, InsertTextKeeps, StartCaptureKeeps
<1>5. CASE \E p \in Places, double \in BOOLEAN : InsertClick(p, "left", double) BY <1>5, InsertClickKeeps
<1>6. CASE CancelCapture \/ Capture BY <1>6, CancelCaptureKeeps, CaptureKeeps
<1>7. CASE \E rows \in SUBSET RowSet : DeleteRows(rows) BY <1>7, DeleteRowsKeeps
<1>8. CASE \E row \in RowSet : SetCheck(row) \/ \E kind \in Kinds(row) : Open(kind, row) BY <1>8, SetCheckKeeps, OpenKeeps
<1>9. CASE Accept \/ Reject BY <1>9, AcceptKeeps, RejectKeeps
<1>10. CASE UNCHANGED vars BY <1>10, EditorRests
<1> QED BY <1>1, <1>2, <1>3, <1>4, <1>5, <1>6, <1>7, <1>8, <1>9, <1>10, Zenon DEF Next

LEMMA Invariant == Spec => []EditorInv
PROOF
<1> QED BY EditorInit, EditorNext, PTL DEF Spec

-----------------------------------------------------------------------------
(* The variables have their types: lists of events, dialogs and captures.   *)
THEOREM TypesHold == Spec => []TypeOK
PROOF
<1>1. EditorInv => TypeOK
  <2> SUFFICES ASSUME EditorInv PROVE TypeOK OBVIOUS
  <2>1. Fine(made) \subseteq Seq(Event) BY DEF Fine
  <2>2. events \in Seq(Event) /\ raw \in Seq(Event) BY <2>1, Parts
  <2>3. Seq(Fine(made)) \subseteq Seq(Seq(Event)) BY <2>1, SeqMonotonic
  <2>4. undo \in Seq(Seq(Event)) /\ redo \in Seq(Seq(Event)) BY <2>3, Parts
  <2>5. generation \in Nat /\ capture \in [on : BOOLEAN, anchor : Nat, generation : Nat] BY DEF EditorInv, CaptureKnows
  <2>6. dialog \in [kind : Asking, id : Nat, row : SUBSET Nat, shown : Seq(Event), cut : Seq(Event)]
      BY <2>1 DEF EditorInv, ListsFine, Dialogs
  <2>7. base \in [on : BOOLEAN, events : Seq(Event), raw : Seq(Event)] BY <2>1 DEF EditorInv, ListsFine, Bases
  <2>8. Len(undo) <= MaxUndo BY StacksFit
  <2> QED BY <2>2, <2>4, <2>5, <2>6, <2>7, <2>8, Parts DEF TypeOK
<1> QED BY <1>1, Invariant, PTL

LEMMA RowsTell == ASSUME EditorInv PROVE RowsShowEveryEvent
PROOF
<1> DEFINE rows == Rows
<1>1. events \in Fine(made) /\ events \in Seq(Event) BY Parts
<1>2. RowsFact(rows, events, show) BY <1>1, RowsFacts DEF Rows
<1>3. DOMAIN rows \subseteq Nat BY <1>2 DEF RowsFact
<1>4. \A r, s \in DOMAIN rows : r < s => Primary(rows[r]) < Primary(rows[s])
    BY <1>2 DEF RowsFact, Rising, Primary
<1>5. ASSUME NEW i \in DOMAIN events
      PROVE  LET of == {r \in DOMAIN rows : i \in rows[r]}
             IN  Cardinality(of) = 1 \/ (of = {} /\ ~show /\ events[i].kind = "move")
  <2> DEFINE of == {r \in DOMAIN rows : i \in rows[r]}
  <2>1. CASE of = {} BY <1>2, <2>1 DEF RowsFact, Shown
  <2>2. CASE of # {}
    <3>1. PICK r \in of : TRUE BY <2>2
    <3>2. \A s \in of : s = r
      <4>1. SUFFICES ASSUME NEW s \in of, s # r PROVE FALSE OBVIOUS
      <4>2. r \in Nat /\ s \in Nat /\ i \in rows[r] /\ i \in rows[s] BY <1>3, <3>1
      <4>3. r < s \/ s < r BY <4>1, <4>2
      <4>4. rows[r] \cap rows[s] = {} \/ rows[s] \cap rows[r] = {} BY <1>2, <3>1, <4>3 DEF RowsFact, Rising
      <4> QED BY <4>2, <4>4
    <3>3. of = {r} BY <3>1, <3>2
    <3> QED BY <3>3, FS_Singleton
  <2> QED BY <2>1, <2>2
<1> HIDE DEF rows
<1> QED BY <1>4, <1>5, Zenon DEF RowsShowEveryEvent, rows

(* However macros are recorded, merged, inserted into and edited, the rows  *)
(* show every event once, in the order of the events, whether the events    *)
(* are in the order of their time or not; nothing is asked of the users.    *)
THEOREM RowsAlwaysTell == Spec => []RowsShowEveryEvent
    BY Invariant, RowsTell, PTL

(* Where what is recorded and opened is in the order of its time, so is     *)
(* what the editor makes of it.                                             *)
THEOREM TimeStaysInOrder == ASSUME Ordered PROVE Spec => []EditsKeepTime
PROOF
<1>1. EditorInv => EditsKeepTime
  <2>1. EditorInv => events \in Fine(made) BY Parts
  <2> QED BY <2>1, InFine, Zenon DEF EditsKeepTime
<1> QED BY <1>1, Invariant, PTL

-----------------------------------------------------------------------------
(* Undo.                                                                    *)

LEMMA ReverseEmpty == Reverse(<<>>) = <<>>
PROOF
<1>1. Len(<<>>) = 0 OBVIOUS
<1>2. Reverse(<<>>) \in Seq({}) /\ Len(Reverse(<<>>)) = 0 BY <1>1 DEF Reverse
<1> QED BY <1>2, EmptySeq

LEMMA ReverseType == ASSUME NEW S, NEW s \in Seq(S)
    PROVE  /\ Reverse(s) \in Seq(S) /\ Len(Reverse(s)) = Len(s)
           /\ \A i \in 1 .. Len(s) : Reverse(s)[i] = s[Len(s) - i + 1]
PROOF
<1> DEFINE l == Len(s)
<1>1. l \in Nat /\ DOMAIN s = 1 .. l /\ \A i \in 1 .. l : s[i] \in S OBVIOUS
<1>2. Reverse(s) = [i \in 1 .. l |-> s[(l - i) + 1]] BY Zenon DEF Reverse
<1> HIDE DEF l
<1>3. \A i \in 1 .. l : (l - i) + 1 \in 1 .. l BY <1>1
<1>4. \A i \in 1 .. l : s[(l - i) + 1] \in S BY <1>1, <1>3
<1>5. [i \in 1 .. l |-> s[(l - i) + 1]] \in Seq(S) BY <1>1, <1>4, IsASeq
<1> QED BY <1>1, <1>2, <1>5 DEF l

LEMMA ReverseAppend == ASSUME NEW S, NEW s \in Seq(S), NEW x \in S
    PROVE  Reverse(Append(s, x)) = <<x>> \o Reverse(s)
PROOF
<1> DEFINE a == Append(s, x)  r == Reverse(s)  u == <<x>> \o r  l == Len(s)
<1>1. l \in Nat BY EmptySeq
<1>2. a \in Seq(S) /\ Len(a) = l + 1 /\ (\A i \in 1 .. l : a[i] = s[i]) /\ a[l + 1] = x BY AppendProperties
<1>3. r \in Seq(S) /\ Len(r) = l /\ \A i \in 1 .. l : r[i] = s[l - i + 1] BY ReverseType
<1>4. Reverse(a) \in Seq(S) /\ Len(Reverse(a)) = l + 1 /\ \A i \in 1 .. l + 1 : Reverse(a)[i] = a[l + 1 - i + 1]
  <2>1. a \in Seq(S) /\ Len(a) = l + 1 BY <1>2
  <2> HIDE DEF a, l
  <2>2. Reverse(a) \in Seq(S) /\ Len(Reverse(a)) = Len(a) /\ \A i \in 1 .. Len(a) : Reverse(a)[i] = a[Len(a) - i + 1]
      BY <2>1, ReverseType
  <2>3. \A i \in 1 .. l + 1 : Reverse(a)[i] = a[l + 1 - i + 1]
    <3>1. TAKE i \in 1 .. l + 1
    <3>2. i \in 1 .. Len(a) /\ Len(a) - i + 1 = l + 1 - i + 1 BY <1>1, <2>1
    <3> QED BY <2>2, <3>2
  <2> QED BY <2>1, <2>2, <2>3
<1>5. <<x>> \in Seq(S) /\ Len(<<x>>) = 1 /\ <<x>>[1] = x OBVIOUS
<1>6. u \in Seq(S) /\ Len(u) = 1 + l /\ \A i \in 1 .. 1 + l : u[i] = IF i <= 1 THEN <<x>>[i] ELSE r[i - 1]
    BY <1>3, <1>5, ConcatProperties
<1> HIDE DEF a, r, u, l
<1>7. \A i \in 1 .. l + 1 : Reverse(a)[i] = u[i]
  <2>1. TAKE i \in 1 .. l + 1
  <2>2. CASE i = 1
    <3>1. l + 1 - i + 1 = l + 1 BY <1>1, <2>2
    <3>2. Reverse(a)[i] = x BY <1>2, <1>4, <3>1
    <3>3. i \in 1 .. 1 + l /\ i <= 1 BY <1>1, <2>2
    <3> QED BY <1>5, <1>6, <2>2, <3>2, <3>3
  <2>3. CASE i # 1
    <3>1. i - 1 \in 1 .. l /\ ~(i <= 1) /\ i \in 1 .. 1 + l BY <1>1, <2>3
    <3>2. l + 1 - i + 1 = l - (i - 1) + 1 /\ l - (i - 1) + 1 \in 1 .. l BY <1>1, <3>1
    <3>3. Reverse(a)[i] = s[l - (i - 1) + 1] BY <1>2, <1>4, <3>2
    <3>4. u[i] = r[i - 1] BY <1>6, <3>1
    <3> QED BY <1>3, <3>1, <3>3, <3>4
  <2> QED BY <2>2, <2>3
<1>8. Len(Reverse(a)) = Len(u) BY <1>1, <1>4, <1>6
<1>9. Reverse(a) = u BY <1>4, <1>6, <1>7, <1>8, SeqEqual
<1> QED BY <1>9 DEF a, u, r

LEMMA LastAppended == ASSUME NEW S, NEW s \in Seq(S), s # <<>>
    PROVE  s = Append(Front(s), Last(s))
PROOF
<1> DEFINE f == Front(s)  z == Last(s)  t == Append(f, z)  l == Len(s)
<1>1. f \in Seq(S) /\ z \in S /\ l \in Nat \ {0} /\ z = s[l] /\ Len(f) = l - 1 /\ \A i \in 1 .. l - 1 : f[i] = s[i]
    BY FrontLast
<1>2. t \in Seq(S) /\ Len(t) = Len(f) + 1 /\ (\A i \in 1 .. Len(f) : t[i] = f[i]) /\ t[Len(f) + 1] = z
    BY <1>1, AppendProperties
<1> HIDE DEF f, z, t
<1>3. Len(t) = l /\ (\A i \in 1 .. l - 1 : t[i] = s[i]) /\ t[l] = s[l] BY <1>1, <1>2
<1>4. \A i \in 1 .. l : t[i] = s[i]
  <2>1. \A i \in 1 .. l : i \in 1 .. l - 1 \/ i = l BY <1>1
  <2> QED BY <1>3, <2>1
<1>5. t = s BY <1>2, <1>3, <1>4, SeqEqual
<1> QED BY <1>5 DEF t, f, z

Same(a, b) == a = b
Walk(u, x, r) == u \o <<x>> \o Reverse(r)

(* Going back by one, and forth by one, walks the same history.             *)
LEMMA Walks == ASSUME NEW S, NEW u \in Seq(S), NEW r \in Seq(S), NEW x \in S, NEW y \in S
    PROVE  Same(Walk(u, y, Append(r, x)), Walk(Append(u, y), x, r))
PROOF
<1> DEFINE back == Reverse(r)
<1>1. back \in Seq(S) BY ReverseType
<1>2. Reverse(Append(r, x)) = <<x>> \o back BY ReverseAppend
<1>3. Append(u, y) = u \o <<y>> BY AppendIsConcat
<1> HIDE DEF back
<1>4. u \o <<y>> \in Seq(S) /\ <<x>> \in Seq(S) BY ConcatProperties
<1>5. ((u \o <<y>>) \o <<x>>) \o back = (u \o <<y>>) \o (<<x>> \o back) BY <1>1, <1>4, ConcatAssociative
<1> QED BY <1>2, <1>3, <1>5 DEF back, Walk, Same

LEMMA TwoInAll == ASSUME NEW S, NEW x \in S, NEW y \in S PROVE <<x>> \o <<y>> = <<x, y>>
PROOF
<1> DEFINE a == <<x>>  b == <<y>>  c == <<x, y>>
<1>1. a \in Seq(S) /\ Len(a) = 1 /\ a[1] = x OBVIOUS
<1>2. b \in Seq(S) /\ Len(b) = 1 /\ b[1] = y OBVIOUS
<1>3. c \in Seq(S) /\ Len(c) = 2 /\ c[1] = x /\ c[2] = y OBVIOUS
<1> HIDE DEF a, b, c
<1>4. a \o b \in Seq(S) /\ Len(a \o b) = Len(a) + Len(b)
      /\ \A i \in 1 .. Len(a) + Len(b) : (a \o b)[i] = IF i <= Len(a) THEN a[i] ELSE b[i - Len(a)]
    BY <1>1, <1>2, ConcatProperties
<1> DEFINE d == a \o b
<1>5. d \in Seq(S) /\ Len(d) = Len(a) + Len(b)
      /\ \A i \in 1 .. Len(a) + Len(b) : d[i] = IF i <= Len(a) THEN a[i] ELSE b[i - Len(a)]
    BY <1>4, Zenon
<1> HIDE DEF d
<1>6. Len(d) = Len(c) /\ \A i \in 1 .. Len(d) : d[i] = c[i]
  <2>1. Len(d) = 2 /\ d[1] = x /\ d[2] = y BY <1>1, <1>2, <1>5
  <2>2. \A i \in 1 .. Len(d) : i = 1 \/ i = 2 BY <2>1
  <2> QED BY <1>3, <2>1, <2>2
<1>7. d = c BY <1>3, <1>5, <1>6, SeqEqual
<1> QED BY <1>7, Zenon DEF a, b, c, d

LEMMA TailOfAll == ASSUME NEW S, NEW s \in Seq(S), s # <<>>, NEW t \in Seq(S)
    PROVE  Tail(s) \o t = Tail(s \o t)
PROOF
<1> DEFINE r == Tail(s)  a == r \o t  u == s \o t  b == Tail(u)  l == Len(s)  m == Len(t)
<1>1. l \in Nat \ {0} /\ m \in Nat BY EmptySeq, LenProperties
<1>2. r \in Seq(S) /\ Len(r) = l - 1 /\ \A i \in 1 .. l - 1 : r[i] = s[i + 1] BY HeadTailProperties
<1>3. a \in Seq(S) /\ Len(a) = Len(r) + m /\ \A i \in 1 .. Len(r) + m : a[i] = IF i <= Len(r) THEN r[i] ELSE t[i - Len(r)]
    BY <1>2, ConcatProperties
<1>4. u \in Seq(S) /\ Len(u) = l + m /\ \A i \in 1 .. l + m : u[i] = IF i <= l THEN s[i] ELSE t[i - l] BY ConcatProperties
<1> HIDE DEF r, a, u, l, m
<1>5. u # <<>> BY <1>1, <1>4
<1>6. b \in Seq(S) /\ Len(b) = Len(u) - 1 /\ \A i \in 1 .. Len(b) : b[i] = u[i + 1] BY <1>4, <1>5, HeadTailProperties
<1> HIDE DEF b
<1>7. Len(a) = l + m - 1 /\ Len(b) = l + m - 1 /\ Len(r) = l - 1 BY <1>1, <1>2, <1>3, <1>4, <1>6
<1>8. \A i \in 1 .. l + m - 1 : a[i] = b[i]
  <2>1. TAKE i \in 1 .. l + m - 1
  <2>2. i \in Nat /\ i + 1 \in 1 .. l + m /\ i \in 1 .. Len(r) + m BY <1>1, <1>7
  <2>3. b[i] = u[i + 1] BY <1>6, <1>7
  <2>4. CASE i <= l - 1
    <3>1. i \in 1 .. l - 1 /\ i + 1 <= l BY <1>1, <2>2, <2>4
    <3>2. a[i] = r[i] /\ r[i] = s[i + 1] /\ u[i + 1] = s[i + 1] BY <1>2, <1>3, <1>4, <1>7, <2>2, <3>1
    <3> QED BY <2>3, <3>2
  <2>5. CASE ~(i <= l - 1)
    <3>1. ~(i + 1 <= l) /\ i + 1 - l = i - (l - 1) BY <1>1, <2>2, <2>5
    <3>2. a[i] = t[i - (l - 1)] BY <1>3, <1>7, <2>2, <2>5
    <3> DEFINE k == i + 1
    <3>3. k \in 1 .. l + m /\ ~(k <= l) BY <2>2, <3>1
    <3> HIDE DEF k
    <3>4. u[k] = t[k - l] BY <1>4, <3>3
    <3>5. k - l = i - (l - 1) BY <1>1, <2>2 DEF k
    <3>6. b[i] = u[k] BY <2>3 DEF k
    <3> QED BY <3>2, <3>4, <3>5, <3>6, Zenon
  <2> QED BY <2>4, <2>5
<1>9. a = b BY <1>3, <1>6, <1>7, <1>8, SeqEqual
<1> QED BY <1>9 DEF a, b, r, u

All == undo \o <<events, events'>>
Kept == IF Len(undo) < MaxUndo THEN All ELSE Tail(All)

LEMMA ChangeUndoable == ASSUME EditorInv, NEW evs, Change(evs) PROVE History' = Kept
PROOF
<1> DEFINE S == Fine(made) \cup {events'}
<1>1. undo' = Pushed /\ redo' = <<>> BY DEF Change, PushUndo
<1>2. undo \in Seq(S) /\ events \in S /\ events' \in S
  <2>1. undo \in Seq(Fine(made)) /\ events \in Fine(made) BY Parts
  <2>2. undo \in Seq(S) BY <2>1, SeqMonotonic
  <2> QED BY <2>1, <2>2
<1> HIDE DEF S
<1> DEFINE rest == IF Len(undo) < MaxUndo THEN undo ELSE Tail(undo)  two == <<events, events'>>
<1>3. rest \in Seq(S) /\ Len(undo) \in Nat /\ (~(Len(undo) < MaxUndo) => undo # <<>>)
  <2>1. MaxUndo \in Nat \ {0} /\ Len(undo) \in Nat BY Bounds, StacksFit
  <2>2. ~(Len(undo) < MaxUndo) => undo # <<>> BY <2>1
  <2> QED BY <1>2, <2>1, <2>2, HeadTailProperties
<1>4. <<events>> \in Seq(S) /\ <<events'>> \in Seq(S) /\ <<events>> \o <<events'>> = <<events, events'>>
  <2>1. <<events>> \in Seq(S) /\ <<events'>> \in Seq(S) BY <1>2
  <2> QED BY <1>2, <2>1, TwoInAll
<1>5. two \in Seq(S) BY <1>2
<1>6. rest \o two = Kept
  <2>1. CASE Len(undo) < MaxUndo BY <2>1 DEF Kept, All
  <2>2. CASE ~(Len(undo) < MaxUndo)
    <3>1. Tail(undo) \o two = Tail(undo \o two) BY <1>2, <1>3, <1>5, <2>2, TailOfAll
    <3> QED BY <2>2, <3>1 DEF Kept, All
  <2> QED BY <2>1, <2>2
<1>7. Pushed = Append(rest, events) BY DEF Pushed
<1> HIDE DEF rest
<1>8. Append(rest, events) = rest \o <<events>> BY <1>2, <1>3, AppendIsConcat
<1>9. (rest \o <<events>>) \o <<events'>> = rest \o two BY <1>2, <1>3, <1>4, ConcatAssociative
<1> HIDE DEF two
<1>10. rest \o two \in Seq(S) BY <1>3, <1>5, ConcatProperties
<1>11. (rest \o two) \o <<>> = rest \o two BY <1>10, ConcatEmptySeq
<1>12. History' = Pushed \o <<events'>> \o Reverse(<<>>) BY <1>1 DEF History
<1> QED BY <1>6, <1>7, <1>8, <1>9, <1>11, <1>12, ReverseEmpty

UndoAction == events' # events =>
    \/ undo' = <<>> /\ redo' = <<>>
    \/ History' = History
    \/ History' = Kept

LEMMA NextUndoable == ASSUME EditorInv, Next PROVE UndoAction
PROOF
<1>1. CASE UndoStep
  <2> DEFINE f == Front(undo)  z == Last(undo)
  <2>1. undo \in Seq(Fine(made)) /\ undo # <<>> /\ redo \in Seq(Fine(made)) /\ events \in Fine(made)
      BY <1>1, Parts DEF UndoStep
  <2>2. undo' = f /\ events' = z /\ redo' = Append(redo, events) BY <1>1 DEF UndoStep, Applied
  <2>3. f \in Seq(Fine(made)) /\ z \in Fine(made) BY <2>1, FrontLast
  <2>4. undo = Append(f, z) BY <2>1, LastAppended
  <2> HIDE DEF f, z
  <2>5. redo \in Seq(Fine(made)) /\ events \in Fine(made) BY <2>1
  <2>6. Same(Walk(f, z, Append(redo, events)), Walk(Append(f, z), events, redo)) BY <2>3, <2>5, Walks, Zenon
  <2>7. Walk(f, z, Append(redo, events)) = Walk(Append(f, z), events, redo) BY <2>6, Zenon DEF Same
  <2>8. History' = History BY <2>2, <2>4, <2>7, Zenon DEF History, Walk
  <2> QED BY <2>8 DEF UndoAction
<1>2. CASE RedoStep
  <2> DEFINE f == Front(redo)  z == Last(redo)
  <2>1. redo \in Seq(Fine(made)) /\ redo # <<>> /\ undo \in Seq(Fine(made)) /\ events \in Fine(made)
      BY <1>2, Parts DEF RedoStep
  <2>2. redo' = f /\ events' = z /\ undo' = Append(undo, events) BY <1>2, RedoFits DEF RedoStep, Applied
  <2>3. f \in Seq(Fine(made)) /\ z \in Fine(made) BY <2>1, FrontLast
  <2>4. redo = Append(f, z) BY <2>1, LastAppended
  <2> HIDE DEF f, z
  <2>5. undo \in Seq(Fine(made)) /\ events \in Fine(made) BY <2>1
  <2>6. Same(Walk(undo, events, Append(f, z)), Walk(Append(undo, events), z, f)) BY <2>3, <2>5, Walks, Zenon
  <2>7. Walk(undo, events, Append(f, z)) = Walk(Append(undo, events), z, f) BY <2>6, Zenon DEF Same
  <2>8. History' = History BY <2>2, <2>4, <2>7, Zenon DEF History, Walk
  <2> QED BY <2>8 DEF UndoAction
<1>3. ASSUME NEW evs, NEW original, Loaded(evs, original) PROVE UndoAction BY <1>3 DEF Loaded, UndoAction
<1>4. ASSUME NEW evs, Change(evs) PROVE UndoAction BY <1>4, ChangeUndoable DEF UndoAction
<1>5. CASE events' = events BY <1>5 DEF UndoAction
<1>6. CASE ToggleMoves \/ StartAppend \/ CancelCapture \/ Reject BY <1>5, <1>6 DEF ToggleMoves, StartAppend, CancelCapture, Reject
<1>7. CASE \E m \in Macro : Recorded(m) \/ Opened(m)
  <2>1. PICK m \in Macro : Recorded(m) \/ Opened(m) BY <1>7
  <2>2. \E evs, original : Loaded(evs, original) BY <2>1, Zenon DEF Recorded, Opened
  <2> QED BY <1>3, <2>2
<1>8. CASE \E m, n \in Macro : Merged(m, n) \/ MergedWithWait(m, n)
  <2>1. PICK m, n \in Macro : Merged(m, n) \/ MergedWithWait(m, n) BY <1>8
  <2>2. \E evs, original : Loaded(evs, original) BY <2>1, Zenon DEF Merged, MergedWithWait
  <2> QED BY <1>3, <2>2
<1>9. CASE \E p \in Places : InsertText(p) \/ StartCapture(p) BY <1>4, <1>5, <1>9 DEF InsertText, StartCapture
<1>10. CASE \E p \in Places, double \in BOOLEAN : InsertClick(p, "left", double)
  <2>1. \E evs : Change(evs) BY <1>10, Zenon DEF InsertClick
  <2> QED BY <1>4, <2>1
<1>11. CASE Capture
  <2>1. events' = events \/ \E evs : Change(evs) BY <1>11, Zenon DEF Capture
  <2> QED BY <1>4, <1>5, <2>1
<1>12. CASE \E rows \in SUBSET RowSet : DeleteRows(rows) BY <1>4, <1>12 DEF DeleteRows
<1>13. CASE \E row \in RowSet : SetCheck(row) \/ \E kind \in Kinds(row) : Open(kind, row)
    BY <1>4, <1>5, <1>13 DEF SetCheck, Open
<1>14. CASE Accept
  <2>1. events' = events \/ \E evs : Change(evs)
    <3>1. CASE dialog.kind \in ById
      <4>1. Missed \/ \E evs \in Fine(made) : Change(evs) BY <1>14, <3>1, OneEdit DEF Accept
      <4> QED BY <4>1 DEF Missed
    <3>2. CASE dialog.kind \notin ById
      <4>1. dialog.kind \in {"cut", "moves", "delays", "reset"} /\ EditAll BY <1>14, <3>2, Parts DEF Accept, Asking, Idle
      <4> QED BY <4>1, AllEdit
    <3> QED BY <3>1, <3>2
  <2> QED BY <1>4, <1>5, <2>1
<1> QED BY <1>1, <1>2, <1>6, <1>7, <1>8, <1>9, <1>10, <1>11, <1>12, <1>13, <1>14, Zenon DEF Next

(* Undo is never short of a change, nor does it bring back what was not on  *)
(* screen, in whichever order edits, loads, undos and redos are taken.      *)
THEOREM UndoIsComplete == Spec => EveryEditIsUndoable
PROOF
<1>1. EditorInv /\ [Next]_vars => [UndoAction]_vars BY NextUndoable, Zenon
<1> QED BY <1>1, Invariant, PTL DEF Spec, EveryEditIsUndoable, UndoAction, Kept, All

-----------------------------------------------------------------------------
(* Without, twice: what is left of what is left.                            *)

(* K are the places that the members of U have among those of T.            *)
Among(K, T, U) == K = {k \in 1 .. Cardinality(T) : Place(T, k) \in U}
AsMany(K, U) == Cardinality(K) = Cardinality(U)
Matching(K, T, U) == \A j \in 1 .. Cardinality(U) : Place(T, Place(K, j)) = Place(U, j)

LEMMA PlacesMatch == ASSUME NEW n \in Nat, NEW T, T \subseteq 1 .. n, NEW B, B \subseteq T, NEW A, Among(A, T, B)
    PROVE  AsMany(A, B)
PROOF
<1> DEFINE c == Cardinality(T)  f == [k \in A |-> Place(T, k)]
<1>0. A = {k \in 1 .. c : Place(T, k) \in B} BY DEF Among
<1>1. c \in Nat BY CountAll
<1>2. \A k, l \in 1 .. c : k < l => Place(T, k) < Place(T, l) BY PlaceRises
<1>3. \A i \in T : Count(T, i) \in 1 .. c /\ Place(T, Count(T, i)) = i BY PlaceOfCount
<1>4. \A i \in T : i \in Nat OBVIOUS
<1>5. \A k \in A : k \in 1 .. c /\ k \in Nat /\ Place(T, k) \in B /\ Place(T, k) \in Nat
  <2>1. \A k \in 1 .. c : k \in Nat BY <1>1
  <2>2. \A k \in A : k \in 1 .. c /\ Place(T, k) \in B BY <1>0
  <2> QED BY <1>4, <2>1, <2>2, Zenon
<1> HIDE DEF c
<1>6. \A k, l \in A : Place(T, k) = Place(T, l) => k = l
  <2>1. SUFFICES ASSUME NEW k \in A, NEW l \in A, Place(T, k) = Place(T, l), k # l PROVE FALSE OBVIOUS
  <2>2. k < l \/ l < k BY <1>5, <2>1
  <2>3. Place(T, k) < Place(T, l) \/ Place(T, l) < Place(T, k) BY <1>2, <1>5, <2>2
  <2> QED BY <1>5, <2>1, <2>3
<1>7. \A i \in B : \E k \in A : Place(T, k) = i BY <1>0, <1>3
<1>8. f \in Bijection(A, B)
  <2>1. f \in [A -> B] BY <1>5
  <2>2. \A i \in B : \E k \in A : f[k] = i BY <1>7
  <2>3. \A k, l \in A : f[k] = f[l] => k = l BY <1>6
  <2>4. f \in Injection(A, B) BY <2>1, <2>3, Zenon DEF Injection, IsInjective
  <2>5. f \in Surjection(A, B) BY <2>1, <2>2, Zenon DEF Surjection
  <2> QED BY <2>4, <2>5, Zenon DEF Bijection
<1>9. IsFiniteSet(A)
  <2>1. IsFiniteSet(1 .. c) BY <1>1, FS_Interval
  <2>2. A \subseteq 1 .. c BY <1>5
  <2> QED BY <2>1, <2>2, FS_Subset
<1>10. Cardinality(B) = Cardinality(A) BY <1>8, <1>9, FS_Bijection, Zenon DEF ExistsBijection
<1> QED BY <1>10 DEF AsMany

LEMMA PlaceOfPlace == ASSUME NEW n \in Nat, NEW T, T \subseteq 1 .. n, NEW U, U \subseteq T, NEW K, Among(K, T, U)
    PROVE  AsMany(K, U) /\ Matching(K, T, U)
PROOF
<1> DEFINE c == Cardinality(T)
<1>a. AsMany(K, U) BY PlacesMatch, Zenon
<1>b. K = {k \in 1 .. c : Place(T, k) \in U} BY DEF Among
<1>1. Cardinality(K) = Cardinality(U) BY <1>a DEF AsMany
<1>2. c \in Nat BY CountAll
<1>3. K \subseteq 1 .. c /\ U \subseteq 1 .. n BY <1>b
<1>4. \A k, l \in 1 .. c : k < l => Place(T, k) < Place(T, l) BY PlaceRises
<1>5. \A k \in 1 .. c : Place(T, k) \in T BY PlaceFacts
<1>6. \A i \in T : i \in Nat OBVIOUS
<1>7. ASSUME NEW j \in 1 .. Cardinality(U) PROVE Place(T, Place(K, j)) = Place(U, j)
  <2> DEFINE k == Place(K, j)  i == Place(T, k)  B == U \cap 1 .. i
  <2>1. k \in K /\ Count(K, k) = j BY <1>1, <1>2, <1>3, PlaceFacts
  <2>2. k \in 1 .. c /\ i \in U /\ i \in T /\ i \in Nat BY <1>6, <1>b, <2>1
  <2> HIDE DEF k
  <2>3. \A x \in 1 .. c : Place(T, x) <= i <=> x <= k
    <3> TAKE x \in 1 .. c
    <3>1. x \in Nat /\ k \in Nat BY <1>2, <2>2
    <3>2. Place(T, x) \in Nat /\ x \in Nat /\ k \in Nat BY <1>5, <1>6, <3>1, Zenon
    <3>3. CASE x = k BY <2>2, <3>2, <3>3
    <3>4. CASE x < k
      <4>1. Place(T, x) < i BY <1>4, <2>2, <3>4
      <4> QED BY <2>2, <3>2, <3>4, <4>1
    <3>5. CASE k < x
      <4>1. i < Place(T, x) BY <1>4, <2>2, <3>5
      <4> QED BY <2>2, <3>2, <3>5, <4>1
    <3> QED BY <3>2, <3>3, <3>4, <3>5
  <2> HIDE DEF i
  <2>4. \A x \in 1 .. c : Place(T, x) \in B <=> x \in K /\ x \in 1 .. k
    <3>1. TAKE x \in 1 .. c
    <3>2. x \in K <=> Place(T, x) \in U BY <1>b, Zenon
    <3>3. \A y \in U : y \in Nat \ {0} BY <1>3
    <3>4. x \in Nat \ {0} /\ k \in Nat BY <1>2, <2>2
    <3>5. Place(T, x) \in B <=> Place(T, x) \in U /\ Place(T, x) <= i
      <4>1. Place(T, x) \in U => Place(T, x) \in Nat \ {0} BY <3>3, Zenon
      <4> QED BY <2>2, <4>1
    <3>6. x \in 1 .. k <=> x <= k BY <3>4
    <3> QED BY <2>3, <3>2, <3>5, <3>6
  <2>5. Among(K \cap 1 .. k, T, B)
    <3>1. K \cap 1 .. k = {x \in 1 .. c : Place(T, x) \in B} BY <1>3, <2>4
    <3> QED BY <3>1, Zenon DEF Among
  <2>6. B \subseteq T OBVIOUS
  <2>a. AsMany(K \cap 1 .. k, B)
    <3> HIDE DEF B
    <3> QED BY <2>5, <2>6, PlacesMatch, Zenon
  <2>7. Cardinality(K \cap 1 .. k) = Cardinality(B) BY <2>a, Zenon DEF AsMany
  <2>8. Count(U, i) = j BY <2>1, <2>7 DEF Count
  <2>9. Place(U, Count(U, i)) = i BY <1>3, <2>2, PlaceOfCount
  <2> QED BY <2>8, <2>9 DEF i, k
<1> QED BY <1>a, <1>7 DEF Matching

LEMMA RestOfWithout == ASSUME NEW s \in Seq(Event), NEW ids, NEW D, \A i \in D : i \in DOMAIN s => s[i].id \in ids
    PROVE  Rest(Without(s, D), ids) = Rest(s, ids)
PROOF
<1> DEFINE w == Without(s, D)  T == Left(s, D)  c == Cardinality(T)
           U == DOMAIN s \ {i \in DOMAIN s : s[i].id \in ids}
           K == DOMAIN w \ {k \in DOMAIN w : w[k].id \in ids}
<1>1. Len(s) \in Nat /\ DOMAIN s = 1 .. Len(s) BY EventsOf
<1>2. DOMAIN w = 1 .. c /\ \A k \in 1 .. c : w[k] = s[Place(T, k)] /\ Place(T, k) \in DOMAIN s BY WithoutFacts
<1>3. T \subseteq 1 .. Len(s) /\ U \subseteq T BY <1>1 DEF Left
<1> HIDE DEF w, T, c
<1>4. K = {k \in 1 .. c : Place(T, k) \in U} BY <1>2
<1> HIDE DEF K, U
<1>5. Cardinality(K) = Cardinality(U) /\ \A j \in 1 .. Cardinality(U) : Place(T, Place(K, j)) = Place(U, j)
  <2>1. Among(K, T, U) BY <1>4, Zenon DEF Among, c
  <2>2. AsMany(K, U) /\ Matching(K, T, U) BY <1>1, <1>3, <2>1, PlaceOfPlace, Zenon
  <2> QED BY <2>2, Zenon DEF AsMany, Matching
<1>6. \A j \in 1 .. Cardinality(U) : w[Place(K, j)] = s[Place(U, j)]
  <2>1. TAKE j \in 1 .. Cardinality(U)
  <2>2. K \subseteq 1 .. c BY <1>4
  <2>3. c \in Nat BY <1>1, <1>3, CountAll DEF c
  <2>4. Place(K, j) \in K BY <1>5, <2>2, <2>3, PlaceFacts
  <2>5. w[Place(K, j)] = s[Place(T, Place(K, j))] BY <1>2, <2>2, <2>4
  <2> QED BY <1>5, <2>5
<1>7. Rest(w, ids) = [j \in 1 .. Cardinality(K) |-> w[Place(K, j)]] BY Zenon DEF Rest, Without, K
<1>8. Rest(s, ids) = [j \in 1 .. Cardinality(U) |-> s[Place(U, j)]] BY Zenon DEF Rest, Without, U
<1>9. Rest(w, ids) = Rest(s, ids) BY <1>5, <1>6, <1>7, <1>8
<1> QED BY <1>9 DEF w

LEMMA SameRest == ASSUME NEW s \in Seq(Event), NEW t \in Seq(Event), DOMAIN t = DOMAIN s, NEW ids,
                         \A i \in DOMAIN s : t[i].id = s[i].id /\ (s[i].id \notin ids => t[i] = s[i])
    PROVE  Rest(t, ids) = Rest(s, ids)
PROOF
<1> DEFINE U == DOMAIN s \ {i \in DOMAIN s : s[i].id \in ids}  V == DOMAIN t \ {i \in DOMAIN t : t[i].id \in ids}
<1>1. U = V /\ \A i \in U : t[i] = s[i] OBVIOUS
<1>2. Len(s) \in Nat /\ DOMAIN s = 1 .. Len(s) BY EventsOf
<1>3. U \subseteq 1 .. Len(s) BY <1>2
<1>4. Rest(s, ids) = [j \in 1 .. Cardinality(U) |-> s[Place(U, j)]] BY Zenon DEF Rest, Without
<1>5. Rest(t, ids) = [j \in 1 .. Cardinality(V) |-> t[Place(V, j)]] BY Zenon DEF Rest, Without
<1> HIDE DEF U, V
<1>6. \A j \in 1 .. Cardinality(U) : Place(U, j) \in U BY <1>2, <1>3, PlaceFacts
<1> QED BY <1>1, <1>4, <1>5, <1>6

-----------------------------------------------------------------------------
(* What an edit touches, of ordinary users.                                 *)

LEMMA OwnPlace == ASSUME events \in Seq(Event), Distinct(events), NEW i \in DOMAIN events
    PROVE  With(events[i].id) = {i} /\ Least(With(events[i].id)) = i
PROOF
<1>1. With(events[i].id) = {i}
  <2>1. \A j \in DOMAIN events : events[j].id = events[i].id => j = i BY Zenon DEF Distinct
  <2>2. \A j \in With(events[i].id) : j \in DOMAIN events /\ events[j].id = events[i].id BY Zenon DEF With
  <2>3. i \in With(events[i].id) BY Zenon DEF With
  <2>4. \A j \in With(events[i].id) : j = i BY <2>1, <2>2, Zenon
  <2> QED BY <2>3, <2>4
<1>2. i \in Nat BY EventsOf
<1>3. Least({i}) = i
  <2> DEFINE T == {i}
  <2>1. T \subseteq Nat /\ i \in T /\ \A j \in T : i <= j BY <1>2
  <2> HIDE DEF T
  <2>2. Least(T) = i BY <2>1, LeastIs
  <2> QED BY <2>2, Zenon DEF T
<1> QED BY <1>1, <1>3

(* The row is where it was when the dialog was opened.                      *)
RowStill ==
    /\ dialog.row \subseteq DOMAIN events /\ Primary(dialog.row) \in dialog.row
    /\ \A i \in dialog.row : events[i] = dialog.shown[i]
    /\ \A i \in DOMAIN events : events[i].id \in RowIds <=> i \in dialog.row
    /\ First = {Primary(dialog.row)}

LEMMA FoundStill == ASSUME EditorInv, May = {}, dialog.kind # "none", Found # {} PROVE RowStill
PROOF
<1> DEFINE s == dialog.shown  row == dialog.row  p == Least(row)
<1>1. events \in Seq(Event) /\ Distinct(events) BY Parts, InFine
<1>2. s \in Seq(Event) /\ Distinct(s) BY Parts, InFine
<1>3. row # {} /\ row \subseteq DOMAIN s /\ dialog.id = s[p].id /\ (Grown(s, events) \/ Apart(s, events))
    BY DEF EditorInv, DialogKnows
<1>4. Len(s) \in Nat /\ DOMAIN s = 1 .. Len(s) /\ Len(events) \in Nat /\ DOMAIN events = 1 .. Len(events)
    BY <1>1, <1>2
<1>5. p \in row
  <2>1. row \subseteq Nat BY <1>3, <1>4
  <2> QED BY <1>3, <2>1, LeastFacts
<1> HIDE DEF s, row, p
<1>6. PICK i \in DOMAIN events : events[i].id = dialog.id BY DEF Found, With
<1>7. ~Apart(s, events) BY <1>3, <1>5, <1>6 DEF Apart
<1>8. Grown(s, events) BY <1>3, <1>7
<1>9. \A j \in DOMAIN s : j \in DOMAIN events /\ events[j] = s[j] BY <1>4, <1>8 DEF Grown
<1>10. row \subseteq DOMAIN events /\ \A j \in row : events[j] = s[j] BY <1>3, <1>9
<1>11. RowIds = {s[j].id : j \in row} BY DEF RowIds, s, row
<1>12. \A j \in DOMAIN events : events[j].id \in RowIds <=> j \in row
  <2>1. TAKE j \in DOMAIN events
  <2>2. ASSUME j \in row PROVE events[j].id \in RowIds BY <1>10, <1>11, <2>2
  <2>3. ASSUME events[j].id \in RowIds PROVE j \in row
    <3>1. PICK k \in row : events[j].id = s[k].id BY <1>11, <2>3
    <3>2. k \in DOMAIN events /\ events[j].id = events[k].id BY <1>10, <3>1
    <3>3. j = k BY <1>1, <3>2 DEF Distinct
    <3> QED BY <3>1, <3>3
  <2> QED BY <2>2, <2>3
<1>13. First = {p}
  <2>1. p \in DOMAIN events /\ dialog.id = events[p].id BY <1>3, <1>5, <1>10
  <2>2. Least(Found) = p BY <1>1, <2>1, OwnPlace DEF Found
  <2> QED BY <2>2, Zenon DEF First
<1> QED BY <1>5, <1>10, <1>12, <1>13, Zenon DEF RowStill, Primary, s, row, p

LEMMA OthersStill == ASSUME EditorInv, May = {}, RowStill, NEW kinds
    PROVE  Others(kinds) = {i \in dialog.row \ {Primary(dialog.row)} : events[i].kind \in kinds}
PROOF
<1> DEFINE S == {i \in dialog.row \ {Primary(dialog.row)} : events[i].kind \in kinds}
           T == {j \in dialog.row \ {Primary(dialog.row)} : j \in DOMAIN events /\ events[j].kind \in kinds}
<1>1. events \in Seq(Event) /\ Distinct(events) BY Parts, InFine
<1>2. S = T /\ \A i \in T : i \in DOMAIN events BY DEF RowStill
<1>3. \A i \in T : Least(With(events[i].id)) = i BY <1>1, <1>2, OwnPlace
<1>4. Others(kinds) = {Least(With(events[i].id)) : i \in T} BY Zenon DEF Others
<1> HIDE DEF S, T
<1>5. Others(kinds) = T BY <1>3, <1>4
<1> QED BY <1>2, <1>5, Zenon DEF S

(* The parts of the property.                                               *)
RestStays == Rest(events', RowIds) = Rest(events, RowIds)
OthersStay == \A i \in DOMAIN events \ dialog.row : events'[i] = events[i]
AllOrNone == \A i, j \in DOMAIN events : {events[i].id, events[j].id} \subseteq RowIds =>
    (events'[i] = events[i] <=> events'[j] = events[j])

LEMMA NothingTouched == ASSUME events' = events PROVE RestStays /\ OthersStay
    BY DEF RestStays, OthersStay

LEMMA FlipTouches == ASSUME EditorInv, RowStill, NEW S, S \subseteq dialog.row, events' = Flip(events, S)
    PROVE  RestStays /\ OthersStay /\ (S = dialog.row => AllOrNone)
PROOF
<1> DEFINE t == Flip(events, S)
<1>1. events \in Seq(Event) BY Parts
<1>2. t \in Seq(Event) /\ DOMAIN t = DOMAIN events /\ \A i \in DOMAIN events : t[i].id = events[i].id
      /\ (t[i] = events[i] <=> i \notin S)
    BY <1>1, FlipFacts
<1> HIDE DEF t
<1>3. events' = t BY Zenon DEF t
<1>4. \A i \in DOMAIN events : events[i].id \notin RowIds => t[i] = events[i] BY <1>2 DEF RowStill
<1>5. Rest(t, RowIds) = Rest(events, RowIds) BY <1>1, <1>2, <1>4, SameRest
<1>6. \A i \in DOMAIN events \ dialog.row : t[i] = events[i] BY <1>2
<1>7. S = dialog.row => AllOrNone
  <2>1. SUFFICES ASSUME S = dialog.row, NEW i \in DOMAIN events, NEW j \in DOMAIN events,
                        {events[i].id, events[j].id} \subseteq RowIds
                 PROVE  t[i] = events[i] <=> t[j] = events[j]
      BY <1>3 DEF AllOrNone
  <2>2. i \in S /\ j \in S BY <2>1 DEF RowStill
  <2> QED BY <1>2, <2>2
<1> QED BY <1>3, <1>5, <1>6, <1>7 DEF RestStays, OthersStay

LEMMA WheelTouches == ASSUME EditorInv, RowStill, events' = Rewheeled PROVE RestStays
PROOF
<1> DEFINE t == Flip(events, First)  D == dialog.row \ {Primary(dialog.row)}
<1>1. events \in Seq(Event) BY Parts
<1>2. t \in Seq(Event) /\ DOMAIN t = DOMAIN events /\ \A i \in DOMAIN events : t[i].id = events[i].id
      /\ (t[i] = events[i] <=> i \notin First)
    BY <1>1, FlipFacts
<1> HIDE DEF t
<1>3. \A i \in DOMAIN events : events[i].id \notin RowIds => t[i] = events[i] BY <1>2 DEF RowStill
<1>4. Rest(t, RowIds) = Rest(events, RowIds) BY <1>1, <1>2, <1>3, SameRest
<1>5. \A i \in D : i \in DOMAIN t => t[i].id \in RowIds BY <1>2 DEF RowStill
<1> HIDE DEF D
<1>6. Rest(Without(t, D), RowIds) = Rest(t, RowIds) BY <1>2, <1>5, RestOfWithout
<1>7. events' = Without(t, D) BY Zenon DEF Rewheeled, t, D
<1> QED BY <1>4, <1>6, <1>7 DEF RestStays

LEMMA KeyTouches == ASSUME EditorInv, May = {}, RowStill, NEW key \in What, events' = Rekeyed(key)
    PROVE  RestStays /\ OthersStay
PROOF
<1> DEFINE t == Rekeyed(key)  changed == First \cup Others({"down", "up"})
<1>1. events \in Seq(Event) BY Parts
<1>2. t \in Seq(Event) /\ DOMAIN t = DOMAIN events /\ \A i \in DOMAIN events : t[i].id = events[i].id
      /\ (i \notin changed => t[i] = events[i])
    BY <1>1, RekeyedFacts, Zenon
<1>3. changed \subseteq dialog.row BY OthersStill DEF RowStill
<1> HIDE DEF t, changed
<1>4. events' = t BY Zenon DEF t
<1>5. \A i \in DOMAIN events : events[i].id \notin RowIds => t[i] = events[i] BY <1>2, <1>3 DEF RowStill
<1>6. Rest(t, RowIds) = Rest(events, RowIds) BY <1>1, <1>2, <1>5, SameRest
<1>7. \A i \in DOMAIN events \ dialog.row : t[i] = events[i] BY <1>2, <1>3
<1> QED BY <1>4, <1>6, <1>7 DEF RestStays, OthersStay

LEMMA OneTouches == ASSUME EditorInv, May = {}, dialog.kind \in ById, EditOne
    PROVE  /\ RestStays /\ (dialog.kind # "wheel" => OthersStay)
           /\ dialog.kind = "position" /\ events' # events => AllOrNone
PROOF
<1>1. dialog.kind # "none" BY DEF ById
<1>2. CASE Found = {}
  <2>1. Change(events) \/ Missed BY <1>2, Zenon DEF EditOne
  <2>2. events' = events BY <2>1 DEF Change, Applied, Missed
  <2> QED BY <2>2, NothingTouched
<1>3. CASE Found # {} /\ dialog.kind \in {"delay", "remark", "text"}
  <2>1. RowStill BY <1>1, <1>3, FoundStill
  <2>2. events' = Flip(events, First) BY <1>3 DEF EditOne, Change, Applied
  <2>3. First \subseteq dialog.row BY <2>1 DEF RowStill
  <2> QED BY <1>3, <2>1, <2>2, <2>3, FlipTouches
<1>4. CASE Found # {} /\ dialog.kind = "position"
  <2> DEFINE S == First \cup Others({"press", "release", "move"})
  <2>1. RowStill BY <1>1, <1>4, FoundStill
  <2>2. events' = Flip(events, S) BY <1>4 DEF EditOne, Change, Applied, Repositioned
  <2>3. \A i \in dialog.row : events[i].kind \in {"press", "release", "move"}
    <3>1. \A i \in dialog.row : dialog.shown[i].kind \in {"press", "release", "move"}
        BY <1>1, <1>4 DEF EditorInv, DialogKnows
    <3> QED BY <2>1, <3>1 DEF RowStill
  <2>4. Others({"press", "release", "move"})
            = {i \in dialog.row \ {Primary(dialog.row)} : events[i].kind \in {"press", "release", "move"}}
      BY <2>1, OthersStill
  <2>5. S = dialog.row BY <2>1, <2>3, <2>4 DEF RowStill
  <2> HIDE DEF S
  <2> QED BY <2>1, <2>2, <2>5, FlipTouches
<1>5. CASE Found # {} /\ dialog.kind = "wheel"
  <2>1. RowStill BY <1>1, <1>5, FoundStill
  <2>2. events' = Rewheeled BY <1>5 DEF EditOne, Change, Applied
  <2> QED BY <1>5, <2>1, <2>2, WheelTouches
<1>6. CASE Found # {} /\ dialog.kind = "key"
  <2>1. RowStill BY <1>1, <1>6, FoundStill
  <2>2. PICK key \in What : events' = Rekeyed(key) BY <1>6 DEF EditOne, Change, Applied
  <2> QED BY <1>6, <2>1, <2>2, KeyTouches
<1> QED BY <1>2, <1>3, <1>4, <1>5, <1>6, Zenon DEF ById

LEMMA WholePrefix == ASSUME NEW s \in Seq(Event), NEW t \in Seq(Event), NEW k \in 0 .. Len(s), t = SubSeq(s, 1, k)
    PROVE  t = SubSeq(s, 1, Len(t))
PROOF
<1>1. Len(s) \in Nat /\ k \in Nat BY EventsOf
<1>2. Len(SubSeq(s, 1, k)) = k BY <1>1
<1> QED BY <1>2

LEMMA CutTouches == ASSUME EditorInv, May = {}, dialog.kind = "cut", events' = dialog.cut
    PROVE  events' = SubSeq(events, 1, Len(events'))
PROOF
<1>1. events \in Seq(Event) /\ dialog.cut \in Fine(made) BY Parts
<1>2. dialog.cut \in Seq(Event) BY <1>1, InFine
<1>3. dialog.row # {} /\ dialog.row \subseteq DOMAIN events /\ dialog.cut = SubSeq(events, 1, Most(dialog.row))
    BY DEF EditorInv, DialogKnows, Cut
<1>4. Len(events) \in Nat /\ DOMAIN events = 1 .. Len(events) BY <1>1
<1>5. Most(dialog.row) \in 0 .. Len(events)
  <2>1. dialog.row \subseteq 0 .. Len(events) BY <1>3, <1>4
  <2>2. Most(dialog.row) \in dialog.row BY <1>3, <1>4, <2>1, MostFacts
  <2> QED BY <2>1, <2>2
<1> QED BY <1>1, <1>2, <1>3, <1>5, WholePrefix

TouchesItsRow == ~Idle /\ dialog' = NoDialog =>
    /\ dialog.kind \in ById => RestStays /\ (events = dialog.shown /\ dialog.kind # "wheel" => OthersStay)
    /\ dialog.kind = "position" /\ events' # events => AllOrNone
    /\ dialog.kind = "cut" => events' = SubSeq(events, 1, Len(events'))

LEMMA StillTouches == ASSUME EditorInv, events' = events PROVE TouchesItsRow
PROOF
<1>1. events \in Seq(Event) BY Parts
<1>2. Len(events) \in 0 .. Len(events) /\ events = SubSeq(events, 1, Len(events)) BY <1>1, SubSeqFull, EventsOf
<1> QED BY <1>2, NothingTouched DEF TouchesItsRow

LEMMA NextTouches == ASSUME EditorInv, May = {}, Next PROVE TouchesItsRow
PROOF
<1>1. CASE Idle BY <1>1 DEF TouchesItsRow
<1>2. CASE dialog' = dialog BY <1>2 DEF TouchesItsRow, Idle, NoDialog
<1>3. CASE events' = events BY <1>3, StillTouches
<1>4. CASE Accept
  <2>1. ~Idle /\ (dialog.kind \in ById => EditOne) /\ (dialog.kind \notin ById => EditAll) BY <1>4 DEF Accept
  <2>2. CASE dialog.kind \in ById
    <3>1. dialog.kind # "cut" BY <2>2 DEF ById
    <3> QED BY <2>1, <2>2, <3>1, OneTouches DEF TouchesItsRow
  <2>3. CASE dialog.kind \notin ById
    <3>1. dialog.kind # "position" BY <2>3 DEF ById
    <3>2. dialog.kind = "cut" => events' = dialog.cut BY <2>1, <2>3 DEF EditAll, Change, Applied
    <3> QED BY <2>3, <3>1, <3>2, CutTouches DEF TouchesItsRow
  <2> QED BY <2>2, <2>3
<1>5. CASE \E m \in Macro : Recorded(m) \/ Opened(m) BY <1>2, <1>5 DEF Recorded, Opened, Loaded
<1>6. CASE CancelCapture \/ Capture BY <1>2, <1>6 DEF CancelCapture, Capture
<1>7. CASE Reject BY <1>3, <1>7 DEF Reject
<1>8. CASE UndoStep \/ RedoStep \/ ToggleMoves \/ StartAppend BY <1>1, <1>8 DEF UndoStep, RedoStep, ToggleMoves, StartAppend
<1>9. CASE \E m, n \in Macro : Merged(m, n) \/ MergedWithWait(m, n) BY <1>1, <1>9, Zenon DEF Merged, MergedWithWait
<1>10. CASE \/ \E p \in Places : InsertText(p) \/ StartCapture(p)
            \/ \E p \in Places, double \in BOOLEAN : InsertClick(p, "left", double)
    BY <1>1, <1>10, Zenon DEF InsertText, StartCapture, InsertClick
<1>11. CASE \/ \E rows \in SUBSET RowSet : DeleteRows(rows)
            \/ \E row \in RowSet : SetCheck(row) \/ \E kind \in Kinds(row) : Open(kind, row)
    BY <1>1, <1>11, Zenon DEF DeleteRows, SetCheck, Open
<1> QED BY <1>4, <1>5, <1>6, <1>7, <1>8, <1>9, <1>10, <1>11, Zenon DEF Next

(* With none of what users are asked to leave alone, an edit changes the    *)
(* events of its row and no other, whatever happened under its dialog.      *)
THEOREM EditsTouchTheirRow == ASSUME May = {} PROVE Spec => EditTouchesItsRow
PROOF
<1>1. EditorInv /\ [Next]_vars => [TouchesItsRow]_vars BY NextTouches, Zenon
<1> QED BY <1>1, Invariant, PTL DEF Spec, EditTouchesItsRow, TouchesItsRow, RestStays, OthersStay, AllOrNone

=============================================================================
