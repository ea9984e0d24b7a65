--------------------------- MODULE UserDataProofs ---------------------------
(***************************************************************************)
(* A start of the program only adds to the stable root and leaves every    *)
(* remembered file findable, and as long as nobody moves the stable root   *)
(* away, nothing of the legacy root is left behind: proved for any files,  *)
(* contents and settings and any number of starts, edits and failures.     *)
(***************************************************************************)
EXTENDS UserData, FiniteSetTheorems, SequenceTheorems, WellFoundedInduction, TLAPS

-----------------------------------------------------------------------------
(* The invariant.                                                          *)

IsFiles(files) ==
    /\ IsFiniteSet(DOMAIN files) /\ DOMAIN files \subseteq FileName
    /\ \A f \in DOMAIN files : files[f] \in Content \cup {Torn}

IsManifest(m) == DOMAIN m \subseteq Name \cup {Index}

IsSeq(s) == s \in Seq({s[i] : i \in DOMAIN s})

(* The records have the fields they began with.                            *)
RootShapes ==
    /\ legacy = [exists |-> legacy.exists, files |-> legacy.files, index |-> legacy.index]
    /\ stable = [exists |-> stable.exists, files |-> stable.files, index |-> stable.index]
    /\ settings = [root |-> settings.root, manifest |-> settings.manifest, paths |-> settings.paths]
    /\ settings.paths = [k \in PathKey |-> settings.paths[k]]

WorkShapes ==
    /\ work = [files |-> work.files, index |-> work.index, staging |-> work.staging,
               tree |-> work.tree, known |-> work.known, manifest |-> work.manifest,
               map |-> work.map, writes |-> work.writes, missed |-> work.missed, old |-> work.old]
    /\ work.tree = [files |-> work.tree.files, index |-> work.tree.index]
    /\ work.missed \in BOOLEAN

Shapes == RootShapes /\ WorkShapes

LegacyOK ==
    /\ legacy.exists \in BOOLEAN
    /\ DOMAIN legacy.files \subseteq Name
    /\ \A n \in DOMAIN legacy.files : legacy.files[n] \in Content
    /\ ~legacy.exists => DOMAIN legacy.files = {} /\ DOMAIN settings.manifest = {}

(* A root that does not exist holds nothing, and a process past its copy   *)
(* has one.                                                                *)
StableOK ==
    /\ stable.exists \in BOOLEAN /\ IsFiles(stable.files)
    /\ ~stable.exists => DOMAIN stable.files = {}
    /\ run \in {"persist", "restore", "stable"} => stable.exists

(* What was dismissed, and not touched in the legacy root since, is in the *)
(* legacy root and in the manifest.                                        *)
Agrees(m) == \A n \in Name, c \in Content : <<n, c, FALSE>> \in dismissed => At(m, n) = c

DismissedOK ==
    /\ dismissed \subseteq Name \X Content \X BOOLEAN
    /\ Agrees(legacy.files) /\ Agrees(settings.manifest)

(* A manifest of a whole start lists the legacy files and nothing else.    *)
Full(m) ==
    /\ \A n \in DOMAIN legacy.files : At(m, n) = legacy.files[n]
    /\ DOMAIN m \subseteq DOMAIN legacy.files \cup {Index}

(* The files looked at so far are in the manifest to be, and what is in    *)
(* the map leads to the same content.                                      *)
CopyOK == run = "copy" =>
    /\ legacy.exists
    /\ work.staging = ~stable.exists
    /\ work.files \subseteq DOMAIN legacy.files
    /\ work.known = IF work.staging THEN Empty ELSE settings.manifest
    /\ IsFiles(work.tree.files)
    /\ DOMAIN work.map = DOMAIN legacy.files \ work.files
    /\ DOMAIN work.manifest \subseteq DOMAIN work.map \cup {Index}
    /\ \A n \in DOMAIN work.map :
            /\ At(work.manifest, n) = legacy.files[n]
            /\ \/ work.map[n] = None
               \/ work.map[n] \in FileName /\ At(Tree.files, work.map[n]) = legacy.files[n]

(* A value still to be written, or to be put back.                         *)
IsWrite(w) ==
    \/ w.key = "root"
    \/ w.key \in PathKey
    \/ w.key = "manifest" /\ legacy.exists /\ IsManifest(w.value) /\ Agrees(w.value)

WritesOK == run \in {"persist", "restore"} =>
    /\ IsSeq(work.writes) /\ IsSeq(work.old)
    /\ \A i \in DOMAIN work.writes : IsWrite(work.writes[i])
    /\ \A i \in DOMAIN work.old : IsWrite(work.old[i])

(* What a start commits: the whole manifest, and paths that lead to what   *)
(* the old ones lead to, the same for every write of a setting.            *)
Follows(path, old) == LeadsTo(old) # None => LeadsTo(path) = LeadsTo(old)

PersistOK == run = "persist" =>
    /\ legacy.exists => Full(work.manifest)
    /\ \A i \in DOMAIN work.writes : LET w == work.writes[i] IN
        /\ w.key = "manifest" => w.value = work.manifest
        /\ w.key \in PathKey => Follows(w.value, settings.paths[w.key])
        /\ \A j \in DOMAIN work.writes :
                work.writes[j].key = w.key => work.writes[j].value = w.value
    /\ \/ ~legacy.exists \/ work.missed \/ settings.manifest = work.manifest
       \/ \E i \in DOMAIN work.writes : work.writes[i].key = "manifest"

(* The program works in the stable root only with all of the legacy one.   *)
SettledOK == run = "stable" /\ legacy.exists => Full(settings.manifest)

IInv ==
    /\ FilesTypeOK /\ Shapes /\ LegacyOK /\ StableOK /\ DismissedOK
    /\ CopyOK /\ WritesOK /\ PersistOK /\ SettledOK

(* As long as nobody moves the stable root away, what a manifest lists is  *)
(* there, or the user dismissed it.                                        *)
Holds(files, gone, n, c) ==
    \/ \E f \in DOMAIN files : f.base = n /\ files[f] = c
    \/ \E touched \in BOOLEAN : <<n, c, touched>> \in gone

Kept(m, files, gone) == \A n \in DOMAIN m \cap Name : Holds(files, gone, n, m[n])

KeptInv ==
    /\ Kept(settings.manifest, stable.files, dismissed)
    /\ run = "copy" =>
        \A n \in DOMAIN work.map : Holds(Tree.files, dismissed, n, legacy.files[n])
    /\ run \in {"persist", "restore"} =>
        /\ \A i \in DOMAIN work.writes : work.writes[i].key = "manifest" =>
                Kept(work.writes[i].value, stable.files, dismissed)
        /\ \A i \in DOMAIN work.old : work.old[i].key = "manifest" =>
                Kept(work.old[i].value, stable.files, dismissed)
    /\ run = "persist" => Kept(work.manifest, stable.files, dismissed)

-----------------------------------------------------------------------------
(* Functions, sequences and sets.                                          *)

LEMMA Drops == \A f, x :
    /\ DOMAIN Drop(f, x) = DOMAIN f \ {x}
    /\ \A y \in DOMAIN f : y # x => Drop(f, x)[y] = f[y]
    BY DEF Drop, Restrict

LEMMA Empties == DOMAIN Empty = {} /\ \A x : At(Empty, x) = None
    BY DEF Empty, At

LEMMA HeadAndTail == ASSUME NEW s, IsSeq(s), s # <<>>
    PROVE  /\ 1 \in DOMAIN s /\ Head(s) = s[1]
           /\ IsSeq(Tail(s))
           /\ \A i \in DOMAIN Tail(s) : i + 1 \in DOMAIN s /\ Tail(s)[i] = s[i + 1]
           /\ \A i \in DOMAIN s : i = 1 \/ (i - 1 \in DOMAIN Tail(s) /\ s[i] = Tail(s)[i - 1])
PROOF
<1> DEFINE S == {s[i] : i \in DOMAIN s}  t == Tail(s)  T == {t[i] : i \in DOMAIN t}
<1>1. s \in Seq(S) BY Zenon DEF IsSeq
<1> HIDE DEF S
<1>2. Len(s) \in Nat \ {0} /\ DOMAIN s = 1 .. Len(s) BY <1>1, EmptySeq, LenProperties, Zenon
<1>3. t \in Seq(S) /\ Len(t) = Len(s) - 1 BY <1>1, HeadTailProperties, Zenon
<1>4. \A i \in 1 .. Len(t) : t[i] = s[i + 1] BY <1>1, <1>2, <1>3
<1>5. Head(s) = s[1] OBVIOUS
<1>6. t \in [1 .. Len(t) -> S] /\ Len(t) \in Nat /\ DOMAIN t = 1 .. Len(t) BY <1>3, LenProperties, Zenon
<1> HIDE DEF t
<1>7. t \in [1 .. Len(t) -> T] BY <1>6
<1>8. t \in Seq(T) BY <1>6, <1>7, SeqDef, Zenon
<1>9. IsSeq(t) BY <1>8, Zenon DEF IsSeq
<1>10. \A i \in DOMAIN s : i = 1 \/ (i - 1 \in DOMAIN t /\ s[i] = t[i - 1]) BY <1>2, <1>3, <1>4, <1>6
<1> QED BY <1>2, <1>3, <1>4, <1>5, <1>6, <1>9, <1>10 DEF t

IsJoin(u, s, t) ==
    /\ IsSeq(u)
    /\ \A i \in DOMAIN u : \/ i \in DOMAIN s /\ u[i] = s[i]
                           \/ \E j \in DOMAIN t : u[i] = t[j]
    /\ \A i \in DOMAIN s : i \in DOMAIN u /\ u[i] = s[i]

LEMMA Joined == \A S : \A s, t \in Seq(S) : IsJoin(s \o t, s, t)
PROOF
<1> SUFFICES ASSUME NEW S, NEW s \in Seq(S), NEW t \in Seq(S) PROVE IsJoin(s \o t, s, t) BY Zenon
<1> DEFINE u == s \o t  U == {u[i] : i \in DOMAIN u}
<1>1. u \in Seq(S) /\ Len(u) = Len(s) + Len(t)
      /\ \A i \in 1 .. Len(s) + Len(t) : u[i] = IF i <= Len(s) THEN s[i] ELSE t[i - Len(s)]
    BY ConcatProperties, Zenon
<1>2. Len(s) \in Nat /\ Len(t) \in Nat /\ DOMAIN s = 1 .. Len(s) /\ DOMAIN t = 1 .. Len(t)
    BY LenProperties, Zenon
<1> HIDE DEF u
<1>3. u \in [1 .. Len(u) -> S] /\ Len(u) \in Nat /\ DOMAIN u = 1 .. Len(u) BY <1>1, LenProperties, Zenon
<1>4. u \in [1 .. Len(u) -> U] BY <1>3
<1> HIDE DEF U
<1>5. IsSeq(u)
    <2>1. u \in Seq(U) BY <1>3, <1>4, SeqDef
    <2> QED BY <2>1, Zenon DEF IsSeq, U
<1>6. \A i \in DOMAIN u : \/ i \in DOMAIN s /\ u[i] = s[i]
                          \/ \E j \in DOMAIN t : u[i] = t[j]
    <2> SUFFICES ASSUME NEW i \in DOMAIN u
                 PROVE \/ i \in DOMAIN s /\ u[i] = s[i]
                       \/ \E j \in DOMAIN t : u[i] = t[j]
        OBVIOUS
    <2>1. i \in 1 .. Len(s) + Len(t) /\ u[i] = IF i <= Len(s) THEN s[i] ELSE t[i - Len(s)]
        BY <1>1, <1>3
    <2>2. CASE i <= Len(s)
        <3>1. i \in DOMAIN s BY <1>2, <2>1, <2>2
        <3> QED BY <2>1, <2>2, <3>1
    <2>3. CASE ~(i <= Len(s))
        <3>1. i - Len(s) \in DOMAIN t BY <1>2, <2>1, <2>3
        <3> QED BY <2>1, <2>3, <3>1
    <2> QED BY <2>2, <2>3
<1>7. \A i \in DOMAIN s : i \in DOMAIN u /\ u[i] = s[i]
    <2> SUFFICES ASSUME NEW i \in DOMAIN s PROVE i \in DOMAIN u /\ u[i] = s[i] OBVIOUS
    <2>1. i \in 1 .. Len(s) + Len(t) /\ i <= Len(s) BY <1>2
    <2> QED BY <1>1, <1>3, <2>1
<1> QED BY <1>5, <1>6, <1>7, Zenon DEF u, IsJoin

(* A finite set as a sequence.                                             *)
LEMMA SetAsSeq == ASSUME NEW S, IsFiniteSet(S) PROVE SetToSeq(S) \in Seq(S)
PROOF
<1> DEFINE n == Cardinality(S)
<1>1. n \in Nat /\ ExistsBijection(1 .. n, S) BY FS_CardinalityType
<1>2. PICK f : f \in Bijection(1 .. n, S) BY <1>1, Zenon DEF ExistsBijection
<1>3. f \in [1 .. n -> S] /\ IsInjective(f)
    BY <1>2 DEF Bijection, Injection, Surjection, IsInjective
<1>4. SetToSeq(S) \in [1 .. n -> S] BY <1>3, Zenon DEF SetToSeq
<1> QED BY <1>1, <1>4

LEMMA Least == ASSUME NEW T, T \subseteq Nat, T # {} PROVE \E k \in T : \A j \in T : k <= j
PROOF
<1>1. \E x \in T : \A y \in T : ~(<<y, x>> \in OpToRel(<, Nat)) BY NatLessThanWellFounded, WFMin, Zenon
<1>2. PICK x \in T : \A y \in T : <<y, x>> \notin OpToRel(<, Nat) BY <1>1
<1>3. \A y \in T : ~(y < x) BY <1>2 DEF OpToRel
<1> QED BY <1>3

-----------------------------------------------------------------------------
(* Where a file is copied to is free, or holds it.                         *)

LEMMA NamesDiffer == ASSUME NEW n \in Name, NEW c \in Content
    PROVE  /\ Plain(n) \in FileName /\ Plain(n).base = n
           /\ \A k \in Nat : Conflict(n, c, k) \in FileName /\ Conflict(n, c, k).base = n
           /\ \A j, k \in Nat : Conflict(n, c, j) = Conflict(n, c, k) => j = k
    BY DEF Plain, Conflict, FileName

LEMMA NoneIsNoContent == /\ \A c \in Content : c # None /\ c # Torn
                         /\ None # Torn /\ Index \notin Name
    BY UserDataAssumption, Zenon

LEMMA SomeConflictIsFree == ASSUME NEW files, IsFiles(files), NEW n \in Name, NEW c \in Content
    PROVE  \E k \in 1 .. Cardinality(DOMAIN files) + 1 : At(files, Conflict(n, c, k)) \in {None, c}
PROOF
<1> DEFINE T == DOMAIN files  m == Cardinality(T) + 1  S == 1 .. m  F == [k \in S |-> Conflict(n, c, k)]
<1>1. IsFiniteSet(T) BY DEF IsFiles
<1>2. Cardinality(T) \in Nat BY <1>1, FS_CardinalityType
<1>3. m \in Int /\ 1 \in Int /\ m >= 1 BY <1>2
<1>4. IsFiniteSet(S) /\ Cardinality(S) = IF 1 > m THEN 0 ELSE m - 1 + 1 BY <1>3, FS_Interval, Zenon
<1>5. Cardinality(T) < Cardinality(S) BY <1>2, <1>4
<1>6. SUFFICES ASSUME \A k \in S : At(files, Conflict(n, c, k)) # None PROVE FALSE BY Zenon
<1>7. \A k \in S : Conflict(n, c, k) \in T BY <1>6, Zenon DEF At
<1>8. F \in [S -> T] BY <1>7
<1> HIDE DEF m, T, F
<1>9. PICK j \in S, k \in S : j # k /\ F[j] = F[k] BY <1>1, <1>4, <1>5, <1>8, FS_PigeonHole, Zenon
<1>10. Conflict(n, c, j) = Conflict(n, c, k) BY <1>9 DEF F
<1>11. j \in Nat /\ k \in Nat BY <1>3
<1> QED BY <1>9, <1>10, <1>11, NamesDiffer, Zenon

LEMMA DestinationIsFree == ASSUME NEW files, IsFiles(files), NEW n \in Name, NEW c \in Content
    PROVE  LET f == Destination(files, n, c)
           IN  f \in FileName /\ f.base = n /\ At(files, f) \in {None, c}
PROOF
<1> DEFINE T == DOMAIN files  S == 1 .. Cardinality(T) + 1
           free == {k \in S : At(files, Conflict(n, c, k)) \in {None, c}}
           k0 == CHOOSE k \in free : \A j \in free : k <= j
<1>1. CASE At(files, Plain(n)) \in {None, c} BY <1>1, NamesDiffer, Zenon DEF Destination
<1>2. CASE ~(At(files, Plain(n)) \in {None, c})
    <2>1. free # {} BY SomeConflictIsFree, Zenon
    <2>2. free \subseteq Nat BY DEF IsFiles
    <2>3. \E k \in free : \A j \in free : k <= j BY <2>1, <2>2, Least, Zenon
    <2>4. k0 \in free BY <2>3, Zenon
    <2>5. Destination(files, n, c) = Conflict(n, c, k0) BY <1>2, Zenon DEF Destination, ConflictFor
    <2>6. k0 \in Nat /\ At(files, Conflict(n, c, k0)) \in {None, c} BY <2>2, <2>4, Zenon
    <2> QED BY <2>5, <2>6, NamesDiffer, ZenonT(40)
<1> QED BY <1>1, <1>2, Zenon

(* A copy keeps what is there.                                             *)
LEMMA CopyAdds == ASSUME NEW files, IsFiles(files), NEW n \in Name, NEW c \in Content
    PROVE  LET f == Destination(files, n, c)
               added == Put(files, f, c)
           IN  /\ IsFiles(added) /\ f \in FileName /\ f.base = n
               /\ f \in DOMAIN added /\ added[f] = c /\ At(added, f) = c
               /\ \A g \in DOMAIN files : g \in DOMAIN added /\ At(added, g) = files[g] /\ added[g] = files[g]
               /\ \A g \in DOMAIN added \ DOMAIN files : g = f
PROOF
<1> DEFINE f == Destination(files, n, c)  added == Put(files, f, c)
<1>1. f \in FileName /\ f.base = n /\ At(files, f) \in {None, c} BY DestinationIsFree, Zenon
<1> HIDE DEF f
<1>2. /\ DOMAIN added = DOMAIN files \cup {f} /\ added[f] = c
      /\ \A y \in DOMAIN files : y # f => added[y] = files[y] BY DEF Put
<1> HIDE DEF added
<1>3. /\ IsFiniteSet(DOMAIN files) /\ DOMAIN files \subseteq FileName
      /\ \A g \in DOMAIN files : files[g] \in Content \cup {Torn} BY Zenon DEF IsFiles
<1>4. IsFiniteSet(DOMAIN added) BY <1>2, <1>3, FS_AddElement
<1>5. IsFiles(added) BY <1>1, <1>2, <1>3, <1>4 DEF IsFiles
<1>6. f \in DOMAIN files => files[f] = c BY <1>1, <1>3, NoneIsNoContent DEF At
<1>7. \A g \in DOMAIN files : g \in DOMAIN added /\ added[g] = files[g] BY <1>2, <1>6
<1> QED BY <1>1, <1>2, <1>5, <1>7, Zenon DEF At, added, f

-----------------------------------------------------------------------------
(* The users.                                                              *)

LEMMA Import == ASSUME NEW f \in FileName
    PROVE  /\ ImportsOf(f) \subseteq Name \X Content \X BOOLEAN
           /\ \A n, c, t : <<n, c, t>> \in ImportsOf(f) =>
                  At(legacy.files, n) = c /\ At(settings.manifest, n) = c
           /\ \A c \in Content :
                  /\ At(stable.files, f) = c
                  /\ At(legacy.files, f.base) = c /\ At(settings.manifest, f.base) = c
                  => <<f.base, c, FALSE>> \in ImportsOf(f)
PROOF
<1> DEFINE Ours == {d \in Content :
        At(legacy.files, f.base) = d /\ At(settings.manifest, f.base) = d /\ At(stable.files, f) = d}
<1>1. f.base \in Name BY DEF FileName
<1>2. ImportsOf(f) = {<<f.base, d, FALSE>> : d \in Ours} BY Zenon DEF ImportsOf
<1>3. \A d \in Ours : d \in Content /\ At(legacy.files, f.base) = d
        /\ At(settings.manifest, f.base) = d /\ At(stable.files, f) = d OBVIOUS
<1>4. ASSUME NEW n, NEW c, NEW t, <<n, c, t>> \in ImportsOf(f)
      PROVE  n = f.base /\ c \in Ours /\ t = FALSE
    <2> HIDE DEF Ours
    <2>1. PICK d \in Ours : <<n, c, t>> = <<f.base, d, FALSE>> BY <1>2, <1>4, Zenon
    <2> QED BY <2>1
<1>5. \A c \in Ours : <<f.base, c, FALSE>> \in ImportsOf(f) BY <1>2
<1>6. \A c \in Content : /\ At(stable.files, f) = c
                         /\ At(legacy.files, f.base) = c /\ At(settings.manifest, f.base) = c
                         => c \in Ours OBVIOUS
<1> HIDE DEF Ours
<1>7. \A d \in Ours : <<f.base, d, FALSE>> \in Name \X Content \X BOOLEAN BY <1>1, <1>3
<1>8. ImportsOf(f) \subseteq Name \X Content \X BOOLEAN BY <1>2, <1>7, Zenon
<1>9. \A n, c, t : <<n, c, t>> \in ImportsOf(f) =>
          At(legacy.files, n) = c /\ At(settings.manifest, n) = c
    <2> SUFFICES ASSUME NEW n, NEW c, NEW t, <<n, c, t>> \in ImportsOf(f)
                 PROVE  At(legacy.files, n) = c /\ At(settings.manifest, n) = c BY Zenon
    <2>1. n = f.base /\ c \in Ours BY <1>4, Zenon
    <2> QED BY <1>3, <2>1, Zenon
<1> QED BY <1>5, <1>6, <1>8, <1>9, Zenon

LEMMA Touch == ASSUME dismissed \subseteq Name \X Content \X BOOLEAN, NEW n
    PROVE  /\ Touched(n) \subseteq Name \X Content \X BOOLEAN
           /\ \A m, c : <<m, c, FALSE>> \in Touched(n) => m # n /\ <<m, c, FALSE>> \in dismissed
           /\ \A m, c : \A t \in BOOLEAN : <<m, c, t>> \in dismissed =>
                  \E u \in BOOLEAN : <<m, c, u>> \in Touched(n)
PROOF
<1>1. \A d \in dismissed : d[1] \in Name /\ d[2] \in Content /\ d[3] \in BOOLEAN OBVIOUS
<1> DEFINE Now(d) == IF d[1] = n THEN <<d[1], d[2], TRUE>> ELSE d
<1>2. \A d \in dismissed : Now(d) \in Name \X Content \X BOOLEAN BY <1>1
<1>3. ASSUME NEW m, NEW c, NEW d \in dismissed, <<m, c, FALSE>> = Now(d)
      PROVE  m # n /\ <<m, c, FALSE>> = d
    <2>1. CASE d[1] = n
        <3>1. Now(d) = <<d[1], d[2], TRUE>> BY <2>1
        <3>2. <<m, c, FALSE>> = <<d[1], d[2], TRUE>> BY <1>3, <3>1
        <3> QED BY <3>2
    <2>2. CASE d[1] # n
        <3>1. <<m, c, FALSE>> = d BY <1>3, <2>2
        <3>2. d[1] = m BY <3>1
        <3> QED BY <2>2, <3>1, <3>2
    <2> QED BY <2>1, <2>2, Zenon
<1>4. ASSUME NEW m, NEW c, NEW t \in BOOLEAN
      PROVE  Now(<<m, c, t>>) = IF m = n THEN <<m, c, TRUE>> ELSE <<m, c, t>> OBVIOUS
<1>5. Touched(n) = {Now(d) : d \in dismissed} BY Zenon DEF Touched
<1> HIDE DEF Now
<1>6. Touched(n) \subseteq Name \X Content \X BOOLEAN BY <1>2, <1>5
<1>7. \A m, c : <<m, c, FALSE>> \in Touched(n) => m # n /\ <<m, c, FALSE>> \in dismissed
    BY <1>3, <1>5, Zenon
<1>8. ASSUME NEW m, NEW c, NEW t \in BOOLEAN, <<m, c, t>> \in dismissed
      PROVE  \E u \in BOOLEAN : <<m, c, u>> \in Touched(n)
    <2>1. Now(<<m, c, t>>) \in Touched(n) BY <1>5, <1>8, Zenon
    <2> QED BY <1>4, <2>1, Zenon
<1> QED BY <1>6, <1>7, <1>8, Zenon

(* Nothing is in hand while the users work.                                *)
LEMMA Idle == ASSUME run' \notin {"copy", "persist", "restore"}
    PROVE CopyOK' /\ WritesOK' /\ PersistOK'
    BY DEF CopyOK, WritesOK, PersistOK

LEMMA FilesChange == ASSUME NEW files, IsFiles(files), NEW f \in FileName
    PROVE  /\ \A c \in Content \cup {Torn} : IsFiles(Put(files, f, c))
           /\ IsFiles(Drop(files, f))
PROOF
<1>1. /\ IsFiniteSet(DOMAIN files) /\ DOMAIN files \subseteq FileName
      /\ \A g \in DOMAIN files : files[g] \in Content \cup {Torn} BY Zenon DEF IsFiles
<1>2. IsFiniteSet(DOMAIN files \cup {f}) BY <1>1, FS_AddElement, Zenon
<1>3. IsFiniteSet(DOMAIN files \ {f}) BY <1>1, FS_RemoveElement, Zenon
<1>4. ASSUME NEW c \in Content \cup {Torn} PROVE IsFiles(Put(files, f, c))
    BY <1>1, <1>2 DEF IsFiles, Put
<1>5. IsFiles(Drop(files, f)) BY <1>1, <1>3 DEF IsFiles, Drop, Restrict
<1> QED BY <1>4, <1>5

LEMMA SaveStableStep == ASSUME IInv, SaveStable PROVE IInv'
PROOF
<1> USE DEF IInv
<1>1. PICK f \in DOMAIN stable.files \cup {Plain(n) : n \in Name}, c \in Content :
        /\ stable' = [stable EXCEPT !.files = Put(@, f, c)]
        /\ dismissed' = dismissed \cup ImportsOf(f) BY Zenon DEF SaveStable
<1>2. /\ run = "stable" /\ run' = run /\ work' = work /\ mishaps' = mishaps
      /\ edits < MaxEdits /\ edits' = edits + 1
      /\ legacy' = legacy /\ settings' = settings BY Zenon DEF SaveStable, Edit, UserSteps
<1>3. f \in FileName BY NamesDiffer DEF StableOK, IsFiles
<1>4. /\ stable' = [exists |-> stable.exists, files |-> Put(stable.files, f, c), index |-> stable.index]
      /\ stable'.exists = stable.exists /\ stable'.files = Put(stable.files, f, c)
      /\ stable'.index = stable.index BY <1>1 DEF Shapes, RootShapes
<1>5. stable.exists BY <1>2, Zenon DEF StableOK
<1>6. IsFiles(stable'.files) BY <1>3, <1>4, FilesChange, Zenon DEF StableOK
<1>7. StableOK' BY <1>4, <1>5, <1>6, Zenon DEF StableOK, IsFiles
<1>8. DismissedOK'
    <2>1. /\ ImportsOf(f) \subseteq Name \X Content \X BOOLEAN
          /\ \A n, d, t : <<n, d, t>> \in ImportsOf(f) =>
                At(legacy.files, n) = d /\ At(settings.manifest, n) = d BY <1>3, Import, Zenon
    <2> QED BY <1>1, <1>2, <2>1, Zenon DEF DismissedOK, Agrees, At
<1>9. Shapes' BY <1>2, <1>4 DEF Shapes, RootShapes, WorkShapes
<1>10. FilesTypeOK'
    <2>1. edits' \in 0 .. MaxEdits BY <1>2, UserDataAssumption DEF FilesTypeOK
    <2> QED BY <1>2, <1>4, <2>1, Zenon DEF FilesTypeOK
<1>11. LegacyOK' /\ SettledOK' BY <1>2, Zenon DEF LegacyOK, SettledOK, Full, At
<1> QED BY <1>2, <1>7, <1>8, <1>9, <1>10, <1>11, Idle, Zenon

LEMMA DeleteStableStep == ASSUME IInv, DeleteStable PROVE IInv'
PROOF
<1> USE DEF IInv
<1>1. PICK f \in DOMAIN stable.files :
        /\ stable' = [stable EXCEPT !.files = Drop(@, f), !.index = IF @ = None THEN @ ELSE @ \ {f}]
        /\ dismissed' = dismissed \cup ImportsOf(f) BY Zenon DEF DeleteStable
<1>2. /\ run = "stable" /\ run' = run /\ work' = work /\ mishaps' = mishaps
      /\ edits < MaxEdits /\ edits' = edits + 1
      /\ legacy' = legacy /\ settings' = settings BY Zenon DEF DeleteStable, Edit, UserSteps
<1>3. f \in FileName BY DEF StableOK, IsFiles
<1> DEFINE index == IF stable.index = None THEN stable.index ELSE stable.index \ {f}
<1>4. /\ stable' = [exists |-> stable.exists, files |-> Drop(stable.files, f), index |-> index]
      /\ stable'.exists = stable.exists /\ stable'.files = Drop(stable.files, f)
      /\ stable'.index = index BY <1>1 DEF Shapes, RootShapes
<1> HIDE DEF index
<1>5. stable.exists BY <1>2, Zenon DEF StableOK
<1>6. IsFiles(stable'.files) BY <1>3, <1>4, FilesChange, Zenon DEF StableOK
<1>7. StableOK' BY <1>4, <1>5, <1>6, Zenon DEF StableOK, IsFiles
<1>8. DismissedOK'
    <2>1. /\ ImportsOf(f) \subseteq Name \X Content \X BOOLEAN
          /\ \A n, d, t : <<n, d, t>> \in ImportsOf(f) =>
                At(legacy.files, n) = d /\ At(settings.manifest, n) = d BY <1>3, Import, Zenon
    <2> QED BY <1>1, <1>2, <2>1, Zenon DEF DismissedOK, Agrees, At
<1>9. Shapes' BY <1>2, <1>4 DEF Shapes, RootShapes, WorkShapes
<1>10. FilesTypeOK'
    <2>1. edits' \in 0 .. MaxEdits BY <1>2, UserDataAssumption DEF FilesTypeOK
    <2> QED BY <1>2, <1>4, <2>1, Zenon DEF FilesTypeOK
<1>11. LegacyOK' /\ SettledOK' BY <1>2, Zenon DEF LegacyOK, SettledOK, Full, At
<1> QED BY <1>2, <1>7, <1>8, <1>9, <1>10, <1>11, Idle, Zenon

(* Opening a file only sets a path.                                        *)
LEMMA OpenStep == ASSUME IInv, OpenStable \/ OpenLegacy PROVE IInv'
PROOF
<1> USE DEF IInv
<1>0. PICK k \in PathKey : \E path : settings' = [settings EXCEPT !.paths[k] = path]
    BY Zenon DEF OpenStable, OpenLegacy
<1>1. PICK path : settings' = [settings EXCEPT !.paths[k] = path] BY <1>0, Zenon
<1>2. /\ run \in {"off", "legacy", "stable"} /\ run' = run /\ work' = work /\ mishaps' = mishaps
      /\ edits < MaxEdits /\ edits' = edits + 1
      /\ legacy' = legacy /\ stable' = stable /\ dismissed' = dismissed
    BY DEF OpenStable, OpenLegacy, InOldRoot, Edit, UserSteps
<1> DEFINE paths == [settings.paths EXCEPT ![k] = path]
<1>3. /\ settings' = [root |-> settings.root, manifest |-> settings.manifest, paths |-> paths]
      /\ settings'.root = settings.root /\ settings'.manifest = settings.manifest
      /\ settings'.paths = paths BY <1>1 DEF Shapes, RootShapes
<1>4. paths = [j \in PathKey |-> paths[j]] BY DEF Shapes, RootShapes
<1> HIDE DEF paths
<1>5. Shapes' BY <1>2, <1>3, <1>4 DEF Shapes, RootShapes, WorkShapes
<1>6. FilesTypeOK'
    <2>1. edits' \in 0 .. MaxEdits BY <1>2, UserDataAssumption DEF FilesTypeOK
    <2> QED BY <1>2, <1>3, <2>1, Zenon DEF FilesTypeOK
<1>7. /\ LegacyOK' /\ SettledOK' /\ StableOK' /\ DismissedOK'
    BY <1>2, <1>3, Zenon DEF LegacyOK, SettledOK, Full, At, StableOK, IsFiles, DismissedOK, Agrees
<1> QED BY <1>2, <1>5, <1>6, <1>7, Idle

LEMMA SaveLegacyStep == ASSUME IInv, SaveLegacy PROVE IInv'
PROOF
<1> USE DEF IInv
<1>1. PICK n \in Name, c \in Content :
        /\ legacy' = [legacy EXCEPT !.exists = TRUE, !.files = Put(@, n, c)]
        /\ dismissed' = Touched(n) BY Zenon DEF SaveLegacy
<1>2. /\ run \in {"off", "legacy"} /\ run' = run /\ work' = work /\ mishaps' = mishaps
      /\ edits < MaxEdits /\ edits' = edits + 1
      /\ stable' = stable /\ settings' = settings BY Zenon DEF SaveLegacy, InOldRoot, Edit, UserSteps
<1> DEFINE files == Put(legacy.files, n, c)
<1>3. /\ legacy' = [exists |-> TRUE, files |-> files, index |-> legacy.index]
      /\ legacy'.exists = TRUE /\ legacy'.files = files /\ legacy'.index = legacy.index
    BY <1>1 DEF Shapes, RootShapes
<1>4. /\ DOMAIN files \subseteq Name /\ \A m \in DOMAIN files : files[m] \in Content
      /\ \A m : m # n => At(files, m) = At(legacy.files, m)
    <2>1. DOMAIN files \subseteq Name /\ \A m \in DOMAIN files : files[m] \in Content
        BY DEF LegacyOK, Put
    <2>2. \A m : m # n => At(files, m) = At(legacy.files, m) BY DEF At, Put
    <2> QED BY <2>1, <2>2, Zenon
<1> HIDE DEF files
<1>5. Shapes' BY <1>2, <1>3 DEF Shapes, RootShapes, WorkShapes
<1>6. FilesTypeOK'
    <2>1. edits' \in 0 .. MaxEdits BY <1>2, UserDataAssumption DEF FilesTypeOK
    <2> QED BY <1>2, <1>3, <1>4, <2>1, Zenon DEF FilesTypeOK
<1>7. LegacyOK' BY <1>3, <1>4, Zenon DEF LegacyOK
<1>8. SettledOK' /\ StableOK' BY <1>2, Zenon DEF SettledOK, StableOK, IsFiles
<1>9. DismissedOK'
    <2>1. /\ Touched(n) \subseteq Name \X Content \X BOOLEAN
          /\ \A m, d : <<m, d, FALSE>> \in Touched(n) => m # n /\ <<m, d, FALSE>> \in dismissed
        BY Touch, Zenon DEF DismissedOK
    <2>2. Agrees(legacy.files) /\ Agrees(settings.manifest) BY Zenon DEF DismissedOK
    <2>3. \A m \in Name, d \in Content : <<m, d, FALSE>> \in dismissed' =>
            At(legacy'.files, m) = d /\ At(settings.manifest, m) = d
        BY <1>1, <1>3, <1>4, <2>1, <2>2, Zenon DEF Agrees
    <2> QED BY <1>1, <1>2, <2>1, <2>3, Zenon DEF DismissedOK, Agrees, At
<1> QED BY <1>2, <1>5, <1>6, <1>7, <1>8, <1>9, Idle

LEMMA DeleteLegacyStep == ASSUME IInv, DeleteLegacy PROVE IInv'
PROOF
<1> USE DEF IInv
<1>1. PICK n \in DOMAIN legacy.files :
        /\ legacy' = [legacy EXCEPT !.files = Drop(@, n)]
        /\ dismissed' = Touched(n) BY Zenon DEF DeleteLegacy
<1>2. /\ run \in {"off", "legacy"} /\ run' = run /\ work' = work /\ mishaps' = mishaps
      /\ edits < MaxEdits /\ edits' = edits + 1
      /\ stable' = stable /\ settings' = settings BY Zenon DEF DeleteLegacy, InOldRoot, Edit, UserSteps
<1> DEFINE files == Drop(legacy.files, n)
<1>3. /\ legacy' = [exists |-> legacy.exists, files |-> files, index |-> legacy.index]
      /\ legacy'.exists = legacy.exists /\ legacy'.files = files /\ legacy'.index = legacy.index
    BY <1>1 DEF Shapes, RootShapes
<1>4. /\ DOMAIN files \subseteq DOMAIN legacy.files
      /\ \A m \in DOMAIN files : files[m] = legacy.files[m]
      /\ \A m : m # n => At(files, m) = At(legacy.files, m)
    BY DEF Drop, Restrict, At
<1> HIDE DEF files
<1>5. Shapes' BY <1>2, <1>3 DEF Shapes, RootShapes, WorkShapes
<1>6. FilesTypeOK'
    <2>1. edits' \in 0 .. MaxEdits BY <1>2, UserDataAssumption DEF FilesTypeOK
    <2>2. DOMAIN files \subseteq Name BY <1>4 DEF LegacyOK
    <2> QED BY <1>2, <1>3, <2>1, <2>2, Zenon DEF FilesTypeOK
<1>7. LegacyOK'
    <2>1. /\ DOMAIN files \subseteq Name /\ \A m \in DOMAIN files : files[m] \in Content
          /\ DOMAIN legacy.files = {} => DOMAIN files = {} BY <1>4 DEF LegacyOK
    <2> QED BY <1>2, <1>3, <2>1, Zenon DEF LegacyOK
<1>8. SettledOK' /\ StableOK' BY <1>2, Zenon DEF SettledOK, StableOK, IsFiles
<1>9. DismissedOK'
    <2>1. /\ Touched(n) \subseteq Name \X Content \X BOOLEAN
          /\ \A m, d : <<m, d, FALSE>> \in Touched(n) => m # n /\ <<m, d, FALSE>> \in dismissed
        BY Touch, Zenon DEF DismissedOK
    <2>2. Agrees(legacy.files) /\ Agrees(settings.manifest) BY Zenon DEF DismissedOK
    <2>3. \A m \in Name, d \in Content : <<m, d, FALSE>> \in dismissed' =>
            At(legacy'.files, m) = d /\ At(settings.manifest, m) = d
        BY <1>1, <1>3, <1>4, <2>1, <2>2, Zenon DEF Agrees
    <2> QED BY <1>1, <1>2, <2>1, <2>3, Zenon DEF DismissedOK, Agrees, At
<1> QED BY <1>2, <1>5, <1>6, <1>7, <1>8, <1>9, Idle

LEMMA ListLegacyStep == ASSUME IInv, ListLegacy PROVE IInv'
PROOF
<1> USE DEF IInv
<1>1. PICK listed : legacy' = [legacy EXCEPT !.exists = TRUE, !.index = listed]
    BY Zenon DEF ListLegacy
<1>2. /\ run \in {"off", "legacy"} /\ run' = run /\ work' = work /\ mishaps' = mishaps
      /\ edits < MaxEdits /\ edits' = edits + 1 /\ dismissed' = dismissed
      /\ stable' = stable /\ settings' = settings BY Zenon DEF ListLegacy, InOldRoot, Edit, UserSteps
<1>3. /\ legacy' = [exists |-> TRUE, files |-> legacy.files, index |-> listed]
      /\ legacy'.exists = TRUE /\ legacy'.files = legacy.files /\ legacy'.index = listed
    BY <1>1 DEF Shapes, RootShapes
<1>4. Shapes' BY <1>2, <1>3 DEF Shapes, RootShapes, WorkShapes
<1>5. FilesTypeOK'
    <2>1. edits' \in 0 .. MaxEdits BY <1>2, UserDataAssumption DEF FilesTypeOK
    <2> QED BY <1>2, <1>3, <2>1, Zenon DEF FilesTypeOK
<1>6. LegacyOK' /\ DismissedOK' BY <1>2, <1>3, Zenon DEF LegacyOK, DismissedOK, Agrees, At
<1>7. SettledOK' /\ StableOK' BY <1>2, Zenon DEF SettledOK, StableOK, IsFiles
<1> QED BY <1>2, <1>4, <1>5, <1>6, <1>7, Idle

LEMMA NoFiles == IsFiles(Empty) BY FS_EmptySet, Empties, Zenon DEF IsFiles

LEMMA LoseRootStep == ASSUME IInv, LoseRoot PROVE IInv'
PROOF
<1> USE DEF IInv
<1>1. /\ run = "off" /\ run' = run /\ work' = work /\ mishaps' = mishaps
      /\ edits < MaxEdits /\ edits' = edits + 1 /\ dismissed' = {}
      /\ legacy' = legacy /\ settings' = settings BY Zenon DEF LoseRoot, Edit, UserSteps
<1>2. /\ stable' = [exists |-> FALSE, files |-> Empty, index |-> None]
      /\ stable'.exists = FALSE /\ stable'.files = Empty /\ stable'.index = None BY DEF LoseRoot
<1>3. Shapes' BY <1>1, <1>2 DEF Shapes, RootShapes, WorkShapes
<1>4. FilesTypeOK'
    <2>1. edits' \in 0 .. MaxEdits BY <1>1, UserDataAssumption DEF FilesTypeOK
    <2> QED BY <1>1, <1>2, <2>1, Zenon DEF FilesTypeOK
<1>5. LegacyOK' /\ SettledOK' BY <1>1, Zenon DEF LegacyOK, SettledOK, Full, At
<1>6. StableOK'
    <2>1. IsFiles(stable'.files) BY <1>2, NoFiles, Zenon
    <2>2. stable'.exists \in BOOLEAN /\ DOMAIN stable'.files = {} BY <1>2, Empties, Zenon
    <2>3. run' \notin {"persist", "restore", "stable"} BY <1>1
    <2> QED BY <2>1, <2>2, <2>3, Zenon DEF StableOK, IsFiles
<1>7. DismissedOK' BY <1>1, Zenon DEF DismissedOK, Agrees
<1> QED BY <1>1, <1>3, <1>4, <1>5, <1>6, <1>7, Idle

LEMMA QuitStep == ASSUME IInv, Quit PROVE IInv'
PROOF
<1> USE DEF IInv
<1>1. /\ run' = "off" /\ work' = work /\ mishaps' = mishaps /\ edits' = edits
      /\ dismissed' = dismissed /\ legacy' = legacy /\ settings' = settings
      /\ stable' = stable BY Zenon DEF Quit
<1>2. FilesTypeOK' /\ Shapes' BY <1>1, Zenon DEF FilesTypeOK, Shapes, RootShapes, WorkShapes
<1>3. /\ LegacyOK' /\ SettledOK' /\ StableOK' /\ DismissedOK'
    BY <1>1, Zenon DEF LegacyOK, SettledOK, Full, At, StableOK, IsFiles, DismissedOK, Agrees
<1> QED BY <1>1, <1>2, <1>3, Idle

-----------------------------------------------------------------------------
(* A start, up to where it commits.                                        *)

(* The process stops with nothing in hand, and only the stable root may    *)
(* have changed.                                                           *)
LEMMA Stops == ASSUME IInv, work' = NoWork, run' \in {"off", "legacy"},
        UNCHANGED <<legacy, settings, edits, dismissed>>, mishaps' \in 0 .. MaxMishaps,
        stable' = [exists |-> stable.exists, files |-> stable'.files, index |-> stable.index],
        IsFiles(stable'.files), ~stable.exists => DOMAIN stable'.files = {}
    PROVE IInv'
PROOF
<1> USE DEF IInv
<1>1. stable'.exists = stable.exists /\ stable'.index = stable.index OBVIOUS
<1>2. Shapes'
    <2>1. RootShapes' BY DEF Shapes, RootShapes
    <2>2. WorkShapes' BY DEF WorkShapes, NoWork, NoTree
    <2> QED BY <2>1, <2>2, Zenon DEF Shapes
<1>3. run' \notin {"copy", "persist", "restore", "stable"} OBVIOUS
<1>4. FilesTypeOK' /\ StableOK' BY <1>1, <1>3 DEF FilesTypeOK, StableOK, IsFiles
<1>5. LegacyOK' /\ SettledOK' /\ DismissedOK'
    BY <1>3 DEF LegacyOK, SettledOK, DismissedOK, Agrees, At
<1> QED BY <1>2, <1>3, <1>4, <1>5, Idle

LEMMA BeginStep == ASSUME IInv, Begin PROVE IInv'
PROOF
<1> USE DEF IInv
<1> DEFINE known == IF stable.exists THEN settings.manifest ELSE Empty
           index == legacy.index # None
<1>1. /\ run = "off" /\ legacy.exists /\ run' = "copy"
      /\ legacy' = legacy /\ stable' = stable /\ settings' = settings
      /\ edits' = edits /\ mishaps' = mishaps /\ dismissed' = dismissed BY Zenon DEF Begin
<1>2. /\ work' = [files |-> DOMAIN legacy.files, index |-> index, staging |-> ~stable.exists,
                  tree |-> NoTree, known |-> known, manifest |-> Empty, map |-> Empty,
                  writes |-> <<>>, missed |-> FALSE, old |-> <<>>]
    BY DEF Begin, NoWork
<1> HIDE DEF known, index
<1>3. /\ work'.files = DOMAIN legacy.files /\ work'.staging = ~stable.exists
      /\ work'.tree = NoTree /\ work'.known = known /\ work'.manifest = Empty
      /\ work'.map = Empty BY <1>2
<1>4. NoTree.files = Empty BY DEF NoTree
<1>5. Shapes'
    <2>1. RootShapes' BY <1>1, Zenon DEF Shapes, RootShapes
    <2>2. WorkShapes' BY <1>2 DEF WorkShapes, NoTree
    <2> QED BY <2>1, <2>2, Zenon DEF Shapes
<1>6. FilesTypeOK' BY <1>1 DEF FilesTypeOK
<1>7. LegacyOK' /\ StableOK' /\ DismissedOK' /\ SettledOK'
    BY <1>1 DEF LegacyOK, StableOK, IsFiles, DismissedOK, Agrees, At, SettledOK
<1>8. CopyOK'
    <2>1. known = IF ~stable.exists THEN Empty ELSE settings.manifest BY DEF known
    <2>2. IsFiles(work'.tree.files) BY <1>3, <1>4, NoFiles, Zenon
    <2>3. DOMAIN work'.map = {} /\ DOMAIN work'.manifest = {} BY <1>3, Empties, Zenon
    <2>4. DOMAIN work'.map = DOMAIN legacy'.files \ work'.files BY <1>1, <1>3, <2>3
    <2>5. work'.known = IF work'.staging THEN Empty ELSE settings'.manifest BY <1>1, <1>3, <2>1
    <2>6. legacy'.exists /\ work'.staging = ~stable'.exists BY <1>1, <1>3
    <2>7. work'.files \subseteq DOMAIN legacy'.files BY <1>1, <1>3
    <2>8. (\A n \in DOMAIN work.map :
                /\ At(work.manifest, n) = legacy.files[n]
                /\ \/ work.map[n] = None
                   \/ work.map[n] \in FileName /\ At(Tree.files, work.map[n]) = legacy.files[n])'
        BY <2>3
    <2>9. IsFiles(work.tree.files)' BY <2>2, Zenon DEF IsFiles
    <2>10. DOMAIN work'.manifest \subseteq DOMAIN work'.map \cup {Index} BY <2>3
    <2> QED BY <2>4, <2>5, <2>6, <2>7, <2>8, <2>9, <2>10, Zenon DEF CopyOK
<1>9. WritesOK' /\ PersistOK' BY <1>1 DEF WritesOK, PersistOK
<1> QED BY <1>5, <1>6, <1>7, <1>8, <1>9

LEMMA Single == ASSUME NEW w PROVE IsSeq(<<w>>) /\ DOMAIN <<w>> = {1} /\ <<w>>[1] = w
PROOF
<1>1. DOMAIN <<w>> = {1} /\ <<w>>[1] = w OBVIOUS
<1>2. {<<w>>[i] : i \in DOMAIN <<w>>} = {w} BY <1>1
<1>3. <<w>> \in Seq({w}) OBVIOUS
<1> QED BY <1>1, <1>2, <1>3, Zenon DEF IsSeq

LEMMA BeginWithoutSourceStep == ASSUME IInv, BeginWithoutSource PROVE IInv'
PROOF
<1> USE DEF IInv
<1> DEFINE was == [key |-> "root", value |-> settings.root]
<1>1. /\ run = "off" /\ ~legacy.exists /\ run' = "persist"
      /\ stable' = [stable EXCEPT !.exists = TRUE]
      /\ legacy' = legacy /\ settings' = settings
      /\ edits' = edits /\ mishaps' = mishaps /\ dismissed' = dismissed
    BY Zenon DEF BeginWithoutSource
<1>2. was.key = "root" /\ RootWrite.key = "root" BY DEF RootWrite
<1>3. /\ work' = [files |-> {}, index |-> FALSE, staging |-> FALSE,
                  tree |-> NoTree, known |-> Empty, manifest |-> Empty, map |-> Empty,
                  writes |-> <<RootWrite>>, missed |-> FALSE, old |-> <<was>>]
    BY DEF BeginWithoutSource, NoWork
<1> HIDE DEF was
<1>4. work'.writes = <<RootWrite>> /\ work'.old = <<was>> /\ work'.manifest = Empty BY <1>3
<1>5. /\ stable' = [exists |-> TRUE, files |-> stable.files, index |-> stable.index]
      /\ stable'.exists = TRUE /\ stable'.files = stable.files BY <1>1 DEF Shapes, RootShapes
<1>6. Shapes'
    <2>1. RootShapes' BY <1>1, <1>5, Zenon DEF Shapes, RootShapes
    <2>2. WorkShapes' BY <1>3 DEF WorkShapes, NoTree
    <2> QED BY <2>1, <2>2, Zenon DEF Shapes
<1>7. FilesTypeOK' BY <1>1, <1>5 DEF FilesTypeOK
<1>8. LegacyOK' /\ StableOK' /\ DismissedOK' /\ SettledOK'
    BY <1>1, <1>5 DEF LegacyOK, StableOK, IsFiles, DismissedOK, Agrees, At, SettledOK
<1>9. CopyOK' BY <1>1 DEF CopyOK
<1>10. /\ IsSeq(work'.writes) /\ IsSeq(work'.old)
       /\ DOMAIN work'.writes = {1} /\ DOMAIN work'.old = {1}
       /\ work'.writes[1] = RootWrite /\ work'.old[1] = was BY <1>4, Single, Zenon
<1>11. WritesOK'
    <2>1. (\A i \in DOMAIN work.writes : IsWrite(work.writes[i]))' BY <1>2, <1>10 DEF IsWrite
    <2>2. (\A i \in DOMAIN work.old : IsWrite(work.old[i]))' BY <1>2, <1>10 DEF IsWrite
    <2> QED BY <1>10, <2>1, <2>2 DEF WritesOK, IsSeq
<1>12. PersistOK'
    <2>1. "root" \notin PathKey BY UserDataAssumption
    <2> QED BY <1>1, <1>2, <1>10, <2>1 DEF PersistOK
<1> QED BY <1>6, <1>7, <1>8, <1>9, <1>11, <1>12

LEMMA CopyFailsStep == ASSUME IInv, CopyFails PROVE IInv'
PROOF
<1>1. /\ run' = "legacy" /\ work' = NoWork /\ mishaps < MaxMishaps /\ mishaps' = mishaps + 1
      /\ UNCHANGED <<legacy, stable, settings, edits, dismissed>> BY Zenon DEF CopyFails, Mishap
<1>2. mishaps' \in 0 .. MaxMishaps BY <1>1, UserDataAssumption DEF IInv, FilesTypeOK
<1>3. stable' = [exists |-> stable.exists, files |-> stable'.files, index |-> stable.index]
    BY <1>1, Zenon DEF IInv, Shapes, RootShapes
<1>4. IsFiles(stable'.files) /\ (~stable.exists => DOMAIN stable'.files = {})
    BY <1>1, Zenon DEF IInv, StableOK
<1> QED BY <1>1, <1>2, <1>3, <1>4, Stops

LEMMA DiesStep == ASSUME IInv, Dies PROVE IInv'
PROOF
<1>1. /\ run' = "off" /\ work' = NoWork /\ mishaps < MaxMishaps /\ mishaps' = mishaps + 1
      /\ UNCHANGED <<legacy, settings, edits, dismissed>> BY Zenon DEF Dies, Mishap
<1>2. mishaps' \in 0 .. MaxMishaps BY <1>1, UserDataAssumption DEF IInv, FilesTypeOK
<1>3. /\ stable = [exists |-> stable.exists, files |-> stable.files, index |-> stable.index]
      /\ IsFiles(stable.files) /\ (~stable.exists => DOMAIN stable.files = {})
    BY Zenon DEF IInv, StableOK, Shapes, RootShapes
<1>4. CASE stable' = stable BY <1>1, <1>2, <1>3, <1>4, Stops
<1>5. CASE stable' # stable
    <2>1. /\ run = "copy" /\ ~work.staging
          /\ \E n \in work.files : \E f \in {Destination(Tree.files, n, legacy.files[n])} :
                stable' = [stable EXCEPT !.files = Put(@, f, Torn)] BY <1>5, Zenon DEF Dies
    <2>2. PICK n \in work.files :
            stable' = [stable EXCEPT !.files = Put(@, Destination(Tree.files, n, legacy.files[n]), Torn)]
        BY <2>1, Zenon
    <2> DEFINE f == Destination(Tree.files, n, legacy.files[n])
    <2>3. n \in Name /\ legacy.files[n] \in Content /\ stable.exists
        BY <2>1 DEF IInv, CopyOK, LegacyOK
    <2>4. Tree.files = stable.files BY <2>1 DEF Tree
    <2>5. f \in FileName BY <1>3, <2>3, <2>4, DestinationIsFree, Zenon
    <2> HIDE DEF f
    <2>6. stable' = [exists |-> stable.exists, files |-> Put(stable.files, f, Torn), index |-> stable.index]
        BY <1>3, <2>2 DEF f
    <2>7. IsFiles(Put(stable.files, f, Torn)) BY <1>3, <2>5, FilesChange, Zenon
    <2>8. /\ stable' = [exists |-> stable.exists, files |-> stable'.files, index |-> stable.index]
          /\ IsFiles(stable'.files) BY <2>6, <2>7
    <2> QED BY <1>1, <1>2, <2>3, <2>8, Stops
<1> QED BY <1>4, <1>5, Zenon

(* One file more is in the manifest and in the map.                        *)
LEMMA OneMore == ASSUME LegacyOK, CopyOK, run = "copy", NEW n \in work.files, NEW to,
        run' = run, legacy' = legacy, settings' = settings, stable'.exists = stable.exists,
        work'.files = work.files \ {n}, work'.staging = work.staging, work'.known = work.known,
        work'.manifest = Put(work.manifest, n, legacy.files[n]),
        work'.map = Put(work.map, n, to),
        IsFiles(work'.tree.files),
        to = None \/ (to \in FileName /\ At(Tree'.files, to) = legacy.files[n]),
        \A g \in DOMAIN Tree.files : At(Tree'.files, g) = Tree.files[g]
    PROVE CopyOK'
PROOF
<1>1. /\ legacy.exists /\ work.staging = ~stable.exists /\ work.files \subseteq DOMAIN legacy.files
      /\ work.known = IF work.staging THEN Empty ELSE settings.manifest
      /\ DOMAIN work.map = DOMAIN legacy.files \ work.files
      /\ DOMAIN work.manifest \subseteq DOMAIN work.map \cup {Index}
      /\ \A m \in DOMAIN work.map :
            /\ At(work.manifest, m) = legacy.files[m]
            /\ \/ work.map[m] = None
               \/ work.map[m] \in FileName /\ At(Tree.files, work.map[m]) = legacy.files[m]
    BY Zenon DEF CopyOK
<1>2. n \in DOMAIN legacy.files /\ n \notin DOMAIN work.map BY <1>1
<1> DEFINE map == Put(work.map, n, to)  manifest == Put(work.manifest, n, legacy.files[n])
<1>3. /\ DOMAIN map = DOMAIN work.map \cup {n} /\ map[n] = to
      /\ \A m \in DOMAIN work.map : m # n => map[m] = work.map[m] BY DEF Put
<1>4. /\ DOMAIN manifest = DOMAIN work.manifest \cup {n} /\ At(manifest, n) = legacy.files[n]
      /\ \A m : m # n => At(manifest, m) = At(work.manifest, m) BY DEF Put, At
<1> HIDE DEF map, manifest
<1>5. work'.map = map /\ work'.manifest = manifest BY DEF map, manifest
<1>6. DOMAIN work'.map = DOMAIN legacy'.files \ work'.files BY <1>1, <1>2, <1>3, <1>5
<1>7. DOMAIN work'.manifest \subseteq DOMAIN work'.map \cup {Index} BY <1>1, <1>3, <1>4, <1>5
<1>8. ASSUME NEW m \in DOMAIN map
      PROVE  /\ At(manifest, m) = legacy.files[m]
             /\ \/ map[m] = None
                \/ map[m] \in FileName /\ At(Tree'.files, map[m]) = legacy.files[m]
    <2>1. CASE m = n BY <1>3, <1>4, <2>1, Zenon
    <2>2. CASE m # n
        <3>1. m \in DOMAIN work.map /\ map[m] = work.map[m] BY <1>3, <2>2
        <3>2. At(manifest, m) = legacy.files[m] BY <1>1, <1>4, <2>2, <3>1, Zenon
        <3>3. legacy.files[m] # None BY <1>1, <3>1, NoneIsNoContent DEF LegacyOK
        <3>4. work.map[m] # None => work.map[m] \in FileName /\ At(Tree'.files, work.map[m]) = legacy.files[m]
            BY <1>1, <3>1, <3>3, Zenon DEF At
        <3> QED BY <3>1, <3>2, <3>4, Zenon
    <2> QED BY <2>1, <2>2, Zenon
<1>9. (\A m \in DOMAIN work.map :
            /\ At(work.manifest, m) = legacy.files[m]
            /\ \/ work.map[m] = None
               \/ work.map[m] \in FileName /\ At(Tree.files, work.map[m]) = legacy.files[m])'
    BY <1>5, <1>8, Zenon DEF At
<1>10. IsFiles(work.tree.files)' BY Zenon DEF IsFiles
<1>11. /\ legacy'.exists /\ work'.staging = ~stable'.exists
       /\ work'.files \subseteq DOMAIN legacy'.files
       /\ work'.known = IF work'.staging THEN Empty ELSE settings'.manifest BY <1>1
<1> QED BY <1>6, <1>7, <1>9, <1>10, <1>11, Zenon DEF CopyOK

LEMMA MapsFacts == ASSUME WorkShapes, NEW n, NEW c, NEW to
    PROVE  Maps(n, c, to) = [files |-> work.files \ {n}, index |-> work.index,
               staging |-> work.staging, tree |-> work.tree, known |-> work.known,
               manifest |-> Put(work.manifest, n, c), map |-> Put(work.map, n, to),
               writes |-> work.writes, missed |-> work.missed, old |-> work.old]
PROOF
<1> DEFINE Work(f, m, p) == [files |-> f, index |-> work.index,
               staging |-> work.staging, tree |-> work.tree, known |-> work.known,
               manifest |-> m, map |-> p,
               writes |-> work.writes, missed |-> work.missed, old |-> work.old]
           w1 == [work EXCEPT !.files = work.files \ {n}]
           w2 == [w1 EXCEPT !.manifest = Put(work.manifest, n, c)]
           w3 == [w2 EXCEPT !.map = Put(work.map, n, to)]
<1>1. Maps(n, c, to) = w3 BY DEF Maps
<1>2. work = Work(work.files, work.manifest, work.map) BY Zenon DEF WorkShapes
<1>3. w1 = Work(work.files \ {n}, work.manifest, work.map) BY <1>2
<1> HIDE DEF w1
<1>4. w2 = Work(work.files \ {n}, Put(work.manifest, n, c), work.map) BY <1>3
<1> HIDE DEF w2
<1>5. w3 = Work(work.files \ {n}, Put(work.manifest, n, c), Put(work.map, n, to)) BY <1>4
<1> HIDE DEF w3
<1> QED BY <1>1, <1>5

(* Nothing to copy and nothing to commit.                                  *)
LEMMA StillCopying == ASSUME IInv, run = "copy", run' = run,
        UNCHANGED <<legacy, settings, edits, mishaps, dismissed>>,
        stable'.exists \in BOOLEAN, IsFiles(stable'.files),
        ~stable'.exists => DOMAIN stable'.files = {}
    PROVE /\ FilesTypeOK' /\ LegacyOK' /\ StableOK' /\ DismissedOK'
          /\ WritesOK' /\ PersistOK' /\ SettledOK'
PROOF
<1>1. FilesTypeOK' /\ StableOK' BY DEF IInv, FilesTypeOK, StableOK, IsFiles
<1>2. LegacyOK' /\ DismissedOK' BY Zenon DEF IInv, LegacyOK, DismissedOK, Agrees, At
<1>3. WritesOK' /\ PersistOK' /\ SettledOK' BY DEF WritesOK, PersistOK, SettledOK
<1> QED BY <1>1, <1>2, <1>3

LEMMA KnownFileStep == ASSUME IInv, NEW n \in Name, n \in work.files, KnownFile(n) PROVE IInv'
PROOF
<1> USE DEF IInv
<1> DEFINE c == legacy.files[n]
<1>1. /\ run = "copy" /\ run' = run /\ n \in work.files
      /\ UNCHANGED <<legacy, stable, settings, edits, mishaps, dismissed>> BY Zenon DEF KnownFile
<1>2. IsFiles(work.tree.files) /\ IsFiles(stable.files) BY <1>1, Zenon DEF CopyOK, StableOK
<1>3. IsFiles(Tree.files) BY <1>2 DEF Tree
<1>4. PICK to : /\ work' = Maps(n, c, to)
                /\ to = None \/ (to \in FileName /\ At(Tree.files, to) = c)
    <2>1. CASE \E f \in Imported(Tree.files, n, c) : work' = Maps(n, c, f)
        <3>1. PICK f \in Imported(Tree.files, n, c) : work' = Maps(n, c, f) BY <2>1
        <3>2. f \in DOMAIN Tree.files /\ Tree.files[f] = c BY DEF Imported
        <3>3. f \in FileName /\ At(Tree.files, f) = c BY <1>3, <3>2 DEF IsFiles, At
        <3> QED BY <3>1, <3>3, Zenon
    <2>2. CASE work' = Maps(n, c, None) BY <2>2, Zenon
    <2> QED BY <2>1, <2>2, Zenon DEF KnownFile
<1> HIDE DEF c
<1>5. work' = [files |-> work.files \ {n}, index |-> work.index,
               staging |-> work.staging, tree |-> work.tree, known |-> work.known,
               manifest |-> Put(work.manifest, n, c), map |-> Put(work.map, n, to),
               writes |-> work.writes, missed |-> work.missed, old |-> work.old]
    BY <1>4, MapsFacts DEF Shapes
<1>6. /\ work'.files = work.files \ {n} /\ work'.staging = work.staging /\ work'.known = work.known
      /\ work'.manifest = Put(work.manifest, n, c) /\ work'.map = Put(work.map, n, to)
      /\ work'.tree = work.tree BY <1>5
<1>7. Tree' = Tree BY <1>1, <1>6 DEF Tree
<1>8. \A g \in DOMAIN Tree.files : At(Tree.files, g) = Tree.files[g] BY DEF At
<1>9. CopyOK' BY <1>1, <1>2, <1>4, <1>6, <1>7, <1>8, OneMore DEF c
<1>10. Shapes'
    <2>1. RootShapes' BY <1>1, Zenon DEF Shapes, RootShapes
    <2>2. WorkShapes' BY <1>5 DEF WorkShapes, Shapes
    <2> QED BY <2>1, <2>2, Zenon DEF Shapes
<1>11. stable'.exists \in BOOLEAN /\ IsFiles(stable'.files) /\ (~stable'.exists => DOMAIN stable'.files = {})
    BY <1>1 DEF StableOK
<1> QED BY <1>1, <1>9, <1>10, <1>11, StillCopying

(* A copy puts the content at its destination and keeps what is there.     *)
LEMMA CopyFileFacts == ASSUME IInv, NEW n \in Name, n \in work.files, CopyFile(n)
    PROVE  LET c == legacy.files[n]
               dest == Destination(Tree.files, n, c)
               added == Put(Tree.files, dest, c)
           IN  /\ run = "copy" /\ run' = run
               /\ UNCHANGED <<legacy, settings, edits, mishaps, dismissed>>
               /\ dest \in FileName /\ dest.base = n /\ dest \in DOMAIN added /\ added[dest] = c
               /\ At(added, dest) = c
               /\ \A g \in DOMAIN Tree.files :
                    g \in DOMAIN added /\ At(added, g) = Tree.files[g] /\ added[g] = Tree.files[g]
               /\ work'.files = work.files \ {n} /\ work'.staging = work.staging
               /\ work'.known = work.known /\ work'.manifest = Put(work.manifest, n, c)
               /\ work'.map = Put(work.map, n, dest)
               /\ Tree'.files = added /\ stable'.exists = stable.exists
               /\ stable'.files = IF work.staging THEN stable.files ELSE added
               /\ IsFiles(work'.tree.files) /\ IsFiles(stable'.files)
               /\ WorkShapes' /\ RootShapes'
PROOF
<1> USE DEF IInv
<1> DEFINE c == legacy.files[n]  dest == Destination(Tree.files, n, c)
           added == Put(Tree.files, dest, c)
<1>1. /\ run = "copy" /\ run' = run /\ n \in work.files
      /\ UNCHANGED <<legacy, settings, edits, mishaps, dismissed>> BY Zenon DEF CopyFile
<1>2. /\ n \in Name /\ c \in Content /\ work.staging = ~stable.exists
      /\ IsFiles(work.tree.files) /\ IsFiles(stable.files) BY <1>1 DEF CopyOK, LegacyOK, StableOK
<1>3. /\ IsFiles(Tree.files)
      /\ work.staging => Tree.files = work.tree.files
      /\ ~work.staging => Tree.files = stable.files BY <1>2 DEF Tree
<1>4. /\ IsFiles(added) /\ dest \in FileName /\ At(added, dest) = c
      /\ dest.base = n /\ dest \in DOMAIN added /\ added[dest] = c
      /\ \A g \in DOMAIN Tree.files :
            g \in DOMAIN added /\ At(added, g) = Tree.files[g] /\ added[g] = Tree.files[g]
    BY <1>2, <1>3, CopyAdds
<1>5. /\ work' = IF work.staging THEN [Maps(n, c, dest) EXCEPT !.tree.files = added] ELSE Maps(n, c, dest)
      /\ stable' = IF work.staging THEN stable ELSE [stable EXCEPT !.files = added]
    BY DEF CopyFile
<1> HIDE DEF dest, added, c
<1> DEFINE tree == IF work.staging THEN [files |-> added, index |-> work.tree.index] ELSE work.tree
<1>8. work' = [files |-> work.files \ {n}, index |-> work.index,
               staging |-> work.staging, tree |-> tree, known |-> work.known,
               manifest |-> Put(work.manifest, n, c), map |-> Put(work.map, n, dest),
               writes |-> work.writes, missed |-> work.missed, old |-> work.old]
    <2> DEFINE maps == [files |-> work.files \ {n}, index |-> work.index,
               staging |-> work.staging, tree |-> work.tree, known |-> work.known,
               manifest |-> Put(work.manifest, n, c), map |-> Put(work.map, n, dest),
               writes |-> work.writes, missed |-> work.missed, old |-> work.old]
    <2>1. Maps(n, c, dest) = maps BY MapsFacts, Zenon DEF Shapes
    <2>2. work.tree = [files |-> work.tree.files, index |-> work.tree.index]
        BY Zenon DEF Shapes, WorkShapes
    <2>3. work' = IF work.staging THEN [maps EXCEPT !.tree.files = added] ELSE maps BY <1>5, <2>1
    <2> QED BY <2>2, <2>3
<1>9. tree = [files |-> tree.files, index |-> tree.index]
    BY DEF Shapes, WorkShapes
<1>10. tree.files = IF work.staging THEN added ELSE work.tree.files OBVIOUS
<1> HIDE DEF tree
<1>11. /\ work'.files = work.files \ {n} /\ work'.staging = work.staging /\ work'.known = work.known
       /\ work'.manifest = Put(work.manifest, n, c) /\ work'.map = Put(work.map, n, dest)
       /\ work'.tree = tree BY <1>8
<1>12. /\ stable' = [exists |-> stable.exists, files |-> stable'.files, index |-> stable.index]
       /\ stable'.exists = stable.exists
       /\ stable'.files = IF work.staging THEN stable.files ELSE added
       /\ stable'.index = stable.index
    BY <1>5 DEF Shapes, RootShapes
<1>13. Tree'.files = added
    <2>1. Tree'.files = IF work'.staging THEN work'.tree.files ELSE stable'.files BY DEF Tree
    <2> QED BY <1>10, <1>11, <1>12, <2>1
<1>14. IsFiles(tree.files) /\ IsFiles(stable'.files) BY <1>2, <1>4, <1>10, <1>12
<1>15. RootShapes' BY <1>1, <1>12 DEF Shapes, RootShapes
<1>16. WorkShapes'
    <2>1. work.missed \in BOOLEAN BY DEF Shapes, WorkShapes
    <2> QED BY <1>8, <1>9, <2>1 DEF WorkShapes
<1>17. IsFiles(work'.tree.files) BY <1>11, <1>14
<1> QED BY <1>1, <1>4, <1>11, <1>12, <1>13, <1>14, <1>15, <1>16, <1>17, Zenon DEF dest, added, c

LEMMA CopyFileStep == ASSUME IInv, NEW n \in Name, n \in work.files, CopyFile(n) PROVE IInv'
PROOF
<1> USE DEF IInv
<1> DEFINE c == legacy.files[n]  dest == Destination(Tree.files, n, c)
           added == Put(Tree.files, dest, c)
<1>1. /\ run = "copy" /\ run' = run
      /\ UNCHANGED <<legacy, settings, edits, mishaps, dismissed>>
      /\ dest \in FileName /\ At(added, dest) = c
      /\ \A g \in DOMAIN Tree.files : At(added, g) = Tree.files[g]
      /\ work'.files = work.files \ {n} /\ work'.staging = work.staging
      /\ work'.known = work.known /\ work'.manifest = Put(work.manifest, n, c)
      /\ work'.map = Put(work.map, n, dest)
      /\ Tree'.files = added /\ stable'.exists = stable.exists
      /\ stable'.files = IF work.staging THEN stable.files ELSE added
      /\ IsFiles(work'.tree.files) /\ IsFiles(stable'.files)
      /\ WorkShapes' /\ RootShapes'
    BY CopyFileFacts, Zenon
<1>2. PICK to : to = dest OBVIOUS
<1> HIDE DEF dest, added, c
<1>3. CopyOK'
    <2>1. At(Tree'.files, to) = c BY <1>1, <1>2, Zenon
    <2>2. \A g \in DOMAIN Tree.files : At(Tree'.files, g) = Tree.files[g] BY <1>1
    <2>3. to \in FileName /\ work'.map = Put(work.map, n, to) BY <1>1, <1>2
    <2> QED BY <1>1, <2>1, <2>2, <2>3, OneMore DEF c
<1>4. stable'.exists \in BOOLEAN /\ (~stable'.exists => DOMAIN stable'.files = {})
    BY <1>1 DEF StableOK, CopyOK
<1> QED BY <1>1, <1>3, <1>4, StillCopying, Zenon DEF Shapes

(* The work of CopyIndex, field by field.                                  *)
Done(i, m) == [work EXCEPT !.index = i, !.manifest = m]
Indexed(i, m, index) == [Done(i, m) EXCEPT !.tree.index = index]
Fields(i, m, tree) == [files |-> work.files, index |-> i,
    staging |-> work.staging, tree |-> tree, known |-> work.known,
    manifest |-> m, map |-> work.map,
    writes |-> work.writes, missed |-> work.missed, old |-> work.old]

LEMMA DoneFacts == WorkShapes => \A i, m, index :
    /\ Done(i, m) = Fields(i, m, work.tree)
    /\ Indexed(i, m, index) = Fields(i, m, [files |-> work.tree.files, index |-> index])
PROOF
<1> SUFFICES ASSUME WorkShapes, NEW i, NEW m, NEW index
             PROVE  /\ Done(i, m) = Fields(i, m, work.tree)
                    /\ Indexed(i, m, index) = Fields(i, m, [files |-> work.tree.files, index |-> index])
    BY Zenon
<1> DEFINE w1 == [work EXCEPT !.index = i]
           w2 == [w1 EXCEPT !.manifest = m]
           w3 == [w2 EXCEPT !.tree.index = index]
<1>1. work = Fields(work.index, work.manifest, work.tree) BY Zenon DEF WorkShapes, Fields
<1>2. work.tree = [files |-> work.tree.files, index |-> work.tree.index] BY Zenon DEF WorkShapes
<1>3. w1 = Fields(i, work.manifest, work.tree) BY <1>1 DEF Fields
<1>4. Done(i, m) = w2 /\ Indexed(i, m, index) = w3 BY DEF Done, Indexed
<1> HIDE DEF w1
<1>5. w2 = Fields(i, m, work.tree) BY <1>3 DEF Fields
<1> HIDE DEF w2
<1>6. w3 = Fields(i, m, [files |-> work.tree.files, index |-> index]) BY <1>2, <1>5 DEF Fields
<1> HIDE DEF w3
<1> QED BY <1>4, <1>5, <1>6

(* The files stay as they are when the index is copied or merged.          *)
LEMMA CopyIndexFacts == ASSUME IInv, CopyIndex
    PROVE  /\ run = "copy" /\ run' = run /\ work.files = {}
           /\ UNCHANGED <<legacy, settings, edits, mishaps, dismissed>>
           /\ work'.files = work.files /\ work'.staging = work.staging /\ work'.known = work.known
           /\ work'.manifest = Put(work.manifest, Index, legacy.index) /\ work'.map = work.map
           /\ work'.tree.files = work.tree.files
           /\ stable'.exists = stable.exists /\ stable'.files = stable.files
           /\ Tree'.files = Tree.files /\ Shapes'
PROOF
<1> USE DEF IInv
<1>1. /\ run = "copy" /\ run' = run /\ work.files = {}
      /\ UNCHANGED <<legacy, settings, edits, mishaps, dismissed>> BY Zenon DEF CopyIndex
<1>2. PICK index : LET done == [work EXCEPT !.index = FALSE, !.manifest = Put(@, Index, legacy.index)] IN
        /\ work' = IF work.staging THEN [done EXCEPT !.tree.index = index] ELSE done
        /\ stable' = IF work.staging THEN stable ELSE [stable EXCEPT !.index = index]
    BY Zenon DEF CopyIndex
<1> DEFINE manifest == Put(work.manifest, Index, legacy.index)
           tree == IF work.staging THEN [files |-> work.tree.files, index |-> index] ELSE work.tree
<1>3. /\ work' = IF work.staging THEN Indexed(FALSE, manifest, index) ELSE Done(FALSE, manifest)
      /\ stable' = IF work.staging THEN stable ELSE [stable EXCEPT !.index = index]
    BY <1>2 DEF Indexed, Done
<1>4. work.tree = [files |-> work.tree.files, index |-> work.tree.index] /\ work.missed \in BOOLEAN
    BY Zenon DEF Shapes, WorkShapes
<1>5. tree.files = work.tree.files /\ tree = [files |-> tree.files, index |-> tree.index] BY <1>4
<1>6. /\ Done(FALSE, manifest) = Fields(FALSE, manifest, work.tree)
      /\ Indexed(FALSE, manifest, index)
            = Fields(FALSE, manifest, [files |-> work.tree.files, index |-> index])
    BY DoneFacts, Zenon DEF Shapes
<1> HIDE DEF manifest
<1>7. work' = Fields(FALSE, manifest, tree) BY <1>3, <1>6, Zenon
<1>8. work' = [files |-> work.files, index |-> FALSE,
               staging |-> work.staging, tree |-> tree, known |-> work.known,
               manifest |-> manifest, map |-> work.map,
               writes |-> work.writes, missed |-> work.missed, old |-> work.old]
    BY <1>7, Zenon DEF Fields
<1> HIDE DEF tree
<1>9. /\ work'.files = work.files /\ work'.staging = work.staging /\ work'.known = work.known
       /\ work'.manifest = manifest /\ work'.map = work.map
       /\ work'.tree.files = work.tree.files BY <1>5, <1>8
<1>10. /\ stable' = [exists |-> stable.exists, files |-> stable.files, index |-> stable'.index]
       /\ stable'.exists = stable.exists /\ stable'.files = stable.files
    BY <1>3 DEF Shapes, RootShapes
<1>11. Shapes'
    <2>1. RootShapes' BY <1>1, <1>10 DEF Shapes, RootShapes
    <2>2. WorkShapes' BY <1>4, <1>5, <1>8 DEF WorkShapes
    <2> QED BY <2>1, <2>2, Zenon DEF Shapes
<1>12. Tree'.files = Tree.files BY <1>9, <1>10 DEF Tree
<1> QED BY <1>1, <1>9, <1>10, <1>11, <1>12, Zenon DEF manifest

LEMMA CopyIndexStep == ASSUME IInv, CopyIndex PROVE IInv'
PROOF
<1> USE DEF IInv
<1> DEFINE manifest == Put(work.manifest, Index, legacy.index)
<1>1. /\ run = "copy" /\ run' = run /\ work.files = {}
      /\ UNCHANGED <<legacy, settings, edits, mishaps, dismissed>>
    BY CopyIndexFacts, Zenon
<1>2. /\ work'.files = work.files /\ work'.staging = work.staging /\ work'.known = work.known
      /\ work'.manifest = manifest /\ work'.map = work.map
      /\ work'.tree.files = work.tree.files
    BY CopyIndexFacts, Zenon
<1>3. stable'.exists = stable.exists /\ stable'.files = stable.files
    BY CopyIndexFacts, Zenon
<1> HIDE DEF manifest
<1>4. CopyOK'
    <2>1. /\ DOMAIN manifest = DOMAIN work.manifest \cup {Index}
          /\ \A n : n # Index => At(manifest, n) = At(work.manifest, n) BY DEF manifest, Put, At
    <2>2. Tree'.files = Tree.files BY CopyIndexFacts, Zenon
    <2>3. \A n \in DOMAIN work.map : n # Index BY <1>1, NoneIsNoContent DEF CopyOK, LegacyOK
    <2>4. (\A n \in DOMAIN work.map :
                /\ At(work.manifest, n) = legacy.files[n]
                /\ \/ work.map[n] = None
                   \/ work.map[n] \in FileName /\ At(Tree.files, work.map[n]) = legacy.files[n])'
        BY <1>1, <1>2, <2>1, <2>2, <2>3, ZenonT(40) DEF CopyOK, At
    <2>5. DOMAIN work'.manifest \subseteq DOMAIN work'.map \cup {Index} BY <1>1, <1>2, <2>1 DEF CopyOK
    <2>6. IsFiles(work.tree.files)' BY <1>1, <1>2, Zenon DEF CopyOK, IsFiles
    <2>7. /\ legacy'.exists /\ work'.staging = ~stable'.exists
          /\ work'.files \subseteq DOMAIN legacy'.files
          /\ work'.known = IF work'.staging THEN Empty ELSE settings'.manifest
          /\ DOMAIN work'.map = DOMAIN legacy'.files \ work'.files
        BY <1>1, <1>2, <1>3, Zenon DEF CopyOK
    <2> QED BY <2>4, <2>5, <2>6, <2>7, Zenon DEF CopyOK
<1>5. stable'.exists \in BOOLEAN /\ IsFiles(stable'.files) /\ (~stable'.exists => DOMAIN stable'.files = {})
    BY <1>3, Zenon DEF StableOK
<1> QED BY <1>1, <1>4, <1>5, CopyIndexFacts, StillCopying

-----------------------------------------------------------------------------
(* The commit of a start.                                                  *)

(* Where a path leads, given the files of both roots.                      *)
Lead(path, inLegacy, inStable) ==
    IF path = None THEN None
    ELSE IF path[1] = "legacy" THEN At(inLegacy, path[2].base) ELSE At(inStable, path[2])

LEMMA RemappedFollows == ASSUME LegacyOK, CopyOK, run = "copy", work.files = {}, NEW p,
        Lead(p, legacy.files, Tree.files) # None
    PROVE  Lead(Remapped(p), legacy.files, Tree.files) = Lead(p, legacy.files, Tree.files)
PROOF
<1>1. CASE p = None \/ p[1] # "legacy"
    <2>1. Remapped(p) = p BY <1>1, Zenon DEF Remapped
    <2> QED BY <2>1, Zenon
<1>2. CASE p # None /\ p[1] = "legacy"
    <2> DEFINE n == p[2].base
    <2>1. Lead(p, legacy.files, Tree.files) = At(legacy.files, n) BY <1>2, Zenon DEF Lead
    <2>2. n \in DOMAIN legacy.files /\ At(legacy.files, n) = legacy.files[n] BY <2>1, Zenon DEF At
    <2>3. DOMAIN work.map = DOMAIN legacy.files BY DEF CopyOK
    <2>4. Remapped(p) = IF work.map[n] = None THEN p ELSE InStable(work.map[n])
        BY <1>2, <2>2, <2>3, Zenon DEF Remapped
    <2>5. CASE work.map[n] = None BY <2>4, <2>5, Zenon
    <2>6. CASE work.map[n] # None
        <3> HIDE DEF n
        <3>1. work.map[n] \in FileName /\ At(Tree.files, work.map[n]) = legacy.files[n]
            BY <2>2, <2>3, <2>6, Zenon DEF CopyOK
        <3> DEFINE q == <<"stable", work.map[n]>>
        <3>2. q \in {"legacy", "stable"} \X FileName BY <3>1
        <3>3. q # None BY <3>2, UserDataAssumption, Zenon
        <3>4. q[1] # "legacy" /\ q[2] = work.map[n] OBVIOUS
        <3>5. Lead(q, legacy.files, Tree.files) = At(Tree.files, work.map[n])
            BY <3>3, <3>4, Zenon DEF Lead
        <3> QED BY <2>1, <2>2, <2>4, <2>6, <3>1, <3>5, Zenon DEF InStable
    <2> QED BY <2>5, <2>6, Zenon
<1> QED BY <1>1, <1>2, Zenon

(* The root, the manifest and the remembered files, in this order.         *)
IsListing(s, r, m, paths) ==
    /\ IsSeq(s)
    /\ \A i \in DOMAIN s : \/ s[i] = r \/ s[i] = m
                           \/ \E k \in PathKey : s[i] = [key |-> k, value |-> paths[k]]
    /\ \E i \in DOMAIN s : s[i] = m

LEMMA Listed == \A r, m, paths : DOMAIN paths = PathKey =>
    IsListing(<<r, m>> \o PathWrites(paths), r, m, paths)
PROOF
<1> SUFFICES ASSUME NEW r, NEW m, NEW paths, DOMAIN paths = PathKey
             PROVE  IsListing(<<r, m>> \o PathWrites(paths), r, m, paths) BY Zenon
<1> DEFINE K == {k \in PathKey : paths[k] # None}
           W(k) == [key |-> k, value |-> paths[k]]
           P == {W(k) : k \in K}
           S == {r, m} \cup P
           two == <<r, m>>  more == PathWrites(paths)
<1>1. IsFiniteSet(K) BY UserDataAssumption, FS_Subset
<1>2. [k \in K |-> W(k)] \in Surjection(K, P) BY DEF Surjection
<1>3. IsFiniteSet(P) BY <1>1, <1>2, FS_Surjection, Zenon
<1>4. more = SetToSeq(P) BY Zenon DEF PathWrites
<1>5. more \in Seq(P) BY <1>3, <1>4, SetAsSeq, Zenon
<1>6. P \subseteq S OBVIOUS
<1> HIDE DEF P, more
<1>7. more \in Seq(S) BY <1>5, <1>6, SeqMonotonic, Zenon
<1>8. two \in Seq(S) /\ DOMAIN two = {1, 2} /\ two[1] = r /\ two[2] = m OBVIOUS
<1>9. DOMAIN more = 1 .. Len(more) /\ \A j \in 1 .. Len(more) : more[j] \in P
    BY <1>5, LenProperties, ElementOfSeq, Zenon
<1> HIDE DEF two, S
<1>10. IsJoin(two \o more, two, more) BY <1>7, <1>8, Joined, Zenon
<1> DEFINE s == two \o more
<1> HIDE DEF s
<1>11. IsJoin(s, two, more) BY <1>10, Zenon DEF s
<1>12. \A w \in P : \E k \in PathKey : w = W(k) BY DEF P
<1>13. \A i \in DOMAIN s : \/ s[i] = r \/ s[i] = m \/ \E k \in PathKey : s[i] = W(k)
    BY <1>8, <1>9, <1>12, <1>11 DEF IsJoin
<1>14. 2 \in DOMAIN s /\ s[2] = m BY <1>8, <1>11 DEF IsJoin
<1>15. IsSeq(s) BY <1>11, Zenon DEF IsJoin
<1> QED BY <1>13, <1>14, <1>15, Zenon DEF s, two, more, IsListing

(* What a whole copy commits and, if that fails, puts back.                *)
LEMMA CopiedFacts == ASSUME IInv, Copied
    PROVE  LET r == RootWrite  m == [key |-> "manifest", value |-> work.manifest]
               r0 == [key |-> "root", value |-> settings.root]
               m0 == [key |-> "manifest", value |-> settings.manifest]
           IN
           /\ run = "copy" /\ run' = "persist" /\ work.files = {}
           /\ UNCHANGED <<legacy, settings, edits, mishaps, dismissed>>
           /\ work'.writes = Commits /\ work'.old = Snapshot /\ work'.manifest = work.manifest
           /\ WorkShapes' /\ RootShapes'
           /\ stable'.exists = TRUE /\ stable'.files = Tree.files /\ IsFiles(stable'.files)
           /\ IsSeq(Commits)
           /\ \A i \in DOMAIN Commits : \/ Commits[i] = r \/ Commits[i] = m
                  \/ \E k \in PathKey : Commits[i] = [key |-> k, value |-> Remapped(settings.paths[k])]
           /\ \E i \in DOMAIN Commits : Commits[i] = m
           /\ IsSeq(Snapshot)
           /\ \A i \in DOMAIN Snapshot : \/ Snapshot[i] = r0 \/ Snapshot[i] = m0
                  \/ \E k \in PathKey : Snapshot[i] = [key |-> k, value |-> settings.paths[k]]
PROOF
<1> USE DEF IInv
<1> DEFINE r == RootWrite  m == [key |-> "manifest", value |-> work.manifest]
           r0 == [key |-> "root", value |-> settings.root]
           m0 == [key |-> "manifest", value |-> settings.manifest]
           paths == [k \in PathKey |-> Remapped(settings.paths[k])]
<1>1. /\ run = "copy" /\ run' = "persist" /\ work.files = {}
      /\ UNCHANGED <<legacy, settings, edits, mishaps, dismissed>>
      /\ work' = [work EXCEPT !.writes = Commits, !.old = Snapshot] BY Zenon DEF Copied
<1>2. /\ work'.writes = Commits /\ work'.old = Snapshot /\ work'.manifest = work.manifest
      /\ WorkShapes'
    <2> DEFINE w1 == [work EXCEPT !.writes = Commits]  w2 == [w1 EXCEPT !.old = Snapshot]
               Work(w, o) == [files |-> work.files, index |-> work.index, staging |-> work.staging,
                   tree |-> work.tree, known |-> work.known, manifest |-> work.manifest,
                   map |-> work.map, writes |-> w, missed |-> work.missed, old |-> o]
    <2>1. work = Work(work.writes, work.old) BY Zenon DEF Shapes, WorkShapes
    <2>2. work' = w2 BY <1>1
    <2>3. w1 = Work(Commits, work.old) BY <2>1
    <2> HIDE DEF w1
    <2>4. w2 = Work(Commits, Snapshot) BY <2>3
    <2> HIDE DEF w2
    <2>5. work.tree = [files |-> work.tree.files, index |-> work.tree.index] /\ work.missed \in BOOLEAN
        BY Zenon DEF Shapes, WorkShapes
    <2>6. work' = Work(Commits, Snapshot) BY <2>2, <2>4, Zenon
    <2> QED BY <2>5, <2>6 DEF WorkShapes
<1>3. /\ stable' = [exists |-> TRUE, files |-> Tree.files, index |-> stable'.index]
      /\ stable'.exists = TRUE /\ stable'.files = Tree.files
      /\ IsFiles(stable'.files)
    <2>1. work.staging = ~stable.exists /\ IsFiles(work.tree.files) /\ IsFiles(stable.files)
        BY <1>1, Zenon DEF CopyOK, StableOK
    <2>2. stable.exists \in BOOLEAN
          /\ stable = [exists |-> stable.exists, files |-> stable.files, index |-> stable.index]
        BY Zenon DEF StableOK, Shapes, RootShapes
    <2>3. stable' = IF work.staging
                    THEN [exists |-> TRUE, files |-> work.tree.files, index |-> work.tree.index]
                    ELSE stable BY Zenon DEF Copied
    <2> QED BY <2>1, <2>2, <2>3 DEF Tree
<1>4. /\ IsSeq(Commits)
      /\ \A i \in DOMAIN Commits : \/ Commits[i] = r \/ Commits[i] = m
              \/ \E k \in PathKey : Commits[i] = [key |-> k, value |-> Remapped(settings.paths[k])]
      /\ \E i \in DOMAIN Commits : Commits[i] = m
    <2>1. DOMAIN paths = PathKey /\ \A k \in PathKey : paths[k] = Remapped(settings.paths[k]) OBVIOUS
    <2>2. Commits = <<r, m>> \o PathWrites(paths) BY DEF Commits
    <2> HIDE DEF paths, r, m
    <2>3. IsListing(Commits, r, m, paths) BY <2>1, <2>2, Listed, Zenon
    <2> QED BY <2>1, <2>3, Zenon DEF IsListing
<1>5. /\ IsSeq(Snapshot)
      /\ \A i \in DOMAIN Snapshot : \/ Snapshot[i] = r0 \/ Snapshot[i] = m0
              \/ \E k \in PathKey : Snapshot[i] = [key |-> k, value |-> settings.paths[k]]
    <2>1. DOMAIN settings.paths = PathKey BY DEF Shapes, RootShapes
    <2>2. Snapshot = <<r0, m0>> \o PathWrites(settings.paths) BY DEF Snapshot
    <2> HIDE DEF r0, m0
    <2>3. IsListing(Snapshot, r0, m0, settings.paths) BY <2>1, <2>2, Listed, Zenon
    <2> QED BY <2>3, Zenon DEF IsListing
<1>6. RootShapes' BY <1>1, <1>3 DEF Shapes, RootShapes
<1> HIDE DEF r, m, r0, m0
<1> QED BY <1>1, <1>2, <1>3, <1>4, <1>5, <1>6, Zenon DEF r, m, r0, m0

LEMMA CopiedStep == ASSUME IInv, Copied PROVE IInv'
PROOF
<1> USE DEF IInv
<1> DEFINE r == RootWrite  m == [key |-> "manifest", value |-> work.manifest]
           r0 == [key |-> "root", value |-> settings.root]
           m0 == [key |-> "manifest", value |-> settings.manifest]
<1>1. /\ run = "copy" /\ run' = "persist" /\ work.files = {}
      /\ UNCHANGED <<legacy, settings, edits, mishaps, dismissed>>
    BY CopiedFacts, Zenon
<1>2. /\ work'.writes = Commits /\ work'.old = Snapshot /\ work'.manifest = work.manifest
      /\ WorkShapes' /\ RootShapes'
    BY CopiedFacts, Zenon
<1>3. stable'.exists = TRUE /\ stable'.files = Tree.files /\ IsFiles(stable'.files)
    BY CopiedFacts, Zenon
<1>4. /\ IsSeq(Commits)
      /\ \A i \in DOMAIN Commits : \/ Commits[i] = r \/ Commits[i] = m
              \/ \E k \in PathKey : Commits[i] = [key |-> k, value |-> Remapped(settings.paths[k])]
      /\ \E i \in DOMAIN Commits : Commits[i] = m
    BY CopiedFacts, Zenon
<1>5. /\ IsSeq(Snapshot)
      /\ \A i \in DOMAIN Snapshot : \/ Snapshot[i] = r0 \/ Snapshot[i] = m0
              \/ \E k \in PathKey : Snapshot[i] = [key |-> k, value |-> settings.paths[k]]
    BY CopiedFacts, Zenon
<1>6. r.key = "root" /\ r0.key = "root" /\ m.key = "manifest" /\ m.value = work.manifest
      /\ m0.key = "manifest" /\ m0.value = settings.manifest BY DEF RootWrite
<1>7. PathKey \cap {"root", "manifest"} = {} BY UserDataAssumption
<1> HIDE DEF r, m, r0, m0
<1>8. /\ legacy.exists /\ DOMAIN work.map = DOMAIN legacy.files
      /\ DOMAIN work.manifest \subseteq DOMAIN legacy.files \cup {Index}
      /\ \A n \in DOMAIN legacy.files : At(work.manifest, n) = legacy.files[n]
    BY <1>1 DEF CopyOK
<1>9. Full(work.manifest) BY <1>8, Zenon DEF Full
<1>10. IsManifest(work.manifest) /\ IsManifest(settings.manifest)
    BY <1>8 DEF IsManifest, LegacyOK, FilesTypeOK
<1>11. Agrees(work.manifest) /\ Agrees(settings.manifest)
    <2>1. ASSUME NEW n \in Name, NEW c \in Content, <<n, c, FALSE>> \in dismissed
          PROVE  At(work.manifest, n) = c
        <3>1. At(legacy.files, n) = c BY <2>1, Zenon DEF DismissedOK, Agrees
        <3>2. n \in DOMAIN legacy.files /\ legacy.files[n] = c BY <3>1, NoneIsNoContent, Zenon DEF At
        <3> QED BY <1>8, <3>2, Zenon
    <2> QED BY <2>1, Zenon DEF DismissedOK, Agrees
<1>12. Shapes' /\ FilesTypeOK'
    <2>1. FilesTypeOK' BY <1>1, <1>3 DEF FilesTypeOK
    <2> QED BY <1>2, <2>1, Zenon DEF Shapes
<1>13. LegacyOK' /\ DismissedOK' BY <1>1, Zenon DEF LegacyOK, DismissedOK, Agrees, At
<1>14. StableOK' /\ CopyOK' /\ SettledOK' BY <1>1, <1>3 DEF StableOK, IsFiles, CopyOK, SettledOK
<1>15. WritesOK'
    <2>1. \A i \in DOMAIN Commits : LET w == Commits[i] IN
            \/ w.key = "root" \/ w.key \in PathKey
            \/ w.key = "manifest" /\ w.value = work.manifest BY <1>4, <1>6
    <2>2. \A i \in DOMAIN Snapshot : LET w == Snapshot[i] IN
            \/ w.key = "root" \/ w.key \in PathKey
            \/ w.key = "manifest" /\ w.value = settings.manifest BY <1>5, <1>6
    <2>3. (\A i \in DOMAIN work.writes : IsWrite(work.writes[i]))'
        <3> SUFFICES ASSUME NEW i \in DOMAIN work'.writes PROVE IsWrite(work.writes[i])' OBVIOUS
        <3>1. LET w == work'.writes[i] IN
                \/ w.key = "root" \/ w.key \in PathKey
                \/ w.key = "manifest" /\ w.value = work.manifest BY <1>2, <2>1
        <3>2. legacy'.exists /\ dismissed' = dismissed BY <1>1, <1>8
        <3> QED BY <1>10, <1>11, <3>1, <3>2 DEF IsWrite, IsManifest, Agrees, At
    <2>4. (\A i \in DOMAIN work.old : IsWrite(work.old[i]))'
        <3> SUFFICES ASSUME NEW i \in DOMAIN work'.old PROVE IsWrite(work.old[i])' OBVIOUS
        <3>1. LET w == work'.old[i] IN
                \/ w.key = "root" \/ w.key \in PathKey
                \/ w.key = "manifest" /\ w.value = settings.manifest BY <1>2, <2>2
        <3>2. legacy'.exists /\ dismissed' = dismissed BY <1>1, <1>8
        <3> QED BY <1>10, <1>11, <3>1, <3>2 DEF IsWrite, IsManifest, Agrees, At
    <2>5. IsSeq(work.writes)' /\ IsSeq(work.old)' BY <1>2, <1>4, <1>5 DEF IsSeq
    <2> QED BY <2>3, <2>4, <2>5, Zenon DEF WritesOK
<1>16. PersistOK'
    <2>1. \A i \in DOMAIN Commits : Commits[i].key = "manifest" => Commits[i].value = work.manifest
        BY <1>4, <1>6, <1>7
    <2>2. \A i \in DOMAIN Commits : Commits[i].key \in PathKey =>
            Commits[i].value = Remapped(settings.paths[Commits[i].key]) BY <1>4, <1>6, <1>7
    <2>3. \A i, j \in DOMAIN Commits : Commits[i].key = Commits[j].key => Commits[i].value = Commits[j].value
        <3>1. \A i \in DOMAIN Commits : Commits[i].key = "root" => Commits[i] = r
            BY <1>4, <1>6, <1>7
        <3>2. \A i \in DOMAIN Commits : Commits[i].key \in {"root", "manifest"} \cup PathKey
            BY <1>4, <1>6
        <3> QED BY <2>1, <2>2, <3>1, <3>2
    <2>4. \A p : Lead(p, legacy.files, Tree.files) # None =>
            Lead(Remapped(p), legacy.files, Tree.files) = Lead(p, legacy.files, Tree.files)
        BY <1>1, RemappedFollows, Zenon
    <2>5. (\A i \in DOMAIN work.writes :
            work.writes[i].key \in PathKey => Follows(work.writes[i].value, settings.paths[work.writes[i].key]))'
        <3>1. \A i \in DOMAIN Commits : Commits[i].key \in PathKey =>
                LET p == settings.paths[Commits[i].key] IN
                Lead(p, legacy.files, Tree.files) # None =>
                    Lead(Commits[i].value, legacy.files, Tree.files) = Lead(p, legacy.files, Tree.files)
            BY <2>2, <2>4, Zenon
        <3> QED BY <1>1, <1>2, <1>3, <3>1 DEF Follows, LeadsTo, Lead
    <2>6. Full(work.manifest)' BY <1>1, <1>2, <1>9, Zenon DEF Full, At
    <2>7. (\E i \in DOMAIN work.writes : work.writes[i].key = "manifest")' BY <1>2, <1>4, <1>6
    <2> QED BY <1>2, <2>1, <2>3, <2>5, <2>6, <2>7, Zenon DEF PersistOK
<1> QED BY <1>12, <1>13, <1>14, <1>15, <1>16

(* One write leaves the pending list, and the setting has its value, or    *)
(* the write is missed.                                                    *)
LEMMA WriteFacts == ASSUME IInv, WriteNext
    PROVE  LET w == work.writes[1] IN
           /\ run \in {"persist", "restore"} /\ run' = run /\ 1 \in DOMAIN work.writes
           /\ UNCHANGED <<legacy, stable, edits, dismissed>>
           /\ mishaps' \in 0 .. MaxMishaps
           /\ work.missed => work'.missed
           /\ work'.writes = Tail(work.writes) /\ work'.old = work.old /\ work'.manifest = work.manifest
           /\ WorkShapes'
           /\ \/ work'.missed /\ settings' = settings
              \/ work'.missed = work.missed /\ Set(w.key, w.value)
PROOF
<1> DEFINE w == work.writes[1]
           Work(ws, missed) == [files |-> work.files, index |-> work.index, staging |-> work.staging,
               tree |-> work.tree, known |-> work.known, manifest |-> work.manifest,
               map |-> work.map, writes |-> ws, missed |-> missed, old |-> work.old]
<1>1. /\ run \in {"persist", "restore"} /\ run' = run /\ work.writes # <<>>
      /\ UNCHANGED <<legacy, stable, edits, dismissed>> BY Zenon DEF WriteNext
<1>2. IsSeq(work.writes) BY <1>1, Zenon DEF IInv, WritesOK
<1>3. 1 \in DOMAIN work.writes /\ Head(work.writes) = w BY <1>1, <1>2, HeadAndTail, Zenon
<1>4. work = Work(work.writes, work.missed) BY Zenon DEF IInv, Shapes, WorkShapes
<1>5. work.tree = [files |-> work.tree.files, index |-> work.tree.index] /\ work.missed \in BOOLEAN
    BY Zenon DEF IInv, Shapes, WorkShapes
<1>6. CASE Set(w.key, w.value) /\ work' = [work EXCEPT !.writes = Tail(@)] /\ UNCHANGED mishaps
    <2>1. work' = Work(Tail(work.writes), work.missed) BY <1>4, <1>6
    <2>2. mishaps' \in 0 .. MaxMishaps BY <1>6, Zenon DEF IInv, FilesTypeOK
    <2>3. /\ work'.writes = Tail(work.writes) /\ work'.old = work.old /\ work'.manifest = work.manifest
          /\ work'.missed = work.missed /\ WorkShapes' BY <1>5, <2>1 DEF WorkShapes
    <2> QED BY <1>1, <1>3, <1>5, <1>6, <2>2, <2>3, Zenon
<1>7. CASE Mishap /\ work' = [work EXCEPT !.writes = Tail(@), !.missed = TRUE] /\ UNCHANGED settings
    <2> DEFINE rest == Tail(work.writes)
               w1 == [work EXCEPT !.writes = rest]  w2 == [w1 EXCEPT !.missed = TRUE]
    <2>2. work' = w2 BY <1>7
    <2> HIDE DEF rest
    <2>1. w1 = Work(rest, work.missed) BY <1>4
    <2> HIDE DEF w1
    <2>6. work' = Work(rest, TRUE) BY <2>1, <2>2
    <2>3. work' = Work(Tail(work.writes), TRUE) BY <2>6, Zenon DEF rest
    <2>4. mishaps' \in 0 .. MaxMishaps BY <1>7, UserDataAssumption DEF Mishap, IInv, FilesTypeOK
    <2>5. /\ work'.writes = Tail(work.writes) /\ work'.old = work.old /\ work'.manifest = work.manifest
          /\ work'.missed /\ WorkShapes' BY <1>5, <2>3 DEF WorkShapes
    <2> QED BY <1>1, <1>3, <1>5, <1>7, <2>4, <2>5, Zenon
<1> QED BY <1>3, <1>6, <1>7, Zenon DEF WriteNext

(* What a write does to the settings.                                      *)
LEMMA SetFacts == ASSUME RootShapes, NEW key, NEW value, Set(key, value),
        key = "root" \/ key = "manifest" \/ key \in PathKey
    PROVE  /\ settings' = [root |-> settings'.root, manifest |-> settings'.manifest, paths |-> settings'.paths]
           /\ settings'.paths = [k \in PathKey |-> settings'.paths[k]]
           /\ settings'.manifest = IF key = "manifest" THEN value ELSE settings.manifest
           /\ \A k \in PathKey : settings'.paths[k] = IF key = k THEN value ELSE settings.paths[k]
PROOF
<1>0. PathKey \cap {"root", "manifest"} = {} BY UserDataAssumption
<1>1. /\ settings = [root |-> settings.root, manifest |-> settings.manifest, paths |-> settings.paths]
      /\ settings.paths = [k \in PathKey |-> settings.paths[k]] BY Zenon DEF RootShapes
<1>2. CASE key = "root"
    <2>1. settings' = [settings EXCEPT !.root = value] BY <1>2 DEF Set
    <2> QED BY <1>0, <1>1, <1>2, <2>1
<1>3. CASE key = "manifest"
    <2>1. settings' = [settings EXCEPT !.manifest = value] BY <1>3 DEF Set
    <2> QED BY <1>0, <1>1, <1>3, <2>1
<1>4. CASE key \in PathKey
    <2>1. settings' = [settings EXCEPT !.paths[key] = value] BY <1>0, <1>4 DEF Set
    <2>2. settings' = [root |-> settings.root, manifest |-> settings.manifest,
                       paths |-> [settings.paths EXCEPT ![key] = value]] BY <1>1, <2>1
    <2>3. [settings.paths EXCEPT ![key] = value] = [k \in PathKey |-> IF key = k THEN value ELSE settings.paths[k]]
        BY <1>1
    <2> QED BY <1>0, <1>4, <2>2, <2>3
<1> QED BY <1>2, <1>3, <1>4

LEMMA WriteNextStep == ASSUME IInv, WriteNext PROVE IInv'
PROOF
<1> USE DEF IInv
<1> DEFINE w == work.writes[1]
<1>1. /\ run \in {"persist", "restore"} /\ run' = run /\ 1 \in DOMAIN work.writes
      /\ UNCHANGED <<legacy, stable, edits, dismissed>>
      /\ mishaps' \in 0 .. MaxMishaps
      /\ work.missed => work'.missed
      /\ work'.writes = Tail(work.writes) /\ work'.old = work.old /\ work'.manifest = work.manifest
      /\ WorkShapes'
      /\ \/ work'.missed /\ settings' = settings
         \/ work'.missed = work.missed /\ Set(w.key, w.value)
    BY WriteFacts, Zenon
<1> DEFINE ws == work'.writes
<1>2. /\ IsSeq(ws)
      /\ \A i \in DOMAIN ws : i + 1 \in DOMAIN work.writes /\ ws[i] = work.writes[i + 1]
      /\ \A i \in DOMAIN work.writes : i = 1 \/ (i - 1 \in DOMAIN ws /\ work.writes[i] = ws[i - 1])
    <2>1. IsSeq(work.writes) BY <1>1, Zenon DEF WritesOK
    <2>2. work.writes # <<>> BY Zenon DEF WriteNext
    <2> QED BY <1>1, <2>1, <2>2, HeadAndTail
<1>3. IsWrite(w) BY <1>1, Zenon DEF WritesOK
<1>4. /\ settings' = [root |-> settings'.root, manifest |-> settings'.manifest, paths |-> settings'.paths]
      /\ settings'.paths = [k \in PathKey |-> settings'.paths[k]]
      /\ \/ /\ work'.missed
            /\ settings'.manifest = settings.manifest
            /\ \A k \in PathKey : settings'.paths[k] = settings.paths[k]
         \/ /\ settings'.manifest = IF w.key = "manifest" THEN w.value ELSE settings.manifest
            /\ \A k \in PathKey : settings'.paths[k] = IF w.key = k THEN w.value ELSE settings.paths[k]
    <2>1. CASE work'.missed /\ settings' = settings BY <2>1, Zenon DEF Shapes, RootShapes
    <2>2. CASE Set(w.key, w.value)
        <3>1. w.key = "root" \/ w.key = "manifest" \/ w.key \in PathKey BY <1>3, Zenon DEF IsWrite
        <3> HIDE DEF w
        <3> QED BY <2>2, <3>1, SetFacts DEF Shapes
    <2> QED BY <1>1, <2>1, <2>2, Zenon
<1> HIDE DEF ws, w
<1>5. /\ settings'.manifest = settings.manifest
         \/ (w.key = "manifest" /\ settings'.manifest = w.value /\ legacy.exists
             /\ IsManifest(w.value) /\ Agrees(w.value))
    <2>1. w.key = "manifest" => w.key \notin PathKey BY UserDataAssumption
    <2> QED BY <1>3, <1>4, <2>1 DEF IsWrite
<1>6. Shapes' BY <1>1, <1>4, Zenon DEF Shapes, RootShapes
<1>7. FilesTypeOK' BY <1>1, <1>5 DEF FilesTypeOK, IsManifest
<1>8. LegacyOK' BY <1>1, <1>5 DEF LegacyOK
<1>9. StableOK' /\ CopyOK' /\ SettledOK' BY <1>1 DEF StableOK, IsFiles, CopyOK, SettledOK
<1>10. DismissedOK' BY <1>1, <1>5 DEF DismissedOK, Agrees, At
<1>11. WritesOK'
    <2>1. (\A i \in DOMAIN work.writes : IsWrite(work.writes[i]))'
        <3> SUFFICES ASSUME NEW i \in DOMAIN work'.writes PROVE IsWrite(work.writes[i])' OBVIOUS
        <3>1. PICK j \in DOMAIN work.writes : work'.writes[i] = work.writes[j] BY <1>2 DEF ws
        <3>2. IsWrite(work.writes[j]) BY <1>1, Zenon DEF WritesOK
        <3> QED BY <1>1, <3>1, <3>2 DEF IsWrite, Agrees, IsManifest, At
    <2>2. (\A i \in DOMAIN work.old : IsWrite(work.old[i]))'
        <3> SUFFICES ASSUME NEW i \in DOMAIN work'.old PROVE IsWrite(work.old[i])' OBVIOUS
        <3>1. i \in DOMAIN work.old /\ work'.old[i] = work.old[i] /\ IsWrite(work.old[i])
            BY <1>1, Zenon DEF WritesOK
        <3> QED BY <1>1, <3>1 DEF IsWrite, Agrees, IsManifest, At
    <2>3. IsSeq(work.writes)' BY <1>2 DEF IsSeq, ws
    <2>4. IsSeq(work.old)' BY <1>1 DEF WritesOK, IsSeq
    <2> QED BY <2>1, <2>2, <2>3, <2>4, Zenon DEF WritesOK
<1>12. PersistOK'
    <2> SUFFICES ASSUME run = "persist" PROVE PersistOK' BY <1>1, Zenon DEF PersistOK
    <2>1. \A i, j \in DOMAIN work.writes : work.writes[j].key = work.writes[i].key =>
              work.writes[j].value = work.writes[i].value BY Zenon DEF PersistOK
    <2>2. \A i \in DOMAIN ws : \E j \in DOMAIN work.writes : ws[i] = work.writes[j] BY <1>2
    <2>3. (legacy.exists => Full(work.manifest))' BY <1>1, Zenon DEF PersistOK, Full, At
    <2>4. (\A i \in DOMAIN work.writes : work.writes[i].key = "manifest" => work.writes[i].value = work.manifest)'
        <3> SUFFICES ASSUME NEW i \in DOMAIN work'.writes, work'.writes[i].key = "manifest"
                     PROVE  work'.writes[i].value = work'.manifest OBVIOUS
        <3>1. PICK j \in DOMAIN work.writes : work'.writes[i] = work.writes[j] BY <2>2, Zenon DEF ws
        <3>2. work.writes[j].value = work.manifest BY <3>1, Zenon DEF PersistOK
        <3> QED BY <1>1, <3>1, <3>2, Zenon
    <2>5. (\A i, j \in DOMAIN work.writes : work.writes[j].key = work.writes[i].key =>
              work.writes[j].value = work.writes[i].value)'
        <3> SUFFICES ASSUME NEW i \in DOMAIN work'.writes, NEW j \in DOMAIN work'.writes,
                            work'.writes[j].key = work'.writes[i].key
                     PROVE  work'.writes[j].value = work'.writes[i].value OBVIOUS
        <3>1. PICK i0 \in DOMAIN work.writes : work'.writes[i] = work.writes[i0] BY <2>2, Zenon DEF ws
        <3>2. PICK j0 \in DOMAIN work.writes : work'.writes[j] = work.writes[j0] BY <2>2, Zenon DEF ws
        <3>3. work.writes[j0].value = work.writes[i0].value BY <2>1, <3>1, <3>2, ZenonT(40)
        <3> QED BY <3>1, <3>2, <3>3, Zenon
    <2>6. (\A i \in DOMAIN work.writes :
              work.writes[i].key \in PathKey => Follows(work.writes[i].value, settings.paths[work.writes[i].key]))'
        <3> SUFFICES ASSUME NEW i \in DOMAIN work'.writes, work'.writes[i].key \in PathKey
                     PROVE  Follows(work.writes[i].value, settings.paths[work.writes[i].key])' OBVIOUS
        <3>1. PICK j \in DOMAIN work.writes : work'.writes[i] = work.writes[j] BY <2>2, Zenon DEF ws
        <3> DEFINE k == work'.writes[i].key  v == work'.writes[i].value
        <3>2. Follows(v, settings.paths[k]) BY <3>1, Zenon DEF PersistOK
        <3>3. settings'.paths[k] = settings.paths[k] \/ settings'.paths[k] = v
            <4>1. w.key = k => w.value = v BY <1>1, <2>1, <3>1, ZenonT(40) DEF w
            <4> QED BY <1>4, <4>1, Zenon
        <3> QED BY <1>1, <3>2, <3>3 DEF Follows, LeadsTo
    <2>7. (\/ ~legacy.exists \/ work.missed \/ settings.manifest = work.manifest
           \/ \E i \in DOMAIN work.writes : work.writes[i].key = "manifest")'
        <3>1. CASE ~legacy.exists \/ work'.missed BY <1>1, <3>1, Zenon
        <3>2. CASE legacy.exists /\ ~work'.missed /\ w.key = "manifest"
            <4>1. w.value = work.manifest BY <1>1, <3>2, Zenon DEF PersistOK, w
            <4>2. settings'.manifest = w.value BY <1>4, <3>2, Zenon
            <4> QED BY <1>1, <4>1, <4>2, Zenon
        <3>3. CASE legacy.exists /\ ~work'.missed /\ w.key # "manifest"
            <4>1. settings'.manifest = settings.manifest BY <1>4, <3>3, Zenon
            <4>2. ~work.missed BY <1>1, <3>3, Zenon
            <4>3. CASE settings.manifest = work.manifest BY <1>1, <4>1, <4>3, Zenon
            <4>4. CASE \E i \in DOMAIN work.writes : work.writes[i].key = "manifest"
                <5>1. PICK i \in DOMAIN work.writes : work.writes[i].key = "manifest" BY <4>4, Zenon
                <5>2. i # 1 BY <3>3, <5>1 DEF w
                <5>3. \E j \in DOMAIN ws : ws[j].key = "manifest" BY <1>2, <5>1, <5>2, Zenon
                <5> QED BY <5>3, Zenon DEF ws
            <4> QED BY <3>3, <4>2, <4>3, <4>4, Zenon DEF PersistOK
        <3> QED BY <3>1, <3>2, <3>3, Zenon
    <2> QED BY <2>3, <2>4, <2>5, <2>6, <2>7, Zenon DEF PersistOK
<1> QED BY <1>6, <1>7, <1>8, <1>9, <1>10, <1>11, <1>12

LEMMA PersistedStep == ASSUME IInv, Persisted PROVE IInv'
PROOF
<1> USE DEF IInv
<1>1. /\ run = "persist" /\ work.writes = <<>>
      /\ UNCHANGED <<legacy, stable, settings, edits, mishaps, dismissed>> BY Zenon DEF Persisted
<1>2. LegacyOK' /\ DismissedOK' BY <1>1, Zenon DEF LegacyOK, DismissedOK, Agrees, At
<1>3. RootShapes' BY <1>1, Zenon DEF Shapes, RootShapes
<1>4. CASE ~work.missed /\ run' = "stable" /\ work' = NoWork
    <2>1. WorkShapes' BY <1>4 DEF WorkShapes, NoWork, NoTree
    <2>2. legacy.exists => Full(settings.manifest)
        <3>1. ~\E i \in DOMAIN work.writes : work.writes[i].key = "manifest" BY <1>1
        <3> QED BY <1>1, <1>4, <3>1, Zenon DEF PersistOK
    <2>3. SettledOK' BY <1>1, <2>2, Zenon DEF SettledOK, Full, At
    <2>4. FilesTypeOK' /\ StableOK' BY <1>1, <1>4 DEF FilesTypeOK, StableOK, IsFiles
    <2>5. run' \notin {"copy", "persist", "restore"} BY <1>4
    <2> QED BY <1>2, <1>3, <2>1, <2>3, <2>4, <2>5, Idle, Zenon DEF Shapes
<1>5. CASE work.missed /\ run' = "restore" /\ work' = [work EXCEPT !.writes = work.old]
    <2> DEFINE Work(ws) == [files |-> work.files, index |-> work.index, staging |-> work.staging,
               tree |-> work.tree, known |-> work.known, manifest |-> work.manifest,
               map |-> work.map, writes |-> ws, missed |-> work.missed, old |-> work.old]
    <2>1. work = Work(work.writes) BY Zenon DEF Shapes, WorkShapes
    <2>2. work' = Work(work.old)
        <3> DEFINE old == work.old
        <3>1. work' = [work EXCEPT !.writes = old] BY <1>5
        <3> HIDE DEF old
        <3>2. work' = Work(old) BY <2>1, <3>1
        <3> QED BY <3>2, Zenon DEF old
    <2>3. work.tree = [files |-> work.tree.files, index |-> work.tree.index] /\ work.missed \in BOOLEAN
        BY Zenon DEF Shapes, WorkShapes
    <2>4. WorkShapes' /\ work'.writes = work.old /\ work'.old = work.old BY <2>2, <2>3 DEF WorkShapes
    <2>5. WritesOK'
        <3>1. IsSeq(work.old) /\ \A i \in DOMAIN work.old : IsWrite(work.old[i])
            BY <1>1, Zenon DEF WritesOK
        <3>2. (\A i \in DOMAIN work.writes : IsWrite(work.writes[i]))'
            BY <1>1, <2>4, <3>1 DEF IsWrite, Agrees, IsManifest, At
        <3>3. (\A i \in DOMAIN work.old : IsWrite(work.old[i]))'
            BY <1>1, <2>4, <3>1 DEF IsWrite, Agrees, IsManifest, At
        <3>4. IsSeq(work.writes)' /\ IsSeq(work.old)' BY <2>4, <3>1 DEF IsSeq
        <3> QED BY <3>2, <3>3, <3>4, Zenon DEF WritesOK
    <2>6. FilesTypeOK' /\ StableOK' BY <1>1, <1>5 DEF FilesTypeOK, StableOK, IsFiles
    <2>7. CopyOK' /\ PersistOK' /\ SettledOK' BY <1>5 DEF CopyOK, PersistOK, SettledOK
    <2> QED BY <1>2, <1>3, <2>4, <2>5, <2>6, <2>7, Zenon DEF Shapes
<1> QED BY <1>4, <1>5, Zenon DEF Persisted

LEMMA GivenBackStep == ASSUME IInv, GivenBack PROVE IInv'
PROOF
<1> USE DEF IInv
<1>1. /\ run = "restore" /\ work' = NoWork
      /\ run' = IF legacy.exists THEN "legacy" ELSE "stable"
      /\ UNCHANGED <<legacy, stable, settings, edits, mishaps, dismissed>> BY Zenon DEF GivenBack
<1>2. LegacyOK' /\ DismissedOK' BY <1>1, Zenon DEF LegacyOK, DismissedOK, Agrees, At
<1>3. RootShapes' BY <1>1, Zenon DEF Shapes, RootShapes
<1>4. WorkShapes' BY <1>1 DEF WorkShapes, NoWork, NoTree
<1>5. FilesTypeOK' /\ StableOK' BY <1>1 DEF FilesTypeOK, StableOK, IsFiles
<1>6. SettledOK' BY <1>1 DEF SettledOK
<1>7. run' \notin {"copy", "persist", "restore"} BY <1>1
<1> QED BY <1>2, <1>3, <1>4, <1>5, <1>6, <1>7, Idle, Zenon DEF Shapes

LEMMA Starts == Init => IInv
PROOF
<1> SUFFICES ASSUME Init PROVE IInv OBVIOUS
<1>1. /\ stable = [exists |-> FALSE, files |-> Empty, index |-> None]
      /\ settings = [root |-> FALSE, manifest |-> Empty, paths |-> [k \in PathKey |-> None]]
      /\ run = "off" /\ work = NoWork /\ dismissed = {} /\ edits = 0 /\ mishaps = 0 BY Zenon DEF Init
<1>2. /\ legacy = [exists |-> legacy.exists, files |-> legacy.files, index |-> legacy.index]
      /\ legacy.exists \in BOOLEAN /\ DOMAIN legacy.files \subseteq Name
      /\ \A n \in DOMAIN legacy.files : legacy.files[n] \in Content
      /\ ~legacy.exists => DOMAIN legacy.files = {}
    <2> DEFINE Trees == UNION {[s -> Content] : s \in SUBSET Name}
    <2>1. CASE legacy = [exists |-> FALSE, files |-> Empty, index |-> None]
        BY <2>1, Empties
    <2>2. CASE legacy \in [exists : {TRUE}, files : Trees, index : {None, Name}]
        <3>1. \A f \in Trees : DOMAIN f \subseteq Name /\ \A n \in DOMAIN f : f[n] \in Content OBVIOUS
        <3> HIDE DEF Trees
        <3> QED BY <2>2, <3>1
    <2> QED BY <2>1, <2>2, Zenon DEF Init
<1>3. stable.exists = FALSE /\ stable.files = Empty /\ settings.manifest = Empty BY <1>1
<1>4. Shapes
    <2>1. RootShapes BY <1>1, <1>2 DEF RootShapes
    <2>2. WorkShapes BY <1>1 DEF WorkShapes, NoWork, NoTree
    <2> QED BY <2>1, <2>2 DEF Shapes
<1>5. DOMAIN settings.manifest = {} /\ DOMAIN stable.files = {} /\ IsFiles(stable.files)
    BY <1>3, Empties, NoFiles, Zenon
<1>6. FilesTypeOK BY <1>1, <1>2, <1>3, <1>5, UserDataAssumption DEF FilesTypeOK
<1>7. LegacyOK BY <1>2, <1>5 DEF LegacyOK
<1>8. StableOK BY <1>1, <1>3, <1>5 DEF StableOK
<1>9. DismissedOK BY <1>1 DEF DismissedOK, Agrees
<1>10. CopyOK /\ WritesOK /\ PersistOK /\ SettledOK BY <1>1 DEF CopyOK, WritesOK, PersistOK, SettledOK
<1> QED BY <1>4, <1>6, <1>7, <1>8, <1>9, <1>10 DEF IInv

LEMMA Rests == ASSUME IInv, UNCHANGED vars PROVE IInv'
PROOF
<1> USE DEF IInv, vars
<1>1. Shapes' /\ FilesTypeOK' /\ LegacyOK' /\ StableOK' /\ DismissedOK'
    BY Zenon DEF Shapes, RootShapes, WorkShapes, FilesTypeOK, LegacyOK, StableOK, IsFiles, DismissedOK, Agrees, At
<1>2. CopyOK' BY DEF CopyOK, IsFiles, Tree, At
<1>3. WritesOK' BY DEF WritesOK, IsSeq, IsWrite, IsManifest, Agrees, At
<1>4. PersistOK'
    <2> SUFFICES ASSUME run = "persist" PROVE PersistOK' BY Zenon DEF PersistOK
    <2>1. /\ work' = work /\ settings' = settings /\ legacy' = legacy /\ stable' = stable
          /\ dismissed' = dismissed OBVIOUS
    <2>2. (legacy.exists => Full(work.manifest))' BY <2>1, Zenon DEF PersistOK, Full, At
    <2>3. \A i \in DOMAIN work.writes : work.writes[i].key \in PathKey =>
            Follows(work.writes[i].value, settings.paths[work.writes[i].key]) BY Zenon DEF PersistOK
    <2>4. (\A i \in DOMAIN work.writes : work.writes[i].key \in PathKey =>
            Follows(work.writes[i].value, settings.paths[work.writes[i].key]))'
        BY <2>1, <2>3, Zenon DEF Follows, LeadsTo, At
    <2>5. (\A i \in DOMAIN work.writes : LET w == work.writes[i] IN
            /\ w.key = "manifest" => w.value = work.manifest
            /\ \A j \in DOMAIN work.writes :
                    work.writes[j].key = w.key => work.writes[j].value = w.value)'
        BY <2>1, ZenonT(40) DEF PersistOK
    <2>6. (\/ ~legacy.exists \/ work.missed \/ settings.manifest = work.manifest
           \/ \E i \in DOMAIN work.writes : work.writes[i].key = "manifest")'
        BY <2>1, Zenon DEF PersistOK
    <2> QED BY <2>2, <2>4, <2>5, <2>6, Zenon DEF PersistOK
<1>5. SettledOK' BY DEF SettledOK, Full, At
<1> QED BY <1>1, <1>2, <1>3, <1>4, <1>5

LEMMA StepKeeps == ASSUME IInv, Next PROVE IInv'
PROOF
<1>1. CASE Prepare
    BY <1>1, BeginStep, BeginWithoutSourceStep, CopiedStep, CopyIndexStep, CopyFailsStep,
       WriteNextStep, PersistedStep, GivenBackStep, DiesStep, KnownFileStep, CopyFileStep, Zenon DEF Prepare
<1>2. CASE User
    BY <1>2, SaveStableStep, DeleteStableStep, OpenStep, SaveLegacyStep, DeleteLegacyStep,
       ListLegacyStep, QuitStep, Zenon DEF User
<1> QED BY <1>1, <1>2, LoseRootStep, Zenon DEF Next

LEMMA Invariant == Spec => []IInv
PROOF
<1>1. IInv /\ [Next]_vars => IInv' BY StepKeeps, Rests
<1> QED BY Starts, <1>1, PTL DEF Spec

(* A start, an edit or a failure leaves everything well-formed: names,     *)
(* manifest and bounds.                                                    *)
THEOREM TypesHold == Spec => []TypeOK
PROOF
<1> DEFINE MovedOK == moved \in BOOLEAN
<1>1. Init => MovedOK BY DEF Init
<1>2. MovedOK /\ [Next]_vars => MovedOK' BY Zenon DEF Next, LoseRoot, vars
<1>3. IInv /\ MovedOK => TypeOK BY DEF IInv, TypeOK
<1> HIDE DEF MovedOK
<1> QED BY Invariant, <1>1, <1>2, <1>3, PTL DEF Spec

-----------------------------------------------------------------------------
(* What a start may do.                                                    *)

OnlyAdds ==
    /\ \A f \in DOMAIN stable.files : At(stable'.files, f) = stable.files[f]
    /\ stable.index # None => stable.index \subseteq stable'.index
    /\ \A f \in DOMAIN stable'.files \ DOMAIN stable.files :
            <<f.base, stable'.files[f], FALSE>> \notin dismissed

LEMMA NothingAdded == stable' = stable => OnlyAdds
    BY DEF OnlyAdds, At

LEMMA StartOnlyAdds == ASSUME IInv, Next, Preparing, stable.exists PROVE OnlyAdds
PROOF
<1> USE DEF IInv
<1>1. /\ stable = [exists |-> stable.exists, files |-> stable.files, index |-> stable.index]
      /\ IsFiles(stable.files) BY Zenon DEF Shapes, RootShapes, StableOK
<1>2. run = "copy" => ~work.staging BY DEF CopyOK
<1>3. ASSUME NEW n \in Name, n \in work.files, CopyFile(n) PROVE OnlyAdds
    <2> DEFINE c == legacy.files[n]  f == Destination(Tree.files, n, c)
    <2>1. /\ run = "copy" /\ ~work.staging /\ Tree.files = stable.files /\ ~IsKnown(n, c)
        BY <1>2, <1>3 DEF CopyFile, Tree
    <2>2. n \in DOMAIN legacy.files /\ c \in Content BY <1>3, <2>1 DEF CopyOK, LegacyOK
    <2> DEFINE added == Put(Tree.files, f, c)
    <2>3. /\ f.base = n /\ added[f] = c
          /\ \A g \in DOMAIN Tree.files : At(added, g) = Tree.files[g]
          /\ \A g \in DOMAIN added \ DOMAIN Tree.files : g = f
        BY <1>1, <2>1, <2>2, CopyAdds
    <2>4. stable' = [stable EXCEPT !.files = added] BY <1>3, <2>1 DEF CopyFile
    <2> HIDE DEF f, added, c
    <2>5. stable'.files = added /\ stable'.index = stable.index BY <1>1, <2>4
    <2>6. <<n, c, FALSE>> \notin dismissed
        <3> SUFFICES ASSUME <<n, c, FALSE>> \in dismissed PROVE FALSE OBVIOUS
        <3>1. At(settings.manifest, n) = c BY <2>2, Zenon DEF DismissedOK, Agrees
        <3>2. work.known = settings.manifest BY <2>1, Zenon DEF CopyOK
        <3> QED BY <2>1, <3>1, <3>2 DEF IsKnown
    <2> QED BY <2>1, <2>3, <2>5, <2>6 DEF OnlyAdds
<1>4. ASSUME CopyIndex PROVE OnlyAdds
    <2>1. run = "copy" /\ ~work.staging /\ Tree.index = stable.index BY <1>2, <1>4 DEF CopyIndex, Tree
    <2> DEFINE known == At(work.known, Index) = legacy.index
               index == IF known THEN Tree.index ELSE NewIndex(Tree.index)
    <2>2. stable' = [stable EXCEPT !.index = index] BY <1>4, <2>1 DEF CopyIndex
    <2>3. stable.index # None => stable.index \subseteq index
        BY <2>1 DEF NewIndex, Merged
    <2> HIDE DEF index
    <2>4. stable'.files = stable.files /\ stable'.index = index BY <1>1, <2>2
    <2> QED BY <2>3, <2>4 DEF OnlyAdds, At
<1>5. ASSUME Dies PROVE OnlyAdds
    <2>1. CASE stable' = stable BY <2>1, NothingAdded, Zenon
    <2>2. CASE stable' # stable
        <3>1. PICK n \in work.files :
                LET f == Destination(Tree.files, n, legacy.files[n]) IN
                f \notin DOMAIN stable.files /\ stable' = [stable EXCEPT !.files = Put(@, f, Torn)]
            BY <1>5, <2>2 DEF Dies
        <3> DEFINE f == Destination(Tree.files, n, legacy.files[n])
        <3>2. f \notin DOMAIN stable.files /\ stable' = [stable EXCEPT !.files = Put(@, f, Torn)] BY <3>1
        <3> HIDE DEF f
        <3>3. stable'.files = Put(stable.files, f, Torn) /\ stable'.index = stable.index BY <1>1, <3>2
        <3>4. /\ DOMAIN stable'.files = DOMAIN stable.files \cup {f} /\ stable'.files[f] = Torn
              /\ \A g \in DOMAIN stable.files : stable'.files[g] = stable.files[g]
            BY <3>2, <3>3 DEF Put
        <3>5. \A b : <<b, Torn, FALSE>> \notin dismissed BY UserDataAssumption DEF DismissedOK
        <3> QED BY <3>3, <3>4, <3>5 DEF OnlyAdds, At
    <2> QED BY <2>1, <2>2
<1>6. ASSUME Copied PROVE OnlyAdds
    <2>1. stable' = stable BY <1>2, <1>6 DEF Copied
    <2> QED BY <2>1, NothingAdded
<1>7. CASE Prepare /\ stable' = stable BY <1>7, NothingAdded
<1>8. CASE Prepare /\ stable' # stable
    <2>1. run \in {"copy", "persist", "restore"} BY DEF Preparing
    <2>2. ~Begin /\ ~BeginWithoutSource BY <2>1 DEF Begin, BeginWithoutSource
    <2>3. ~CopyFails /\ ~WriteNext /\ ~Persisted /\ ~GivenBack /\ \A n \in Name : ~KnownFile(n)
        BY <1>8, Zenon DEF CopyFails, WriteNext, Persisted, GivenBack, KnownFile
    <2> QED BY <1>3, <1>4, <1>5, <1>6, <1>8, <2>2, <2>3, Zenon DEF Prepare
<1>9. CASE User \/ LoseRoot
    <2>1. FALSE
        BY <1>9 DEF User, Preparing, SaveStable, DeleteStable, OpenStable, SaveLegacy, DeleteLegacy,
            OpenLegacy, ListLegacy, InOldRoot, LoseRoot, Quit
    <2> QED BY <2>1
<1> QED BY <1>7, <1>8, <1>9, Zenon DEF Next

(* Starting the program never changes or removes what the stable root      *)
(* holds, takes no favorite off its list, and does not bring back what the *)
(* user deleted there: for any conflicts, half-made copies and failures.   *)
THEOREM StartsOnlyAdd == Spec => ImportOnlyAdds
PROOF
<1>1. IInv /\ [Next]_vars => [Preparing /\ stable.exists => OnlyAdds]_vars
    BY StartOnlyAdds, Zenon
<1>2. [Preparing /\ stable.exists => OnlyAdds]_vars =>
        [Preparing /\ stable.exists =>
            /\ \A f \in DOMAIN stable.files : At(stable'.files, f) = stable.files[f]
            /\ stable.index # None => stable.index \subseteq stable'.index
            /\ \A f \in DOMAIN stable'.files \ DOMAIN stable.files :
                    <<f.base, stable'.files[f], FALSE>> \notin dismissed]_vars
    BY Zenon DEF OnlyAdds
<1> QED BY Invariant, <1>1, <1>2, PTL DEF Spec, ImportOnlyAdds

LEMMA PathStays == ASSUME IInv, Next, run \in {"copy", "persist"}, NEW k \in PathKey,
        LeadsTo(settings.paths[k]) # None
    PROVE  LeadsTo(settings.paths[k])' = LeadsTo(settings.paths[k])
PROOF
<1> USE DEF IInv
<1>1. CASE WriteNext
    <2> DEFINE w == work.writes[1]
    <2>1. /\ run = "persist" /\ 1 \in DOMAIN work.writes /\ legacy' = legacy /\ stable' = stable
          /\ settings' = settings \/ Set(w.key, w.value)
        BY <1>1, WriteFacts
    <2>2. IsWrite(w) BY <2>1, Zenon DEF WritesOK
    <2>3. w.key \in PathKey => Follows(w.value, settings.paths[w.key]) BY <2>1, Zenon DEF PersistOK
    <2>4. settings'.paths[k] = settings.paths[k] \/ (w.key = k /\ settings'.paths[k] = w.value)
        <3>1. CASE settings' = settings BY <3>1
        <3>2. CASE Set(w.key, w.value)
            <4>1. w.key = "root" \/ w.key = "manifest" \/ w.key \in PathKey BY <2>2, Zenon DEF IsWrite
            <4> HIDE DEF w
            <4> QED BY <3>2, <4>1, SetFacts DEF Shapes
        <3> QED BY <2>1, <3>1, <3>2
    <2> HIDE DEF w
    <2> QED BY <2>1, <2>3, <2>4 DEF Follows, LeadsTo
<1>2. CASE ~WriteNext
    <2>1. legacy' = legacy /\ settings' = settings
        <3>1. ~User /\ ~LoseRoot BY DEF User, SaveStable, DeleteStable, OpenStable, SaveLegacy, DeleteLegacy,
                OpenLegacy, ListLegacy, InOldRoot, LoseRoot, Quit
        <3> QED BY <1>2, <3>1, Zenon DEF Next, Prepare, Begin, BeginWithoutSource, Copied, CopyIndex,
                CopyFails, Persisted, GivenBack, Dies, KnownFile, CopyFile
    <2>2. \A f \in DOMAIN stable.files : At(stable'.files, f) = stable.files[f]
        <3>1. CASE stable.exists BY <3>1, StartOnlyAdds DEF OnlyAdds, Preparing
        <3>2. CASE ~stable.exists BY <3>2 DEF StableOK
        <3> QED BY <3>1, <3>2 DEF StableOK
    <2>3. \A f : At(stable.files, f) # None => At(stable'.files, f) = At(stable.files, f)
        BY <2>2, Zenon DEF At
    <2> DEFINE p == settings.paths[k]
    <2>4. settings'.paths[k] = p BY <2>1
    <2>5. LeadsTo(settings.paths[k])' = Lead(p, legacy.files, stable'.files)
        BY <2>1, <2>4 DEF LeadsTo, Lead
    <2>6. LeadsTo(p) = Lead(p, legacy.files, stable.files) BY Zenon DEF LeadsTo, Lead
    <2> HIDE DEF p
    <2>7. Lead(p, legacy.files, stable.files) # None =>
            Lead(p, legacy.files, stable'.files) = Lead(p, legacy.files, stable.files)
        BY <2>3, Zenon DEF Lead
    <2> QED BY <2>5, <2>6, <2>7, Zenon DEF p
<1> QED BY <1>1, <1>2

(* A setting that remembers a file leads to the same content before and    *)
(* after every step of a start, whichever write is the last.               *)
THEOREM PathsAreKept == Spec => PathsLeadHome
PROOF
<1>1. IInv /\ [Next]_vars =>
        [(run \in {"copy", "persist"}) => \A k \in PathKey :
            LeadsTo(settings.paths[k]) # None =>
                LeadsTo(settings.paths[k])' = LeadsTo(settings.paths[k])]_vars
    BY PathStays, Zenon
<1> QED BY Invariant, <1>1, PTL DEF Spec, PathsLeadHome

-----------------------------------------------------------------------------
(* Nothing is left behind.                                                 *)

LEMMA KeptGrows == ASSUME NEW files, NEW more, NEW gone, NEW m,
        \A g \in DOMAIN files : g \in DOMAIN more /\ more[g] = files[g]
    PROVE  /\ \A n, c : Holds(files, gone, n, c) => Holds(more, gone, n, c)
           /\ Kept(m, files, gone) => Kept(m, more, gone)
PROOF
<1>1. \A n, c : Holds(files, gone, n, c) => Holds(more, gone, n, c) BY Zenon DEF Holds
<1> QED BY <1>1, Zenon DEF Kept

(* Between two starts only the manifest matters.                           *)
LEMMA KeptIdle == ASSUME run' \notin {"copy", "persist", "restore"},
        Kept(settings'.manifest, stable'.files, dismissed')
    PROVE  KeptInv'
    BY DEF KeptInv, Kept, Holds

(* The user who changes a file that a start took over dismisses it.        *)
LEMMA ChangeKeeps == ASSUME IInv, KeptInv, run = "stable", NEW f \in FileName, NEW files,
        \A g \in DOMAIN stable.files : g # f => g \in DOMAIN files /\ files[g] = stable.files[g]
    PROVE  Kept(settings.manifest, files, dismissed \cup ImportsOf(f))
PROOF
<1> DEFINE gone == dismissed \cup ImportsOf(f)
<1> SUFFICES ASSUME NEW n \in DOMAIN settings.manifest \cap Name
             PROVE  Holds(files, gone, n, settings.manifest[n]) BY Zenon DEF Kept
<1> DEFINE c == settings.manifest[n]
<1>1. legacy.exists
    <2>1. DOMAIN settings.manifest # {} OBVIOUS
    <2> QED BY <2>1, Zenon DEF IInv, LegacyOK
<1>2. Full(settings.manifest) BY <1>1, Zenon DEF IInv, SettledOK
<1>3. n \in DOMAIN legacy.files /\ n \in DOMAIN settings.manifest
    BY <1>2, UserDataAssumption DEF Full
<1>4. legacy.files[n] = c /\ c \in Content /\ At(legacy.files, n) = c /\ At(settings.manifest, n) = c
    <2>1. At(settings.manifest, n) = legacy.files[n] BY <1>2, <1>3, Zenon DEF Full
    <2>2. At(settings.manifest, n) = c /\ At(legacy.files, n) = legacy.files[n] BY <1>3 DEF At
    <2>3. legacy.files[n] \in Content BY <1>3, Zenon DEF IInv, LegacyOK
    <2> QED BY <2>1, <2>2, <2>3, Zenon
<1> SUFFICES Holds(files, gone, n, c) OBVIOUS
<1> HIDE DEF c
<1>5. Holds(stable.files, dismissed, n, c) BY Zenon DEF KeptInv, Kept, c
<1>6. CASE \E touched \in BOOLEAN : <<n, c, touched>> \in dismissed
    BY <1>6, Zenon DEF Holds
<1>7. CASE \E g \in DOMAIN stable.files : g.base = n /\ stable.files[g] = c
    <2>1. PICK g \in DOMAIN stable.files : g.base = n /\ stable.files[g] = c BY <1>7
    <2>2. CASE g # f BY <2>1, <2>2, Zenon DEF Holds
    <2>3. CASE g = f
        <3>1. At(stable.files, f) = c BY <2>1, <2>3 DEF At
        <3>2. <<f.base, c, FALSE>> \in ImportsOf(f) BY <1>4, <2>1, <2>3, <3>1, Import, Zenon
        <3>3. <<n, c, FALSE>> \in gone BY <2>1, <2>3, <3>2
        <3> QED BY <3>3, Zenon DEF Holds
    <2> QED BY <2>2, <2>3
<1> QED BY <1>5, <1>6, <1>7, Zenon DEF Holds

LEMMA UserKeeps == ASSUME IInv, KeptInv, User PROVE KeptInv'
PROOF
<1>0. run' \notin {"copy", "persist", "restore"}
    BY DEF User, SaveStable, DeleteStable, OpenStable, SaveLegacy, DeleteLegacy,
        OpenLegacy, ListLegacy, InOldRoot, UserSteps, Quit
<1>1. Kept(settings.manifest, stable.files, dismissed) BY DEF KeptInv
<1>2. CASE SaveStable
    <2>1. PICK f \in DOMAIN stable.files \cup {Plain(n) : n \in Name}, c \in Content :
            /\ stable' = [stable EXCEPT !.files = Put(@, f, c)]
            /\ dismissed' = dismissed \cup ImportsOf(f) BY <1>2, Zenon DEF SaveStable
    <2>2. run = "stable" /\ settings' = settings BY <1>2, Zenon DEF SaveStable
    <2>3. f \in FileName BY NamesDiffer DEF IInv, StableOK, IsFiles
    <2>4. stable'.files = Put(stable.files, f, c) BY <2>1 DEF IInv, Shapes, RootShapes
    <2>5. \A g \in DOMAIN stable.files : g # f => g \in DOMAIN stable'.files /\ stable'.files[g] = stable.files[g]
        BY <2>4 DEF Put
    <2>6. PICK files : files = stable'.files OBVIOUS
    <2>7. Kept(settings.manifest, files, dismissed \cup ImportsOf(f))
        BY <2>2, <2>3, <2>5, <2>6, ChangeKeeps, Zenon
    <2>8. Kept(settings'.manifest, stable'.files, dismissed') BY <2>1, <2>2, <2>6, <2>7
    <2> QED BY <1>0, <2>8, KeptIdle, Zenon
<1>3. CASE DeleteStable
    <2>1. PICK f \in DOMAIN stable.files :
            /\ stable' = [stable EXCEPT !.files = Drop(@, f), !.index = IF @ = None THEN @ ELSE @ \ {f}]
            /\ dismissed' = dismissed \cup ImportsOf(f) BY <1>3, Zenon DEF DeleteStable
    <2>2. run = "stable" /\ settings' = settings BY <1>3, Zenon DEF DeleteStable
    <2>3. f \in FileName BY DEF IInv, StableOK, IsFiles
    <2>4. stable'.files = Drop(stable.files, f) BY <2>1 DEF IInv, Shapes, RootShapes
    <2>5. \A g \in DOMAIN stable.files : g # f => g \in DOMAIN stable'.files /\ stable'.files[g] = stable.files[g]
        <3>1. /\ DOMAIN Drop(stable.files, f) = DOMAIN stable.files \ {f}
              /\ \A g \in DOMAIN stable.files : g # f => Drop(stable.files, f)[g] = stable.files[g]
            BY Drops, Zenon
        <3> QED BY <2>4, <3>1
    <2>6. PICK files : files = stable'.files OBVIOUS
    <2>7. Kept(settings.manifest, files, dismissed \cup ImportsOf(f))
        BY <2>2, <2>3, <2>5, <2>6, ChangeKeeps, Zenon
    <2>8. Kept(settings'.manifest, stable'.files, dismissed') BY <2>1, <2>2, <2>6, <2>7
    <2> QED BY <1>0, <2>8, KeptIdle, Zenon
<1>4. CASE SaveLegacy \/ DeleteLegacy
    <2>1. stable' = stable /\ settings' = settings /\ \E n : dismissed' = Touched(n)
        BY <1>4, Zenon DEF SaveLegacy, DeleteLegacy
    <2>2. PICK n : dismissed' = Touched(n) BY <2>1, Zenon
    <2>3. \A m, c : \A t \in BOOLEAN : <<m, c, t>> \in dismissed =>
              \E u \in BOOLEAN : <<m, c, u>> \in dismissed' BY <2>2, Touch, Zenon DEF IInv, DismissedOK
    <2>4. Kept(settings'.manifest, stable'.files, dismissed') BY <1>1, <2>1, <2>3, Zenon DEF Kept, Holds
    <2> QED BY <1>0, <2>4, KeptIdle, Zenon
<1>5. CASE OpenStable \/ OpenLegacy
    <2>1. stable' = stable /\ dismissed' = dismissed /\ \E k \in PathKey : \E path :
            settings' = [settings EXCEPT !.paths[k] = path] BY <1>5, Zenon DEF OpenStable, OpenLegacy
    <2>2. settings'.manifest = settings.manifest BY <2>1 DEF IInv, Shapes, RootShapes
    <2>3. Kept(settings'.manifest, stable'.files, dismissed') BY <1>1, <2>1, <2>2, Zenon
    <2> QED BY <1>0, <2>3, KeptIdle, Zenon
<1>6. CASE ListLegacy \/ Quit
    <2>1. stable' = stable /\ dismissed' = dismissed /\ settings' = settings
        BY <1>6, Zenon DEF ListLegacy, Quit
    <2>2. Kept(settings'.manifest, stable'.files, dismissed') BY <1>1, <2>1, Zenon
    <2> QED BY <1>0, <2>2, KeptIdle, Zenon
<1> QED BY <1>2, <1>3, <1>4, <1>5, <1>6, Zenon DEF User

(* During a copy the files looked at so far count as well.                 *)
LEMMA KeptCopying == ASSUME run' = "copy", Kept(settings'.manifest, stable'.files, dismissed'),
        \A n \in DOMAIN work'.map : Holds(Tree'.files, dismissed', n, legacy'.files[n])
    PROVE  KeptInv'
PROOF
<1>1. run' \notin {"persist", "restore"} OBVIOUS
<1> QED BY <1>1, Zenon DEF KeptInv, Kept, Holds

(* Tree has what the stable root has.                                      *)
LEMMA TreeHasStable == ASSUME IInv, run = "copy"
    PROVE  \A g \in DOMAIN stable.files : g \in DOMAIN Tree.files /\ Tree.files[g] = stable.files[g]
PROOF
<1>1. work.staging = ~stable.exists BY Zenon DEF IInv, CopyOK
<1>2. CASE work.staging
    <2>1. DOMAIN stable.files = {} BY <1>1, <1>2, Zenon DEF IInv, StableOK
    <2> QED BY <2>1, Zenon
<1>3. CASE ~work.staging
    <2>1. Tree.files = stable.files BY <1>3 DEF Tree
    <2> QED BY <2>1, Zenon
<1> QED BY <1>2, <1>3

(* A file that is known is there, or was dismissed: the manifest says so.  *)
LEMMA KnownIsKept == ASSUME IInv, KeptInv, run = "copy", NEW n \in Name, n \in work.files,
        IsKnown(n, legacy.files[n])
    PROVE  Holds(Tree.files, dismissed, n, legacy.files[n])
PROOF
<1> DEFINE c == legacy.files[n]
<1>1. c \in Content BY DEF IInv, CopyOK, LegacyOK
<1>2. At(work.known, n) # None BY <1>1, NoneIsNoContent DEF IsKnown
<1>3. work.known = settings.manifest BY <1>2, Empties, Zenon DEF IInv, CopyOK
<1>4. n \in DOMAIN settings.manifest /\ settings.manifest[n] = c
    BY <1>2, <1>3 DEF At, IsKnown
<1> HIDE DEF c
<1>5. Holds(stable.files, dismissed, n, c) BY <1>4, Zenon DEF KeptInv, Kept
<1>6. PICK tree : tree = Tree.files OBVIOUS
<1>7. Holds(tree, dismissed, n, c) BY <1>5, <1>6, TreeHasStable, KeptGrows, Zenon
<1> QED BY <1>6, <1>7 DEF c

(* One file more is looked at.                                             *)
LEMMA OneMoreKept == ASSUME IInv, IInv', KeptInv, run = "copy", run' = run, NEW n \in Name,
        UNCHANGED <<legacy, settings, dismissed>>, work'.files = work.files \ {n},
        \A g \in DOMAIN stable.files : g \in DOMAIN stable'.files /\ stable'.files[g] = stable.files[g],
        \A g \in DOMAIN Tree.files : g \in DOMAIN Tree'.files /\ Tree'.files[g] = Tree.files[g],
        Holds(Tree'.files, dismissed, n, legacy.files[n])
    PROVE  KeptInv'
PROOF
<1>1. PICK files : files = stable'.files OBVIOUS
<1>2. PICK tree : tree = Tree'.files OBVIOUS
<1>3. Kept(settings.manifest, files, dismissed)
    <2>1. Kept(settings.manifest, stable.files, dismissed) BY Zenon DEF KeptInv
    <2> QED BY <1>1, <2>1, KeptGrows, Zenon
<1>4. ASSUME NEW m \in DOMAIN work'.map PROVE Holds(tree, dismissed, m, legacy.files[m])
    <2>1. m \in DOMAIN legacy.files \ (work.files \ {n}) BY <1>4, Zenon DEF IInv, CopyOK
    <2>2. CASE m = n BY <1>2, <2>2
    <2>3. CASE m # n
        <3>1. m \in DOMAIN work.map BY <2>1, <2>3, Zenon DEF IInv, CopyOK
        <3>2. Holds(Tree.files, dismissed, m, legacy.files[m]) BY <3>1, Zenon DEF KeptInv
        <3> QED BY <1>2, <3>2, KeptGrows, Zenon
    <2> QED BY <2>2, <2>3
<1> QED BY <1>1, <1>2, <1>3, <1>4, KeptCopying

LEMMA KnownFileKeeps == ASSUME IInv, IInv', KeptInv, NEW n \in Name, n \in work.files, KnownFile(n)
    PROVE  KeptInv'
PROOF
<1>1. /\ run = "copy" /\ run' = run /\ IsKnown(n, legacy.files[n])
      /\ UNCHANGED <<legacy, stable, settings, dismissed>> BY Zenon DEF KnownFile
<1>2. PICK to : work' = Maps(n, legacy.files[n], to) BY Zenon DEF KnownFile
<1>3. Maps(n, legacy.files[n], to) =
              [files |-> work.files \ {n}, index |-> work.index,
               staging |-> work.staging, tree |-> work.tree, known |-> work.known,
               manifest |-> Put(work.manifest, n, legacy.files[n]), map |-> Put(work.map, n, to),
               writes |-> work.writes, missed |-> work.missed, old |-> work.old]
    BY MapsFacts, Zenon DEF IInv, Shapes
<1>4. work'.files = work.files \ {n} /\ work'.staging = work.staging /\ work'.tree = work.tree
    BY <1>2, <1>3
<1>5. Tree' = Tree BY <1>1, <1>4 DEF Tree
<1>6. Holds(Tree'.files, dismissed, n, legacy.files[n]) BY <1>1, <1>5, KnownIsKept
<1> QED BY <1>1, <1>4, <1>5, <1>6, OneMoreKept

LEMMA CopyFileKeeps == ASSUME IInv, IInv', KeptInv, NEW n \in Name, n \in work.files, CopyFile(n)
    PROVE  KeptInv'
PROOF
<1> DEFINE c == legacy.files[n]  dest == Destination(Tree.files, n, c)
           added == Put(Tree.files, dest, c)
<1>1. /\ run = "copy" /\ run' = run
      /\ UNCHANGED <<legacy, settings, edits, mishaps, dismissed>>
      /\ dest.base = n /\ dest \in DOMAIN added /\ added[dest] = c
      /\ \A g \in DOMAIN Tree.files : g \in DOMAIN added /\ added[g] = Tree.files[g]
      /\ work'.files = work.files \ {n}
      /\ Tree'.files = added
      /\ stable'.files = IF work.staging THEN stable.files ELSE added
    BY CopyFileFacts, Zenon
<1> HIDE DEF dest, added, c
<1>2. \A g \in DOMAIN stable.files : g \in DOMAIN stable'.files /\ stable'.files[g] = stable.files[g]
    BY <1>1, TreeHasStable
<1>3. Holds(Tree'.files, dismissed, n, c) BY <1>1, Zenon DEF Holds
<1>4. \A g \in DOMAIN Tree.files : g \in DOMAIN Tree'.files /\ Tree'.files[g] = Tree.files[g] BY <1>1
<1> QED BY <1>1, <1>2, <1>3, <1>4, OneMoreKept DEF c

LEMMA BeginKeeps == ASSUME KeptInv, Begin PROVE KeptInv'
PROOF
<1>1. run' = "copy" /\ UNCHANGED <<stable, settings, dismissed>> BY Zenon DEF Begin
<1>2. work'.map = Empty BY DEF Begin, NoWork
<1>3. DOMAIN work'.map = {} BY <1>2, Empties, Zenon
<1>4. Kept(settings'.manifest, stable'.files, dismissed') BY <1>1, Zenon DEF KeptInv
<1> QED BY <1>1, <1>3, <1>4, KeptCopying

(* Without a source there is no manifest to keep.                          *)
LEMMA BeginWithoutSourceKeeps == ASSUME IInv, IInv', BeginWithoutSource PROVE KeptInv'
PROOF
<1>1. run' = "persist" /\ ~legacy'.exists BY Zenon DEF BeginWithoutSource
<1>2. DOMAIN settings'.manifest = {} BY <1>1, Zenon DEF IInv, LegacyOK
<1>3. work'.manifest = Empty BY DEF BeginWithoutSource, NoWork
<1>4. DOMAIN work'.manifest = {} BY <1>3, Empties, Zenon
<1>5. Kept(settings.manifest, stable.files, dismissed)' /\ Kept(work.manifest, stable.files, dismissed)'
    BY <1>2, <1>4, Zenon DEF Kept
<1>6. (/\ \A i \in DOMAIN work.writes : work.writes[i].key = "manifest" =>
                Kept(work.writes[i].value, stable.files, dismissed)
       /\ \A i \in DOMAIN work.old : work.old[i].key = "manifest" =>
                Kept(work.old[i].value, stable.files, dismissed))'
    <2>1. \A i \in DOMAIN work'.writes : IsWrite(work.writes[i])' BY <1>1, Zenon DEF IInv, WritesOK
    <2>2. \A i \in DOMAIN work'.old : IsWrite(work.old[i])' BY <1>1, Zenon DEF IInv, WritesOK
    <2>3. "manifest" \notin PathKey BY UserDataAssumption
    <2> QED BY <1>1, <2>1, <2>2, <2>3, Zenon DEF IsWrite
<1> QED BY <1>1, <1>5, <1>6, Zenon DEF KeptInv

LEMMA CopyIndexKeeps == ASSUME IInv, KeptInv, CopyIndex PROVE KeptInv'
PROOF
<1>1. /\ run = "copy" /\ run' = run /\ UNCHANGED <<legacy, settings, dismissed>>
      /\ work'.map = work.map /\ stable'.files = stable.files /\ Tree'.files = Tree.files
    BY CopyIndexFacts, Zenon
<1>2. Kept(settings'.manifest, stable'.files, dismissed') BY <1>1, Zenon DEF KeptInv
<1>3. \A n \in DOMAIN work'.map : Holds(Tree'.files, dismissed', n, legacy'.files[n])
    BY <1>1, Zenon DEF KeptInv
<1> QED BY <1>1, <1>2, <1>3, KeptCopying

(* The staging directory becomes the root, with everything looked at.      *)
LEMMA CopiedKeeps == ASSUME IInv, KeptInv, Copied PROVE KeptInv'
PROOF
<1> DEFINE r == RootWrite  m == [key |-> "manifest", value |-> work.manifest]
           r0 == [key |-> "root", value |-> settings.root]
           m0 == [key |-> "manifest", value |-> settings.manifest]
<1>1. /\ run = "copy" /\ run' = "persist" /\ work.files = {}
      /\ UNCHANGED <<legacy, settings, dismissed>>
      /\ work'.writes = Commits /\ work'.old = Snapshot /\ work'.manifest = work.manifest
      /\ stable'.files = Tree.files
      /\ \A i \in DOMAIN Commits : \/ Commits[i] = r \/ Commits[i] = m
              \/ \E k \in PathKey : Commits[i] = [key |-> k, value |-> Remapped(settings.paths[k])]
      /\ \A i \in DOMAIN Snapshot : \/ Snapshot[i] = r0 \/ Snapshot[i] = m0
              \/ \E k \in PathKey : Snapshot[i] = [key |-> k, value |-> settings.paths[k]]
    BY CopiedFacts, Zenon
<1>2. r.key = "root" /\ r0.key = "root" /\ m.value = work.manifest /\ m0.value = settings.manifest
    BY DEF RootWrite
<1> HIDE DEF r, m, r0, m0
<1>3. "manifest" \notin PathKey BY UserDataAssumption
<1>4. \A i \in DOMAIN Commits : Commits[i].key = "manifest" => Commits[i].value = work.manifest
    BY <1>1, <1>2, <1>3
<1>5. \A i \in DOMAIN Snapshot : Snapshot[i].key = "manifest" => Snapshot[i].value = settings.manifest
    BY <1>1, <1>2, <1>3
<1>6. PICK files : files = Tree.files OBVIOUS
<1>7. Kept(settings.manifest, files, dismissed)
    <2>1. Kept(settings.manifest, stable.files, dismissed) BY Zenon DEF KeptInv
    <2> QED BY <1>1, <1>6, <2>1, TreeHasStable, KeptGrows, Zenon
<1>8. Kept(work.manifest, files, dismissed)
    <2> SUFFICES ASSUME NEW n \in DOMAIN work.manifest \cap Name
                 PROVE  Holds(files, dismissed, n, work.manifest[n]) BY Zenon DEF Kept
    <2>1. n \in DOMAIN work.map BY <1>1, UserDataAssumption DEF IInv, CopyOK
    <2>2. At(work.manifest, n) = legacy.files[n] BY <1>1, <2>1, Zenon DEF IInv, CopyOK
    <2>3. work.manifest[n] = legacy.files[n] BY <2>2 DEF At
    <2> QED BY <1>1, <1>6, <2>1, <2>3, Zenon DEF KeptInv
<1>9. stable'.files = files /\ dismissed' = dismissed /\ settings' = settings BY <1>1, <1>6
<1>10. Kept(settings.manifest, stable.files, dismissed)' /\ Kept(work.manifest, stable.files, dismissed)'
    BY <1>1, <1>7, <1>8, <1>9, Zenon
<1>11. (/\ \A i \in DOMAIN work.writes : work.writes[i].key = "manifest" =>
                Kept(work.writes[i].value, stable.files, dismissed)
        /\ \A i \in DOMAIN work.old : work.old[i].key = "manifest" =>
                Kept(work.old[i].value, stable.files, dismissed))'
    BY <1>1, <1>4, <1>5, <1>7, <1>8, <1>9, Zenon
<1> QED BY <1>1, <1>10, <1>11, Zenon DEF KeptInv

(* Whatever is written to the manifest, it is kept.                        *)
LEMMA WriteNextKeeps == ASSUME IInv, KeptInv, WriteNext PROVE KeptInv'
PROOF
<1> DEFINE w == work.writes[1]
<1>1. /\ run \in {"persist", "restore"} /\ run' = run /\ 1 \in DOMAIN work.writes
      /\ UNCHANGED <<legacy, stable, edits, dismissed>>
      /\ work'.writes = Tail(work.writes) /\ work'.old = work.old /\ work'.manifest = work.manifest
      /\ settings' = settings \/ Set(w.key, w.value)
    BY WriteFacts, Zenon
<1>2. IsSeq(work.writes) /\ IsWrite(w) BY <1>1, Zenon DEF IInv, WritesOK
<1>3. \A i \in DOMAIN work'.writes : i + 1 \in DOMAIN work.writes /\ work'.writes[i] = work.writes[i + 1]
    <2>1. work.writes # <<>> BY Zenon DEF WriteNext
    <2> QED BY <1>1, <1>2, <2>1, HeadAndTail
<1>4. \A i \in DOMAIN work.writes : work.writes[i].key = "manifest" =>
        Kept(work.writes[i].value, stable.files, dismissed) BY <1>1, Zenon DEF KeptInv
<1>5. settings'.manifest = settings.manifest \/ (w.key = "manifest" /\ settings'.manifest = w.value)
    <2>1. CASE settings' = settings BY <2>1
    <2>2. CASE Set(w.key, w.value)
        <3>1. w.key = "root" \/ w.key = "manifest" \/ w.key \in PathKey BY <1>2, Zenon DEF IsWrite
        <3>2. RootShapes BY Zenon DEF IInv, Shapes
        <3> HIDE DEF w
        <3>3. settings'.manifest = IF w.key = "manifest" THEN w.value ELSE settings.manifest
            BY <2>2, <3>1, <3>2, SetFacts
        <3> QED BY <3>3
    <2> QED BY <1>1, <2>1, <2>2
<1>6. Kept(settings'.manifest, stable.files, dismissed) BY <1>1, <1>4, <1>5, Zenon DEF KeptInv
<1>7. \A i \in DOMAIN work'.writes : work'.writes[i].key = "manifest" =>
        Kept(work'.writes[i].value, stable.files, dismissed) BY <1>3, <1>4, Zenon
<1>8. /\ \A i \in DOMAIN work.old : work.old[i].key = "manifest" =>
            Kept(work.old[i].value, stable.files, dismissed)
      /\ run = "persist" => Kept(work.manifest, stable.files, dismissed) BY <1>1, Zenon DEF KeptInv
<1>9. run' # "copy" BY <1>1
<1> QED BY <1>1, <1>6, <1>7, <1>8, <1>9, Zenon DEF KeptInv

(* A start that is over, or gives back what it wrote.                      *)
LEMMA EndsKeep == ASSUME IInv, KeptInv, CopyFails \/ Persisted \/ GivenBack PROVE KeptInv'
PROOF
<1>1. UNCHANGED <<stable, settings, dismissed>> BY Zenon DEF CopyFails, Persisted, GivenBack
<1>2. Kept(settings.manifest, stable.files, dismissed) BY Zenon DEF KeptInv
<1>3. Kept(settings'.manifest, stable'.files, dismissed') BY <1>1, <1>2, Zenon
<1>4. CASE run' \notin {"copy", "persist", "restore"} BY <1>3, <1>4, KeptIdle
<1>5. CASE run = "persist" /\ run' = "restore" /\ work' = [work EXCEPT !.writes = work.old]
    <2> DEFINE Work(ws) == [files |-> work.files, index |-> work.index, staging |-> work.staging,
               tree |-> work.tree, known |-> work.known, manifest |-> work.manifest,
               map |-> work.map, writes |-> ws, missed |-> work.missed, old |-> work.old]
               old == work.old
    <2>1. work = Work(work.writes) BY Zenon DEF IInv, Shapes, WorkShapes
    <2>2. work' = [work EXCEPT !.writes = old] BY <1>5
    <2> HIDE DEF old
    <2>3. work' = Work(old) BY <2>1, <2>2
    <2>4. work'.writes = work.old /\ work'.old = work.old BY <2>3 DEF old
    <2>5. \A i \in DOMAIN work.old : work.old[i].key = "manifest" =>
            Kept(work.old[i].value, stable.files, dismissed) BY <1>5, Zenon DEF KeptInv
    <2>6. (/\ \A i \in DOMAIN work.writes : work.writes[i].key = "manifest" =>
                Kept(work.writes[i].value, stable.files, dismissed)
           /\ \A i \in DOMAIN work.old : work.old[i].key = "manifest" =>
                Kept(work.old[i].value, stable.files, dismissed))' BY <1>1, <2>4, <2>5, Zenon
    <2>7. run' # "copy" /\ run' # "persist" BY <1>5
    <2> QED BY <1>3, <2>6, <2>7, Zenon DEF KeptInv
<1>6. CopyFails \/ GivenBack => run' \notin {"copy", "persist", "restore"} BY DEF CopyFails, GivenBack
<1>7. Persisted => \/ run' = "stable"
                   \/ run = "persist" /\ run' = "restore" /\ work' = [work EXCEPT !.writes = work.old]
    BY Zenon DEF Persisted
<1> QED BY <1>4, <1>5, <1>6, <1>7

(* A process that dies may leave half a file where there was none.         *)
LEMMA DiesKeeps == ASSUME IInv, KeptInv, Dies PROVE KeptInv'
PROOF
<1>1. /\ run' \notin {"copy", "persist", "restore"} /\ UNCHANGED <<settings, dismissed>>
      /\ \/ stable' = stable
         \/ \E f : f \notin DOMAIN stable.files /\ stable' = [stable EXCEPT !.files = Put(@, f, Torn)]
    BY DEF Dies
<1>2. \A g \in DOMAIN stable.files : g \in DOMAIN stable'.files /\ stable'.files[g] = stable.files[g]
    <2>1. CASE stable' = stable BY <2>1
    <2>2. CASE stable' # stable
        <3>1. PICK f : f \notin DOMAIN stable.files /\ stable' = [stable EXCEPT !.files = Put(@, f, Torn)]
            BY <1>1, <2>2
        <3>2. stable'.files = Put(stable.files, f, Torn) BY <3>1 DEF IInv, Shapes, RootShapes
        <3> QED BY <3>1, <3>2 DEF Put
    <2> QED BY <2>1, <2>2
<1>3. PICK files : files = stable'.files OBVIOUS
<1>4. Kept(settings.manifest, stable.files, dismissed) BY Zenon DEF KeptInv
<1>5. Kept(settings.manifest, files, dismissed) BY <1>2, <1>3, <1>4, KeptGrows, Zenon
<1> QED BY <1>1, <1>3, <1>5, KeptIdle

LEMMA KeptStarts == Init => KeptInv
PROOF
<1> SUFFICES ASSUME Init PROVE KeptInv OBVIOUS
<1>1. settings.manifest = Empty /\ run = "off" BY DEF Init
<1>2. DOMAIN settings.manifest = {} BY <1>1, Empties, Zenon
<1> QED BY <1>1, <1>2 DEF KeptInv, Kept

LEMMA KeptRests == ASSUME KeptInv, UNCHANGED vars PROVE KeptInv'
PROOF
<1>1. /\ stable' = stable /\ settings' = settings /\ legacy' = legacy /\ work' = work /\ run' = run
      /\ dismissed' = dismissed BY DEF vars
<1>2. Tree' = Tree BY <1>1 DEF Tree
<1> QED BY <1>1, <1>2, Zenon DEF KeptInv

LEMMA StepKept == ASSUME IInv, IInv', KeptInv, Prepare \/ User PROVE KeptInv'
PROOF
<1>1. CASE User BY <1>1, UserKeeps
<1>2. CASE Prepare
    BY <1>2, BeginKeeps, BeginWithoutSourceKeeps, CopyIndexKeeps, CopiedKeeps, WriteNextKeeps,
       EndsKeep, DiesKeeps, KnownFileKeeps, CopyFileKeeps, Zenon DEF Prepare
<1> QED BY <1>1, <1>2

(* The whole legacy root is in the manifest, and the manifest is kept.     *)
LEMMA KeptSuffices == ASSUME IInv, KeptInv PROVE EverythingArrived
PROOF
<1> SUFFICES ASSUME legacy.exists, run \in {"persist", "stable"}, NEW n \in DOMAIN legacy.files
             PROVE  Holds(stable.files, dismissed, n, legacy.files[n])
    BY Zenon DEF EverythingArrived, Holds
<1>1. n \in Name /\ legacy.files[n] \in Content BY DEF IInv, LegacyOK
<1>2. PICK m : Full(m) /\ Kept(m, stable.files, dismissed)
    <2>1. CASE run = "persist" BY <2>1, Zenon DEF IInv, PersistOK, KeptInv
    <2>2. CASE run = "stable" BY <2>2, Zenon DEF IInv, SettledOK, KeptInv
    <2> QED BY <2>1, <2>2
<1>3. At(m, n) = legacy.files[n] BY <1>2, Zenon DEF Full
<1>4. n \in DOMAIN m /\ m[n] = legacy.files[n] BY <1>1, <1>3, NoneIsNoContent DEF At
<1> QED BY <1>1, <1>2, <1>4, Zenon DEF Kept

(* As long as nobody moves the stable root away, a program that works in   *)
(* it has every file of the legacy root there, under its name or that of a *)
(* conflict, or the user dismissed it: through any failed copies, missed   *)
(* writes, values put back, deaths and edits in between.                   *)
THEOREM NothingIsLost == Spec => []NothingIsLeftBehind
PROOF
<1> DEFINE KeptUnlessMoved == ~moved => KeptInv
<1>1. Init => KeptUnlessMoved BY KeptStarts
<1>2. IInv /\ KeptUnlessMoved /\ [Next]_vars => KeptUnlessMoved'
    <2> SUFFICES ASSUME IInv, ~moved => KeptInv, [Next]_vars, ~moved' PROVE KeptInv' OBVIOUS
    <2>1. ~LoseRoot BY DEF LoseRoot
    <2>2. ~moved BY <2>1, Zenon DEF Next, vars
    <2>3. CASE UNCHANGED vars BY <2>2, <2>3, KeptRests
    <2>4. CASE Next /\ (Prepare \/ User) BY <2>2, <2>4, StepKeeps, StepKept
    <2> QED BY <2>1, <2>3, <2>4, Zenon DEF Next
<1>3. IInv /\ KeptUnlessMoved => NothingIsLeftBehind BY KeptSuffices DEF NothingIsLeftBehind
<1> HIDE DEF KeptUnlessMoved
<1> QED BY Invariant, <1>1, <1>2, <1>3, PTL DEF Spec

=============================================================================
