------------------------------ MODULE UserData ------------------------------
(***************************************************************************)
(* Where the user's macros and favorites live: prepare_user_data of         *)
(* src/macroflow/user_data.py, run at every start.  Old versions kept them  *)
(* beside the program (the legacy root), new ones in a directory of the     *)
(* user (the stable root).  A start copies what the stable root does not    *)
(* have yet, never deletes or overwrites, and commits the outcome to the    *)
(* settings, one value at a time.  Old versions may be used again between   *)
(* two starts and share the settings.  Any step may fail or be the last of  *)
(* the process.                                                             *)
(*                                                                         *)
(* A hash is the content it is the hash of.                                 *)
(***************************************************************************)
EXTENDS Integers, FiniteSets, Sequences, SequencesExt

CONSTANTS
    Name,           \* the names of macro and favorite files
    Content,        \* what a file may hold
    PathKey,        \* the settings that remember a file
    None,
    Malformed,      \* a legacy index that cannot be read
    HardLinks,      \* the file system of the stable root has hard links
    MaxEdits,       \* bound: what the users of both versions do
    MaxMishaps      \* bound: failures, lost writes and processes that die

(* The index is a file like the others as far as the manifest goes.         *)
Index == "_index.json"

(* A copy the process did not live to finish, without hard links.           *)
Torn == "torn"

(* A file of the stable root has the name it has in the legacy root or the  *)
(* name of a conflict: the legacy content it was made for and a counter.    *)
Plain(n) == [base |-> n, of |-> None, nth |-> 0]
Conflict(n, c, k) == [base |-> n, of |-> c, nth |-> k]
FileName == [base : Name, of : Content \cup {None}, nth : Nat]

ASSUME UserDataAssumption ==
    /\ None \notin Name \cup Content
    /\ Index \notin Name /\ Torn \notin Content \cup {None}
    /\ None \notin {"legacy", "stable"} \X FileName
    /\ IsFiniteSet(PathKey) /\ PathKey \cap {"root", "manifest"} = {}
    /\ HardLinks \in BOOLEAN
    /\ MaxEdits \in Nat /\ MaxMishaps \in Nat

VARIABLES
    legacy,         \* legacy root: files, and the names its index lists
    stable,         \* stable root: whether it exists, files, index
    settings,       \* root: is set; manifest; paths: the remembered files
    run,            \* the process: "off", a step of its preparation, or
                    \* the root it works in, "stable" or "legacy"
    work,           \* what prepare_user_data has in hand, see NoWork
    edits,          \* counts for MaxEdits
    mishaps,        \* counts for MaxMishaps
    dismissed,      \* history: the imported contents that the user has
                    \* overwritten or deleted in the stable root; each
                    \* with whether the legacy file was touched since
    moved           \* history: somebody moved a stable root away

vars == <<legacy, stable, settings, run, work, edits, mishaps, dismissed, moved>>

Empty == [x \in {} |-> None]
NoTree == [files |-> Empty, index |-> None]

(* source_manifest and path_map so far, the files and the index still to be *)
(* looked at, the staging directory, and the settings still to be written.  *)
NoWork == [files |-> {}, index |-> FALSE, staging |-> FALSE, tree |-> NoTree,
           known |-> Empty, manifest |-> Empty, map |-> Empty,
           writes |-> <<>>, missed |-> FALSE, old |-> <<>>]

Put(f, x, v) == [y \in DOMAIN f \cup {x} |-> IF y = x THEN v ELSE f[y]]
Drop(f, x) == Restrict(f, DOMAIN f \ {x})
At(f, x) == IF x \in DOMAIN f THEN f[x] ELSE None

(* Where a remembered path leads.                                           *)
InLegacy(n) == <<"legacy", Plain(n)>>
InStable(f) == <<"stable", f>>
LeadsTo(path) ==
    IF path = None THEN None
    ELSE IF path[1] = "legacy" THEN At(legacy.files, path[2].base) ELSE At(stable.files, path[2])

-----------------------------------------------------------------------------
(* Copying one file into the tree, which is the staging directory of a      *)
(* first migration or the stable root.                                      *)

Tree == IF work.staging THEN work.tree ELSE [files |-> stable.files, index |-> stable.index]

(* _existing_import_destination: where an earlier import put this content.  *)
Imported(files, n, c) == {f \in DOMAIN files :
    f.base = n /\ files[f] = c /\ (f = Plain(n) \/ f.of = c)}

(* _available_conflict_destination.                                         *)
ConflictFor(files, n, c) ==
    LET free == {k \in 1 .. Cardinality(DOMAIN files) + 1 :
                    At(files, Conflict(n, c, k)) \in {None, c}}
    IN  Conflict(n, c, CHOOSE k \in free : \A j \in free : k <= j)

(* Mutant of Destination: what is in the way is taken for the file. *)
DestinationOccupied(files, n, c) == Plain(n)

Destination(files, n, c) ==
    IF At(files, Plain(n)) \in {None, c} THEN Plain(n) ELSE ConflictFor(files, n, c)

(* What one file adds: nothing when it was imported before and has not      *)
(* changed since, not even when the user has removed it.                    *)
Maps(n, c, to) == [work EXCEPT !.files = @ \ {n}, !.manifest = Put(@, n, c),
                               !.map = Put(@, n, to)]

(* Mutant of IsKnown: the manifest is not looked at. *)
NeverKnown(n, c) == FALSE

IsKnown(n, c) == At(work.known, n) = c

KnownFile(n) ==
    LET c == legacy.files[n] IN
    /\ run = "copy" /\ n \in work.files /\ IsKnown(n, c)
    /\ \/ \E f \in Imported(Tree.files, n, c) :
            /\ Plain(n) \in Imported(Tree.files, n, c) => f = Plain(n)
            /\ work' = Maps(n, c, f)
       \/ Imported(Tree.files, n, c) = {} /\ work' = Maps(n, c, None)
    /\ UNCHANGED <<legacy, stable, settings, run, edits, mishaps, dismissed>>

(* _exclusive_verified_copy to a name that is free; to one that has the     *)
(* same content already it copies nothing.                                  *)
CopyFile(n) ==
    LET c == legacy.files[n]
        f == Destination(Tree.files, n, c)
        added == Put(Tree.files, f, c)
    IN
    /\ run = "copy" /\ n \in work.files /\ ~IsKnown(n, c)
    /\ work' = IF work.staging THEN [Maps(n, c, f) EXCEPT !.tree.files = added] ELSE Maps(n, c, f)
    /\ stable' = IF work.staging THEN stable ELSE [stable EXCEPT !.files = added]
    /\ UNCHANGED <<legacy, settings, run, edits, mishaps, dismissed>>

(* _merge_favorites_index: what the legacy index lists, under the names it  *)
(* was imported with, is added to the groups.  One group stands for all.    *)
Mapped(listed) ==
    {work.map[n] : n \in {m \in listed \cap DOMAIN work.map : work.map[m] # None}}

Merged(old) == IF legacy.index = Malformed THEN old ELSE old \cup Mapped(legacy.index)

(* With no index there, the legacy one is copied as it is, unless it cannot *)
(* be read; the same one is left alone.                                     *)
NewIndex(old) ==
    LET copied == IF legacy.index = Malformed THEN {} ELSE {Plain(n) : n \in legacy.index}
    IN  IF old = None THEN copied
        ELSE IF legacy.index # Malformed /\ old = copied THEN old
        ELSE Merged(old)

CopyIndex ==
    LET known == At(work.known, Index) = legacy.index
        index == IF known THEN Tree.index ELSE NewIndex(Tree.index)
        done == [work EXCEPT !.index = FALSE, !.manifest = Put(@, Index, legacy.index)]
    IN
    /\ run = "copy" /\ work.files = {} /\ work.index
    /\ work' = IF work.staging THEN [done EXCEPT !.tree.index = index] ELSE done
    /\ stable' = IF work.staging THEN stable ELSE [stable EXCEPT !.index = index]
    /\ UNCHANGED <<legacy, settings, run, edits, mishaps, dismissed>>

-----------------------------------------------------------------------------
(* prepare_user_data.                                                       *)

(* With a source, a root that does not exist yet is made in a staging       *)
(* directory, whatever the manifest says was copied into the last one.      *)
Begin ==
    /\ run = "off"
    /\ legacy.exists
    /\ run' = "copy"
    /\ work' = [NoWork EXCEPT !.files = DOMAIN legacy.files,
                              !.index = legacy.index # None,
                              !.staging = ~stable.exists,
                              !.known = IF stable.exists THEN settings.manifest ELSE Empty]
    /\ UNCHANGED <<legacy, stable, settings, edits, mishaps, dismissed>>

(* Without one, the root is made and remembered.                            *)
RootWrite == [key |-> "root", value |-> TRUE]
BeginWithoutSource ==
    /\ run = "off"
    /\ ~legacy.exists
    /\ stable' = [stable EXCEPT !.exists = TRUE]
    /\ run' = "persist"
    /\ work' = [NoWork EXCEPT !.writes = <<RootWrite>>,
                              !.old = <<[key |-> "root", value |-> settings.root]>>]
    /\ UNCHANGED <<legacy, settings, edits, mishaps, dismissed>>

(* Mutant of Remapped: the file of the same name, whatever it holds. *)
RemappedByName(path) ==
    IF path # None /\ path[1] = "legacy" THEN InStable(Plain(path[2].base)) ELSE path

(* _remapped_path: a path into the legacy root follows the file; if there   *)
(* was none, to a file of the same name, if there is one.                   *)
Remapped(path) ==
    IF path = None \/ path[1] # "legacy" THEN path
    ELSE LET n == path[2].base IN
         IF n \in DOMAIN work.map
         THEN IF work.map[n] = None THEN path ELSE InStable(work.map[n])
         ELSE IF Plain(n) \in DOMAIN Tree.files THEN InStable(Plain(n)) ELSE path

(* The settings that are written, in their order, and what they were.       *)
PathWrites(paths) ==
    LET set == {k \in DOMAIN paths : paths[k] # None}
    IN  SetToSeq({[key |-> k, value |-> paths[k]] : k \in set})
Commits ==
    <<RootWrite, [key |-> "manifest", value |-> work.manifest]>>
        \o PathWrites([k \in PathKey |-> Remapped(settings.paths[k])])
Snapshot ==
    <<[key |-> "root", value |-> settings.root],
      [key |-> "manifest", value |-> settings.manifest]>> \o PathWrites(settings.paths)

(* The staging directory becomes the stable root in one rename.             *)
Copied ==
    /\ run = "copy" /\ work.files = {} /\ ~work.index
    /\ stable' = IF work.staging
                 THEN [exists |-> TRUE, files |-> work.tree.files, index |-> work.tree.index]
                 ELSE stable
    /\ run' = "persist"
    /\ work' = [work EXCEPT !.writes = Commits, !.old = Snapshot]
    /\ UNCHANGED <<legacy, settings, edits, mishaps, dismissed>>

Mishap == mishaps < MaxMishaps /\ mishaps' = mishaps + 1

(* An error on the way: what was staged is removed, a half-made copy too,   *)
(* and the program works in the legacy root.                                *)
CopyFails ==
    /\ run = "copy" /\ Mishap
    /\ run' = "legacy" /\ work' = NoWork
    /\ UNCHANGED <<legacy, stable, settings, edits, dismissed>>

Set(key, value) ==
    settings' = CASE key = "root" -> [settings EXCEPT !.root = value]
                  [] key = "manifest" -> [settings EXCEPT !.manifest = value]
                  [] OTHER -> [settings EXCEPT !.paths[key] = value]

WriteNext ==
    /\ run \in {"persist", "restore"} /\ work.writes # <<>>
    /\ LET w == Head(work.writes) IN
       \/ /\ Set(w.key, w.value)
          /\ work' = [work EXCEPT !.writes = Tail(@)]
          /\ UNCHANGED mishaps
       \/ /\ Mishap
          /\ work' = [work EXCEPT !.writes = Tail(@), !.missed = TRUE]
          /\ UNCHANGED settings
    /\ UNCHANGED <<legacy, stable, run, edits, dismissed>>

(* _persist_root_and_remap_paths reads back what it wrote, and on a failure *)
(* puts every value back.                                                   *)
Persisted ==
    /\ run = "persist" /\ work.writes = <<>>
    /\ \/ ~work.missed /\ run' = "stable" /\ work' = NoWork
       \/ /\ work.missed
          /\ run' = "restore"
          /\ work' = [work EXCEPT !.writes = work.old]
    /\ UNCHANGED <<legacy, stable, settings, edits, mishaps, dismissed>>

(* Without a source the program works in the stable root all the same.      *)
GivenBack ==
    /\ run = "restore" /\ work.writes = <<>>
    /\ run' = IF legacy.exists THEN "legacy" ELSE "stable"
    /\ work' = NoWork
    /\ UNCHANGED <<legacy, stable, settings, edits, mishaps, dismissed>>

(* The process may end at any step.  Without hard links it may leave half a *)
(* file behind.                                                             *)
Dies ==
    /\ run \in {"copy", "persist", "restore"} /\ Mishap
    /\ run' = "off" /\ work' = NoWork
    /\ \/ UNCHANGED stable
       \/ /\ run = "copy" /\ ~work.staging /\ ~HardLinks
          /\ \E n \in work.files :
                LET f == Destination(Tree.files, n, legacy.files[n]) IN
                /\ ~IsKnown(n, legacy.files[n]) /\ f \notin DOMAIN stable.files
                /\ stable' = [stable EXCEPT !.files = Put(@, f, Torn)]
    /\ UNCHANGED <<legacy, settings, edits, dismissed>>

-----------------------------------------------------------------------------
(* The users.                                                               *)

Preparing == run \in {"copy", "persist", "restore"}
Edit == edits < MaxEdits /\ edits' = edits + 1
UserSteps == UNCHANGED <<run, work, mishaps>>

(* Of the legacy files that were imported, the ones this stable file holds. *)
ImportsOf(f) == {<<f.base, c, FALSE>> : c \in {d \in Content :
    At(legacy.files, f.base) = d /\ At(settings.manifest, f.base) = d /\ At(stable.files, f) = d}}

SaveStable ==
    /\ run = "stable" /\ Edit
    /\ \E f \in DOMAIN stable.files \cup {Plain(n) : n \in Name}, c \in Content :
        /\ At(stable.files, f) # c
        /\ stable' = [stable EXCEPT !.files = Put(@, f, c)]
        /\ dismissed' = dismissed \cup ImportsOf(f)
    /\ UserSteps /\ UNCHANGED <<legacy, settings>>

DeleteStable ==
    /\ run = "stable" /\ Edit
    /\ \E f \in DOMAIN stable.files :
        /\ stable' = [stable EXCEPT !.files = Drop(@, f),
                                    !.index = IF @ = None THEN @ ELSE @ \ {f}]
        /\ dismissed' = dismissed \cup ImportsOf(f)
    /\ UserSteps /\ UNCHANGED <<legacy, settings>>

OpenStable ==
    /\ run = "stable" /\ Edit
    /\ \E k \in PathKey, f \in DOMAIN stable.files :
        settings' = [settings EXCEPT !.paths[k] = InStable(f)]
    /\ UserSteps /\ UNCHANGED <<legacy, stable, dismissed>>

(* An old version, or this one when it fell back.                           *)
InOldRoot == run \in {"off", "legacy"} /\ Edit
Touched(n) == {IF d[1] = n THEN <<d[1], d[2], TRUE>> ELSE d : d \in dismissed}

SaveLegacy ==
    /\ InOldRoot
    /\ \E n \in Name, c \in Content :
        /\ At(legacy.files, n) # c
        /\ legacy' = [legacy EXCEPT !.exists = TRUE, !.files = Put(@, n, c)]
        /\ dismissed' = Touched(n)
    /\ UserSteps /\ UNCHANGED <<stable, settings>>

DeleteLegacy ==
    /\ InOldRoot
    /\ \E n \in DOMAIN legacy.files :
        /\ legacy' = [legacy EXCEPT !.files = Drop(@, n)]
        /\ dismissed' = Touched(n)
    /\ UserSteps /\ UNCHANGED <<stable, settings>>

OpenLegacy ==
    /\ InOldRoot
    /\ \E k \in PathKey, n \in DOMAIN legacy.files :
        settings' = [settings EXCEPT !.paths[k] = InLegacy(n)]
    /\ UserSteps /\ UNCHANGED <<legacy, stable, dismissed>>

ListLegacy ==
    /\ InOldRoot
    /\ \E listed \in (SUBSET DOMAIN legacy.files) \cup {Malformed} :
        /\ listed # legacy.index
        /\ legacy' = [legacy EXCEPT !.exists = TRUE, !.index = listed]
    /\ UserSteps /\ UNCHANGED <<stable, settings, dismissed>>

(* Somebody moves the stable root away.                                     *)
LoseRoot ==
    /\ run = "off" /\ Edit /\ stable.exists
    /\ stable' = [exists |-> FALSE, files |-> Empty, index |-> None]
    /\ dismissed' = {} /\ moved' = TRUE
    /\ UserSteps /\ UNCHANGED <<legacy, settings>>

Quit ==
    /\ run \in {"stable", "legacy"}
    /\ run' = "off"
    /\ UNCHANGED <<legacy, stable, settings, work, edits, mishaps, dismissed>>

-----------------------------------------------------------------------------

Init ==
    /\ legacy \in [exists : {TRUE}, files : UNION {[s -> Content] : s \in SUBSET Name},
                   index : {None, Name}]
                \cup {[exists |-> FALSE, files |-> Empty, index |-> None]}
    /\ legacy.index = Name => DOMAIN legacy.files = Name
    /\ stable = [exists |-> FALSE, files |-> Empty, index |-> None]
    /\ settings = [root |-> FALSE, manifest |-> Empty, paths |-> [k \in PathKey |-> None]]
    /\ run = "off" /\ work = NoWork
    /\ edits = 0 /\ mishaps = 0 /\ dismissed = {} /\ moved = FALSE

Prepare ==
    \/ Begin \/ BeginWithoutSource \/ Copied \/ CopyIndex \/ CopyFails
    \/ WriteNext \/ Persisted \/ GivenBack \/ Dies
    \/ \E n \in Name : n \in work.files /\ (KnownFile(n) \/ CopyFile(n))

User ==
    \/ SaveStable \/ DeleteStable \/ OpenStable
    \/ SaveLegacy \/ DeleteLegacy \/ OpenLegacy \/ ListLegacy
    \/ Quit

Next ==
    \/ (Prepare \/ User) /\ UNCHANGED moved
    \/ LoseRoot

Spec == Init /\ [][Next]_vars

-----------------------------------------------------------------------------

(* When the program works in the stable root, every file the legacy root    *)
(* has is there as it is, under its name or that of a conflict, or the user *)
(* has overwritten or deleted it there after it was imported.               *)
(* (_copy_and_verify_tree.)                                                 *)
EverythingArrived ==
    legacy.exists /\ run \in {"persist", "stable"} =>
        \A n \in DOMAIN legacy.files :
            \/ \E f \in DOMAIN stable.files : f.base = n /\ stable.files[f] = legacy.files[n]
            \/ \E touched \in BOOLEAN : <<n, legacy.files[n], touched>> \in dismissed

(* Everything arrives, whatever went wrong at earlier starts, as long as no *)
(* stable root was moved away.  (prepare_user_data: a root is made anew     *)
(* before the manifest that goes with it is written.)                       *)
NothingIsLeftBehind == ~moved => EverythingArrived

(* A start only adds: no file of the stable root is changed or removed by   *)
(* it and no favorite is taken off the list, and it does not bring back     *)
(* what the user deleted while the legacy file has not changed.             *)
ImportOnlyAdds ==
    [][Preparing /\ stable.exists =>
        /\ \A f \in DOMAIN stable.files : At(stable'.files, f) = stable.files[f]
        /\ stable.index # None => stable.index \subseteq stable'.index
        /\ \A f \in DOMAIN stable'.files \ DOMAIN stable.files :
                <<f.base, stable'.files[f], FALSE>> \notin dismissed]_vars

(* A setting that remembers a file leads to the same content after a start  *)
(* as before, at whichever write the start was cut off; when the values are *)
(* put back, one that led nowhere may do so again.                          *)
PathsLeadHome ==
    [][(run \in {"copy", "persist"}) => \A k \in PathKey :
        LeadsTo(settings.paths[k]) # None =>
            LeadsTo(settings.paths[k])' = LeadsTo(settings.paths[k])]_vars

FilesTypeOK ==
    /\ run \in {"off", "copy", "persist", "restore", "stable", "legacy"}
    /\ stable.exists \in BOOLEAN /\ DOMAIN legacy.files \subseteq Name
    /\ \A n \in DOMAIN settings.manifest : n \in Name \cup {Index}
    /\ edits \in 0 .. MaxEdits /\ mishaps \in 0 .. MaxMishaps

TypeOK == FilesTypeOK /\ moved \in BOOLEAN

=============================================================================
