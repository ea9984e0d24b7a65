--------------------------- MODULE HotkeySettings ---------------------------
(***************************************************************************)
(* How the window changes hotkeys and quick-run slots (_apply_hotkey_config *)
(* of src/macroflow/ui/main_window.py with src/macroflow/hotkey_config.py   *)
(* and src/macroflow/quick_run.py), and how it suspends the quick-run keys. *)
(* The settings live in the registry, one value at a time; a session may    *)
(* end between any two writes and the next one starts from what it finds.   *)
(* A change first writes the old values under recovery names and arms a     *)
(* marker; while the marker is set a start reads those.                     *)
(***************************************************************************)
EXTENDS Hotkeys, Sequences

CONSTANTS
    Default,        \* the defaults
    SlotSets,       \* the contents the quick-run slots may have
    Unset,          \* what reading a value never written gives
    May             \* what may happen that the passing instance excludes

(* The settings: the key of each action, and the slots, as one.             *)
Slots == 0
Setting == {Slots} \cup Action

Distinct(c) == \A a, b \in Action : c[a] = c[b] => a = b
Config == {c \in [Setting -> HotKey \cup SlotSets] :
            /\ c[Slots] \in SlotSets
            /\ \A a \in Action : c[a] \in HotKey
            /\ Distinct(c)}

ASSUME SettingsAssumption ==
    /\ Default \in Config
    /\ Unset \notin HotKey \cup SlotSets
    /\ May \subseteq {"edit_while_recording", "flicker"}

VARIABLES
    disk,           \* the registry: the active values, the recovery values
                    \* and the marker
    broken,         \* the registry takes no writes
    shown,          \* _hotkey_config and _quick_run_slots
    filtered,       \* the keys the recorder leaves out of a recording
    change,         \* the change being made, see NoChange
    recording,      \* the window records
    editing,        \* _quick_run_hotkey_editing: a key field has the focus
    givenUp         \* history: what the changes aimed at that were cut off
                    \* or could not be undone, since settings were read or
                    \* written whole

window == <<shown, filtered, recording, editing>>
vars == <<hotkeys, mishaps, disk, broken, change, window, givenUp>>

Step == {"start", "rest", "arm_slots", "arm_keys", "apply", "give_up",
         "save_keys", "save_slots", "restore_slots", "disarm"}

(* Of a change: the step it is at, what it aims at, the writes its step has *)
(* yet to make, whether one of them or an earlier one failed, whether it is *)
(* being undone and whether the keys came back then, and the slots as they  *)
(* were before the step that saves them.                                    *)
NoChange == [step |-> "rest", goal |-> Default, writes |-> <<>>, missed |-> FALSE,
             failed |-> FALSE, undo |-> FALSE, keysBack |-> FALSE, slots |-> Unset]

AtRest == change.step = "rest"
Target == IF change.undo THEN shown ELSE change.goal

Write(name, setting, value) == [name |-> name, setting |-> setting, value |-> value]
KeyWrites(name, c) == [a \in Action |-> Write(name, a, c[a])]
Marker(on) == Write("armed", Slots, on)

(* Mutant of ArmWrites: the marker before the values it vouches for. *)
MarkerFirst(old) == <<Marker(TRUE)>> \o KeyWrites("recovery", old)

ArmWrites(old) == KeyWrites("recovery", old) \o <<Marker(TRUE)>>

(* The writes of each step.                                                 *)
WritesOf(step, c) ==
    CASE step = "arm_slots" -> <<Write("recovery", Slots, shown[Slots])>>
      [] step = "arm_keys" -> ArmWrites(shown)
      [] step = "save_keys" -> KeyWrites("active", c)
      [] step = "save_slots" -> <<Write("active", Slots, c[Slots])>>
      [] step = "restore_slots" -> <<Write("active", Slots, change.slots)>>
      [] step \in {"disarm", "give_up"} -> <<Marker(FALSE)>>
      [] OTHER -> <<>>

Enter(ch, step) ==
    [ch EXCEPT !.step = step,
               !.writes = WritesOf(step, IF ch.undo THEN shown ELSE ch.goal),
               !.missed = FALSE,
               !.slots = IF step = "save_slots" THEN disk.active[Slots] ELSE ch.slots]

(* load_hotkey_config and load_quick_run_slots.  An active key that was     *)
(* never written is its own default; a recovery key that is missing makes   *)
(* the whole set invalid.                                                   *)
OrDefault(values) ==
    [s \in Setting |-> IF values[s] = Unset THEN Default[s] ELSE values[s]]
Loaded(d) ==
    LET from == IF d.armed THEN d.recovery ELSE OrDefault(d.active)
        valid == Distinct(from) /\ \A a \in Action : from[a] # Unset
    IN  [s \in Setting |->
            IF s = Slots THEN OrDefault(from)[s]
            ELSE IF valid THEN from[s] ELSE Default[s]]

-----------------------------------------------------------------------------
(* Sessions.                                                                *)

Start ==
    /\ change.step = "start"
    /\ shown' = Loaded(disk)
    /\ Initialize([a \in Action |-> Loaded(disk)[a]])
    /\ filtered' = {Loaded(disk)[a] : a \in Runtime}
    /\ change' = NoChange
    /\ recording' = FALSE /\ editing' = FALSE
    /\ givenUp' = {}
    /\ UNCHANGED <<disk, broken>>

(* Windows takes the registrations back from a process that ends.           *)
Ends ==
    /\ held' = {} /\ current' = {}
    /\ runtime' = Off(runtime.config)
    /\ change' = [NoChange EXCEPT !.step = "start"]
    /\ givenUp' = IF AtRest THEN givenUp ELSE givenUp \cup {change.goal}
    /\ UNCHANGED <<disk, broken, window>>

Close == AtRest /\ ~recording /\ Ends /\ UNCHANGED mishaps

Crash ==
    /\ change.step # "start" /\ mishaps < MaxMishaps
    /\ mishaps' = mishaps + 1
    /\ Ends

RegistryFails ==
    /\ ~broken /\ mishaps < MaxMishaps
    /\ broken' = TRUE /\ mishaps' = mishaps + 1
    /\ UNCHANGED <<hotkeys, disk, change, window, givenUp>>

(* Unless it flickers, what refuses one write of a change refuses the rest. *)
RegistryRecovers ==
    /\ broken
    /\ change.step \in {"start", "rest"} \/ "flicker" \in May
    /\ broken' = FALSE
    /\ UNCHANGED <<hotkeys, mishaps, disk, change, window, givenUp>>

-----------------------------------------------------------------------------
(* A change.                                                                *)

Begin(goal) ==
    /\ AtRest /\ ~recording /\ ~editing     \* _hotkey_change_blocked
    /\ change' = Enter([NoChange EXCEPT !.goal = goal], "arm_slots")
    /\ UNCHANGED <<hotkeys, mishaps, disk, broken, window, givenUp>>

(* The dialog of the settings, which a degraded runtime disables, and the   *)
(* page of the quick-run slots.                                             *)
ChangeHotkeys ==
    \E goal \in Config :
        /\ ~runtime.degraded /\ goal # shown /\ goal[Slots] = shown[Slots]
        /\ Begin(goal)
ChangeQuickRun ==
    \E goal \in Config :
        /\ goal # shown /\ \A a \in Runtime : goal[a] = shown[a]
        /\ Begin(goal)

WriteNext ==
    /\ change.writes # <<>>
    /\ LET w == Head(change.writes) IN
       disk' = CASE broken -> disk
                 [] ~broken /\ w.name = "armed" -> [disk EXCEPT !.armed = w.value]
                 [] OTHER -> [disk EXCEPT ![w.name][w.setting] = w.value]
    /\ change' = [change EXCEPT !.writes = Tail(@), !.missed = @ \/ broken]
    /\ UNCHANGED <<hotkeys, mishaps, broken, window, givenUp>>

(* sync, status and the values read back.  Each value goes to the registry  *)
(* as it is set, so sync has nothing left to lose; but QSettings may go on  *)
(* reporting an error it met earlier in the same change.                    *)
Synced(ok) ==
    /\ change.step \notin {"start", "rest", "apply"} /\ change.writes = <<>>
    /\ ok \in IF change.missed THEN {FALSE}
              ELSE IF change.failed THEN BOOLEAN ELSE {TRUE}

Moves(ch, step) ==
    /\ change' = Enter(ch, step)
    /\ UNCHANGED <<hotkeys, mishaps, disk, broken, window, givenUp>>

(* What was saved is saved, or is to be undone, or cannot be undone: then   *)
(* the marker stays set and the hotkeys are declared broken.                *)
Undoes ==
    \/ ~change.undo /\ Moves([change EXCEPT !.undo = TRUE, !.failed = TRUE], "apply")
    \/ /\ change.undo
       /\ change' = NoChange
       /\ givenUp' = givenUp \cup {change.goal}
       /\ runtime' = [runtime EXCEPT !.degraded = TRUE]
       /\ UNCHANGED <<held, current, mishaps, disk, broken, window>>

ArmSlotsDone ==
    /\ change.step = "arm_slots"
    /\ \/ Synced(TRUE) /\ Moves(change, "arm_keys")
       \/ Synced(FALSE) /\ Moves(change, "rest")

ArmKeysDone ==
    /\ change.step = "arm_keys"
    /\ \/ Synced(TRUE) /\ Moves(change, "apply")
       \/ Synced(FALSE) /\ Moves(change, "rest")

(* The keys are registered before they are saved; if they are not, the      *)
(* marker is cleared.                                                       *)
ApplyKeys ==
    /\ change.step = "apply"
    /\ LET config == [a \in Action |-> Target[a]]
       IN  \E r \in ApplyOutcomes(config) :
             /\ Apply(config, r)
             /\ change' = IF change.undo
                          THEN Enter([change EXCEPT !.keysBack = r.success], "save_keys")
                          ELSE Enter(change, IF r.success THEN "save_keys" ELSE "give_up")
    /\ UNCHANGED <<disk, broken, window, givenUp>>

GiveUpDone ==
    /\ change.step = "give_up"
    /\ \E ok \in BOOLEAN : Synced(ok)
    /\ Moves(change, "rest")

SaveKeysDone ==
    /\ change.step = "save_keys"
    /\ \/ Synced(TRUE) /\ Moves(change, "save_slots")
       \/ Synced(FALSE) /\ Undoes

SaveSlotsDone ==
    /\ change.step = "save_slots"
    /\ \/ Synced(TRUE) /\ Moves(change, "disarm")
       \/ Synced(FALSE) /\ Moves([change EXCEPT !.failed = TRUE], "restore_slots")

RestoreSlotsDone ==
    /\ change.step = "restore_slots"
    /\ \E ok \in BOOLEAN : Synced(ok)
    /\ Undoes

Commit ==
    /\ ~change.undo
    /\ shown' = change.goal
    /\ filtered' = {runtime.config[a] : a \in Runtime}
    /\ change' = NoChange /\ givenUp' = {}
    /\ UNCHANGED <<hotkeys, mishaps, disk, broken, recording, editing>>

CommitUndo ==
    /\ change.undo
    /\ runtime' = [runtime EXCEPT !.degraded = @ \/ ~change.keysBack]
    /\ change' = NoChange /\ givenUp' = {}
    /\ UNCHANGED <<held, current, mishaps, disk, broken, window>>

DisarmDone ==
    /\ change.step = "disarm"
    /\ \/ Synced(TRUE) /\ (Commit \/ CommitUndo)
       \/ Synced(FALSE) /\ Undoes

-----------------------------------------------------------------------------
(* Recording and editing suspend the quick-run keys.                        *)

(* Mutant of StartRecording: it starts although the keys were not released. *)
StartAnyway ==
    /\ AtRest /\ ~recording /\ ~editing
    /\ \/ runtime.global /\ \E r \in SwitchOutcomes(FALSE) : SetQuickRunEnabled(FALSE, r)
       \/ ~runtime.global /\ UNCHANGED <<hotkeys, mishaps>>
    /\ recording' = TRUE
    /\ UNCHANGED <<disk, broken, change, shown, filtered, editing, givenUp>>

(* Without global keys F6 refuses to record, but the menu goes on after the *)
(* recording there is.                                                      *)
StartRecording ==
    /\ AtRest /\ ~recording /\ ~editing
    /\ \/ /\ runtime.global
          /\ \E r \in SwitchOutcomes(FALSE) :
               SetQuickRunEnabled(FALSE, r) /\ recording' = r.success
       \/ /\ ~runtime.global
          /\ recording' = TRUE /\ UNCHANGED <<hotkeys, mishaps>>
    /\ UNCHANGED <<disk, broken, change, shown, filtered, editing, givenUp>>

(* A recorder that does not start, a recording that is done or fails.       *)
StopRecording ==
    /\ AtRest /\ recording
    /\ recording' = FALSE
    /\ \E r \in SwitchOutcomes(TRUE) : SetQuickRunEnabled(TRUE, r)
    /\ UNCHANGED <<disk, broken, change, shown, filtered, editing, givenUp>>

(* A key field of the quick-run page gains or loses the focus.              *)
EditKey(on) ==
    /\ AtRest /\ editing # on
    /\ recording => "edit_while_recording" \in May
    /\ editing' = on
    /\ \/ /\ runtime.global
          /\ \E r \in SwitchOutcomes(~on) : SetQuickRunEnabled(~on, r)
       \/ ~runtime.global /\ UNCHANGED <<hotkeys, mishaps>>
    /\ UNCHANGED <<disk, broken, change, shown, filtered, recording, givenUp>>

-----------------------------------------------------------------------------

Init ==
    /\ held = {} /\ current = {} /\ mishaps = 0
    /\ runtime = Off([a \in Action |-> Default[a]])
    /\ disk = [active |-> [s \in Setting |-> Unset], recovery |-> [s \in Setting |-> Unset],
               armed |-> FALSE]
    /\ broken = FALSE
    /\ shown = Default /\ filtered = {}
    /\ change = [NoChange EXCEPT !.step = "start"]
    /\ recording = FALSE /\ editing = FALSE /\ givenUp = {}

Next ==
    \/ Start \/ Close \/ Crash \/ RegistryFails \/ RegistryRecovers
    \/ ChangeHotkeys \/ ChangeQuickRun \/ WriteNext
    \/ ArmSlotsDone \/ ArmKeysDone \/ ApplyKeys \/ GiveUpDone
    \/ SaveKeysDone \/ SaveSlotsDone \/ RestoreSlotsDone \/ DisarmDone
    \/ StartRecording \/ StopRecording \/ \E on \in BOOLEAN : EditKey(on)

Spec == Init /\ [][Next]_vars

-----------------------------------------------------------------------------

(* Hotkeys and slots are changed together or not at all: when a session has *)
(* ended, wherever it was, the next one finds what the window showed or, of *)
(* a change cut off or given up as broken, all of what it was to become:    *)
(* never some of each.  (_apply_hotkey_config and the recovery marker.)     *)
SettingsWhole == change.step = "start" => Loaded(disk) \in {shown} \cup givenUp

(* While a recording runs, no key that starts a macro is registered: it     *)
(* would be missing from the recording and from the program recorded        *)
(* (set_quick_run_enabled around a recording and around a key field).  And  *)
(* the recorder leaves out the runtime keys that work, not those of a       *)
(* change that was undone.                                                  *)
RecordingIsClean ==
    recording =>
        /\ \A a \in QuickRun : ~GlobalKey(a)
        /\ runtime.initialized /\ ~runtime.degraded => filtered = {runtime.config[a] : a \in Runtime}

(* What the registry may hold under the names of the settings, and a write. *)
Value(s) == {Unset} \cup IF s = Slots THEN SlotSets ELSE HotKey
Stored == {d \in [Setting -> HotKey \cup SlotSets \cup {Unset}] : \A s \in Setting : d[s] \in Value(s)}
Writing ==
    {Marker(on) : on \in BOOLEAN}
    \cup UNION {{Write(name, s, value) : name \in {"active", "recovery"}, value \in Value(s)} :
                  s \in Setting}
Change == [step : Step, goal : Config, writes : Seq(Writing), missed : BOOLEAN,
           failed : BOOLEAN, undo : BOOLEAN, keysBack : BOOLEAN, slots : Value(Slots)]

TypeOK ==
    /\ HotkeysTypeOK
    /\ change \in Change
    /\ disk \in [active : Stored, recovery : Stored, armed : BOOLEAN]
    /\ shown \in Config /\ filtered \subseteq HotKey
    /\ broken \in BOOLEAN /\ recording \in BOOLEAN /\ editing \in BOOLEAN

=============================================================================
