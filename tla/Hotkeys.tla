------------------------------- MODULE Hotkeys -------------------------------
(***************************************************************************)
(* The global hotkeys: NativeHotkeySet of src/macroflow/win32/hotkeys.py,   *)
(* which keeps an all-or-none set of RegisterHotKey registrations, and      *)
(* HotkeyRuntime of src/macroflow/ui/hotkey_runtime.py, which decides which *)
(* actions have a global key and which a shortcut that works only while the *)
(* window has the focus.  All of it runs on the GUI thread, a call at a     *)
(* time; what makes it hard is Windows, which may refuse any registration   *)
(* (another program has the key) and any unregistration, those made to undo *)
(* a half-made change included.                                             *)
(***************************************************************************)
EXTENDS Integers

CONSTANTS
    NRuntime,       \* the runtime actions are 1 .. NRuntime
    NAction,        \* and the quick-run actions the ones after them
    HotKey,         \* the key chords
    Refusals,       \* which calls Windows may refuse during one replacement
    MaxMishaps      \* bound: the replacements, writes and sessions that fail

Action == 1 .. NAction
Runtime == 1 .. NRuntime
QuickRun == Action \ Runtime

(* Refused are the unregistration of an old binding, the registration of a  *)
(* new one, its unregistration after another was refused, and the renewed   *)
(* registration of the old one.                                             *)
Refusal == [removing : SUBSET Action, adding : SUBSET Action,
            dropping : SUBSET Action, restoring : SUBSET Action]
NoRefusal == [removing |-> {}, adding |-> {}, dropping |-> {}, restoring |-> {}]

ASSUME HotkeysAssumption ==
    /\ NRuntime \in Nat /\ NAction \in Nat /\ NRuntime <= NAction
    /\ Refusals \subseteq Refusal
    /\ MaxMishaps \in Nat

VARIABLES
    held,           \* the registrations Windows holds for this process
    current,        \* NativeHotkeySet.current
    runtime,        \* the HotkeyRuntime
    mishaps         \* counts what failed, for MaxMishaps

hotkeys == <<held, current, runtime>>

(* A registration id is the position of the action among the runtime and    *)
(* quick-run actions: it is the action.                                     *)
Binding == [action : Action, key : HotKey]
Natives(config, quick) ==
    {[action |-> a, key |-> config[a]] : a \in IF quick THEN Action ELSE Runtime}
KeysOf(bindings) == {b.key : b \in bindings}
ActionsOf(bindings) == {b.action : b \in bindings}

-----------------------------------------------------------------------------
(* replace: everything old is unregistered, in the order of the ids, then   *)
(* everything new registered; at the first refusal what was done is undone. *)

Before(bindings, stops) == {b \in bindings : \A c \in stops : b.action < c.action}

(* What registers of a set while Windows holds others.  A chord that is     *)
(* held already cannot be registered again.                                 *)
Registers(bindings, others, refused) ==
    {b \in bindings : b.action \notin refused /\ b.key \notin KeysOf(others)}

Replaced(new) ==
    [held |-> new, current |-> new, success |-> TRUE, rolledBack |-> TRUE]

(* An old binding stays: the ones removed before it are registered again.   *)
CannotRemove(has, stuck, refusal) ==
    LET removed == Before(has.current, stuck)
        left == has.held \ removed
        restored == Registers(removed, left, refusal.restoring)
    IN  [held |-> left \cup restored,
         current |-> (has.current \ removed) \cup restored,
         success |-> FALSE, rolledBack |-> restored = removed]

(* Mutant of CannotAdd: what could not be dropped again is forgotten. *)
CannotAddForgets(has, added, refusal) ==
    LET leaked == {b \in added : b.action \in refusal.dropping}
        left == (has.held \ has.current) \cup leaked
        restored == Registers({b \in has.current : b.action \notin ActionsOf(leaked)},
                              left, refusal.restoring)
    IN  [held |-> left \cup restored, current |-> restored,
         success |-> FALSE, rolledBack |-> restored = has.current]

(* A new binding is refused: the ones registered before it are dropped and  *)
(* the old set restored, except where a new one could not be dropped.       *)
CannotAdd(has, added, refusal) ==
    LET leaked == {b \in added : b.action \in refusal.dropping}
        left == (has.held \ has.current) \cup leaked
        restored == Registers({b \in has.current : b.action \notin ActionsOf(leaked)},
                              left, refusal.restoring)
    IN  [held |-> left \cup restored, current |-> leaked \cup restored,
         success |-> FALSE,
         rolledBack |-> leaked = {} /\ restored = has.current]

Replace(has, new, refusal) ==
    LET stuck == {b \in has.current : b.action \in refusal.removing}
        refused == new \ Registers(new, has.held \ has.current, refusal.adding)
    IN  CASE new = has.current -> [has EXCEPT !.success = TRUE, !.rolledBack = TRUE]
          [] new # has.current /\ stuck # {} -> CannotRemove(has, stuck, refusal)
          [] new # has.current /\ stuck = {} /\ refused # {} ->
                CannotAdd(has, Before(new, refused), refusal)
          [] OTHER -> Replaced(new)

Has == [held |-> held, current |-> current, success |-> TRUE, rolledBack |-> TRUE]
HasNone == [held |-> {}, current |-> {}, success |-> TRUE, rolledBack |-> TRUE]

(* The ways a replacement may go while something more may fail.             *)
Outcomes(has, new) ==
    {Replace(has, new, refusal) :
        refusal \in IF mishaps < MaxMishaps THEN Refusals \cup {NoRefusal} ELSE {NoRefusal}}
Registrar(r, failed) ==
    /\ held' = r.held /\ current' = r.current
    /\ mishaps' = IF failed THEN mishaps + 1 ELSE mishaps

-----------------------------------------------------------------------------
(* HotkeyRuntime.  The editor's actions always have focused shortcuts and   *)
(* no others; they are left out.                                            *)

FocusedMap(withRuntime, withQuickRun) ==
    IF withRuntime THEN Action ELSE IF withQuickRun THEN QuickRun ELSE {}

HasQuickRun(bindings) == ActionsOf(bindings) \cap QuickRun # {}

(* Before initialize, and after the process has ended. *)
Off(config) ==
    [config |-> config, initialized |-> FALSE, enabled |-> TRUE, global |-> FALSE,
     quickGlobal |-> FALSE, degraded |-> FALSE, native |-> {}, focused |-> {}]

(* The runtime's own keys first, then the quick-run keys with them; the     *)
(* second may fail alone.                                                   *)
StartedRuntime(config, first, second) ==
    LET quick == first.success /\ second.success
        degraded == ~second.rolledBack
    IN  [Off(config) EXCEPT
            !.initialized = TRUE,
            !.global = first.success,
            !.quickGlobal = quick,
            !.degraded = degraded,
            !.native = second.current,
            !.focused = IF degraded THEN {} ELSE FocusedMap(~first.success, first.success /\ ~quick)]
Initialize(config) ==
    \E first \in Outcomes(HasNone, Natives(config, FALSE)) :
    \E second \in IF first.success THEN Outcomes(first, Natives(config, TRUE)) ELSE {first} :
        /\ Registrar(second, ~second.success)
        /\ runtime' = StartedRuntime(config, first, second)

(* apply, with the runtime it leaves when the replacement went like r.      *)
AppliedRuntime(config, withQuickRun, r) ==
    IF r.success
    THEN [runtime EXCEPT !.config = config,
                         !.global = TRUE,
                         !.quickGlobal = withQuickRun,
                         !.degraded = FALSE,
                         !.native = r.current,
                         !.focused = FocusedMap(FALSE, runtime.enabled /\ ~withQuickRun)]
    ELSE [runtime EXCEPT !.global = runtime.global /\ r.rolledBack,
                         !.degraded = ~r.rolledBack,
                         !.native = IF r.rolledBack THEN r.current ELSE {},
                         !.focused = IF r.rolledBack THEN runtime.focused ELSE {}]

WithQuickRun(config) ==
    /\ runtime.enabled
    /\ runtime.quickGlobal \/ \E a \in QuickRun : config[a] # runtime.config[a]

ApplyOutcomes(config) == Outcomes(Has, Natives(config, WithQuickRun(config)))
Apply(config, r) ==
    /\ Registrar(r, ~r.success)
    /\ runtime' = AppliedRuntime(config, WithQuickRun(config), r)

(* Mutant of SwitchedRuntime: a failed change leaves the old map of ids. *)
SwitchedKeepsNative(on, r) ==
    IF r.success
    THEN [runtime EXCEPT !.enabled = on, !.quickGlobal = on, !.degraded = FALSE,
                         !.native = r.current, !.focused = {}]
    ELSE [runtime EXCEPT !.degraded = FALSE]

(* set_quick_run_enabled, around a recording and while a key is edited.     *)
SwitchedRuntime(on, r) ==
    LET quick == HasQuickRun(r.current) IN
    IF r.success
    THEN [runtime EXCEPT !.enabled = on,
                         !.quickGlobal = on,
                         !.degraded = FALSE,
                         !.native = r.current,
                         !.focused = FocusedMap(FALSE, FALSE)]
    ELSE IF ~r.rolledBack
    THEN [runtime EXCEPT !.degraded = TRUE, !.native = {}]
    ELSE [runtime EXCEPT !.degraded = FALSE,
                         !.native = r.current,
                         !.quickGlobal = quick,
                         !.focused = FocusedMap(FALSE, on /\ ~quick)]

SwitchOutcomes(on) ==
    IF on = runtime.enabled THEN {Has} ELSE Outcomes(Has, Natives(runtime.config, on))
SetQuickRunEnabled(on, r) ==
    /\ Registrar(r, ~r.success)
    /\ runtime' = IF on = runtime.enabled THEN runtime ELSE SwitchedRuntime(on, r)

(* What pressing the key of an action does: dispatch_native looks the id of *)
(* the registration up, dispatch_focused comes from the shortcut.           *)
GlobalKey(a) ==
    ~runtime.degraded /\ \E b \in runtime.native : b.action = a /\ b \in held
FocusedKey(a) == ~runtime.degraded /\ a \in runtime.focused

-----------------------------------------------------------------------------
HotkeyRuntime ==
    [config : [Action -> HotKey], initialized : BOOLEAN, enabled : BOOLEAN, global : BOOLEAN,
     quickGlobal : BOOLEAN, degraded : BOOLEAN, native : SUBSET Binding, focused : SUBSET Action]

(* The hotkeys' part of the typing invariant.                               *)
HotkeysTypeOK ==
    /\ held \subseteq Binding /\ current \subseteq Binding
    /\ runtime \in HotkeyRuntime
    /\ mishaps \in 0 .. MaxMishaps

(* The window knows every registration it has, whatever calls Windows       *)
(* refused on the way: none is leaked and none is believed that is gone.    *)
OwnsWhatItHolds == held = current

(* Unless it says that the hotkeys are broken, every runtime action has     *)
(* exactly one way to be reached, never two and never none, a quick-run     *)
(* action at most one, and a global key is the one the settings show.       *)
KeysDoWhatTheyShow ==
    runtime.initialized /\ ~runtime.degraded =>
        /\ \A a \in Runtime : GlobalKey(a) # FocusedKey(a)
        /\ \A a \in QuickRun : ~(GlobalKey(a) /\ FocusedKey(a))
        /\ \A b \in held : b.key = runtime.config[b.action]

=============================================================================
