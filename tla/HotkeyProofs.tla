--------------------------- MODULE HotkeyProofs ---------------------------
(***************************************************************************)
(* Theorems about the hotkeys and their settings, for any number of        *)
(* actions and keys and any sets of calls that Windows may refuse.         *)
(***************************************************************************)
EXTENDS HotkeySettings, SequenceTheorems, TLAPS

-----------------------------------------------------------------------------
(* Replacements.                                                           *)

(* A registrar that knows what Windows holds.                              *)
Owning(owned, success, rolledBack) ==
    [held |-> owned, current |-> owned, success |-> success, rolledBack |-> rolledBack]

(* What a replacement promises of what it leaves.                          *)
Honest(r, new, old) ==
    /\ r = Owning(r.current, r.success, r.rolledBack)
    /\ r.success \in BOOLEAN /\ r.rolledBack \in BOOLEAN
    /\ r.success => r.current = new /\ r.rolledBack
    /\ r.rolledBack /\ ~r.success => r.current = old
    /\ r.current \subseteq old \cup new

LEMMA OwningHonest ==
    ASSUME NEW owned, NEW s \in BOOLEAN, NEW b \in BOOLEAN, NEW new, NEW old,
           s => owned = new /\ b, b /\ ~s => owned = old, owned \subseteq old \cup new
    PROVE  Honest(Owning(owned, s, b), new, old)
  <1> DEFINE r == Owning(owned, s, b)
  <1>1. r.current = owned /\ r.success = s /\ r.rolledBack = b
    BY DEF Owning
  <1>2. r = Owning(r.current, r.success, r.rolledBack)
    BY <1>1, Zenon
  <1> HIDE DEF r
  <1>. QED
    BY <1>1, <1>2 DEF Honest

LEMMA RemovalHonest ==
    ASSUME NEW owned, NEW s, NEW b, NEW stuck, NEW refusal, NEW new
    PROVE  Honest(CannotRemove(Owning(owned, s, b), stuck, refusal), new, owned)
  <1> DEFINE removed == Before(owned, stuck)
             left == owned \ removed
             restored == Registers(removed, left, refusal.restoring)
             kept == left \cup restored
             back == restored = removed
  <1>1. CannotRemove(Owning(owned, s, b), stuck, refusal) = Owning(kept, FALSE, back)
    BY DEF CannotRemove, Owning
  <1>2. removed \subseteq owned
    BY DEF Before
  <1>3. back \in BOOLEAN /\ (back => kept = owned) /\ kept \subseteq owned
    BY <1>2 DEF restored, Registers
  <1> HIDE DEF removed, restored, left, kept, back
  <1>. QED
    BY <1>1, <1>3, OwningHonest

LEMMA AdditionHonest ==
    ASSUME NEW owned, NEW s, NEW b, NEW new, NEW added \in SUBSET new, NEW refusal
    PROVE  Honest(CannotAdd(Owning(owned, s, b), added, refusal), new, owned)
  <1> DEFINE leaked == {x \in added : x.action \in refusal.dropping}
             left == (owned \ owned) \cup leaked
             restored == Registers({x \in owned : x.action \notin ActionsOf(leaked)},
                                   left, refusal.restoring)
  <1>1. CannotAdd(Owning(owned, s, b), added, refusal) =
            Owning(leaked \cup restored, FALSE, leaked = {} /\ restored = owned)
    BY DEF CannotAdd, Owning
  <1>2. leaked = {} /\ restored = owned => leaked \cup restored = owned
    OBVIOUS
  <1>3. leaked \cup restored \subseteq owned \cup new
    BY DEF leaked, restored, Registers
  <1> HIDE DEF leaked, restored
  <1>. QED
    BY <1>1, <1>2, <1>3, OwningHonest

LEMMA ReplaceHonest ==
    ASSUME NEW owned, NEW s \in BOOLEAN, NEW b \in BOOLEAN, NEW new, NEW refusal
    PROVE  Honest(Replace(Owning(owned, s, b), new, refusal), new, owned)
  <1> DEFINE has == Owning(owned, s, b)
             stuck == {x \in has.current : x.action \in refusal.removing}
             refused == new \ Registers(new, has.held \ has.current, refusal.adding)
  <1>1. has.current = owned /\ has.held = owned
    BY DEF Owning
  <1>2. CASE new = has.current
    <2>1. Replace(has, new, refusal) = Owning(owned, TRUE, TRUE)
      BY <1>2 DEF Replace, Owning
    <2>. QED
      BY <1>1, <1>2, <2>1, OwningHonest
  <1>3. CASE new # has.current /\ stuck # {}
    <2>1. Replace(has, new, refusal) = CannotRemove(has, stuck, refusal)
      BY <1>3 DEF Replace
    <2>. QED
      BY <2>1, RemovalHonest
  <1>4. CASE new # has.current /\ stuck = {} /\ refused # {}
    <2>1. Replace(has, new, refusal) = CannotAdd(has, Before(new, refused), refusal)
      BY <1>4 DEF Replace
    <2>2. Before(new, refused) \subseteq new
      BY DEF Before
    <2>. QED
      BY <2>1, <2>2, AdditionHonest
  <1>5. CASE new # has.current /\ stuck = {} /\ refused = {}
    <2>1. Replace(has, new, refusal) = Replaced(new)
      BY <1>5 DEF Replace
    <2>2. Replace(has, new, refusal) = Owning(new, TRUE, TRUE)
      BY <2>1 DEF Replaced, Owning
    <2>. QED
      BY <2>2, OwningHonest
  <1>. QED
    BY <1>2, <1>3, <1>4, <1>5

(* A replacement that nobody refuses succeeds.                             *)
LEMMA ReplaceSucceeds ==
    ASSUME NEW owned, NEW s, NEW b, NEW new
    PROVE  Replace(Owning(owned, s, b), new, NoRefusal).success = TRUE
  <1> DEFINE has == Owning(owned, s, b)
             stuck == {x \in has.current : x.action \in NoRefusal.removing}
             refused == new \ Registers(new, has.held \ has.current, NoRefusal.adding)
  <1>1. stuck = {}
    BY DEF NoRefusal
  <1>2. refused = {}
    BY DEF NoRefusal, Owning, Registers, KeysOf
  <1>3. CASE new = has.current
    BY <1>3 DEF Replace, Owning
  <1>4. CASE new # has.current
    <2>1. Replace(has, new, NoRefusal) = Replaced(new)
      BY <1>1, <1>2, <1>4 DEF Replace
    <2>. QED
      BY <2>1 DEF Replaced
  <1>. QED
    BY <1>3, <1>4

(* The ways a replacement may go, while more may fail and when no more may. *)
LEMMA OutcomeFacts ==
    ASSUME NEW owned, NEW s \in BOOLEAN, NEW b \in BOOLEAN, NEW new,
           NEW r \in Outcomes(Owning(owned, s, b), new)
    PROVE  /\ Honest(r, new, owned)
           /\ ~(mishaps < MaxMishaps) => r.success = TRUE
  <1>1. PICK refusal : r = Replace(Owning(owned, s, b), new, refusal) /\
            (~(mishaps < MaxMishaps) => refusal = NoRefusal)
    BY DEF Outcomes
  <1>. QED
    BY <1>1, ReplaceHonest, ReplaceSucceeds

-----------------------------------------------------------------------------
(* Types.                                                                  *)

LEMMA ConstantTypes ==
    /\ NRuntime \in Nat /\ NAction \in Nat /\ Runtime \subseteq Action
    /\ MaxMishaps \in Nat /\ Default \in Config /\ Slots \in Setting
    /\ Action \subseteq Setting /\ Slots \notin Action
  BY HotkeysAssumption, SettingsAssumption DEF Runtime, Action, Setting, Slots

LEMMA ConfigTypes ==
    ASSUME NEW c \in Config
    PROVE  /\ [a \in Action |-> c[a]] \in [Action -> HotKey]
           /\ \A s \in Setting : c[s] \in Value(s)
           /\ \A a \in Action : c[a] \in HotKey
  BY ConstantTypes DEF Config, Value, Setting

LEMMA NativesTypes ==
    ASSUME NEW config \in [Action -> HotKey], NEW quick
    PROVE  Natives(config, quick) \subseteq Binding
  BY ConstantTypes DEF Natives, Binding

LEMMA LoadedTypes ==
    ASSUME NEW d \in [active : Stored, recovery : Stored, armed : BOOLEAN]
    PROVE  Loaded(d) \in Config
  <1> DEFINE from == IF d.armed THEN d.recovery ELSE OrDefault(d.active)
             valid == Distinct(from) /\ \A a \in Action : from[a] # Unset
             c == [s \in Setting |->
                     IF s = Slots THEN OrDefault(from)[s]
                     ELSE IF valid THEN from[s] ELSE Default[s]]
  <1>1. from \in Stored
    <2>1. d.active \in Stored /\ d.recovery \in Stored
      OBVIOUS
    <2>2. OrDefault(d.active) \in Stored
      BY <2>1, ConstantTypes DEF OrDefault, Stored, Value, Config, Setting
    <2>. QED
      BY <2>1, <2>2
  <1>2. Default[Slots] \in SlotSets /\ Distinct(Default) /\ \A a \in Action : Default[a] \in HotKey
    BY ConstantTypes DEF Config
  <1>3. c[Slots] \in SlotSets
    <2>1. from[Slots] \in {Unset} \cup SlotSets
      BY <1>1, ConstantTypes DEF Stored, Value
    <2> HIDE DEF from, valid
    <2>2. c[Slots] = IF from[Slots] = Unset THEN Default[Slots] ELSE from[Slots]
      BY ConstantTypes DEF OrDefault
    <2>. QED
      BY <1>2, <2>1, <2>2
  <1>4. \A a \in Action : from[a] \in {Unset} \cup HotKey
    BY <1>1, ConstantTypes DEF Stored, Value
  <1> HIDE DEF from
  <1>5. \A a \in Action : c[a] = IF valid THEN from[a] ELSE Default[a]
    BY ConstantTypes
  <1>6. \A a \in Action : c[a] \in HotKey
    BY <1>2, <1>4, <1>5
  <1>7. Distinct(c)
    BY <1>2, <1>5 DEF Distinct
  <1>8. c \in [Setting -> HotKey \cup SlotSets]
    BY <1>3, <1>6 DEF Setting
  <1>. QED
    BY <1>3, <1>6, <1>7, <1>8 DEF Loaded, Config, from

LEMMA KeyWritesTypes ==
    ASSUME NEW name \in {"active", "recovery"}, NEW c \in Config
    PROVE  KeyWrites(name, c) \in Seq(Writing) /\ Len(KeyWrites(name, c)) = NAction
  <1>1. \A a \in Action : Write(name, a, c[a]) \in Writing
    <2> TAKE a \in Action
    <2>1. a \in Setting /\ c[a] \in Value(a)
      BY ConstantTypes, ConfigTypes
    <2>. QED
      BY <2>1 DEF Writing
  <1>2. KeyWrites(name, c) \in [1 .. NAction -> Writing]
    BY <1>1 DEF KeyWrites, Action
  <1>. QED
    BY <1>2, ConstantTypes

LEMMA MarkerTypes == \A on \in BOOLEAN : Marker(on) \in Writing
  BY DEF Writing

LEMMA WritesTypes ==
    ASSUME NEW step, NEW c \in Config, shown \in Config, change.slots \in Value(Slots)
    PROVE  WritesOf(step, c) \in Seq(Writing)
  <1> DEFINE saves(name, value) == <<Write(name, Slots, value)>>
  <1>1. \A on \in BOOLEAN : <<Marker(on)>> \in Seq(Writing)
    BY MarkerTypes
  <1>2. \A name \in {"active", "recovery"}, value \in Value(Slots) : saves(name, value) \in Seq(Writing)
    BY ConstantTypes DEF Writing
  <1>3. shown[Slots] \in Value(Slots) /\ c[Slots] \in Value(Slots)
    BY ConstantTypes, ConfigTypes
  <1>4. ArmWrites(shown) \in Seq(Writing)
    <2>1. KeyWrites("recovery", shown) \in Seq(Writing)
      BY KeyWritesTypes
    <2> DEFINE w == KeyWrites("recovery", shown)
               m == <<Marker(TRUE)>>
    <2>2. w \in Seq(Writing) /\ m \in Seq(Writing)
      BY <2>1, <1>1
    <2> HIDE DEF w, m
    <2>3. w \o m \in Seq(Writing)
      BY <2>2, ConcatProperties
    <2>. QED
      BY <2>3 DEF ArmWrites, w, m
  <1>5. KeyWrites("active", c) \in Seq(Writing)
    BY KeyWritesTypes
  <1>6. <<>> \in Seq(Writing)
    OBVIOUS
  <1> HIDE DEF saves
  <1>7. WritesOf(step, c) \in {saves("recovery", shown[Slots]), ArmWrites(shown), KeyWrites("active", c),
                               saves("active", c[Slots]), saves("active", change.slots),
                               <<Marker(FALSE)>>, <<>>}
    BY DEF WritesOf, saves
  <1>. QED
    BY <1>1, <1>2, <1>3, <1>4, <1>5, <1>6, <1>7

LEMMA EnterTypes ==
    ASSUME TypeOK, NEW ch \in Change, NEW step \in Step
    PROVE  Enter(ch, step) \in Change
  <1>1. (IF ch.undo THEN shown ELSE ch.goal) \in Config
    BY DEF TypeOK, Change
  <1>2. disk.active[Slots] \in Value(Slots) /\ change.slots \in Value(Slots)
    BY ConstantTypes DEF TypeOK, Stored, Change
  <1> DEFINE writes == WritesOf(step, IF ch.undo THEN shown ELSE ch.goal)
  <1>3. writes \in Seq(Writing)
    BY <1>1, <1>2, WritesTypes DEF TypeOK
  <1> HIDE DEF writes
  <1>4. Enter(ch, step) = [ch EXCEPT !.step = step, !.writes = writes, !.missed = FALSE,
                              !.slots = IF step = "save_slots" THEN disk.active[Slots] ELSE ch.slots]
    BY DEF Enter, writes
  <1>5. (IF step = "save_slots" THEN disk.active[Slots] ELSE ch.slots) \in Value(Slots)
    BY <1>2 DEF Change
  <1>. QED
    BY <1>3, <1>4, <1>5 DEF Change

LEMMA NoChangeTypes == NoChange \in Change /\ [NoChange EXCEPT !.step = "start"] \in Change
  <1>1. Unset \in Value(Slots) /\ Default \in Config /\ <<>> \in Seq(Writing)
    BY ConstantTypes DEF Value
  <1>2. "rest" \in Step /\ "start" \in Step
    BY DEF Step
  <1>3. NoChange \in Change
    BY <1>1, <1>2 DEF NoChange, Change
  <1>. QED
    BY <1>2, <1>3 DEF Change

LEMMA OffTypes ==
    ASSUME NEW config \in [Action -> HotKey]
    PROVE  Off(config) \in HotkeyRuntime
  BY DEF Off, HotkeyRuntime

LEMMA FocusedTypes == \A r, q : FocusedMap(r, q) \subseteq Action
  BY DEF FocusedMap, QuickRun

(* The registrations after a replacement.                                  *)
LEMMA RegistrarTypes ==
    ASSUME HotkeysTypeOK, NEW r, NEW new, NEW owned \in SUBSET Binding, Honest(r, new, owned),
           new \subseteq Binding, ~(mishaps < MaxMishaps) => r.success = TRUE,
           Registrar(r, ~r.success)
    PROVE  held' \subseteq Binding /\ current' \subseteq Binding /\ mishaps' \in 0 .. MaxMishaps
           /\ held' = current' /\ r.current \subseteq Binding
  <1>1. r.held = r.current
    <2>1. r = Owning(r.current, r.success, r.rolledBack)
      BY DEF Honest
    <2>2. \A o, s, b : Owning(o, s, b).held = o
      BY DEF Owning
    <2>. QED
      BY <2>1, <2>2
  <1>2. r.current \subseteq Binding
    BY DEF Honest
  <1>3. mishaps' \in 0 .. MaxMishaps
    BY ConstantTypes DEF HotkeysTypeOK, Registrar
  <1>. QED
    BY <1>1, <1>2, <1>3 DEF Registrar

(* What the three operations of the runtime leave.                         *)
LEMMA InitializeFacts ==
    ASSUME HotkeysTypeOK, NEW config \in [Action -> HotKey], Initialize(config)
    PROVE  \E first, second :
        /\ Honest(first, Natives(config, FALSE), {})
        /\ \/ first.success = TRUE /\ Honest(second, Natives(config, TRUE), first.current)
           \/ first.success = FALSE /\ second = first
        /\ ~(mishaps < MaxMishaps) => second.success = TRUE
        /\ Registrar(second, ~second.success)
        /\ runtime' = StartedRuntime(config, first, second)
  <1>1. HasNone = Owning({}, TRUE, TRUE)
    BY DEF HasNone, Owning
  <1>2. PICK first, second :
          /\ first \in Outcomes(HasNone, Natives(config, FALSE))
          /\ second \in IF first.success THEN Outcomes(first, Natives(config, TRUE)) ELSE {first}
          /\ Registrar(second, ~second.success)
          /\ runtime' = StartedRuntime(config, first, second)
    BY Zenon DEF Initialize
  <1>3. Honest(first, Natives(config, FALSE), {}) /\ (~(mishaps < MaxMishaps) => first.success = TRUE)
    BY <1>1, <1>2, OutcomeFacts
  <1>4. first.success \in BOOLEAN
    BY <1>3 DEF Honest
  <1>5. CASE first.success = TRUE
    <2>1. first = Owning(first.current, first.success, first.rolledBack) /\ first.rolledBack \in BOOLEAN
      BY <1>3 DEF Honest
    <2>2. second \in Outcomes(Owning(first.current, first.success, first.rolledBack), Natives(config, TRUE))
      BY <1>2, <1>5, <2>1
    <2>3. /\ Honest(second, Natives(config, TRUE), first.current)
          /\ ~(mishaps < MaxMishaps) => second.success = TRUE
      BY <1>4, <2>1, <2>2, OutcomeFacts
    <2>. QED
      BY <1>2, <1>3, <1>5, <2>3, Zenon
  <1>6. CASE first.success = FALSE
    BY <1>2, <1>3, <1>6, Zenon
  <1>. QED
    BY <1>4, <1>5, <1>6

LEMMA InitializeTypes ==
    ASSUME HotkeysTypeOK, NEW config \in [Action -> HotKey], Initialize(config)
    PROVE  HotkeysTypeOK' /\ OwnsWhatItHolds'
  <1>1. PICK first, second :
        /\ Honest(first, Natives(config, FALSE), {})
        /\ \/ first.success = TRUE /\ Honest(second, Natives(config, TRUE), first.current)
           \/ first.success = FALSE /\ second = first
        /\ ~(mishaps < MaxMishaps) => second.success = TRUE
        /\ Registrar(second, ~second.success)
        /\ runtime' = StartedRuntime(config, first, second)
    BY InitializeFacts
  <1>2. Natives(config, TRUE) \subseteq Binding /\ Natives(config, FALSE) \subseteq Binding
    BY NativesTypes
  <1>3. first.current \subseteq Binding
    BY <1>1, <1>2 DEF Honest
  <1>4. PICK new \in SUBSET Binding, owned \in SUBSET Binding : Honest(second, new, owned)
    <2>1. CASE first.success = TRUE
      BY <1>1, <1>2, <1>3, <2>1
    <2>2. CASE first.success # TRUE
      <3>1. second = first
        BY <1>1, <2>2
      <3>2. Honest(first, Natives(config, FALSE), {})
        BY <1>1
      <3> USE <1>2
      <3> WITNESS Natives(config, FALSE) \in SUBSET Binding, {} \in SUBSET Binding
      <3>. QED
        BY <3>1, <3>2
    <2>. QED
      BY <2>1, <2>2
  <1>5. /\ held' \subseteq Binding /\ current' \subseteq Binding /\ mishaps' \in 0 .. MaxMishaps
        /\ held' = current' /\ second.current \subseteq Binding
    BY <1>1, <1>4, RegistrarTypes
  <1>6. first.success \in BOOLEAN /\ second.success \in BOOLEAN /\ second.rolledBack \in BOOLEAN
    BY <1>1, <1>4 DEF Honest
  <1> DEFINE quick == first.success /\ second.success
             degraded == ~second.rolledBack
             focused == IF degraded THEN {} ELSE FocusedMap(~first.success, first.success /\ ~quick)
  <1>7. focused \subseteq Action /\ quick \in BOOLEAN /\ degraded \in BOOLEAN
    BY <1>6, FocusedTypes
  <1>8. runtime' = [config |-> config, initialized |-> TRUE, enabled |-> TRUE, global |-> first.success,
                    quickGlobal |-> quick, degraded |-> degraded, native |-> second.current,
                    focused |-> focused]
    BY <1>1 DEF StartedRuntime, Off
  <1> HIDE DEF focused, quick, degraded
  <1>9. runtime' \in HotkeyRuntime
    BY <1>5, <1>6, <1>7, <1>8 DEF HotkeyRuntime
  <1>. QED
    BY <1>5, <1>9 DEF HotkeysTypeOK, OwnsWhatItHolds

LEMMA HasOwns == OwnsWhatItHolds => Has = Owning(current, TRUE, TRUE)
  BY DEF OwnsWhatItHolds, Has, Owning

LEMMA ApplyFacts ==
    ASSUME HotkeysTypeOK, OwnsWhatItHolds, NEW config \in [Action -> HotKey],
           NEW r \in ApplyOutcomes(config), Apply(config, r)
    PROVE  /\ Honest(r, Natives(config, WithQuickRun(config)), current)
           /\ ~(mishaps < MaxMishaps) => r.success = TRUE
           /\ held' \subseteq Binding /\ current' \subseteq Binding /\ mishaps' \in 0 .. MaxMishaps
           /\ held' = current' /\ current' = r.current /\ r.current \subseteq Binding
  <1>1. r \in Outcomes(Owning(current, TRUE, TRUE), Natives(config, WithQuickRun(config)))
    BY HasOwns DEF ApplyOutcomes
  <1>2. /\ Honest(r, Natives(config, WithQuickRun(config)), current)
        /\ ~(mishaps < MaxMishaps) => r.success = TRUE
    BY <1>1, OutcomeFacts
  <1>3. Registrar(r, ~r.success)
    BY DEF Apply
  <1>4. Natives(config, WithQuickRun(config)) \subseteq Binding /\ current \subseteq Binding
    BY NativesTypes DEF HotkeysTypeOK
  <1>5. current' = r.current
    BY <1>3 DEF Registrar
  <1>. QED
    BY <1>2, <1>3, <1>4, <1>5, RegistrarTypes

LEMMA ApplyTypes ==
    ASSUME HotkeysTypeOK, OwnsWhatItHolds, NEW config \in [Action -> HotKey],
           NEW r \in ApplyOutcomes(config), Apply(config, r)
    PROVE  HotkeysTypeOK' /\ OwnsWhatItHolds'
  <1> DEFINE quick == WithQuickRun(config)
  <1>1. /\ held' \subseteq Binding /\ current' \subseteq Binding /\ mishaps' \in 0 .. MaxMishaps
        /\ held' = current' /\ r.current \subseteq Binding
        /\ r.success \in BOOLEAN /\ r.rolledBack \in BOOLEAN
    BY ApplyFacts DEF Honest
  <1>2. quick \in BOOLEAN
    BY DEF WithQuickRun, HotkeysTypeOK, HotkeyRuntime
  <1>3. runtime' = AppliedRuntime(config, quick, r)
    BY DEF Apply
  <1> HIDE DEF quick
  <1>4. runtime' \in HotkeyRuntime
    BY <1>1, <1>2, <1>3, FocusedTypes DEF AppliedRuntime, HotkeysTypeOK, HotkeyRuntime
  <1>. QED
    BY <1>1, <1>4 DEF HotkeysTypeOK, OwnsWhatItHolds

LEMMA SwitchFacts ==
    ASSUME HotkeysTypeOK, OwnsWhatItHolds, NEW on \in BOOLEAN,
           NEW r \in SwitchOutcomes(on), SetQuickRunEnabled(on, r)
    PROVE  /\ \/ on = runtime.enabled /\ UNCHANGED <<hotkeys, mishaps>> /\ r.success = TRUE
              \/ /\ on # runtime.enabled
                 /\ Honest(r, Natives(runtime.config, on), current)
                 /\ ~(mishaps < MaxMishaps) => r.success = TRUE
                 /\ runtime' = SwitchedRuntime(on, r)
                 /\ current' = r.current /\ r.current \subseteq Binding
                 /\ Registrar(r, ~r.success)
           /\ held' \subseteq Binding /\ current' \subseteq Binding /\ mishaps' \in 0 .. MaxMishaps
           /\ held' = current'
  <1>1. CASE on = runtime.enabled
    <2>1. r = Has
      BY <1>1 DEF SwitchOutcomes
    <2>2. r.success = TRUE /\ r.held = held /\ r.current = current
      BY <2>1 DEF Has
    <2>3. runtime' = runtime /\ held' = held /\ current' = current /\ mishaps' = mishaps
      BY <1>1, <2>2 DEF SetQuickRunEnabled, Registrar
    <2>. QED
      BY <1>1, <2>2, <2>3 DEF hotkeys, HotkeysTypeOK, OwnsWhatItHolds
  <1>2. CASE on # runtime.enabled
    <2>1. r \in Outcomes(Owning(current, TRUE, TRUE), Natives(runtime.config, on))
      BY <1>2, HasOwns DEF SwitchOutcomes
    <2>2. /\ Honest(r, Natives(runtime.config, on), current)
          /\ ~(mishaps < MaxMishaps) => r.success = TRUE
      BY <2>1, OutcomeFacts
    <2>3. Registrar(r, ~r.success) /\ runtime' = SwitchedRuntime(on, r)
      BY <1>2 DEF SetQuickRunEnabled
    <2>4. Natives(runtime.config, on) \subseteq Binding /\ current \subseteq Binding
      BY NativesTypes DEF HotkeysTypeOK, HotkeyRuntime
    <2>5. current' = r.current
      BY <2>3 DEF Registrar
    <2>. QED
      BY <1>2, <2>2, <2>3, <2>4, <2>5, RegistrarTypes
  <1>. QED
    BY <1>1, <1>2

LEMMA SwitchTypes ==
    ASSUME HotkeysTypeOK, OwnsWhatItHolds, NEW on \in BOOLEAN,
           NEW r \in SwitchOutcomes(on), SetQuickRunEnabled(on, r)
    PROVE  HotkeysTypeOK' /\ OwnsWhatItHolds' /\ r.success \in BOOLEAN
  <1>1. /\ held' \subseteq Binding /\ current' \subseteq Binding /\ mishaps' \in 0 .. MaxMishaps
        /\ held' = current'
    BY SwitchFacts
  <1>2. \/ UNCHANGED runtime /\ r.success = TRUE
        \/ /\ runtime' = SwitchedRuntime(on, r) /\ r.current \subseteq Binding
           /\ r.success \in BOOLEAN /\ r.rolledBack \in BOOLEAN
    BY SwitchFacts DEF Honest, hotkeys
  <1>3. HasQuickRun(r.current) \in BOOLEAN
    BY DEF HasQuickRun
  <1> DEFINE quick == HasQuickRun(r.current)
             none == FocusedMap(FALSE, FALSE)
             some == FocusedMap(FALSE, on /\ ~quick)
  <1>4. none \subseteq Action /\ some \subseteq Action
    BY FocusedTypes
  <1>5. runtime \in HotkeyRuntime
    BY DEF HotkeysTypeOK
  <1>6. SwitchedRuntime(on, r) \in
          {[runtime EXCEPT !.enabled = on, !.quickGlobal = on, !.degraded = FALSE,
                           !.native = r.current, !.focused = none],
           [runtime EXCEPT !.degraded = TRUE, !.native = {}],
           [runtime EXCEPT !.degraded = FALSE, !.native = r.current,
                           !.quickGlobal = quick, !.focused = some]}
    BY DEF SwitchedRuntime
  <1> HIDE DEF none, some, quick
  <1>7. runtime' \in HotkeyRuntime
    <2>1. CASE UNCHANGED runtime
      BY <1>5, <2>1
    <2>2. CASE runtime' = SwitchedRuntime(on, r) /\ r.current \subseteq Binding
      BY <1>3, <1>4, <1>5, <1>6, <2>2 DEF HotkeyRuntime, quick
    <2>. QED
      BY <1>2, <2>1, <2>2
  <1>. QED
    BY <1>1, <1>2, <1>7 DEF HotkeysTypeOK, OwnsWhatItHolds

-----------------------------------------------------------------------------
(* The window never loses sight of a registration: everywhere, not only    *)
(* where nothing was refused.                                              *)

OwnInv == TypeOK /\ OwnsWhatItHolds

LEMMA HotkeysKeep ==
    ASSUME OwnInv, UNCHANGED <<hotkeys, mishaps>>
    PROVE  HotkeysTypeOK' /\ OwnsWhatItHolds'
  BY DEF OwnInv, TypeOK, HotkeysTypeOK, OwnsWhatItHolds, hotkeys

LEMMA HotkeysFlagged ==
    ASSUME OwnInv, NEW d \in BOOLEAN, runtime' = [runtime EXCEPT !.degraded = d],
           UNCHANGED <<held, current, mishaps>>
    PROVE  HotkeysTypeOK' /\ OwnsWhatItHolds'
  <1>1. runtime' \in HotkeyRuntime
    BY DEF OwnInv, TypeOK, HotkeysTypeOK, HotkeyRuntime
  <1>. QED
    BY <1>1 DEF OwnInv, TypeOK, HotkeysTypeOK, OwnsWhatItHolds

LEMMA OwnInvKeeps ==
    ASSUME OwnInv, HotkeysTypeOK', OwnsWhatItHolds', change' \in Change,
           UNCHANGED <<disk, broken>>,
           shown' \in Config, filtered' \subseteq HotKey, recording' \in BOOLEAN, editing' \in BOOLEAN
    PROVE  OwnInv'
  BY DEF OwnInv, TypeOK

LEMMA WindowTypes ==
    ASSUME OwnInv, UNCHANGED window
    PROVE  shown' \in Config /\ filtered' \subseteq HotKey /\ recording' \in BOOLEAN /\ editing' \in BOOLEAN
  BY DEF OwnInv, TypeOK, window

LEMMA StartTypes == OwnInv /\ Start => OwnInv'
  <1> SUFFICES ASSUME OwnInv, Start PROVE OwnInv'
    OBVIOUS
  <1> DEFINE c == Loaded(disk)
  <1>1. c \in Config
    BY LoadedTypes DEF OwnInv, TypeOK
  <1>2. /\ shown' = c /\ Initialize([a \in Action |-> c[a]]) /\ filtered' = {c[a] : a \in Runtime}
        /\ change' = NoChange /\ recording' = FALSE /\ editing' = FALSE /\ UNCHANGED <<disk, broken>>
    BY DEF Start
  <1> HIDE DEF c
  <1>3. HotkeysTypeOK' /\ OwnsWhatItHolds'
    BY <1>1, <1>2, ConfigTypes, InitializeTypes DEF OwnInv, TypeOK
  <1>4. filtered' \subseteq HotKey
    BY <1>1, <1>2, ConfigTypes, ConstantTypes
  <1>. QED
    BY <1>1, <1>2, <1>3, <1>4, NoChangeTypes, OwnInvKeeps

LEMMA EndsTypes ==
    ASSUME OwnInv, Ends, mishaps' \in 0 .. MaxMishaps
    PROVE  OwnInv'
  <1>1. /\ held' = {} /\ current' = {} /\ runtime' = Off(runtime.config)
        /\ change' = [NoChange EXCEPT !.step = "start"] /\ UNCHANGED <<disk, broken, window>>
    BY DEF Ends
  <1>2. runtime' \in HotkeyRuntime
    BY <1>1, OffTypes DEF OwnInv, TypeOK, HotkeysTypeOK, HotkeyRuntime
  <1>3. HotkeysTypeOK' /\ OwnsWhatItHolds'
    BY <1>1, <1>2 DEF HotkeysTypeOK, OwnsWhatItHolds
  <1>. QED
    BY <1>1, <1>3, NoChangeTypes, WindowTypes, OwnInvKeeps

LEMMA MovesTypes ==
    ASSUME OwnInv, NEW ch \in Change, NEW step \in Step, Moves(ch, step)
    PROVE  OwnInv'
  <1>1. change' = Enter(ch, step) /\ UNCHANGED <<hotkeys, mishaps, disk, broken, window>>
    BY DEF Moves
  <1>2. change' \in Change
    BY <1>1, EnterTypes DEF OwnInv
  <1>. QED
    BY <1>1, <1>2, HotkeysKeep, WindowTypes, OwnInvKeeps

LEMMA BeginTypes ==
    ASSUME OwnInv, NEW goal \in Config, Begin(goal)
    PROVE  OwnInv'
  <1> DEFINE ch == [NoChange EXCEPT !.goal = goal]
  <1>1. ch \in Change
    BY NoChangeTypes DEF Change
  <1>2. change' = Enter(ch, "arm_slots") /\ UNCHANGED <<hotkeys, mishaps, disk, broken, window>>
    BY DEF Begin
  <1> HIDE DEF ch
  <1>3. change' \in Change
    BY <1>1, <1>2, EnterTypes DEF OwnInv, Step
  <1>. QED
    BY <1>2, <1>3, HotkeysKeep, WindowTypes, OwnInvKeeps

LEMMA WriteTypes == OwnInv /\ WriteNext => OwnInv'
  <1> SUFFICES ASSUME OwnInv, WriteNext PROVE OwnInv'
    OBVIOUS
  <1>1. change \in Change /\ change.writes \in Seq(Writing) /\ change.writes # <<>> /\ broken \in BOOLEAN
    BY DEF OwnInv, TypeOK, Change, WriteNext
  <1>2. Head(change.writes) \in Writing /\ Tail(change.writes) \in Seq(Writing)
    BY <1>1
  <1>3. change' = [change EXCEPT !.writes = Tail(@), !.missed = @ \/ broken]
        /\ UNCHANGED <<hotkeys, mishaps, broken, window>>
    BY DEF WriteNext
  <1>4. change' \in Change
    <2> DEFINE ws == Tail(change.writes)
               m == change.missed \/ broken
    <2>1. m \in BOOLEAN /\ ws \in Seq(Writing)
      BY <1>1, <1>2 DEF Change
    <2>2. change' = [change EXCEPT !.writes = ws, !.missed = m]
      BY <1>3
    <2> HIDE DEF ws, m
    <2>. QED
      BY <1>1, <2>1, <2>2 DEF Change
  <1> DEFINE w == Head(change.writes)
             stores == [active : Stored, recovery : Stored, armed : BOOLEAN]
  <1>5. disk \in stores /\ w \in Writing
    BY <1>2 DEF OwnInv, TypeOK
  <1>6. disk' = CASE broken -> disk
                  [] ~broken /\ w.name = "armed" -> [disk EXCEPT !.armed = w.value]
                  [] OTHER -> [disk EXCEPT ![w.name][w.setting] = w.value]
    BY DEF WriteNext
  <1> HIDE DEF w
  <1>7. disk' \in stores
    <2>1. CASE broken
      BY <1>5, <1>6, <2>1
    <2>2. CASE ~broken /\ \E on \in BOOLEAN : w = Marker(on)
      <3>1. w.name = "armed" /\ w.value \in BOOLEAN
        BY <2>2 DEF Marker, Write
      <3>. QED
        BY <1>5, <1>6, <2>2, <3>1
    <2>3. CASE ~broken /\ ~\E on \in BOOLEAN : w = Marker(on)
      <3>1. PICK s \in Setting, name \in {"active", "recovery"} :
                \E value \in Value(s) : w = Write(name, s, value)
        BY <1>5, <2>3 DEF Writing
      <3> PICK value \in Value(s) : w = Write(name, s, value)
        BY <3>1
      <3>2. w.name = name /\ w.setting = s /\ w.value = value
        BY DEF Write
      <3>3. disk' = [disk EXCEPT ![name][s] = value]
        BY <1>6, <2>3, <3>2
      <3>4. \A d \in Stored : [d EXCEPT ![s] = value] \in Stored
        BY ConstantTypes DEF Stored, Value, Setting
      <3>5. disk.active \in Stored /\ disk.recovery \in Stored
        BY <1>5
      <3>6. [disk.active EXCEPT ![s] = value] \in Stored /\ [disk.recovery EXCEPT ![s] = value] \in Stored
        BY <3>4, <3>5
      <3>. QED
        BY <1>5, <3>3, <3>6
    <2>. QED
      BY <1>1, <2>1, <2>2, <2>3
  <1>8. HotkeysTypeOK' /\ OwnsWhatItHolds'
    BY <1>3, HotkeysKeep
  <1>. QED
    BY <1>3, <1>4, <1>7, <1>8, WindowTypes DEF OwnInv, TypeOK

LEMMA UndoesTypes == OwnInv /\ Undoes => OwnInv'
  <1> SUFFICES ASSUME OwnInv, Undoes PROVE OwnInv'
    OBVIOUS
  <1>1. change \in Change
    BY DEF OwnInv, TypeOK
  <1>2. CASE Moves([change EXCEPT !.undo = TRUE, !.failed = TRUE], "apply")
    <2>1. [change EXCEPT !.undo = TRUE, !.failed = TRUE] \in Change /\ "apply" \in Step
      BY <1>1 DEF Change, Step
    <2>. QED
      BY <1>2, <2>1, MovesTypes
  <1>3. CASE /\ change' = NoChange /\ runtime' = [runtime EXCEPT !.degraded = TRUE]
             /\ UNCHANGED <<held, current, mishaps, disk, broken, window>>
    BY <1>3, HotkeysFlagged, NoChangeTypes, WindowTypes, OwnInvKeeps
  <1>. QED
    BY <1>2, <1>3 DEF Undoes

LEMMA ApplyKeysTypes == OwnInv /\ ApplyKeys => OwnInv'
  <1> SUFFICES ASSUME OwnInv, ApplyKeys PROVE OwnInv'
    OBVIOUS
  <1> DEFINE config == [a \in Action |-> Target[a]]
  <1>1. change \in Change /\ Target \in Config
    BY DEF OwnInv, TypeOK, Change, Target
  <1>2. PICK r \in ApplyOutcomes(config) :
          /\ Apply(config, r)
          /\ change' = IF change.undo
                       THEN Enter([change EXCEPT !.keysBack = r.success], "save_keys")
                       ELSE Enter(change, IF r.success THEN "save_keys" ELSE "give_up")
    BY DEF ApplyKeys
  <1>3. config \in [Action -> HotKey]
    BY <1>1, ConfigTypes
  <1> HIDE DEF config
  <1>4. HotkeysTypeOK' /\ OwnsWhatItHolds' /\ r.success \in BOOLEAN
    BY <1>2, <1>3, ApplyTypes, ApplyFacts DEF OwnInv, TypeOK, Honest
  <1>5. [change EXCEPT !.keysBack = r.success] \in Change
    BY <1>1, <1>4 DEF Change
  <1>6. change' \in Change
    BY <1>1, <1>2, <1>5, EnterTypes DEF OwnInv, Step
  <1>. QED
    BY <1>4, <1>6, WindowTypes, OwnInvKeeps DEF ApplyKeys

LEMMA DisarmTypes == OwnInv /\ (Commit \/ CommitUndo) => OwnInv'
  <1> SUFFICES ASSUME OwnInv, Commit \/ CommitUndo PROVE OwnInv'
    OBVIOUS
  <1>1. change \in Change /\ runtime \in HotkeyRuntime
    BY DEF OwnInv, TypeOK, HotkeysTypeOK
  <1>2. CASE Commit
    <2>1. change.goal \in Config
      BY <1>1 DEF Change
    <2>2. {runtime.config[a] : a \in Runtime} \subseteq HotKey
      BY <1>1, ConstantTypes DEF HotkeyRuntime
    <2>3. HotkeysTypeOK' /\ OwnsWhatItHolds'
      BY <1>2, HotkeysKeep DEF Commit
    <2>4. /\ shown' = change.goal /\ filtered' = {runtime.config[a] : a \in Runtime} /\ change' = NoChange
          /\ UNCHANGED <<disk, broken, recording, editing>>
      BY <1>2 DEF Commit
    <2>5. recording' \in BOOLEAN /\ editing' \in BOOLEAN
      BY <2>4 DEF OwnInv, TypeOK
    <2>. QED
      BY <2>1, <2>2, <2>3, <2>4, <2>5, NoChangeTypes, OwnInvKeeps
  <1>3. CASE CommitUndo
    <2> DEFINE d == runtime.degraded \/ ~change.keysBack
    <2>1. d \in BOOLEAN
      OBVIOUS
    <2>2. /\ runtime' = [runtime EXCEPT !.degraded = d] /\ change' = NoChange
          /\ UNCHANGED <<held, current, mishaps, disk, broken, window>>
      BY <1>3 DEF CommitUndo
    <2> HIDE DEF d
    <2>. QED
      BY <2>1, <2>2, HotkeysFlagged, NoChangeTypes, WindowTypes, OwnInvKeeps
  <1>. QED
    BY <1>2, <1>3

LEMMA DoneTypes ==
    OwnInv /\ (ArmSlotsDone \/ ArmKeysDone \/ GiveUpDone \/ SaveKeysDone \/ SaveSlotsDone
               \/ RestoreSlotsDone \/ DisarmDone) => OwnInv'
  <1> SUFFICES ASSUME OwnInv, ArmSlotsDone \/ ArmKeysDone \/ GiveUpDone \/ SaveKeysDone \/ SaveSlotsDone
                              \/ RestoreSlotsDone \/ DisarmDone
               PROVE  OwnInv'
    OBVIOUS
  <1>1. change \in Change /\ [change EXCEPT !.failed = TRUE] \in Change
    BY DEF OwnInv, TypeOK, Change
  <1>2. \/ \E step \in {"arm_keys", "rest", "apply", "save_slots", "disarm"} : Moves(change, step)
        \/ Moves([change EXCEPT !.failed = TRUE], "restore_slots")
        \/ Undoes
        \/ Commit \/ CommitUndo
    BY Zenon DEF ArmSlotsDone, ArmKeysDone, GiveUpDone, SaveKeysDone, SaveSlotsDone, RestoreSlotsDone, DisarmDone
  <1>3. {"arm_keys", "rest", "apply", "save_slots", "disarm", "restore_slots"} \subseteq Step
    BY DEF Step
  <1>. QED
    BY <1>1, <1>2, <1>3, MovesTypes, UndoesTypes, DisarmTypes

LEMMA GestureTypes == OwnInv /\ (StartRecording \/ StopRecording \/ \E on \in BOOLEAN : EditKey(on)) => OwnInv'
  <1> SUFFICES ASSUME OwnInv, StartRecording \/ StopRecording \/ \E on \in BOOLEAN : EditKey(on)
               PROVE  OwnInv'
    OBVIOUS
  <1>1. HotkeysTypeOK /\ OwnsWhatItHolds /\ shown \in Config /\ filtered \subseteq HotKey
        /\ change \in Change /\ recording \in BOOLEAN /\ editing \in BOOLEAN
    BY DEF OwnInv, TypeOK
  <1>2. CASE StartRecording
    <2>1. HotkeysTypeOK' /\ OwnsWhatItHolds' /\ recording' \in BOOLEAN
      <3>1. CASE runtime.global
        <4>1. PICK r \in SwitchOutcomes(FALSE) : SetQuickRunEnabled(FALSE, r) /\ recording' = r.success
          BY <1>2, <3>1 DEF StartRecording
        <4>. QED
          BY <1>1, <4>1, SwitchTypes
      <3>2. CASE ~runtime.global
        BY <1>1, <1>2, <3>2, HotkeysKeep DEF StartRecording
      <3>. QED
        BY <3>1, <3>2
    <2>2. UNCHANGED <<disk, broken, change, shown, filtered, editing>>
      BY <1>2 DEF StartRecording
    <2>. QED
      BY <1>1, <2>1, <2>2, OwnInvKeeps
  <1>3. CASE StopRecording
    <2>1. PICK r \in SwitchOutcomes(TRUE) : SetQuickRunEnabled(TRUE, r)
      BY <1>3 DEF StopRecording
    <2>2. HotkeysTypeOK' /\ OwnsWhatItHolds'
      BY <1>1, <2>1, SwitchTypes
    <2>3. recording' = FALSE /\ UNCHANGED <<disk, broken, change, shown, filtered, editing>>
      BY <1>3 DEF StopRecording
    <2>. QED
      BY <1>1, <2>2, <2>3, OwnInvKeeps
  <1>4. ASSUME NEW on \in BOOLEAN, EditKey(on) PROVE OwnInv'
    <2>1. HotkeysTypeOK' /\ OwnsWhatItHolds'
      <3>1. CASE \E r \in SwitchOutcomes(~on) : SetQuickRunEnabled(~on, r)
        <4>1. (~on) \in BOOLEAN
          OBVIOUS
        <4>. QED
          BY <1>1, <3>1, <4>1, SwitchTypes
      <3>2. CASE UNCHANGED <<hotkeys, mishaps>>
        BY <3>2, HotkeysKeep
      <3>. QED
        BY <1>4, <3>1, <3>2 DEF EditKey
    <2>2. editing' = on /\ UNCHANGED <<disk, broken, change, shown, filtered, recording>>
      BY <1>4 DEF EditKey
    <2>. QED
      BY <1>1, <2>1, <2>2, OwnInvKeeps
  <1>. QED
    BY <1>2, <1>3, <1>4

LEMMA InitTypes == Init => OwnInv
  <1> SUFFICES ASSUME Init PROVE OwnInv
    OBVIOUS
  <1> DEFINE config == [a \in Action |-> Default[a]]
             blank == [s \in Setting |-> Unset]
  <1>1. config \in [Action -> HotKey] /\ Default \in Config
    BY ConstantTypes, ConfigTypes
  <1>2. blank \in Stored
    BY DEF Stored, Value
  <1>3. /\ held = {} /\ current = {} /\ mishaps = 0 /\ runtime = Off(config)
        /\ disk = [active |-> blank, recovery |-> blank, armed |-> FALSE]
        /\ broken = FALSE /\ shown = Default /\ filtered = {}
        /\ change = [NoChange EXCEPT !.step = "start"] /\ recording = FALSE /\ editing = FALSE
    BY DEF Init
  <1> HIDE DEF config, blank
  <1>4. HotkeysTypeOK /\ OwnsWhatItHolds
    BY <1>1, <1>3, OffTypes, ConstantTypes DEF HotkeysTypeOK, OwnsWhatItHolds
  <1>. QED
    BY <1>1, <1>2, <1>3, <1>4, NoChangeTypes DEF OwnInv, TypeOK

LEMMA OwnInvStep == OwnInv /\ [Next]_vars => OwnInv'
  <1> SUFFICES ASSUME OwnInv, [Next]_vars PROVE OwnInv'
    OBVIOUS
  <1>1. CASE UNCHANGED vars
    BY <1>1 DEF vars, hotkeys, window, OwnInv, TypeOK, HotkeysTypeOK, OwnsWhatItHolds
  <1>2. mishaps \in 0 .. MaxMishaps
    BY DEF OwnInv, TypeOK, HotkeysTypeOK
  <1>3. CASE Close
    BY <1>2, <1>3, EndsTypes DEF Close
  <1>4. CASE Crash
    <2>1. mishaps' \in 0 .. MaxMishaps
      BY <1>2, <1>4, ConstantTypes DEF Crash
    <2>. QED
      BY <1>4, <2>1, EndsTypes DEF Crash
  <1>5. CASE RegistryFails
    <2>1. /\ mishaps' \in 0 .. MaxMishaps /\ broken' = TRUE
          /\ UNCHANGED <<hotkeys, disk, change, window>>
      BY <1>2, <1>5, ConstantTypes DEF RegistryFails
    <2>2. HotkeysTypeOK' /\ OwnsWhatItHolds'
      BY <2>1 DEF OwnInv, TypeOK, HotkeysTypeOK, OwnsWhatItHolds, hotkeys
    <2>. QED
      BY <2>1, <2>2, WindowTypes DEF OwnInv, TypeOK
  <1>6. CASE RegistryRecovers
    <2>1. broken' = FALSE /\ UNCHANGED <<hotkeys, mishaps, disk, change, window>>
      BY <1>6 DEF RegistryRecovers
    <2>. QED
      BY <2>1, HotkeysKeep, WindowTypes DEF OwnInv, TypeOK
  <1>7. CASE ChangeHotkeys
    BY <1>7, BeginTypes DEF ChangeHotkeys
  <1>8. CASE ChangeQuickRun
    BY <1>8, BeginTypes DEF ChangeQuickRun
  <1>. QED
    BY <1>1, <1>3, <1>4, <1>5, <1>6, <1>7, <1>8, StartTypes, WriteTypes, ApplyKeysTypes,
       DoneTypes, GestureTypes DEF Next

THEOREM Typing == Spec => []TypeOK
  <1>. QED
    BY InitTypes, OwnInvStep, PTL DEF Spec, OwnInv

(* The registrations that the window believes in are those Windows holds,  *)
(* whichever calls were refused on the way (NativeHotkeySet.current).      *)
THEOREM Ownership == Spec => []OwnsWhatItHolds
  <1>. QED
    BY InitTypes, OwnInvStep, PTL DEF Spec, OwnInv

-----------------------------------------------------------------------------
(* What the window goes through, whatever fails.                           *)

(* A session runs from its start to its end; in it the window records only *)
(* while no change is made.                                                *)
SessionInv ==
    /\ runtime.initialized <=> change.step # "start"
    /\ ~runtime.initialized => runtime.native = {} /\ ~runtime.degraded
    /\ runtime.initialized /\ recording => AtRest

(* Nothing is amiss before the first mishap.                               *)
MishapInv ==
    /\ change.step = "restore_slots" => change.failed
    /\ runtime.degraded \/ broken \/ change.missed \/ change.failed \/ change.undo => mishaps >= 1

(* The keys of a runtime that does not say it is broken.                   *)
KeysRight ==
    /\ runtime.native = current
    /\ runtime.global =>
         /\ \E quick \in BOOLEAN : current = Natives(runtime.config, quick)
         /\ runtime.focused \subseteq QuickRun \ ActionsOf(current)
    /\ ~runtime.global => current = {} /\ runtime.focused = Action /\ runtime.enabled

LEMMA NativesActions ==
    ASSUME NEW config, NEW quick \in BOOLEAN
    PROVE  ActionsOf(Natives(config, quick)) = IF quick THEN Action ELSE Runtime
  <1> DEFINE some == IF quick THEN Action ELSE Runtime
             binding(a) == [action |-> a, key |-> config[a]]
  <1>1. Natives(config, quick) = {binding(a) : a \in some}
    BY DEF Natives
  <1>2. \A a : binding(a).action = a
    OBVIOUS
  <1> HIDE DEF some, binding
  <1>3. ActionsOf(Natives(config, quick)) = some
    BY <1>1, <1>2 DEF ActionsOf
  <1>. QED
    BY <1>3 DEF some

LEMMA FocusedRight ==
    ASSUME NEW config, NEW quick \in BOOLEAN, NEW on \in BOOLEAN
    PROVE  FocusedMap(FALSE, on /\ ~quick) \subseteq QuickRun \ ActionsOf(Natives(config, quick))
  BY NativesActions DEF FocusedMap, QuickRun

(* What a start, a change and a switch of the quick-run keys leave.        *)
LEMMA StartedRight ==
    ASSUME HotkeysTypeOK, NEW config \in [Action -> HotKey], Initialize(config)
    PROVE  /\ runtime'.initialized = TRUE /\ runtime'.enabled = TRUE /\ runtime'.config = config
           /\ runtime'.degraded => mishaps' >= 1
           /\ mishaps' >= mishaps
           /\ ~runtime'.degraded => KeysRight'
  <1>1. PICK first, second :
        /\ Honest(first, Natives(config, FALSE), {})
        /\ \/ first.success = TRUE /\ Honest(second, Natives(config, TRUE), first.current)
           \/ first.success = FALSE /\ second = first
        /\ ~(mishaps < MaxMishaps) => second.success = TRUE
        /\ Registrar(second, ~second.success)
        /\ runtime' = StartedRuntime(config, first, second)
    BY InitializeFacts
  <1> DEFINE quick == first.success /\ second.success
             degraded == ~second.rolledBack
             focused == IF degraded THEN {} ELSE FocusedMap(~first.success, first.success /\ ~quick)
  <1>2. runtime' = [config |-> config, initialized |-> TRUE, enabled |-> TRUE, global |-> first.success,
                    quickGlobal |-> quick, degraded |-> degraded, native |-> second.current,
                    focused |-> focused]
    BY <1>1 DEF StartedRuntime, Off
  <1> HIDE DEF focused, quick
  <1>3. /\ runtime'.config = config /\ runtime'.initialized = TRUE /\ runtime'.enabled = TRUE
        /\ runtime'.global = first.success /\ runtime'.degraded = degraded
        /\ runtime'.native = second.current /\ runtime'.focused = focused
    BY <1>2
  <1>4. first.success \in BOOLEAN /\ second.success \in BOOLEAN /\ second.rolledBack \in BOOLEAN
    BY <1>1 DEF Honest
  <1>5. current' = second.current /\ mishaps' = IF ~second.success THEN mishaps + 1 ELSE mishaps
    BY <1>1 DEF Registrar
  <1>6. mishaps \in Nat /\ MaxMishaps \in Nat
    BY ConstantTypes DEF HotkeysTypeOK
  <1>7. second.success => second.rolledBack
    BY <1>1 DEF Honest
  <1>8. ASSUME ~degraded PROVE KeysRight'
    <2>1. CASE first.success = FALSE
      <3>1. second = first
        BY <1>1, <2>1
      <3>2. first.current = {}
        BY <1>1, <1>8, <2>1, <3>1 DEF Honest
      <3>3. focused = Action
        BY <1>8, <2>1 DEF focused, FocusedMap
      <3>. QED
        BY <1>3, <1>5, <2>1, <3>1, <3>2, <3>3 DEF KeysRight
    <2>2. CASE first.success = TRUE
      <3>1. first.current = Natives(config, FALSE) /\ Honest(second, Natives(config, TRUE), first.current)
        BY <1>1, <2>2 DEF Honest
      <3>2. second.current = Natives(config, second.success)
        <4>1. CASE second.success = TRUE
          BY <3>1, <4>1 DEF Honest
        <4>2. CASE second.success = FALSE
          BY <1>8, <3>1, <4>2 DEF Honest
        <4>. QED
          BY <1>4, <4>1, <4>2
      <3>3. focused = FocusedMap(FALSE, TRUE /\ ~second.success)
        BY <1>8, <2>2 DEF focused, quick
      <3>4. focused \subseteq QuickRun \ ActionsOf(second.current)
        BY <1>4, <3>2, <3>3, FocusedRight
      <3>. QED
        BY <1>3, <1>4, <1>5, <2>2, <3>2, <3>4 DEF KeysRight
    <2>. QED
      BY <1>4, <2>1, <2>2
  <1>9. mishaps' >= mishaps /\ (degraded => mishaps' >= 1)
    BY <1>4, <1>5, <1>6, <1>7
  <1> HIDE DEF degraded
  <1>. QED
    BY <1>3, <1>8, <1>9

LEMMA AppliedRight ==
    ASSUME HotkeysTypeOK, OwnsWhatItHolds, NEW config \in [Action -> HotKey],
           NEW r \in ApplyOutcomes(config), Apply(config, r)
    PROVE  /\ runtime'.initialized = runtime.initialized /\ runtime'.enabled = runtime.enabled
           /\ runtime'.config = IF r.success THEN config ELSE runtime.config
           /\ runtime'.degraded => mishaps' >= 1
           /\ mishaps' >= mishaps
           /\ r.success => KeysRight' /\ ~runtime'.degraded /\ runtime'.global
           /\ ~r.success => mishaps' >= 1
           /\ ~(mishaps < MaxMishaps) => r.success
           /\ KeysRight => runtime'.degraded \/ KeysRight'
           /\ r.success /\ ~runtime.enabled => ActionsOf(runtime'.native) = Runtime
           /\ ~r.success => runtime'.native \in {{}, current}
  <1> DEFINE quick == WithQuickRun(config)
             focused == FocusedMap(FALSE, runtime.enabled /\ ~quick)
  <1>1. /\ Honest(r, Natives(config, quick), current)
        /\ ~(mishaps < MaxMishaps) => r.success = TRUE
        /\ current' = r.current
    BY ApplyFacts
  <1>2. r.success \in BOOLEAN /\ r.rolledBack \in BOOLEAN
    BY <1>1 DEF Honest
  <1>3. mishaps' = IF ~r.success THEN mishaps + 1 ELSE mishaps
    BY DEF Apply, Registrar
  <1>4. mishaps \in Nat /\ MaxMishaps \in Nat /\ runtime \in HotkeyRuntime
    BY ConstantTypes DEF HotkeysTypeOK
  <1>5. quick \in BOOLEAN
    BY <1>4 DEF WithQuickRun, HotkeyRuntime
  <1>6. runtime' = AppliedRuntime(config, quick, r)
    BY DEF Apply
  <1>7. CASE r.success = TRUE
    <2>1. runtime' = [runtime EXCEPT !.config = config, !.global = TRUE, !.quickGlobal = quick, !.degraded = FALSE,
                                     !.native = r.current, !.focused = focused]
      BY <1>6, <1>7 DEF AppliedRuntime
    <2>2. focused \subseteq QuickRun \ ActionsOf(Natives(config, quick))
      BY <1>4, <1>5, FocusedRight DEF HotkeyRuntime
    <2> HIDE DEF quick, focused
    <2>3. /\ runtime'.config = config /\ runtime'.global = TRUE /\ runtime'.degraded = FALSE
          /\ runtime'.native = r.current /\ runtime'.focused = focused
          /\ runtime'.initialized = runtime.initialized /\ runtime'.enabled = runtime.enabled
      BY <1>4, <2>1 DEF HotkeyRuntime
    <2>4. r.current = Natives(config, quick)
      BY <1>1, <1>7 DEF Honest
    <2>5. KeysRight'
      BY <1>1, <1>5, <2>2, <2>3, <2>4 DEF KeysRight
    <2>6. ~runtime.enabled => ActionsOf(runtime'.native) = Runtime
      <3>1. ~runtime.enabled => quick = FALSE
        BY <1>4 DEF quick, WithQuickRun, HotkeyRuntime
      <3>. QED
        BY <1>5, <2>3, <2>4, <3>1, NativesActions
    <2>. QED
      BY <1>3, <1>4, <1>7, <2>3, <2>5, <2>6
  <1>8. CASE r.success = FALSE
    <2>1. runtime' = [runtime EXCEPT !.global = runtime.global /\ r.rolledBack,
                                     !.degraded = ~r.rolledBack,
                                     !.native = IF r.rolledBack THEN r.current ELSE {},
                                     !.focused = IF r.rolledBack THEN runtime.focused ELSE {}]
      BY <1>6, <1>8 DEF AppliedRuntime
    <2>2. /\ runtime'.config = runtime.config /\ runtime'.degraded = ~r.rolledBack
          /\ runtime'.initialized = runtime.initialized /\ runtime'.enabled = runtime.enabled
      BY <1>4, <2>1 DEF HotkeyRuntime
    <2>3. r.rolledBack => /\ runtime'.native = r.current /\ runtime'.focused = runtime.focused
                          /\ runtime'.global = runtime.global
      BY <1>4, <2>1 DEF HotkeyRuntime
    <2>4. r.rolledBack => current' = current
      BY <1>1, <1>8 DEF Honest
    <2>5. KeysRight => runtime'.degraded \/ KeysRight'
      BY <1>1, <1>2, <2>2, <2>3, <2>4 DEF KeysRight
    <2>6. mishaps' >= 1 /\ mishaps' >= mishaps
      BY <1>3, <1>4, <1>8
    <2>7. runtime'.native \in {{}, current}
      <3>1. runtime'.native = IF r.rolledBack THEN r.current ELSE {}
        BY <1>4, <2>1 DEF HotkeyRuntime
      <3>2. r.rolledBack => r.current = current
        BY <1>1, <1>8 DEF Honest
      <3>. QED
        BY <1>2, <3>1, <3>2
    <2>. QED
      BY <1>1, <1>8, <2>2, <2>5, <2>6, <2>7
  <1>. QED
    BY <1>2, <1>7, <1>8

LEMMA SwitchedRight ==
    ASSUME HotkeysTypeOK, OwnsWhatItHolds, NEW on \in BOOLEAN, runtime.global \/ on,
           NEW r \in SwitchOutcomes(on), SetQuickRunEnabled(on, r)
    PROVE  /\ runtime'.initialized = runtime.initialized /\ runtime'.config = runtime.config
           /\ runtime'.global = runtime.global
           /\ runtime'.enabled = IF r.success THEN on ELSE runtime.enabled
           /\ runtime'.degraded => runtime.degraded \/ mishaps' >= 1
           /\ mishaps' >= mishaps
           /\ \/ UNCHANGED <<runtime, current>>
              \/ /\ r.success /\ (runtime.global => KeysRight')
                 /\ current' = Natives(runtime.config, on) /\ runtime'.native = current'
              \/ ~r.success /\ runtime'.degraded /\ runtime'.native = {}
              \/ ~r.success /\ current' = current /\ runtime'.native = current
           /\ KeysRight => runtime'.degraded \/ KeysRight'
           /\ ~(mishaps < MaxMishaps) => r.success
           /\ ~r.success => mishaps' >= 1
  <1>1. mishaps \in Nat /\ MaxMishaps \in Nat /\ runtime \in HotkeyRuntime
    BY ConstantTypes DEF HotkeysTypeOK
  <1>2. CASE on = runtime.enabled /\ UNCHANGED <<hotkeys, mishaps>> /\ r.success = TRUE
    <2>1. UNCHANGED <<runtime, current, mishaps>>
      BY <1>2 DEF hotkeys
    <2>2. KeysRight => KeysRight'
      BY <2>1 DEF KeysRight
    <2>3. mishaps' >= mishaps
      BY <1>1, <2>1
    <2>. QED
      BY <1>2, <2>1, <2>2, <2>3
  <1>3. CASE /\ on # runtime.enabled
             /\ Honest(r, Natives(runtime.config, on), current)
             /\ ~(mishaps < MaxMishaps) => r.success = TRUE
             /\ runtime' = SwitchedRuntime(on, r)
             /\ current' = r.current
             /\ Registrar(r, ~r.success)
    <2>1. r.success \in BOOLEAN /\ r.rolledBack \in BOOLEAN
      BY <1>3 DEF Honest
    <2>2. mishaps' = IF ~r.success THEN mishaps + 1 ELSE mishaps
      BY <1>3 DEF Registrar
    <2>3. CASE r.success = TRUE
      <3>1. runtime' = [runtime EXCEPT !.enabled = on, !.quickGlobal = on, !.degraded = FALSE,
                                       !.native = r.current, !.focused = FocusedMap(FALSE, FALSE)]
        BY <1>3, <2>3 DEF SwitchedRuntime
      <3>2. FocusedMap(FALSE, FALSE) = {}
        BY DEF FocusedMap
      <3>3. /\ runtime'.config = runtime.config /\ runtime'.global = runtime.global /\ runtime'.degraded = FALSE
            /\ runtime'.native = r.current /\ runtime'.focused = {}
            /\ runtime'.initialized = runtime.initialized /\ runtime'.enabled = on
        BY <1>1, <3>1, <3>2 DEF HotkeyRuntime
      <3>4. r.current = Natives(runtime.config, on)
        BY <1>3, <2>3 DEF Honest
      <3>5. runtime.global => KeysRight'
        BY <1>3, <3>3, <3>4 DEF KeysRight
      <3>6. KeysRight => runtime.global
        BY <1>3 DEF KeysRight
      <3>. QED
        BY <1>1, <1>3, <2>2, <2>3, <3>3, <3>4, <3>5, <3>6
    <2>4. CASE r.success = FALSE /\ r.rolledBack = FALSE
      <3>1. runtime' = [runtime EXCEPT !.degraded = TRUE, !.native = {}]
        BY <1>3, <2>4 DEF SwitchedRuntime
      <3>2. /\ runtime'.config = runtime.config /\ runtime'.global = runtime.global /\ runtime'.degraded = TRUE
            /\ runtime'.initialized = runtime.initialized /\ runtime'.enabled = runtime.enabled
            /\ runtime'.native = {}
        BY <1>1, <3>1 DEF HotkeyRuntime
      <3>. QED
        BY <1>1, <1>3, <2>2, <2>4, <3>2
    <2>5. CASE r.success = FALSE /\ r.rolledBack = TRUE
      <3> DEFINE quick == HasQuickRun(r.current)
                 focused == FocusedMap(FALSE, on /\ ~quick)
      <3>1. runtime' = [runtime EXCEPT !.degraded = FALSE, !.native = r.current,
                                       !.quickGlobal = quick, !.focused = focused]
        BY <1>3, <2>5 DEF SwitchedRuntime
      <3> HIDE DEF quick, focused
      <3>2. /\ runtime'.config = runtime.config /\ runtime'.global = runtime.global /\ runtime'.degraded = FALSE
            /\ runtime'.initialized = runtime.initialized /\ runtime'.enabled = runtime.enabled
            /\ runtime'.native = r.current /\ runtime'.focused = focused
        BY <1>1, <3>1 DEF HotkeyRuntime
      <3>3. r.current = current
        BY <1>3, <2>5 DEF Honest
      <3>4. focused \subseteq QuickRun \ ActionsOf(r.current)
        BY DEF focused, quick, FocusedMap, HasQuickRun
      <3>5. KeysRight => KeysRight'
        BY <1>3, <3>2, <3>3, <3>4 DEF KeysRight
      <3>. QED
        BY <1>1, <1>3, <2>2, <2>5, <3>2, <3>3, <3>5
    <2>. QED
      BY <2>1, <2>3, <2>4, <2>5
  <1>. QED
    BY <1>2, <1>3, SwitchFacts

-----------------------------------------------------------------------------
(* The course of a change.                                                 *)

LEMMA EnterFacts ==
    ASSUME NEW ch \in Change, NEW step
    PROVE  /\ Enter(ch, step).step = step /\ Enter(ch, step).missed = FALSE
           /\ Enter(ch, step).failed = ch.failed /\ Enter(ch, step).undo = ch.undo
           /\ Enter(ch, step).goal = ch.goal /\ Enter(ch, step).keysBack = ch.keysBack
  BY DEF Enter, Change

LEMMA NoChangeFacts ==
    /\ NoChange.step = "rest" /\ [NoChange EXCEPT !.step = "start"].step = "start"
    /\ NoChange.missed = FALSE /\ NoChange.failed = FALSE /\ NoChange.undo = FALSE
    /\ [NoChange EXCEPT !.step = "start"].missed = FALSE /\ [NoChange EXCEPT !.step = "start"].failed = FALSE
    /\ [NoChange EXCEPT !.step = "start"].undo = FALSE
  BY DEF NoChange

(* The steps that are done: which, and where each leads.                   *)
LEMMA DoneCases ==
    ASSUME ArmSlotsDone \/ ArmKeysDone \/ GiveUpDone \/ SaveKeysDone \/ SaveSlotsDone
           \/ RestoreSlotsDone \/ DisarmDone
    PROVE  \/ /\ change.step \in {"arm_slots", "arm_keys", "give_up"}
              /\ \E step \in {"arm_keys", "rest"} : Moves(change, step)
           \/ change.step = "arm_keys" /\ Moves(change, "apply")
           \/ change.step = "save_keys" /\ Moves(change, "save_slots")
           \/ change.step = "save_slots" /\ Moves(change, "disarm")
           \/ /\ change.step = "save_slots" /\ (change.missed \/ change.failed)
              /\ Moves([change EXCEPT !.failed = TRUE], "restore_slots")
           \/ /\ change.step \in {"save_keys", "disarm"} /\ (change.missed \/ change.failed)
              /\ Undoes
           \/ change.step = "restore_slots" /\ Undoes
           \/ change.step = "disarm" /\ (Commit \/ CommitUndo)
  <1>1. Synced(FALSE) => change.missed \/ change.failed
    BY DEF Synced
  <1>2. CASE ArmSlotsDone
    BY <1>2, Zenon DEF ArmSlotsDone
  <1>3. CASE ArmKeysDone
    BY <1>3, Zenon DEF ArmKeysDone
  <1>4. CASE GiveUpDone
    BY <1>4, Zenon DEF GiveUpDone
  <1>5. CASE SaveKeysDone
    BY <1>1, <1>5, Zenon DEF SaveKeysDone
  <1>6. CASE SaveSlotsDone
    BY <1>1, <1>6, Zenon DEF SaveSlotsDone
  <1>7. CASE RestoreSlotsDone
    BY <1>7, Zenon DEF RestoreSlotsDone
  <1>8. CASE DisarmDone
    BY <1>1, <1>8, Zenon DEF DisarmDone
  <1>. QED
    BY <1>2, <1>3, <1>4, <1>5, <1>6, <1>7, <1>8

CourseInv == OwnInv /\ SessionInv /\ MishapInv

(* While a step of a change is under way the window neither records nor    *)
(* begins anything else.                                                   *)
LEMMA Busy ==
    ASSUME CourseInv, change.step \notin {"start", "rest"}
    PROVE  runtime.initialized = TRUE /\ recording = FALSE
  BY DEF CourseInv, OwnInv, TypeOK, HotkeysTypeOK, HotkeyRuntime, SessionInv, AtRest

LEMMA MovesCourse ==
    ASSUME CourseInv, change.step \notin {"start", "rest"}, NEW ch \in Change, NEW step, Moves(ch, step),
           step # "start", ch.failed => mishaps >= 1, ch.undo => mishaps >= 1,
           step = "restore_slots" => ch.failed
    PROVE  SessionInv' /\ MishapInv'
  <1>1. change' = Enter(ch, step) /\ UNCHANGED <<hotkeys, mishaps, broken, window>>
    BY DEF Moves
  <1>2. /\ change'.step = step /\ change'.missed = FALSE /\ change'.failed = ch.failed /\ change'.undo = ch.undo
        /\ UNCHANGED <<runtime, mishaps, broken, recording>>
    BY <1>1, EnterFacts DEF hotkeys, window
  <1>3. runtime.initialized = TRUE /\ recording = FALSE
    BY Busy
  <1>4. SessionInv'
    BY <1>2, <1>3 DEF SessionInv
  <1>5. MishapInv'
    BY <1>2 DEF CourseInv, MishapInv
  <1>. QED
    BY <1>4, <1>5

LEMMA EndsCourse ==
    ASSUME CourseInv, Ends, mishaps' \in Nat, mishaps' >= mishaps
    PROVE  SessionInv' /\ MishapInv'
  <1>1. /\ runtime' = Off(runtime.config) /\ broken' = broken
        /\ change'.step = "start" /\ change'.missed = FALSE /\ change'.failed = FALSE /\ change'.undo = FALSE
    BY NoChangeFacts DEF Ends
  <1>2. runtime'.initialized = FALSE /\ runtime'.native = {} /\ runtime'.degraded = FALSE
    BY <1>1 DEF Off
  <1>3. SessionInv'
    BY <1>1, <1>2 DEF SessionInv
  <1>4. mishaps \in Nat /\ mishaps' >= mishaps
    BY DEF CourseInv, OwnInv, TypeOK, HotkeysTypeOK
  <1>5. broken => mishaps' >= 1
    <2>1. broken => mishaps >= 1
      BY DEF CourseInv, MishapInv
    <2>. QED
      BY <1>4, <2>1
  <1>6. MishapInv'
    BY <1>1, <1>2, <1>5 DEF MishapInv
  <1>. QED
    BY <1>3, <1>6

LEMMA UndoesCourse ==
    ASSUME CourseInv, Undoes, change.step \notin {"start", "rest"}, mishaps >= 1
    PROVE  SessionInv' /\ MishapInv'
  <1>1. change \in Change /\ runtime \in HotkeyRuntime
    BY DEF CourseInv, OwnInv, TypeOK, HotkeysTypeOK
  <1>2. runtime.initialized = TRUE /\ recording = FALSE
    BY Busy
  <1>3. CASE Moves([change EXCEPT !.undo = TRUE, !.failed = TRUE], "apply")
    <2> DEFINE ch == [change EXCEPT !.undo = TRUE, !.failed = TRUE]
    <2>1. ch \in Change
      BY <1>1 DEF Change
    <2> HIDE DEF ch
    <2>. QED
      BY <1>3, <2>1, MovesCourse DEF ch
  <1>4. CASE /\ change' = NoChange /\ runtime' = [runtime EXCEPT !.degraded = TRUE]
             /\ UNCHANGED <<held, current, mishaps, disk, broken, window>>
    <2>1. runtime'.initialized = TRUE /\ runtime'.degraded = TRUE
      BY <1>1, <1>2, <1>4 DEF HotkeyRuntime
    <2>2. recording' = FALSE /\ change'.step = "rest"
      BY <1>2, <1>4, NoChangeFacts DEF window
    <2>3. SessionInv'
      BY <2>1, <2>2 DEF SessionInv
    <2>4. MishapInv'
      BY <1>4, <2>2 DEF MishapInv
    <2>. QED
      BY <2>3, <2>4
  <1>. QED
    BY <1>3, <1>4 DEF Undoes

LEMMA DisarmCourse ==
    ASSUME CourseInv, Commit \/ CommitUndo, change.step = "disarm"
    PROVE  SessionInv' /\ MishapInv'
  <1>1. change \in Change /\ runtime \in HotkeyRuntime
    BY DEF CourseInv, OwnInv, TypeOK, HotkeysTypeOK
  <1>2. runtime.initialized = TRUE /\ recording = FALSE
    BY Busy
  <1>3. change' = NoChange /\ recording' = recording /\ mishaps' = mishaps /\ broken' = broken
    BY DEF Commit, CommitUndo, window
  <1>4. CASE Commit
    <2>1. runtime' = runtime
      BY <1>4 DEF Commit, hotkeys
    <2>2. SessionInv'
      BY <1>2, <1>3, <2>1, NoChangeFacts DEF SessionInv
    <2>3. MishapInv'
      BY <1>3, <2>1, NoChangeFacts DEF CourseInv, MishapInv
    <2>. QED
      BY <2>2, <2>3
  <1>5. CASE CommitUndo
    <2>1. runtime' = [runtime EXCEPT !.degraded = runtime.degraded \/ ~change.keysBack] /\ change.undo
      BY <1>5 DEF CommitUndo
    <2>2. runtime'.initialized = TRUE
      BY <1>1, <1>2, <2>1 DEF HotkeyRuntime
    <2>3. mishaps >= 1
      BY <2>1 DEF CourseInv, MishapInv
    <2>4. SessionInv'
      BY <1>2, <1>3, <2>2, NoChangeFacts DEF SessionInv
    <2>5. MishapInv'
      BY <1>3, <2>3, NoChangeFacts DEF MishapInv
    <2>. QED
      BY <2>4, <2>5
  <1>. QED
    BY <1>4, <1>5

LEMMA DoneCourse ==
    ASSUME CourseInv, ArmSlotsDone \/ ArmKeysDone \/ GiveUpDone \/ SaveKeysDone \/ SaveSlotsDone
                      \/ RestoreSlotsDone \/ DisarmDone
    PROVE  SessionInv' /\ MishapInv'
  <1>1. change \in Change
    BY DEF CourseInv, OwnInv, TypeOK
  <1>2. /\ change.missed \/ change.failed => mishaps >= 1
        /\ change.step = "restore_slots" => mishaps >= 1
        /\ change.undo => mishaps >= 1
    BY DEF CourseInv, MishapInv
  <1>3. ASSUME NEW step, step \notin {"start", "restore_slots"}, Moves(change, step),
               change.step \notin {"start", "rest"}
        PROVE  SessionInv' /\ MishapInv'
    BY <1>1, <1>2, <1>3, MovesCourse
  <1>4. ASSUME change.step = "save_slots", change.missed \/ change.failed,
               Moves([change EXCEPT !.failed = TRUE], "restore_slots")
        PROVE  SessionInv' /\ MishapInv'
    <2> DEFINE ch == [change EXCEPT !.failed = TRUE]
    <2>1. ch \in Change /\ ch.failed = TRUE /\ ch.undo = change.undo
      BY <1>1 DEF Change
    <2>2. Moves(ch, "restore_slots")
      BY <1>4
    <2> HIDE DEF ch
    <2>. QED
      BY <1>2, <1>4, <2>1, <2>2, MovesCourse
  <1>5. ASSUME Undoes, mishaps >= 1, change.step \notin {"start", "rest"}
        PROVE  SessionInv' /\ MishapInv'
    BY <1>5, UndoesCourse
  <1>. QED
    BY <1>2, <1>3, <1>4, <1>5, DoneCases, DisarmCourse

LEMMA ApplyCourse ==
    ASSUME CourseInv, ApplyKeys
    PROVE  SessionInv' /\ MishapInv'
  <1> DEFINE config == [a \in Action |-> Target[a]]
  <1>1. change \in Change /\ Target \in Config /\ HotkeysTypeOK /\ OwnsWhatItHolds /\ change.step = "apply"
        /\ mishaps \in Nat
    BY DEF CourseInv, OwnInv, TypeOK, HotkeysTypeOK, Change, Target, ApplyKeys
  <1>2. PICK r \in ApplyOutcomes(config) :
          /\ Apply(config, r)
          /\ change' = IF change.undo
                       THEN Enter([change EXCEPT !.keysBack = r.success], "save_keys")
                       ELSE Enter(change, IF r.success THEN "save_keys" ELSE "give_up")
    BY DEF ApplyKeys
  <1>3. config \in [Action -> HotKey]
    BY <1>1, ConfigTypes
  <1> HIDE DEF config
  <1>4. /\ runtime'.initialized = runtime.initialized /\ (runtime'.degraded => mishaps' >= 1) /\ mishaps' >= mishaps
        /\ r.success \in BOOLEAN /\ mishaps' \in Nat
    <2>1. HotkeysTypeOK'
      BY <1>1, <1>2, <1>3, ApplyTypes
    <2>2. Honest(r, Natives(config, WithQuickRun(config)), current)
      BY <1>1, <1>2, <1>3, ApplyFacts
    <2>3. /\ runtime'.initialized = runtime.initialized /\ (runtime'.degraded => mishaps' >= 1)
          /\ mishaps' >= mishaps
      BY <1>1, <1>2, <1>3, AppliedRight
    <2>. QED
      BY <2>1, <2>2, <2>3 DEF Honest, HotkeysTypeOK
  <1>5. [change EXCEPT !.keysBack = r.success] \in Change
    BY <1>1, <1>4 DEF Change
  <1>6. /\ change'.step \in {"save_keys", "give_up"} /\ change'.missed = FALSE
        /\ change'.failed = change.failed /\ change'.undo = change.undo
    <2>1. CASE change.undo
      <3>1. /\ [change EXCEPT !.keysBack = r.success].failed = change.failed
            /\ [change EXCEPT !.keysBack = r.success].undo = change.undo
        BY <1>1 DEF Change
      <3>. QED
        BY <1>2, <1>5, <2>1, <3>1, EnterFacts
    <2>2. CASE ~change.undo
      BY <1>1, <1>2, <2>2, EnterFacts
    <2>. QED
      BY <2>1, <2>2
  <1>7. runtime.initialized = TRUE /\ recording = FALSE
    BY <1>1, Busy
  <1>8. recording' = recording /\ broken' = broken
    BY DEF ApplyKeys, window
  <1>9. SessionInv'
    BY <1>4, <1>6, <1>7, <1>8 DEF SessionInv
  <1>10. change.failed \/ change.undo \/ broken => mishaps' >= 1
    <2>1. change.failed \/ change.undo \/ broken => mishaps >= 1
      BY DEF CourseInv, MishapInv
    <2>. QED
      BY <1>1, <1>4, <2>1
  <1>11. MishapInv'
    BY <1>4, <1>6, <1>8, <1>10 DEF MishapInv
  <1>. QED
    BY <1>9, <1>11

LEMMA SwitchCourse ==
    ASSUME CourseInv, NEW on \in BOOLEAN, NEW r \in SwitchOutcomes(on), SetQuickRunEnabled(on, r),
           AtRest, runtime.global \/ on, change' = change, broken' = broken
    PROVE  SessionInv' /\ MishapInv'
  <1>1. HotkeysTypeOK /\ OwnsWhatItHolds /\ mishaps \in Nat
    BY DEF CourseInv, OwnInv, TypeOK, HotkeysTypeOK
  <1>2. /\ runtime'.initialized = runtime.initialized /\ runtime'.global = runtime.global
        /\ runtime'.degraded => runtime.degraded \/ mishaps' >= 1
        /\ mishaps' >= mishaps /\ mishaps' \in Nat
    <2>1. HotkeysTypeOK'
      BY <1>1, SwitchTypes
    <2>2. /\ runtime'.initialized = runtime.initialized /\ runtime'.global = runtime.global
          /\ runtime'.degraded => runtime.degraded \/ mishaps' >= 1
          /\ mishaps' >= mishaps
      BY <1>1, SwitchedRight
    <2>. QED
      BY <2>1, <2>2 DEF HotkeysTypeOK
  <1>3. runtime.initialized = TRUE
    BY DEF CourseInv, OwnInv, TypeOK, HotkeysTypeOK, HotkeyRuntime, SessionInv, AtRest
  <1>4. SessionInv'
    BY <1>2, <1>3 DEF SessionInv, AtRest
  <1>5. runtime.degraded \/ broken \/ change.missed \/ change.failed \/ change.undo => mishaps' >= 1
    <2>1. runtime.degraded \/ broken \/ change.missed \/ change.failed \/ change.undo => mishaps >= 1
      BY DEF CourseInv, MishapInv
    <2>. QED
      BY <1>1, <1>2, <2>1
  <1>6. MishapInv'
    BY <1>2, <1>5 DEF MishapInv, AtRest
  <1>. QED
    BY <1>4, <1>6

LEMMA GestureCourse ==
    ASSUME CourseInv, StartRecording \/ StopRecording \/ \E on \in BOOLEAN : EditKey(on)
    PROVE  SessionInv' /\ MishapInv'
  <1>1. AtRest /\ change' = change /\ broken' = broken
    BY DEF StartRecording, StopRecording, EditKey
  <1>2. CASE StartRecording
    <2>1. CASE runtime.global
      BY <1>1, <1>2, <2>1, SwitchCourse DEF StartRecording
    <2>2. CASE ~runtime.global
      <3>1. runtime' = runtime /\ mishaps' = mishaps
        BY <1>2, <2>2 DEF StartRecording, hotkeys
      <3>. QED
        BY <1>1, <3>1 DEF CourseInv, SessionInv, MishapInv, AtRest
    <2>. QED
      BY <2>1, <2>2
  <1>3. CASE StopRecording
    BY <1>1, <1>3, SwitchCourse DEF StopRecording
  <1>4. ASSUME NEW on \in BOOLEAN, EditKey(on) PROVE SessionInv' /\ MishapInv'
    <2>1. CASE runtime.global /\ \E r \in SwitchOutcomes(~on) : SetQuickRunEnabled(~on, r)
      <3>1. (~on) \in BOOLEAN
        OBVIOUS
      <3>. QED
        BY <1>1, <2>1, <3>1, SwitchCourse
    <2>2. CASE UNCHANGED <<hotkeys, mishaps>>
      <3>1. runtime' = runtime /\ mishaps' = mishaps /\ recording' = recording
        BY <1>4, <2>2 DEF hotkeys, EditKey
      <3>2. SessionInv'
        BY <1>1, <3>1 DEF CourseInv, SessionInv, AtRest
      <3>3. MishapInv'
        BY <1>1, <3>1 DEF CourseInv, MishapInv
      <3>. QED
        BY <3>2, <3>3
    <2>. QED
      BY <1>4, <2>1, <2>2 DEF EditKey
  <1>. QED
    BY <1>2, <1>3, <1>4

LEMMA BeginCourse ==
    ASSUME CourseInv, NEW goal \in Config, Begin(goal)
    PROVE  SessionInv' /\ MishapInv'
  <1> DEFINE ch == [NoChange EXCEPT !.goal = goal]
  <1>1. ch \in Change /\ ch.failed = FALSE /\ ch.undo = FALSE
    BY NoChangeTypes, NoChangeFacts DEF Change
  <1>2. change' = Enter(ch, "arm_slots") /\ AtRest /\ ~recording
        /\ UNCHANGED <<hotkeys, mishaps, broken, window>>
    BY DEF Begin
  <1> HIDE DEF ch
  <1>3. /\ change'.step = "arm_slots" /\ change'.missed = FALSE /\ change'.failed = FALSE /\ change'.undo = FALSE
        /\ UNCHANGED <<runtime, mishaps, broken, recording>>
    BY <1>1, <1>2, EnterFacts DEF hotkeys, window
  <1>4. SessionInv'
    BY <1>2, <1>3 DEF CourseInv, SessionInv, AtRest
  <1>5. MishapInv'
    BY <1>3 DEF CourseInv, MishapInv
  <1>. QED
    BY <1>4, <1>5

LEMMA CourseStep == CourseInv /\ [Next]_vars => CourseInv'
  <1> SUFFICES ASSUME CourseInv, [Next]_vars PROVE CourseInv'
    OBVIOUS
  <1>1. OwnInv'
    BY OwnInvStep DEF CourseInv
  <1>2. mishaps \in Nat /\ mishaps' \in Nat
    BY <1>1 DEF CourseInv, OwnInv, TypeOK, HotkeysTypeOK
  <1> SUFFICES SessionInv' /\ MishapInv'
    BY <1>1 DEF CourseInv
  <1>3. CASE UNCHANGED vars
    BY <1>3 DEF vars, hotkeys, window, CourseInv, SessionInv, MishapInv, AtRest
  <1>4. CASE Start
    <2> DEFINE c == Loaded(disk)
    <2>1. c \in Config /\ HotkeysTypeOK
      BY LoadedTypes DEF CourseInv, OwnInv, TypeOK
    <2>2. /\ Initialize([a \in Action |-> c[a]]) /\ change' = NoChange /\ recording' = FALSE
          /\ broken' = broken
      BY <1>4 DEF Start
    <2> HIDE DEF c
    <2>3. /\ runtime'.initialized = TRUE /\ (runtime'.degraded => mishaps' >= 1) /\ mishaps' >= mishaps
      BY <2>1, <2>2, ConfigTypes, StartedRight
    <2>4. SessionInv'
      BY <2>2, <2>3, NoChangeFacts DEF SessionInv
    <2>5. broken => mishaps' >= 1
      <3>1. broken => mishaps >= 1
        BY DEF CourseInv, MishapInv
      <3>. QED
        BY <1>2, <2>3, <3>1
    <2>6. MishapInv'
      BY <2>2, <2>3, <2>5, NoChangeFacts DEF MishapInv
    <2>. QED
      BY <2>4, <2>6
  <1>5. CASE Close \/ Crash
    <2>1. Ends /\ mishaps' >= mishaps
      BY <1>2, <1>5 DEF Close, Crash
    <2>. QED
      BY <1>2, <2>1, EndsCourse
  <1>6. CASE RegistryFails
    <2>1. mishaps' >= 1 /\ change' = change /\ runtime' = runtime /\ recording' = recording
      BY <1>2, <1>6 DEF RegistryFails, hotkeys, window
    <2>. QED
      BY <2>1 DEF CourseInv, SessionInv, MishapInv, AtRest
  <1>7. CASE RegistryRecovers
    <2>1. mishaps' = mishaps /\ change' = change /\ runtime' = runtime /\ recording' = recording /\ broken' = FALSE
      BY <1>7 DEF RegistryRecovers, hotkeys, window
    <2>. QED
      BY <2>1 DEF CourseInv, SessionInv, MishapInv, AtRest
  <1>8. CASE ChangeHotkeys \/ ChangeQuickRun
    BY <1>8, BeginCourse DEF ChangeHotkeys, ChangeQuickRun
  <1>9. CASE WriteNext
    <2>1. /\ change' = [change EXCEPT !.writes = Tail(@), !.missed = @ \/ broken]
          /\ UNCHANGED <<runtime, mishaps, broken, recording>>
      BY <1>9 DEF WriteNext, hotkeys, window
    <2>2. change \in Change
      BY DEF CourseInv, OwnInv, TypeOK
    <2>3. /\ change'.step = change.step /\ change'.failed = change.failed /\ change'.undo = change.undo
          /\ change'.missed = (change.missed \/ broken)
      BY <2>1, <2>2 DEF Change
    <2>4. SessionInv'
      BY <2>1, <2>3 DEF CourseInv, SessionInv, AtRest
    <2>5. MishapInv'
      BY <2>1, <2>3 DEF CourseInv, MishapInv
    <2>. QED
      BY <2>4, <2>5
  <1>. QED
    BY <1>3, <1>4, <1>5, <1>6, <1>7, <1>8, <1>9, ApplyCourse, DoneCourse, GestureCourse DEF Next

LEMMA CourseInit == Init => CourseInv
  <1> SUFFICES ASSUME Init PROVE CourseInv
    OBVIOUS
  <1>1. runtime.initialized = FALSE /\ runtime.native = {} /\ runtime.degraded = FALSE
    BY DEF Init, Off
  <1>2. /\ change.step = "start" /\ change.missed = FALSE /\ change.failed = FALSE /\ change.undo = FALSE
        /\ broken = FALSE
    BY NoChangeFacts DEF Init
  <1>. QED
    BY <1>1, <1>2, InitTypes DEF CourseInv, SessionInv, MishapInv

-----------------------------------------------------------------------------
(* Keys.  A runtime whose keys are right keeps them right or says that it  *)
(* is broken, however often Windows refuses.  One that has said so may be  *)
(* taken for whole again by a second refusal (see the README); that its    *)
(* keys are right whenever it does not say otherwise needs that there is   *)
(* one mishap at most.                                                     *)

OneMishap == MaxMishaps <= 1

LEMMA NoMoreMishaps ==
    ASSUME OneMishap, CourseInv, runtime.degraded \/ change.undo
    PROVE  ~(mishaps < MaxMishaps)
  <1>1. mishaps \in Nat /\ mishaps >= 1
    BY DEF CourseInv, OwnInv, TypeOK, HotkeysTypeOK, MishapInv
  <1>. QED
    BY <1>1, ConstantTypes DEF OneMishap

(* What the step of a change that registers its keys does.                 *)
KeysApplied(success) ==
    /\ change' = IF change.undo
                 THEN Enter([change EXCEPT !.keysBack = success], "save_keys")
                 ELSE Enter(change, IF success THEN "save_keys" ELSE "give_up")
    /\ runtime'.enabled = runtime.enabled /\ runtime'.initialized = runtime.initialized
    /\ runtime'.config = IF success THEN [a \in Action |-> Target[a]] ELSE runtime.config
    /\ success => KeysRight' /\ ~runtime'.degraded /\ runtime'.global
    /\ ~success => mishaps' >= 1
    /\ mishaps' >= mishaps
    /\ ~(mishaps < MaxMishaps) => success
    /\ KeysRight => runtime'.degraded \/ KeysRight'
    /\ success /\ ~runtime.enabled => ActionsOf(runtime'.native) = Runtime
    /\ ~success => runtime'.native \in {{}, current}

LEMMA ApplyKeysRight ==
    ASSUME CourseInv, ApplyKeys
    PROVE  \E success \in BOOLEAN : KeysApplied(success)
  <1> DEFINE config == [a \in Action |-> Target[a]]
  <1>1. change \in Change /\ Target \in Config /\ HotkeysTypeOK /\ OwnsWhatItHolds
    BY DEF CourseInv, OwnInv, TypeOK, Change, Target
  <1>2. PICK r \in ApplyOutcomes(config) :
          /\ Apply(config, r)
          /\ change' = IF change.undo
                       THEN Enter([change EXCEPT !.keysBack = r.success], "save_keys")
                       ELSE Enter(change, IF r.success THEN "save_keys" ELSE "give_up")
    BY DEF ApplyKeys
  <1>3. config \in [Action -> HotKey]
    BY <1>1, ConfigTypes
  <1> HIDE DEF config
  <1>4. /\ runtime'.initialized = runtime.initialized /\ runtime'.enabled = runtime.enabled
        /\ runtime'.config = IF r.success THEN config ELSE runtime.config
        /\ r.success => KeysRight' /\ ~runtime'.degraded /\ runtime'.global
        /\ ~r.success => mishaps' >= 1
        /\ mishaps' >= mishaps
        /\ ~(mishaps < MaxMishaps) => r.success
        /\ KeysRight => runtime'.degraded \/ KeysRight'
        /\ r.success /\ ~runtime.enabled => ActionsOf(runtime'.native) = Runtime
        /\ ~r.success => runtime'.native \in {{}, current}
    BY <1>1, <1>2, <1>3, AppliedRight
  <1>5. Honest(r, Natives(config, WithQuickRun(config)), current)
    BY <1>1, <1>2, <1>3, ApplyFacts
  <1>6. r.success \in BOOLEAN
    BY <1>5 DEF Honest
  <1>7. runtime'.config = IF r.success THEN [a \in Action |-> Target[a]] ELSE runtime.config
    BY <1>4 DEF config
  <1>8. KeysApplied(r.success)
    BY <1>2, <1>4, <1>7 DEF KeysApplied
  <1>. QED
    BY <1>6, <1>8

Works == runtime.initialized /\ ~runtime.degraded

(* With one mishap, keys that are not global were never suspended: what     *)
(* suspends them is over when a change begins, unless that went wrong.      *)
OpenInv ==
    runtime.initialized =>
        /\ editing => AtRest
        /\ runtime.global \/ runtime.enabled
        /\ mishaps = 0 /\ ~recording /\ ~editing => runtime.enabled

LEMMA KeysStayRight ==
    ASSUME CourseInv, [Next]_vars, Works => KeysRight, Works \/ (OneMishap /\ OpenInv), Works'
    PROVE  KeysRight'
  <1>1. HotkeysTypeOK /\ OwnsWhatItHolds /\ runtime \in HotkeyRuntime
    BY DEF CourseInv, OwnInv, TypeOK, HotkeysTypeOK
  <1>2. OneMishap /\ runtime.degraded => ~(mishaps < MaxMishaps)
    BY NoMoreMishaps
  <1>3. ASSUME UNCHANGED <<runtime, current>> PROVE KeysRight'
    BY <1>3 DEF Works, KeysRight
  <1>4. ASSUME NEW on \in BOOLEAN, NEW r \in SwitchOutcomes(on), SetQuickRunEnabled(on, r),
               runtime.global
        PROVE  KeysRight'
    <2>1. /\ runtime'.initialized = runtime.initialized
          /\ \/ UNCHANGED <<runtime, current>>
             \/ r.success /\ KeysRight'
             \/ ~r.success
          /\ KeysRight => runtime'.degraded \/ KeysRight'
          /\ ~(mishaps < MaxMishaps) => r.success
      BY <1>1, <1>4, SwitchedRight
    <2>. QED
      BY <1>2, <1>3, <2>1 DEF Works
  <1>5. CASE ApplyKeys
    <2>1. PICK success \in BOOLEAN : KeysApplied(success)
      BY <1>5, ApplyKeysRight
    <2>. QED
      BY <1>2, <2>1 DEF Works, KeysApplied
  <1>6. CASE Start
    <2> DEFINE c == Loaded(disk)
    <2>1. c \in Config
      BY LoadedTypes DEF CourseInv, OwnInv, TypeOK
    <2>2. Initialize([a \in Action |-> c[a]])
      BY <1>6 DEF Start
    <2> HIDE DEF c
    <2>. QED
      BY <1>1, <2>1, <2>2, ConfigTypes, StartedRight DEF Works
  <1>7. CASE Close \/ Crash
    <2>1. runtime'.initialized = FALSE
      BY <1>7 DEF Close, Crash, Ends, Off
    <2>. QED
      BY <2>1 DEF Works
  <1>8. CASE StartRecording
    <2>1. CASE runtime.global
      BY <1>4, <1>8, <2>1 DEF StartRecording
    <2>2. CASE ~runtime.global
      BY <1>3, <1>8, <2>2 DEF StartRecording, hotkeys
    <2>. QED
      BY <2>1, <2>2
  <1>9. CASE StopRecording
    <2>1. CASE runtime.global
      BY <1>4, <1>9, <2>1 DEF StopRecording
    <2>2. CASE ~runtime.global
      <3>1. runtime.initialized = TRUE
        BY <1>1, <1>9 DEF StopRecording, CourseInv, HotkeyRuntime, SessionInv, AtRest
      <3>2. runtime.enabled = TRUE
        <4>1. CASE Works
          BY <2>2, <4>1, <1>1 DEF KeysRight, HotkeyRuntime
        <4>2. CASE OpenInv
          BY <2>2, <3>1, <4>2, <1>1 DEF OpenInv, HotkeyRuntime
        <4>. QED
          BY <4>1, <4>2
      <3>3. UNCHANGED <<runtime, current>>
        <4>1. PICK r \in SwitchOutcomes(TRUE) : SetQuickRunEnabled(TRUE, r)
          BY <1>9 DEF StopRecording
        <4>2. r = Has
          BY <3>2, <4>1 DEF SwitchOutcomes
        <4>3. runtime' = runtime /\ current' = r.current
          BY <3>2, <4>1 DEF SetQuickRunEnabled, Registrar
        <4>. QED
          BY <4>2, <4>3 DEF Has
      <3>. QED
        BY <1>3, <3>3
    <2>. QED
      BY <2>1, <2>2
  <1>10. ASSUME NEW on \in BOOLEAN, EditKey(on) PROVE KeysRight'
    <2>1. CASE runtime.global /\ \E r \in SwitchOutcomes(~on) : SetQuickRunEnabled(~on, r)
      <3>1. (~on) \in BOOLEAN
        OBVIOUS
      <3>. QED
        BY <1>4, <2>1, <3>1
    <2>2. CASE UNCHANGED <<hotkeys, mishaps>>
      BY <1>3, <2>2 DEF hotkeys
    <2>. QED
      BY <1>10, <2>1, <2>2 DEF EditKey
  <1>11. CASE Undoes
    <2>1. CASE UNCHANGED hotkeys
      BY <1>3, <2>1 DEF hotkeys
    <2>2. CASE runtime' = [runtime EXCEPT !.degraded = TRUE]
      <3>1. runtime'.degraded = TRUE
        BY <1>1, <2>2 DEF HotkeyRuntime
      <3>. QED
        BY <3>1 DEF Works
    <2>. QED
      BY <1>11, <2>1, <2>2 DEF Undoes, Moves
  <1>12. CASE CommitUndo
    <2>1. runtime' = [runtime EXCEPT !.degraded = runtime.degraded \/ ~change.keysBack] /\ current' = current
      BY <1>12 DEF CommitUndo
    <2>2. /\ runtime'.initialized = runtime.initialized /\ (runtime.degraded => runtime'.degraded)
          /\ runtime'.native = runtime.native /\ runtime'.global = runtime.global
          /\ runtime'.config = runtime.config /\ runtime'.focused = runtime.focused
      BY <1>1, <2>1 DEF HotkeyRuntime
    <2>. QED
      BY <2>1, <2>2 DEF Works, KeysRight
  <1>13. CASE ArmSlotsDone \/ ArmKeysDone \/ GiveUpDone \/ SaveKeysDone \/ SaveSlotsDone
              \/ RestoreSlotsDone \/ DisarmDone
    <2>1. \/ UNCHANGED hotkeys \/ Undoes \/ CommitUndo
      BY <1>13, DoneCases DEF Moves, Commit
    <2>. QED
      BY <1>3, <1>11, <1>12, <2>1 DEF hotkeys
  <1>14. CASE \/ RegistryFails \/ RegistryRecovers \/ ChangeHotkeys \/ ChangeQuickRun \/ WriteNext
              \/ UNCHANGED vars
    BY <1>3, <1>14 DEF RegistryFails, RegistryRecovers, ChangeHotkeys, ChangeQuickRun, Begin, WriteNext,
       vars, hotkeys
  <1>. QED
    BY <1>5, <1>6, <1>7, <1>8, <1>9, <1>10, <1>13, <1>14 DEF Next

LEMMA OpenSwitch ==
    ASSUME CourseInv, OpenInv, NEW on \in BOOLEAN, NEW r \in SwitchOutcomes(on),
           SetQuickRunEnabled(on, r), runtime.global \/ on, AtRest, change' = change,
           r.success => on \/ recording' \/ editing'
    PROVE  OpenInv'
  <1>1. HotkeysTypeOK /\ OwnsWhatItHolds /\ mishaps \in Nat
    BY DEF CourseInv, OwnInv, TypeOK, HotkeysTypeOK
  <1>2. /\ runtime'.initialized = runtime.initialized /\ runtime'.global = runtime.global
        /\ runtime'.enabled = IF r.success THEN on ELSE runtime.enabled
        /\ ~r.success => mishaps' >= 1
    BY <1>1, SwitchedRight
  <1>3. AtRest'
    BY DEF AtRest
  <1>4. r.success \in BOOLEAN /\ mishaps' \in Nat
    BY <1>1, SwitchTypes DEF HotkeysTypeOK
  <1>5. CASE r.success = TRUE
    BY <1>2, <1>3, <1>5 DEF OpenInv
  <1>6. CASE r.success = FALSE
    BY <1>2, <1>3, <1>4, <1>6 DEF OpenInv
  <1>. QED
    BY <1>4, <1>5, <1>6

LEMMA OpenStep ==
    ASSUME OneMishap, CourseInv, OpenInv, [Next]_vars
    PROVE  OpenInv'
  <1>1. /\ HotkeysTypeOK /\ OwnsWhatItHolds /\ runtime \in HotkeyRuntime /\ mishaps \in Nat
        /\ change \in Change /\ recording \in BOOLEAN /\ editing \in BOOLEAN
    BY DEF CourseInv, OwnInv, TypeOK, HotkeysTypeOK
  <1>2. runtime.initialized /\ ~AtRest => ~editing /\ ~recording
    BY DEF OpenInv, CourseInv, SessionInv
  <1>3. CASE Start
    <2> DEFINE c == Loaded(disk)
    <2>1. c \in Config
      BY LoadedTypes DEF CourseInv, OwnInv, TypeOK
    <2>2. Initialize([a \in Action |-> c[a]]) /\ editing' = FALSE /\ recording' = FALSE
      BY <1>3 DEF Start
    <2> HIDE DEF c
    <2>3. runtime'.enabled = TRUE
      BY <1>1, <2>1, <2>2, ConfigTypes, StartedRight
    <2>. QED
      BY <2>2, <2>3 DEF OpenInv
  <1>4. CASE Close \/ Crash
    <2>1. runtime'.initialized = FALSE
      BY <1>4 DEF Close, Crash, Ends, Off
    <2>. QED
      BY <2>1 DEF OpenInv
  <1>5. CASE ApplyKeys
    <2>1. PICK success \in BOOLEAN : KeysApplied(success)
      BY <1>5, ApplyKeysRight
    <2>2. ~AtRest /\ recording' = recording /\ editing' = editing
      BY <1>5 DEF ApplyKeys, AtRest, window
    <2>3. /\ runtime'.enabled = runtime.enabled /\ runtime'.initialized = runtime.initialized
          /\ success => runtime'.global
          /\ ~success => mishaps' >= 1
          /\ mishaps' >= mishaps /\ (~(mishaps < MaxMishaps) => success)
      BY <2>1 DEF KeysApplied
    <2>4. ~success => mishaps = 0
      BY <1>1, <2>3, ConstantTypes DEF OneMishap
    <2>5. mishaps' = 0 => mishaps = 0
      <3>1. mishaps' \in Nat
        <4>1. OwnInv'
          BY OwnInvStep DEF CourseInv
        <4>. QED
          BY <4>1 DEF OwnInv, TypeOK, HotkeysTypeOK
      <3>. QED
        BY <1>1, <2>3, <3>1
    <2>. QED
      BY <1>2, <2>2, <2>3, <2>4, <2>5 DEF OpenInv
  <1>6. CASE StartRecording
    <2>1. AtRest /\ change' = change /\ ~editing /\ editing' = editing
      BY <1>6 DEF StartRecording
    <2>2. CASE runtime.global
      <3>1. PICK r \in SwitchOutcomes(FALSE) : SetQuickRunEnabled(FALSE, r) /\ recording' = r.success
        BY <1>6, <2>2 DEF StartRecording
      <3>. QED
        BY <2>1, <2>2, <3>1, OpenSwitch
    <2>3. CASE ~runtime.global
      <3>1. runtime' = runtime /\ recording' = TRUE
        BY <1>6, <2>3 DEF StartRecording, hotkeys
      <3>. QED
        BY <2>1, <3>1 DEF OpenInv
    <2>. QED
      BY <2>2, <2>3
  <1>7. CASE StopRecording
    <2>1. AtRest /\ change' = change
      BY <1>7 DEF StopRecording
    <2>. QED
      BY <1>7, <2>1, OpenSwitch DEF StopRecording
  <1>8. ASSUME NEW on \in BOOLEAN, EditKey(on) PROVE OpenInv'
    <2>1. AtRest /\ change' = change /\ editing' = on /\ recording' = recording
      BY <1>8 DEF EditKey
    <2>2. CASE runtime.global /\ \E r \in SwitchOutcomes(~on) : SetQuickRunEnabled(~on, r)
      <3>1. (~on) \in BOOLEAN
        OBVIOUS
      <3>. QED
        BY <2>1, <2>2, <3>1, OpenSwitch
    <2>3. CASE ~runtime.global /\ UNCHANGED <<hotkeys, mishaps>>
      <3>1. runtime' = runtime /\ AtRest'
        BY <2>1, <2>3 DEF hotkeys, AtRest
      <3>. QED
        BY <2>3, <3>1 DEF OpenInv
    <2>. QED
      BY <1>8, <2>2, <2>3 DEF EditKey
  <1>9. CASE Undoes /\ ~AtRest
    <2>1. UNCHANGED window /\ mishaps' = mishaps
      BY <1>9 DEF Undoes, Moves
    <2>2. UNCHANGED hotkeys \/ runtime' = [runtime EXCEPT !.degraded = TRUE]
      BY <1>9 DEF Undoes, Moves
    <2>3. /\ runtime'.initialized = runtime.initialized /\ runtime'.global = runtime.global
          /\ runtime'.enabled = runtime.enabled
      BY <1>1, <2>2 DEF HotkeyRuntime, hotkeys
    <2>. QED
      BY <1>1, <1>2, <1>9, <2>1, <2>3 DEF OpenInv, window
  <1>10. CASE CommitUndo /\ ~AtRest
    <2>1. /\ runtime' = [runtime EXCEPT !.degraded = runtime.degraded \/ ~change.keysBack]
          /\ UNCHANGED window /\ mishaps' = mishaps
      BY <1>10 DEF CommitUndo
    <2>2. /\ runtime'.initialized = runtime.initialized /\ runtime'.global = runtime.global
          /\ runtime'.enabled = runtime.enabled
      BY <1>1, <2>1 DEF HotkeyRuntime
    <2>. QED
      BY <1>2, <1>10, <2>1, <2>2 DEF OpenInv, window
  <1>11. CASE \/ ArmSlotsDone \/ ArmKeysDone \/ GiveUpDone \/ SaveKeysDone \/ SaveSlotsDone
              \/ RestoreSlotsDone \/ DisarmDone
    <2>1. ~AtRest
      BY <1>11 DEF ArmSlotsDone, ArmKeysDone, GiveUpDone, SaveKeysDone, SaveSlotsDone, RestoreSlotsDone,
         DisarmDone, AtRest
    <2>2. \/ Undoes \/ CommitUndo
          \/ UNCHANGED <<hotkeys, mishaps, recording, editing>>
      BY <1>11, DoneCases DEF Moves, Commit, window
    <2>3. CASE UNCHANGED <<hotkeys, mishaps, recording, editing>>
      BY <1>2, <2>1, <2>3 DEF hotkeys, OpenInv
    <2>. QED
      BY <1>9, <1>10, <2>1, <2>2, <2>3
  <1>12. CASE RegistryFails \/ RegistryRecovers \/ WriteNext \/ UNCHANGED vars
    <2>1. /\ UNCHANGED <<runtime, recording, editing>> /\ mishaps' \in {mishaps, mishaps + 1}
          /\ change'.step = change.step
      BY <1>1, <1>12 DEF RegistryFails, RegistryRecovers, WriteNext, vars, hotkeys, window, Change
    <2>. QED
      BY <1>1, <2>1 DEF OpenInv, AtRest
  <1>13. CASE ChangeHotkeys \/ ChangeQuickRun
    <2>1. UNCHANGED <<runtime, recording, editing, mishaps>> /\ ~editing
      BY <1>13 DEF ChangeHotkeys, ChangeQuickRun, Begin, hotkeys, window
    <2>. QED
      BY <2>1 DEF OpenInv
  <1>. QED
    BY <1>3, <1>4, <1>5, <1>6, <1>7, <1>8, <1>11, <1>12, <1>13 DEF Next

RightInv == CourseInv /\ (Works => KeysRight) /\ OpenInv

LEMMA RightStep == OneMishap /\ RightInv /\ [Next]_vars => RightInv'
  BY CourseStep, KeysStayRight, OpenStep DEF RightInv

(* Keys that are right are what the settings show.                         *)
LEMMA RightShows ==
    ASSUME RightInv
    PROVE  KeysDoWhatTheyShow
  <1> SUFFICES ASSUME Works
               PROVE  /\ \A a \in Runtime : GlobalKey(a) # FocusedKey(a)
                      /\ \A a \in QuickRun : ~(GlobalKey(a) /\ FocusedKey(a))
                      /\ \A b \in held : b.key = runtime.config[b.action]
    BY DEF KeysDoWhatTheyShow, Works
  <1>1. KeysRight /\ held = current /\ ~runtime.degraded /\ runtime.native = current
        /\ runtime.global \in BOOLEAN
    BY DEF RightInv, CourseInv, OwnInv, TypeOK, HotkeysTypeOK, HotkeyRuntime, OwnsWhatItHolds, Works, KeysRight
  <1>2. \A a : GlobalKey(a) <=> a \in ActionsOf(current)
    BY <1>1 DEF GlobalKey, ActionsOf
  <1>3. \A a : FocusedKey(a) <=> a \in runtime.focused
    BY <1>1 DEF FocusedKey
  <1>4. CASE runtime.global
    <2>1. PICK quick \in BOOLEAN : current = Natives(runtime.config, quick)
      BY <1>1, <1>4 DEF KeysRight
    <2>2. runtime.focused \subseteq QuickRun \ ActionsOf(current)
      BY <1>1, <1>4 DEF KeysRight
    <2>3. Runtime \subseteq ActionsOf(current)
      BY <2>1, NativesActions, ConstantTypes
    <2>4. \A b \in current : b.key = runtime.config[b.action]
      BY <2>1 DEF Natives
    <2>5. ASSUME NEW a \in Runtime PROVE GlobalKey(a) # FocusedKey(a)
      <3>1. GlobalKey(a) /\ ~FocusedKey(a)
        BY <1>2, <1>3, <2>2, <2>3 DEF QuickRun
      <3>. QED
        BY <3>1
    <2>. QED
      BY <1>1, <1>2, <1>3, <2>2, <2>4, <2>5
  <1>5. CASE ~runtime.global
    <2>1. current = {} /\ runtime.focused = Action
      BY <1>1, <1>5 DEF KeysRight
    <2>2. \A a : ~GlobalKey(a)
      BY <1>2, <2>1 DEF ActionsOf
    <2>3. ASSUME NEW a \in Runtime PROVE GlobalKey(a) # FocusedKey(a)
      <3>1. FocusedKey(a)
        BY <1>3, <2>1, ConstantTypes
      <3>. QED
        BY <2>2, <3>1
    <2>. QED
      BY <1>1, <2>1, <2>2, <2>3
  <1>. QED
    BY <1>1, <1>4, <1>5

(* A step after which a runtime that worked neither works nor says so is   *)
(* none of the code's: keys go wrong only aloud, whatever Windows refuses. *)
THEOREM BreaksAloud == Spec => [][Works /\ KeysRight /\ Works' => KeysRight']_vars
  <1>1. CourseInv /\ [Next]_vars => [Works /\ KeysRight /\ Works' => KeysRight']_vars
    BY KeysStayRight
  <1>. QED
    BY <1>1, CourseInit, CourseStep, PTL DEF Spec

(* With one mishap at most, whatever does not say that it is broken has    *)
(* every key, once, as the settings show it.                               *)
THEOREM KeysShown == OneMishap => (Spec => []KeysDoWhatTheyShow)
  <1> SUFFICES ASSUME OneMishap PROVE Spec => []KeysDoWhatTheyShow
    OBVIOUS
  <1>1. Init => RightInv
    <2> SUFFICES ASSUME Init PROVE RightInv
      OBVIOUS
    <2>1. runtime.initialized = FALSE
      BY DEF Init, Off
    <2>. QED
      BY <2>1, CourseInit DEF RightInv, OpenInv, Works
  <1>2. RightInv /\ [Next]_vars => RightInv'
    BY RightStep
  <1>3. RightInv => KeysDoWhatTheyShow
    BY RightShows
  <1>. QED
    BY <1>1, <1>2, <1>3, PTL DEF Spec

-----------------------------------------------------------------------------
(* Recordings.                                                             *)

Saving == {"save_keys", "save_slots", "restore_slots", "disarm"}
KeysOfSettings(c) == [a \in Action |-> c[a]]

(* In a session: suspended quick-run keys are not registered; a recording  *)
(* has suspended them; and the runtime has the keys shown, or those of the *)
(* change once it has registered them.                                     *)
CleanInv ==
    runtime.initialized =>
        /\ ~runtime.enabled => ActionsOf(runtime.native) \subseteq Runtime
        /\ recording => ~editing /\ (runtime.global => ~runtime.enabled)
        /\ editing => AtRest
        /\ filtered = {shown[a] : a \in Runtime}
        /\ change.step \notin Saving /\ ~(change.step = "apply" /\ change.undo) =>
               runtime.config = KeysOfSettings(shown)
        /\ change.step \in Saving => runtime.config = KeysOfSettings(Target)

NoFieldWhileRecording == "edit_while_recording" \notin May

QuietInv == RightInv /\ CleanInv

LEMMA QuietFacts ==
    ASSUME QuietInv
    PROVE  /\ CourseInv /\ change \in Change /\ runtime \in HotkeyRuntime /\ change.undo \in BOOLEAN
           /\ runtime.initialized \in BOOLEAN /\ runtime.enabled \in BOOLEAN
           /\ runtime.initialized <=> change.step # "start"
  <1>1. CourseInv /\ change \in Change /\ runtime \in HotkeyRuntime
    BY DEF QuietInv, RightInv, CourseInv, OwnInv, TypeOK, HotkeysTypeOK
  <1>. QED
    BY <1>1 DEF CourseInv, SessionInv, Change, HotkeyRuntime

LEMMA BusyClean ==
    ASSUME QuietInv, change.step \notin {"start", "rest"}
    PROVE  /\ runtime.initialized = TRUE /\ recording = FALSE /\ editing = FALSE
           /\ ~runtime.enabled => ActionsOf(runtime.native) \subseteq Runtime
           /\ filtered = {shown[a] : a \in Runtime}
  <1>1. CourseInv /\ editing \in BOOLEAN
    BY QuietFacts DEF CourseInv, OwnInv, TypeOK
  <1>2. runtime.initialized = TRUE /\ recording = FALSE
    BY <1>1, Busy
  <1>. QED
    BY <1>1, <1>2 DEF QuietInv, CleanInv, AtRest

LEMMA MovesClean ==
    ASSUME QuietInv, change.step \notin {"start", "rest"}, NEW ch \in Change, NEW step, Moves(ch, step),
           step \in Saving => runtime.config = KeysOfSettings(IF ch.undo THEN shown ELSE ch.goal),
           step \notin Saving => runtime.config = KeysOfSettings(shown) \/ (step = "apply" /\ ch.undo)
    PROVE  CleanInv'
  <1>1. /\ change'.step = step /\ change'.undo = ch.undo /\ change'.goal = ch.goal
        /\ UNCHANGED <<runtime, shown, filtered, recording, editing>>
    BY EnterFacts DEF Moves, hotkeys, window
  <1>2. Target' = IF ch.undo THEN shown ELSE ch.goal
    BY <1>1 DEF Target
  <1>. QED
    BY <1>1, <1>2, BusyClean DEF CleanInv

LEMMA UndoesClean ==
    ASSUME QuietInv, Undoes, change.step \in Saving
    PROVE  CleanInv'
  <1>1. change \in Change /\ runtime \in HotkeyRuntime
    BY QuietFacts
  <1>2. change.step \notin {"start", "rest", "apply"}
    BY DEF Saving
  <1>3. CASE Moves([change EXCEPT !.undo = TRUE, !.failed = TRUE], "apply")
    <2> DEFINE ch == [change EXCEPT !.undo = TRUE, !.failed = TRUE]
    <2>1. ch \in Change /\ ch.undo = TRUE
      BY <1>1 DEF Change
    <2>2. Moves(ch, "apply") /\ "apply" \notin Saving
      BY <1>3 DEF Saving
    <2> HIDE DEF ch
    <2>. QED
      BY <1>2, <2>1, <2>2, MovesClean
  <1>4. CASE /\ change.undo /\ change' = NoChange /\ runtime' = [runtime EXCEPT !.degraded = TRUE]
             /\ UNCHANGED window
    <2>1. /\ runtime'.config = runtime.config /\ runtime'.enabled = runtime.enabled
          /\ runtime'.native = runtime.native
      BY <1>1, <1>4 DEF HotkeyRuntime
    <2>2. UNCHANGED <<shown, filtered, recording, editing>> /\ change'.step = "rest"
      BY <1>4, NoChangeFacts DEF window
    <2>3. runtime.config = KeysOfSettings(shown)
      BY <1>2, <1>4, BusyClean DEF QuietInv, CleanInv, Target
    <2>4. "rest" \notin Saving /\ "rest" # "apply"
      BY DEF Saving
    <2>. QED
      BY <1>2, <2>1, <2>2, <2>3, <2>4, BusyClean DEF CleanInv, KeysOfSettings
  <1>. QED
    BY <1>3, <1>4 DEF Undoes

LEMMA DisarmClean ==
    ASSUME QuietInv, Commit \/ CommitUndo, change.step = "disarm"
    PROVE  CleanInv'
  <1>1. change \in Change /\ runtime \in HotkeyRuntime
    BY QuietFacts
  <1>2. runtime.config = KeysOfSettings(Target)
    BY BusyClean DEF QuietInv, CleanInv, Saving
  <1>3. change'.step = "rest" /\ "rest" \notin Saving /\ recording' = recording /\ editing' = editing
    BY NoChangeFacts DEF Commit, CommitUndo, window, Saving
  <1>4. CASE Commit
    <2>1. runtime' = runtime /\ shown' = change.goal /\ filtered' = {runtime.config[a] : a \in Runtime}
          /\ runtime.config = KeysOfSettings(change.goal)
      BY <1>2, <1>4 DEF Commit, hotkeys, Target
    <2>2. filtered' = {shown'[a] : a \in Runtime}
      BY <2>1, ConstantTypes DEF KeysOfSettings
    <2>3. runtime'.config = KeysOfSettings(shown')
      BY <2>1
    <2>. QED
      BY <1>3, <2>1, <2>2, <2>3, BusyClean DEF CleanInv, KeysOfSettings
  <1>5. CASE CommitUndo
    <2>1. runtime' = [runtime EXCEPT !.degraded = runtime.degraded \/ ~change.keysBack]
          /\ runtime.config = KeysOfSettings(shown) /\ UNCHANGED <<shown, filtered>>
      BY <1>2, <1>5 DEF CommitUndo, Target, window
    <2>2. /\ runtime'.config = runtime.config /\ runtime'.enabled = runtime.enabled
          /\ runtime'.native = runtime.native
      BY <1>1, <2>1 DEF HotkeyRuntime
    <2>. QED
      BY <1>3, <2>1, <2>2, BusyClean DEF CleanInv, KeysOfSettings
  <1>. QED
    BY <1>4, <1>5

LEMMA DoneClean ==
    ASSUME QuietInv, ArmSlotsDone \/ ArmKeysDone \/ GiveUpDone \/ SaveKeysDone \/ SaveSlotsDone
                     \/ RestoreSlotsDone \/ DisarmDone
    PROVE  CleanInv'
  <1>1. change \in Change
    BY QuietFacts
  <1>2. CASE /\ change.step \in {"arm_slots", "arm_keys", "give_up"}
             /\ \E step \in {"arm_keys", "rest", "apply"} : Moves(change, step)
    <2>1. PICK step \in {"arm_keys", "rest", "apply"} : Moves(change, step)
      BY <1>2
    <2>2. change.step \notin {"start", "rest"} /\ step \notin Saving
      BY <1>2, <2>1 DEF Saving
    <2>3. runtime.config = KeysOfSettings(shown)
      BY <1>2, <2>2, BusyClean DEF QuietInv, CleanInv, Saving
    <2>. QED
      BY <1>1, <2>1, <2>2, <2>3, MovesClean
  <1>3. ASSUME NEW step \in Saving, NEW ch \in Change, Moves(ch, step), change.step \in Saving,
               ch.undo = change.undo, ch.goal = change.goal
        PROVE  CleanInv'
    <2>1. change.step \notin {"start", "rest"}
      BY <1>3 DEF Saving
    <2>2. runtime.config = KeysOfSettings(IF ch.undo THEN shown ELSE ch.goal)
      BY <1>3, <2>1, BusyClean DEF QuietInv, CleanInv, Target
    <2>. QED
      BY <1>3, <2>1, <2>2, MovesClean
  <1>4. CASE change.step = "save_slots" /\ Moves([change EXCEPT !.failed = TRUE], "restore_slots")
    <2> DEFINE ch == [change EXCEPT !.failed = TRUE]
    <2>1. ch \in Change /\ ch.goal = change.goal /\ ch.undo = change.undo
      BY <1>1 DEF Change
    <2>2. Moves(ch, "restore_slots") /\ "restore_slots" \in Saving /\ change.step \in Saving
      BY <1>4 DEF Saving
    <2> HIDE DEF ch
    <2>. QED
      BY <1>3, <2>1, <2>2
  <1>5. CASE change.step \in {"save_keys", "save_slots"} /\ \E step \in {"save_slots", "disarm"} : Moves(change, step)
    <2>1. change.step \in Saving /\ {"save_slots", "disarm"} \subseteq Saving
      BY <1>5 DEF Saving
    <2>. QED
      BY <1>1, <1>3, <1>5, <2>1
  <1>6. CASE change.step \in {"save_keys", "disarm", "restore_slots"} /\ Undoes
    BY <1>6, UndoesClean DEF Saving
  <1>7. CASE change.step = "disarm" /\ (Commit \/ CommitUndo)
    BY <1>7, DisarmClean
  <1>. QED
    BY <1>2, <1>4, <1>5, <1>6, <1>7, DoneCases

LEMMA ApplyClean ==
    ASSUME OneMishap, QuietInv, ApplyKeys
    PROVE  CleanInv'
  <1>1. change \in Change /\ CourseInv /\ runtime.enabled \in BOOLEAN
    BY QuietFacts
  <1>2. PICK success \in BOOLEAN : KeysApplied(success)
    BY <1>1, ApplyKeysRight
  <1>3. change.step = "apply" /\ UNCHANGED <<shown, filtered, recording, editing>>
    BY DEF ApplyKeys, window
  <1>4. /\ runtime.initialized = TRUE /\ recording = FALSE /\ editing = FALSE
        /\ ~runtime.enabled => ActionsOf(runtime.native) \subseteq Runtime
        /\ filtered = {shown[a] : a \in Runtime}
    BY <1>3, BusyClean
  <1>5. change.undo \/ runtime.degraded => success
    BY <1>1, <1>2, NoMoreMishaps DEF KeysApplied
  <1>6. change'.undo = change.undo /\ change'.goal = change.goal
        /\ change'.step = IF success THEN "save_keys" ELSE "give_up"
    <2>1. CASE change.undo
      <3> DEFINE ch == [change EXCEPT !.keysBack = success]
      <3>1. ch \in Change /\ ch.undo = change.undo /\ ch.goal = change.goal
        BY <1>1, <1>2 DEF Change
      <3>2. change' = Enter(ch, "save_keys")
        BY <1>2, <2>1 DEF KeysApplied
      <3> HIDE DEF ch
      <3>. QED
        BY <1>5, <2>1, <3>1, <3>2, EnterFacts
    <2>2. CASE ~change.undo
      BY <1>1, <1>2, <2>2, EnterFacts DEF KeysApplied
    <2>. QED
      BY <2>1, <2>2
  <1>7. Target' = Target
    BY <1>3, <1>6 DEF Target
  <1>8. runtime'.enabled = runtime.enabled /\ (~runtime.enabled => ActionsOf(runtime'.native) \subseteq Runtime)
    <2>1. CASE success
      BY <1>2, <2>1 DEF KeysApplied
    <2>2. CASE ~success
      <3>1. runtime.native = current
        BY <1>4, <1>5, <2>2 DEF QuietInv, RightInv, Works, KeysRight
      <3>2. ActionsOf({}) = {}
        BY DEF ActionsOf
      <3>. QED
        BY <1>2, <1>4, <2>2, <3>1, <3>2 DEF KeysApplied
    <2>. QED
      BY <2>1, <2>2
  <1>9. CASE success
    <2>1. runtime'.config = KeysOfSettings(Target) /\ change'.step = "save_keys" /\ "save_keys" \in Saving
      BY <1>2, <1>6, <1>9 DEF KeysApplied, KeysOfSettings, Saving
    <2>2. runtime'.config = KeysOfSettings(Target')
      BY <1>7, <2>1
    <2>. QED
      BY <1>3, <1>4, <1>8, <2>1, <2>2 DEF CleanInv, KeysOfSettings
  <1>10. CASE ~success
    <2>1. runtime'.config = runtime.config /\ change'.step = "give_up" /\ "give_up" \notin Saving
          /\ "apply" \notin Saving
      BY <1>2, <1>6, <1>10 DEF KeysApplied, Saving
    <2>2. runtime.config = KeysOfSettings(shown)
      BY <1>3, <1>4, <1>5, <1>10, <2>1 DEF QuietInv, CleanInv
    <2>3. runtime'.config = KeysOfSettings(shown')
      BY <1>3, <2>1, <2>2
    <2>. QED
      BY <1>3, <1>4, <1>8, <2>1, <2>3 DEF CleanInv, KeysOfSettings
  <1>. QED
    BY <1>9, <1>10

(* A switch of the quick-run keys, whoever asks for it.                    *)
LEMMA SwitchClean ==
    ASSUME OneMishap, QuietInv, NEW on \in BOOLEAN, NEW r \in SwitchOutcomes(on), SetQuickRunEnabled(on, r),
           AtRest, runtime.global \/ on
    PROVE  /\ runtime'.config = runtime.config
           /\ runtime'.enabled = IF r.success THEN on ELSE runtime.enabled
           /\ ~runtime'.enabled => ActionsOf(runtime'.native) \subseteq Runtime
  <1>1. HotkeysTypeOK /\ OwnsWhatItHolds /\ CourseInv /\ runtime.initialized = TRUE
    BY QuietFacts DEF CourseInv, OwnInv, TypeOK, AtRest
  <1>2. /\ runtime'.config = runtime.config
        /\ runtime'.enabled = IF r.success THEN on ELSE runtime.enabled
        /\ \/ UNCHANGED <<runtime, current>>
           \/ r.success /\ current' = Natives(runtime.config, on) /\ runtime'.native = current'
           \/ ~r.success /\ runtime'.native = {}
           \/ ~r.success /\ runtime'.native = current
        /\ ~(mishaps < MaxMishaps) => r.success
    BY <1>1, SwitchedRight
  <1>3. ~runtime.enabled => ActionsOf(runtime.native) \subseteq Runtime
    BY <1>1 DEF QuietInv, CleanInv
  <1>4. CASE UNCHANGED <<runtime, current>>
    BY <1>2, <1>3, <1>4
  <1>5. CASE r.success /\ current' = Natives(runtime.config, on) /\ runtime'.native = current'
    <2>1. runtime'.native = Natives(runtime.config, on)
      BY <1>5
    <2>. QED
      BY <1>2, <1>5, <2>1, NativesActions
  <1>6. CASE ~r.success /\ runtime'.native = {}
    BY <1>2, <1>6 DEF ActionsOf
  <1>7. CASE ~r.success /\ runtime'.native = current
    <2>1. ~runtime.degraded
      BY <1>1, <1>2, <1>7, NoMoreMishaps
    <2>2. runtime.native = current
      BY <1>1, <2>1 DEF QuietInv, RightInv, Works, KeysRight
    <2>. QED
      BY <1>2, <1>3, <1>7, <2>2
  <1>. QED
    BY <1>2, <1>4, <1>5, <1>6, <1>7

LEMMA GestureClean ==
    ASSUME OneMishap, NoFieldWhileRecording, QuietInv,
           StartRecording \/ StopRecording \/ \E on \in BOOLEAN : EditKey(on)
    PROVE  CleanInv'
  <1>1. AtRest /\ change' = change /\ UNCHANGED <<shown, filtered>>
    BY DEF StartRecording, StopRecording, EditKey
  <1>2. /\ runtime.initialized = TRUE /\ runtime.config = KeysOfSettings(shown)
        /\ filtered = {shown[a] : a \in Runtime} /\ change.step = "rest" /\ "rest" \notin Saving
        /\ recording => ~editing /\ (runtime.global => ~runtime.enabled)
        /\ ~runtime.enabled => ActionsOf(runtime.native) \subseteq Runtime
    BY <1>1, QuietFacts DEF AtRest, QuietInv, CleanInv, Saving
  <1>3. ASSUME runtime'.config = runtime.config,
               ~runtime'.enabled => ActionsOf(runtime'.native) \subseteq Runtime,
               recording' => ~editing' /\ (runtime'.global => ~runtime'.enabled)
        PROVE  CleanInv'
    <2>1. runtime'.config = KeysOfSettings(shown')
      BY <1>1, <1>2, <1>3
    <2>. QED
      BY <1>1, <1>2, <1>3, <2>1 DEF CleanInv, KeysOfSettings, AtRest
  <1>4. CASE StartRecording
    <2>1. ~editing'
      BY <1>4 DEF StartRecording
    <2>2. CASE runtime.global
      <3>1. PICK r \in SwitchOutcomes(FALSE) : SetQuickRunEnabled(FALSE, r) /\ recording' = r.success
        BY <1>4, <2>2 DEF StartRecording
      <3>. QED
        BY <1>1, <1>3, <2>1, <2>2, <3>1, SwitchClean
    <2>3. CASE ~runtime.global
      <3>1. runtime' = runtime
        BY <1>4, <2>3 DEF StartRecording, hotkeys
      <3>. QED
        BY <1>2, <1>3, <2>1, <2>3, <3>1
    <2>. QED
      BY <2>2, <2>3
  <1>5. CASE StopRecording
    <2>1. PICK r \in SwitchOutcomes(TRUE) : SetQuickRunEnabled(TRUE, r)
      BY <1>5 DEF StopRecording
    <2>2. recording' = FALSE
      BY <1>5 DEF StopRecording
    <2>. QED
      BY <1>1, <1>3, <2>1, <2>2, SwitchClean
  <1>6. ASSUME NEW on \in BOOLEAN, EditKey(on) PROVE CleanInv'
    <2>1. recording' = recording /\ ~recording
      BY <1>6 DEF EditKey, NoFieldWhileRecording
    <2>2. CASE runtime.global /\ \E r \in SwitchOutcomes(~on) : SetQuickRunEnabled(~on, r)
      <3>1. (~on) \in BOOLEAN
        OBVIOUS
      <3>. QED
        BY <1>1, <1>3, <2>1, <2>2, <3>1, SwitchClean
    <2>3. CASE UNCHANGED <<hotkeys, mishaps>>
      BY <1>2, <1>3, <2>1, <2>3 DEF hotkeys
    <2>. QED
      BY <1>6, <2>2, <2>3 DEF EditKey
  <1>. QED
    BY <1>4, <1>5, <1>6

LEMMA BeginClean ==
    ASSUME QuietInv, NEW goal \in Config, Begin(goal)
    PROVE  CleanInv'
  <1> DEFINE ch == [NoChange EXCEPT !.goal = goal]
  <1>1. ch \in Change
    BY NoChangeTypes DEF Change
  <1>2. change' = Enter(ch, "arm_slots") /\ AtRest /\ ~recording /\ ~editing
        /\ UNCHANGED <<runtime, shown, filtered, recording, editing>>
    BY DEF Begin, hotkeys, window
  <1> HIDE DEF ch
  <1>3. change'.step = "arm_slots" /\ "arm_slots" \notin Saving /\ "rest" \notin Saving
    BY <1>1, <1>2, EnterFacts DEF Saving
  <1>. QED
    BY <1>2, <1>3, QuietFacts DEF QuietInv, CleanInv, AtRest, KeysOfSettings

LEMMA CleanStep == OneMishap /\ NoFieldWhileRecording /\ QuietInv /\ [Next]_vars => QuietInv'
  <1> SUFFICES ASSUME OneMishap, NoFieldWhileRecording, QuietInv, [Next]_vars PROVE QuietInv'
    OBVIOUS
  <1>1. RightInv'
    BY RightStep DEF QuietInv
  <1> SUFFICES CleanInv'
    BY <1>1 DEF QuietInv
  <1>2. CASE Start
    <2> DEFINE c == Loaded(disk)
    <2>1. c \in Config /\ HotkeysTypeOK
      BY QuietFacts, LoadedTypes DEF CourseInv, OwnInv, TypeOK
    <2>2. /\ Initialize(KeysOfSettings(c)) /\ change' = NoChange /\ recording' = FALSE /\ editing' = FALSE
          /\ shown' = c /\ filtered' = {c[a] : a \in Runtime}
      BY <1>2 DEF Start, KeysOfSettings
    <2> HIDE DEF c
    <2>3. KeysOfSettings(c) \in [Action -> HotKey]
      BY <2>1, ConfigTypes DEF KeysOfSettings
    <2>4. runtime'.enabled = TRUE /\ runtime'.config = KeysOfSettings(c)
      BY <2>1, <2>2, <2>3, StartedRight
    <2>5. change'.step = "rest" /\ "rest" \notin Saving
      BY <2>2, NoChangeFacts DEF Saving
    <2>. QED
      BY <2>2, <2>4, <2>5 DEF CleanInv, KeysOfSettings
  <1>3. CASE Close \/ Crash
    <2>1. runtime'.initialized = FALSE
      BY <1>3 DEF Close, Crash, Ends, Off
    <2>. QED
      BY <2>1 DEF CleanInv
  <1>4. CASE RegistryFails \/ RegistryRecovers \/ UNCHANGED vars
    <2>1. UNCHANGED <<runtime, change, shown, filtered, recording, editing>>
      BY <1>4 DEF RegistryFails, RegistryRecovers, vars, hotkeys, window
    <2>. QED
      BY <2>1 DEF QuietInv, CleanInv, Target, AtRest, KeysOfSettings
  <1>5. CASE ChangeHotkeys \/ ChangeQuickRun
    BY <1>5, BeginClean DEF ChangeHotkeys, ChangeQuickRun
  <1>6. CASE WriteNext
    <2>1. /\ change' = [change EXCEPT !.writes = Tail(@), !.missed = @ \/ broken]
          /\ UNCHANGED <<runtime, shown, filtered, recording, editing>>
      BY <1>6 DEF WriteNext, hotkeys, window
    <2>2. /\ change'.step = change.step /\ change'.undo = change.undo /\ change'.goal = change.goal
      BY <2>1, QuietFacts DEF Change
    <2>3. Target' = Target
      BY <2>1, <2>2 DEF Target
    <2>. QED
      BY <2>1, <2>2, <2>3 DEF QuietInv, CleanInv, AtRest, KeysOfSettings
  <1>. QED
    BY <1>2, <1>3, <1>4, <1>5, <1>6, ApplyClean, DoneClean, GestureClean DEF Next

(* With one mishap at most, and no key field entered while it records, a   *)
(* recording has none of the keys that start macros, and leaves out the    *)
(* runtime keys that work.                                                 *)
THEOREM RecordingsAreClean == OneMishap /\ NoFieldWhileRecording => (Spec => []RecordingIsClean)
  <1> SUFFICES ASSUME OneMishap, NoFieldWhileRecording PROVE Spec => []RecordingIsClean
    OBVIOUS
  <1>1. Init => QuietInv
    <2> SUFFICES ASSUME Init PROVE QuietInv
      OBVIOUS
    <2>1. runtime.initialized = FALSE
      BY DEF Init, Off
    <2>. QED
      BY <2>1, CourseInit DEF QuietInv, RightInv, OpenInv, CleanInv, Works
  <1>2. QuietInv /\ [Next]_vars => QuietInv'
    BY CleanStep
  <1>3. QuietInv => RecordingIsClean
    <2> SUFFICES ASSUME QuietInv, recording
                 PROVE  /\ \A a \in QuickRun : ~GlobalKey(a)
                        /\ runtime.initialized => filtered = {runtime.config[a] : a \in Runtime}
      BY DEF RecordingIsClean
    <2>1. CASE ~runtime.initialized
      BY <2>1 DEF QuietInv, RightInv, CourseInv, SessionInv, GlobalKey
    <2>2. CASE runtime.initialized
      <3>1. AtRest
        BY <2>2 DEF QuietInv, RightInv, CourseInv, SessionInv
      <3>2. /\ filtered = {shown[a] : a \in Runtime} /\ runtime.config = KeysOfSettings(shown)
            /\ runtime.global => ActionsOf(runtime.native) \subseteq Runtime
        BY <2>2, <3>1 DEF QuietInv, CleanInv, AtRest, Saving
      <3>3. \A a \in QuickRun : ~GlobalKey(a)
        <4>1. CASE runtime.degraded
          BY <4>1 DEF GlobalKey
        <4>2. CASE ~runtime.degraded
          <5>1. ~runtime.global => runtime.native = {}
            BY <2>2, <4>2 DEF QuietInv, RightInv, Works, KeysRight
          <5>2. ActionsOf(runtime.native) \subseteq Runtime
            BY <3>2, <5>1 DEF ActionsOf
          <5>. QED
            BY <5>2 DEF GlobalKey, QuickRun, ActionsOf
        <4>. QED
          BY <4>1, <4>2
      <3>4. filtered = {runtime.config[a] : a \in Runtime}
        BY <3>2, ConstantTypes DEF KeysOfSettings
      <3>. QED
        BY <3>3, <3>4
    <2>. QED
      BY <2>1, <2>2
  <1>. QED
    BY <1>1, <1>2, <1>3, PTL DEF Spec

-----------------------------------------------------------------------------
(***************************************************************************)
(* Settings survive crashes and lost writes whole, for any number of       *)
(* actions, keys and contents of the slots.                                *)
(***************************************************************************)

(* Reading.                                                                *)

(* A part of the registry has settings, and what a start makes of it.      *)
Holds(part, c) == \A s \in Setting : part[s] = c[s]
Read(part) == Loaded([active |-> part, recovery |-> part, armed |-> FALSE])
Recover(part) == Loaded([active |-> part, recovery |-> part, armed |-> TRUE])

Registry == [active : Stored, recovery : Stored, armed : BOOLEAN]

LEMMA LoadedRead ==
    ASSUME NEW d \in Registry
    PROVE  Loaded(d) = IF d.armed THEN Recover(d.recovery) ELSE Read(d.active)
  BY DEF Loaded, Read, Recover, Registry

(* A start finds settings that are there whole.                            *)
LEMMA ReadWhole ==
    ASSUME NEW part \in Stored, NEW c \in Config, Holds(part, c)
    PROVE  Read(part) = c /\ Recover(part) = c
  <1>1. c \in [Setting -> HotKey \cup SlotSets] /\ c[Slots] # Unset
        /\ \A a \in Action : c[a] # Unset /\ a \in Setting /\ a # Slots
    BY ConstantTypes, SettingsAssumption DEF Config
  <1>2. Distinct(part)
    BY <1>1 DEF Holds, Config, Distinct
  <1>3. \A a \in Action : part[a] # Unset
    BY <1>1 DEF Holds
  <1>4. part[Slots] # Unset
    BY <1>1, ConstantTypes DEF Holds
  <1>5. OrDefault(part) = [s \in Setting |-> part[s]]
    BY <1>3, <1>4, ConstantTypes DEF OrDefault, Setting
  <1>6. part \in [Setting -> HotKey \cup SlotSets \cup {Unset}]
    BY DEF Stored
  <1>7. OrDefault(part) = part
    BY <1>5, <1>6
  <1>8. /\ Read(part) = [s \in Setting |-> part[s]]
        /\ Recover(part) = [s \in Setting |-> part[s]]
    BY <1>2, <1>3, <1>4, <1>7 DEF Read, Recover, Loaded
  <1>. QED
    BY <1>1, <1>8 DEF Holds

LEMMA ReadTypes == \A part \in Stored : Read(part) \in Config
  <1> SUFFICES ASSUME NEW part \in Stored PROVE Read(part) \in Config
    OBVIOUS
  <1> DEFINE d == [active |-> part, recovery |-> part, armed |-> FALSE]
  <1>1. d \in Registry
    BY DEF Registry
  <1> HIDE DEF d
  <1>2. Loaded(d) \in Config
    BY <1>1, LoadedTypes DEF Registry
  <1>. QED
    BY <1>2 DEF Read, d

-----------------------------------------------------------------------------
(* The invariant.                                                          *)

(* The registry that refused a write of a change refuses the rest of it.   *)
Steady == "flicker" \notin May

(* What was lost, or is being undone, was lost to a registry that takes no *)
(* writes.  Nothing but a save is ever undone.                             *)
LostInv ==
    /\ change.missed \/ change.failed \/ change.undo => broken
    /\ change.step \in {"start", "rest"} => ~change.missed
    /\ change.step \in {"start", "rest", "arm_slots", "arm_keys", "give_up", "disarm"}
         => ~change.failed /\ ~change.undo
    /\ change.step = "apply" /\ change.failed => change.undo
    /\ change.step = "save_slots" /\ (change.failed \/ change.undo)
         => change.missed \/ change.writes # <<>>

(* While the marker is set, the recovery values are those of the window.   *)
(* It is set from before the first write of a save until the last; when it *)
(* is not, the active values are whole.                                    *)
MarkerInv ==
    /\ disk.armed => Holds(disk.recovery, shown)
    /\ change.step \in {"apply", "save_keys", "save_slots", "restore_slots"} => disk.armed
    /\ change.step = "disarm" /\ (change.missed \/ change.writes # <<>>) => disk.armed
    /\ ~disk.armed => \/ change.step = "disarm" \/ Read(disk.active) = shown
                      \/ change.step = "start" /\ Read(disk.active) \in givenUp
    /\ mishaps = 0 /\ change.step \in {"start", "rest", "arm_slots", "arm_keys", "apply"}
         => Read(disk.active) = shown

(* What the writes still to be made are, and what those made have left.    *)
OneWrite(w) == change.writes \in {<<>>, <<w>>}
Awaits(w) == \E i \in 1 .. Len(change.writes) : change.writes[i] = w

ArmsKeys ==
    /\ \A i \in 1 .. Len(change.writes) :
         \/ i = Len(change.writes) /\ change.writes[i] = Marker(TRUE)
         \/ i < Len(change.writes) /\ \E a \in Action : change.writes[i] = Write("recovery", a, shown[a])
    /\ ~change.missed =>
         /\ disk.recovery[Slots] = shown[Slots]
         /\ \A a \in Action : disk.recovery[a] = shown[a] \/ Awaits(Write("recovery", a, shown[a]))
         /\ change.writes = <<>> => disk.armed

SavesKeys ==
    /\ \A i \in 1 .. Len(change.writes) :
         \E a \in Action : change.writes[i] = Write("active", a, Target[a])
    /\ ~change.missed /\ ~change.undo =>
         \A a \in Action :
            disk.active[a] = change.goal[a] \/ Awaits(Write("active", a, change.goal[a]))

WritesInv ==
    /\ change.step \in {"start", "rest", "apply"} => change.writes = <<>>
    /\ change.step = "arm_slots" =>
         /\ OneWrite(Write("recovery", Slots, shown[Slots]))
         /\ ~change.missed /\ change.writes = <<>> => disk.recovery[Slots] = shown[Slots]
    /\ change.step = "arm_keys" => ArmsKeys
    /\ change.step = "save_keys" => SavesKeys
    /\ change.step = "save_slots" =>
         /\ OneWrite(Write("active", Slots, Target[Slots]))
         /\ ~change.undo => \A a \in Action : disk.active[a] = change.goal[a]
         /\ ~change.undo /\ ~change.missed /\ change.writes = <<>> =>
              disk.active[Slots] = change.goal[Slots]
    /\ change.step = "restore_slots" =>
         \E value \in Value(Slots) : OneWrite(Write("active", Slots, value))
    /\ change.step = "disarm" =>
         /\ OneWrite(Marker(FALSE)) /\ Holds(disk.active, change.goal)
         /\ ~change.missed /\ change.writes = <<>> => ~disk.armed
    /\ change.step = "give_up" => OneWrite(Marker(FALSE)) /\ Read(disk.active) = shown

WholeInv == CourseInv /\ LostInv /\ MarkerInv /\ WritesInv

LEMMA WholeTypes ==
    ASSUME WholeInv
    PROVE  /\ change \in Change /\ disk \in Registry /\ shown \in Config /\ broken \in BOOLEAN
           /\ change.goal \in Config /\ Target \in Config /\ mishaps \in Nat
           /\ change.writes \in Seq(Writing)
           /\ disk.active \in Stored /\ disk.recovery \in Stored
  <1>1. change \in Change /\ disk \in Registry /\ shown \in Config /\ broken \in BOOLEAN
    BY DEF WholeInv, CourseInv, OwnInv, TypeOK, Registry
  <1>2. mishaps \in Nat
    BY ConstantTypes DEF WholeInv, CourseInv, OwnInv, TypeOK, HotkeysTypeOK
  <1>. QED
    BY <1>1, <1>2 DEF Change, Registry, Target

(* What does not touch the settings keeps what is known of them.           *)
LEMMA KeepsWrites ==
    ASSUME MarkerInv, WritesInv, UNCHANGED <<disk, change, shown, givenUp>>,
           mishaps' = 0 => mishaps = 0
    PROVE  MarkerInv' /\ WritesInv'
  <1>2. MarkerInv'
    BY DEF MarkerInv, Holds
  <1>3. Target' = Target /\ change' = change /\ disk' = disk /\ shown' = shown
    BY DEF Target
  <1>4. \A w : Awaits(w)' <=> Awaits(w)
    BY <1>3 DEF Awaits
  <1>5. ArmsKeys => ArmsKeys'
    BY <1>3, <1>4 DEF ArmsKeys
  <1>6. SavesKeys => SavesKeys'
    BY <1>3, <1>4 DEF SavesKeys
  <1>7. WritesInv'
    <2>1. CASE change.step = "arm_keys"
      BY <1>3, <1>5, <2>1 DEF WritesInv
    <2>2. CASE change.step = "save_keys"
      BY <1>3, <1>6, <2>2 DEF WritesInv
    <2>3. CASE change.step \notin {"arm_keys", "save_keys"}
      BY <1>3, <2>3 DEF WritesInv, OneWrite, Holds
    <2>. QED
      BY <2>1, <2>2, <2>3
  <1>. QED
    BY <1>2, <1>7

LEMMA WholeKeeps ==
    ASSUME LostInv, MarkerInv, WritesInv, UNCHANGED <<disk, change, shown, givenUp, broken>>,
           mishaps' = 0 => mishaps = 0
    PROVE  LostInv' /\ MarkerInv' /\ WritesInv'
  <1>1. LostInv'
    BY DEF LostInv
  <1>. QED
    BY <1>1, KeepsWrites

-----------------------------------------------------------------------------
(* A write.                                                                *)

LEMMA WriteMoves ==
    ASSUME WholeInv, WriteNext
    PROVE  /\ change.writes # <<>> /\ change'.writes = Tail(change.writes)
           /\ change'.step = change.step /\ change'.goal = change.goal
           /\ change'.failed = change.failed /\ change'.undo = change.undo
           /\ change'.missed = (change.missed \/ broken)
           /\ UNCHANGED <<shown, givenUp, mishaps, broken>> /\ Target' = Target
           /\ broken => disk' = disk
           /\ ~broken => ~change.missed /\ ~change.failed /\ ~change.undo
  <1>1. change \in Change
    BY WholeTypes
  <1>2. /\ change' = [change EXCEPT !.writes = Tail(@), !.missed = @ \/ broken]
        /\ change.writes # <<>> /\ UNCHANGED <<shown, givenUp, mishaps, broken>>
        /\ broken => disk' = disk
    BY DEF WriteNext, window
  <1>3. /\ change'.writes = Tail(change.writes) /\ change'.step = change.step
        /\ change'.goal = change.goal /\ change'.failed = change.failed
        /\ change'.undo = change.undo /\ change'.missed = (change.missed \/ broken)
    BY <1>1, <1>2 DEF Change
  <1>. QED
    BY <1>2, <1>3 DEF WholeInv, LostInv, Target

LEMMA MarkerWritten ==
    ASSUME WholeInv, WriteNext, ~broken, NEW on, Head(change.writes) = Marker(on)
    PROVE  disk'.armed = on /\ disk'.active = disk.active /\ disk'.recovery = disk.recovery
  <1>1. disk' = [disk EXCEPT !.armed = on]
    BY DEF WriteNext, Marker, Write
  <1>. QED
    BY <1>1, WholeTypes DEF Registry

LEMMA RecoveryWritten ==
    ASSUME WholeInv, WriteNext, ~broken, NEW s \in Setting, NEW value,
           Head(change.writes) = Write("recovery", s, value)
    PROVE  /\ disk'.armed = disk.armed /\ disk'.active = disk.active
           /\ disk'.recovery[s] = value
           /\ \A r \in Setting : r # s => disk'.recovery[r] = disk.recovery[r]
  <1>1. disk' = [disk EXCEPT !["recovery"][s] = value]
    <2> DEFINE w == Write("recovery", s, value)
    <2>1. w.name = "recovery" /\ w.setting = s /\ w.value = value
      BY DEF Write
    <2>2. "recovery" # "armed"
      OBVIOUS
    <2>3. Head(change.writes) = w
      OBVIOUS
    <2> HIDE DEF w
    <2>. QED
      BY <2>1, <2>2, <2>3 DEF WriteNext
  <1>2. disk \in Registry /\ disk.recovery \in [Setting -> HotKey \cup SlotSets \cup {Unset}]
    BY WholeTypes DEF Stored
  <1>3. /\ disk'.armed = disk.armed /\ disk'.active = disk.active
        /\ disk'.recovery = [disk.recovery EXCEPT ![s] = value]
    BY <1>1, <1>2 DEF Registry
  <1>. QED
    BY <1>2, <1>3

LEMMA ActiveWritten ==
    ASSUME WholeInv, WriteNext, ~broken, NEW s \in Setting, NEW value,
           Head(change.writes) = Write("active", s, value)
    PROVE  /\ disk'.armed = disk.armed /\ disk'.recovery = disk.recovery
           /\ disk'.active[s] = value
           /\ \A r \in Setting : r # s => disk'.active[r] = disk.active[r]
  <1>1. disk' = [disk EXCEPT !["active"][s] = value]
    <2> DEFINE w == Write("active", s, value)
    <2>1. w.name = "active" /\ w.setting = s /\ w.value = value
      BY DEF Write
    <2>2. "active" # "armed"
      OBVIOUS
    <2>3. Head(change.writes) = w
      OBVIOUS
    <2> HIDE DEF w
    <2>. QED
      BY <2>1, <2>2, <2>3 DEF WriteNext
  <1>2. disk \in Registry /\ disk.active \in [Setting -> HotKey \cup SlotSets \cup {Unset}]
    BY WholeTypes DEF Stored
  <1>3. /\ disk'.armed = disk.armed /\ disk'.recovery = disk.recovery
        /\ disk'.active = [disk.active EXCEPT ![s] = value]
    BY <1>1, <1>2 DEF Registry
  <1>. QED
    BY <1>2, <1>3

(* A step of one write: it is made, and then there is none.                *)
LEMMA OneWritten ==
    ASSUME WholeInv, WriteNext, NEW w, OneWrite(w)
    PROVE  Head(change.writes) = w /\ change'.writes = <<>>
  <1>1. change.writes = <<w>>
    BY WriteMoves DEF OneWrite
  <1>2. Head(<<w>>) = w /\ Tail(<<w>>) = <<>>
    OBVIOUS
  <1>. QED
    BY <1>1, <1>2, WriteMoves

(* A write that was waited for is made or is waited for still.             *)
LEMMA StillAwaits ==
    ASSUME WholeInv, WriteNext, NEW w, Awaits(w)
    PROVE  Head(change.writes) = w \/ \E i \in 1 .. Len(change'.writes) : change'.writes[i] = w
  <1>1. PICK i \in 1 .. Len(change.writes) : change.writes[i] = w
    BY DEF Awaits
  <1>2. change.writes \in Seq(Writing) /\ change.writes # <<>> /\ change'.writes = Tail(change.writes)
    BY WholeTypes, WriteMoves
  <1>3. CASE i = 1
    BY <1>1, <1>2, <1>3
  <1>4. CASE i # 1
    <2>1. i - 1 \in 1 .. Len(change'.writes) /\ change'.writes[i - 1] = w
      BY <1>1, <1>2, <1>4
    <2>. QED
      BY <2>1
  <1>. QED
    BY <1>3, <1>4

LEMMA WriteSteps ==
    ASSUME WholeInv, WriteNext
    PROVE  /\ change.step \in {"arm_slots", "arm_keys", "save_keys", "save_slots", "restore_slots",
                               "disarm", "give_up"}
           /\ change'.step \notin {"start", "rest", "apply"}
  <1>1. change.step \in Step /\ change.writes # <<>> /\ change'.step = change.step
    BY WholeTypes, WriteMoves DEF Change
  <1>2. change.step \notin {"start", "rest", "apply"}
    BY <1>1 DEF WholeInv, WritesInv
  <1>. QED
    BY <1>1, <1>2 DEF Step

LEMMA WriteLost == WholeInv /\ WriteNext => LostInv'
  <1> SUFFICES ASSUME WholeInv, WriteNext PROVE LostInv'
    OBVIOUS
  <1>1. change.missed \in BOOLEAN /\ change.failed \in BOOLEAN /\ change.undo \in BOOLEAN /\ broken \in BOOLEAN
    BY WholeTypes DEF Change
  <1>2. LostInv
    BY DEF WholeInv
  <1>. QED
    BY <1>1, <1>2, WriteMoves, WriteSteps DEF LostInv

(* A write of anything but the marker.                                     *)
LEMMA WriteFrame ==
    ASSUME WholeInv, WriteNext, disk'.armed = disk.armed,
           disk'.active = disk.active \/ change.step \in {"save_keys", "save_slots", "restore_slots"},
           Holds(disk.recovery, shown) => Holds(disk'.recovery, shown)
    PROVE  MarkerInv'
  <1>1. /\ change'.step = change.step /\ shown' = shown /\ mishaps' = mishaps
        /\ change.writes # <<>>
        /\ change'.step \notin {"start", "rest", "apply"}
    BY WriteMoves, WriteSteps
  <1>2. MarkerInv
    BY DEF WholeInv
  <1>3. Holds(disk.recovery, shown)' <=> Holds(disk'.recovery, shown)
    BY <1>1 DEF Holds
  <1>. QED
    BY <1>1, <1>2, <1>3 DEF MarkerInv

LEMMA RefusedWrite ==
    ASSUME WholeInv, WriteNext, broken
    PROVE  MarkerInv' /\ disk' = disk /\ change'.missed
  <1>1. disk' = disk /\ change'.missed = TRUE
    BY WriteMoves
  <1>. QED
    BY <1>1, WriteFrame

LEMMA RecoveryKeeps ==
    ASSUME WholeInv, WriteNext, ~broken, NEW s \in Setting, Head(change.writes) = Write("recovery", s, shown[s])
    PROVE  /\ MarkerInv' /\ disk'.recovery[s] = shown[s]
           /\ \A r \in Setting : disk.recovery[r] = shown[r] => disk'.recovery[r] = shown[r]
  <1>1. /\ disk'.armed = disk.armed /\ disk'.active = disk.active
        /\ disk'.recovery[s] = shown[s]
        /\ \A r \in Setting : r # s => disk'.recovery[r] = disk.recovery[r]
    BY RecoveryWritten
  <1>2. \A r \in Setting : disk.recovery[r] = shown[r] => disk'.recovery[r] = shown[r]
    BY <1>1
  <1>3. Holds(disk.recovery, shown) => Holds(disk'.recovery, shown)
    BY <1>2 DEF Holds
  <1>. QED
    BY <1>1, <1>2, <1>3, WriteFrame

LEMMA WriteArmsSlots ==
    ASSUME WholeInv, WriteNext, change.step = "arm_slots"
    PROVE  MarkerInv' /\ WritesInv'
  <1> DEFINE w == Write("recovery", Slots, shown[Slots])
  <1>1. OneWrite(w) /\ Slots \in Setting
    BY ConstantTypes DEF WholeInv, WritesInv
  <1> HIDE DEF w
  <1>2. Head(change.writes) = w /\ change'.writes = <<>>
    BY <1>1, OneWritten
  <1>3. change'.step = "arm_slots" /\ shown' = shown
    BY WriteMoves
  <1>4. MarkerInv' /\ (change'.missed \/ disk'.recovery[Slots] = shown[Slots])
    BY <1>1, <1>2, RefusedWrite, RecoveryKeeps DEF w
  <1>. QED
    BY <1>2, <1>3, <1>4 DEF WritesInv, OneWrite

LEMMA WriteArmsKeys ==
    ASSUME WholeInv, WriteNext, change.step = "arm_keys"
    PROVE  MarkerInv' /\ WritesInv'
  <1> DEFINE n == Len(change.writes)
             value(a) == Write("recovery", a, shown[a])
             tail == change'.writes
  <1>1. /\ change.writes \in Seq(Writing) /\ change.writes # <<>> /\ tail = Tail(change.writes)
        /\ change'.step = "arm_keys" /\ shown' = shown /\ (~broken => ~change.missed)
    BY WholeTypes, WriteMoves
  <1>2. /\ n \in Nat /\ n >= 1 /\ Len(tail) = n - 1 /\ Head(change.writes) = change.writes[1]
        /\ \A i \in 1 .. n - 1 : tail[i] = change.writes[i + 1]
    BY <1>1
  <1>10. Head(change.writes) = change.writes[1]
    BY <1>1
  <1>3. ArmsKeys /\ MarkerInv
    BY DEF WholeInv, WritesInv
  <1>4. \A i \in 1 .. n : \/ i = n /\ change.writes[i] = Marker(TRUE)
                          \/ i < n /\ \E a \in Action : change.writes[i] = value(a)
    BY <1>3 DEF ArmsKeys
  <1> HIDE DEF n, value, tail
  <1> DEFINE first == Head(change.writes)
  <1>9. \/ n = 1 /\ first = Marker(TRUE)
        \/ n > 1 /\ \E a \in Action : first = value(a)
    <2>1. 1 \in 1 .. n
      BY <1>2
    <2>2. first = change.writes[1]
      BY <1>2
    <2> HIDE DEF first
    <2>3. \/ 1 = n /\ change.writes[1] = Marker(TRUE)
          \/ 1 < n /\ \E a \in Action : change.writes[1] = value(a)
      BY <1>4, <2>1, Zenon
    <2>4. n \in Nat /\ (1 < n => n > 1) /\ (1 = n => n = 1)
      BY <1>2
    <2>. QED
      BY <2>2, <2>3, <2>4, Zenon
  <1> HIDE DEF first
  <1>5. \A i \in 1 .. Len(tail) : \/ i = Len(tail) /\ tail[i] = Marker(TRUE)
                                  \/ i < Len(tail) /\ \E a \in Action : tail[i] = value(a)
    <2> TAKE i \in 1 .. Len(tail)
    <2>1. i + 1 \in 1 .. n /\ tail[i] = change.writes[i + 1] /\ (i + 1 = n <=> i = Len(tail))
          /\ (i + 1 < n <=> i < Len(tail))
      BY <1>2
    <2>. QED
      BY <1>4, <2>1
  <1>6. ~broken => /\ disk.recovery[Slots] = shown[Slots]
                   /\ \A a \in Action : disk.recovery[a] = shown[a] \/ Awaits(value(a))
    BY <1>1, <1>3 DEF ArmsKeys, value
  <1> DEFINE told ==
        change'.missed \/ /\ disk'.recovery[Slots] = shown[Slots]
                          /\ \A a \in Action : disk'.recovery[a] = shown[a] \/ \E i \in 1 .. Len(tail) : tail[i] = value(a)
                          /\ tail = <<>> => disk'.armed
  <1>7. MarkerInv' /\ told
    <2>1. CASE broken
      BY <2>1, RefusedWrite
    <2>2. CASE ~broken /\ Head(change.writes) = Marker(TRUE)
      <3>1. disk'.armed = TRUE /\ disk'.active = disk.active /\ disk'.recovery = disk.recovery
        BY <2>2, MarkerWritten
      <3>2. \A a \in Action : value(a) # Marker(TRUE)
        BY DEF value, Marker, Write
      <3>3. n = 1 /\ \A i \in 1 .. n : change.writes[i] = Marker(TRUE)
        <4>1. n = 1
          BY <1>9, <2>2, <3>2, Zenon DEF first
        <4>2. change.writes[1] = Marker(TRUE)
          BY <1>10, <2>2
        <4>3. \A i \in 1 .. 1 : i = 1
          OBVIOUS
        <4>. QED
          BY <4>1, <4>2, <4>3, Zenon
      <3>4. \A a \in Action : ~Awaits(value(a))
        BY <3>2, <3>3 DEF Awaits, n
      <3>5. Holds(disk'.recovery, shown) /\ told
        BY <1>6, <2>2, <3>1, <3>4 DEF Holds, Setting
      <3>6. mishaps' = mishaps /\ change.step = "arm_keys"
        BY WriteMoves
      <3>7. MarkerInv'
        BY <1>1, <1>3, <3>1, <3>5, <3>6 DEF MarkerInv, Holds
      <3>. QED
        BY <3>5, <3>7
    <2>3. ASSUME NEW a \in Action, ~broken, Head(change.writes) = value(a)
          PROVE  MarkerInv' /\ told
      <3>1. /\ MarkerInv' /\ disk'.recovery[a] = shown[a]
            /\ \A r \in Setting : disk.recovery[r] = shown[r] => disk'.recovery[r] = shown[r]
        BY <2>3, ConstantTypes, RecoveryKeeps DEF value
      <3>2. \A b \in Action : Awaits(value(b)) =>
               first = value(b) \/ \E i \in 1 .. Len(tail) : tail[i] = value(b)
        BY StillAwaits DEF first, tail
      <3>3. \A b \in Action : value(a) = value(b) => a = b
        BY DEF value, Write
      <3>4. \A b \in Action : disk'.recovery[b] = shown[b] \/ \E i \in 1 .. Len(tail) : tail[i] = value(b)
        BY <1>6, <2>3, <3>1, <3>2, <3>3, ConstantTypes DEF first
      <3>6. disk'.recovery[Slots] = shown[Slots]
        BY <1>6, <2>3, <3>1, ConstantTypes
      <3>7. n > 1
        BY <1>9, <2>3 DEF value, Marker, Write, first
      <3>8. tail # <<>>
        BY <1>2, <3>7
      <3>. QED
        BY <3>1, <3>4, <3>6, <3>8
    <2>. QED
      BY <1>9, <2>1, <2>2, <2>3 DEF first
  <1>8. ArmsKeys'
    BY <1>1, <1>5, <1>7 DEF ArmsKeys, Awaits, value, tail
  <1>. QED
    BY <1>1, <1>7, <1>8 DEF WritesInv

LEMMA ActiveKeeps ==
    ASSUME WholeInv, WriteNext, ~broken, NEW s \in Setting, NEW value,
           change.step \in {"save_keys", "save_slots", "restore_slots"},
           Head(change.writes) = Write("active", s, value)
    PROVE  MarkerInv'
  <1>1. disk'.armed = disk.armed /\ disk'.recovery = disk.recovery
    BY ActiveWritten
  <1>. QED
    BY <1>1, WriteFrame

LEMMA WriteSavesKeys ==
    ASSUME WholeInv, WriteNext, change.step = "save_keys"
    PROVE  MarkerInv' /\ WritesInv'
  <1> DEFINE n == Len(change.writes)
             value(a) == Write("active", a, Target[a])
             tail == change'.writes
             first == Head(change.writes)
  <1>1. /\ change.writes \in Seq(Writing) /\ change.writes # <<>> /\ tail = Tail(change.writes)
        /\ change'.step = "save_keys" /\ Target' = Target /\ change'.goal = change.goal
        /\ change'.undo = change.undo
        /\ (~broken => ~change.missed /\ ~change.undo)
    BY WholeTypes, WriteMoves
  <1>2. first = change.writes[1] /\ 1 \in 1 .. n
    BY <1>1
  <1>3. Len(tail) = n - 1 /\ n \in Nat /\ \A i \in 1 .. n - 1 : tail[i] = change.writes[i + 1]
    BY <1>1
  <1>4. SavesKeys
    BY DEF WholeInv, WritesInv
  <1>5. \A i \in 1 .. n : \E a \in Action : change.writes[i] = value(a)
    BY <1>4 DEF SavesKeys
  <1>6. ~broken => \A a \in Action : disk.active[a] = change.goal[a] \/ Awaits(value(a))
    BY <1>1, <1>4 DEF SavesKeys, value, Target
  <1> HIDE DEF n, value, tail, first
  <1>7. \A i \in 1 .. Len(tail) : \E a \in Action : tail[i] = value(a)
    <2> TAKE i \in 1 .. Len(tail)
    <2>1. i + 1 \in 1 .. n /\ tail[i] = change.writes[i + 1]
      BY <1>3
    <2>. QED
      BY <1>5, <2>1
  <1> DEFINE told ==
        ~change'.missed =>
          \A a \in Action : disk'.active[a] = change.goal[a] \/ \E i \in 1 .. Len(tail) : tail[i] = value(a)
  <1>8. MarkerInv' /\ told
    <2>1. CASE broken
      BY <2>1, RefusedWrite
    <2>2. CASE ~broken
      <3>1. PICK a \in Action : first = value(a)
        BY <1>2, <1>5
      <3>2. /\ disk'.active[a] = Target[a]
            /\ \A s \in Setting : s # a => disk'.active[s] = disk.active[s]
        BY <2>2, <3>1, ConstantTypes, ActiveWritten DEF value, first
      <3>3. MarkerInv'
        BY <2>2, <3>1, ConstantTypes, ActiveKeeps DEF value, first
      <3>4. \A b \in Action : Awaits(value(b)) =>
               first = value(b) \/ \E i \in 1 .. Len(tail) : tail[i] = value(b)
        BY StillAwaits DEF first, tail
      <3>5. \A b \in Action : value(a) = value(b) => a = b
        BY DEF value, Write
      <3>6. Target = change.goal
        BY <1>1, <2>2 DEF Target
      <3>7. told
        BY <1>6, <2>2, <3>1, <3>2, <3>4, <3>5, <3>6, ConstantTypes
      <3>. QED
        BY <3>3, <3>7
    <2>. QED
      BY <2>1, <2>2
  <1>9. SavesKeys'
    <2>1. ~change'.undo => Target = change.goal
      BY <1>1 DEF Target
    <2>. QED
      BY <1>1, <1>7, <1>8, <2>1 DEF SavesKeys, Awaits, value, tail
  <1>. QED
    BY <1>1, <1>8, <1>9 DEF WritesInv

LEMMA WriteSavesSlots ==
    ASSUME WholeInv, WriteNext, change.step = "save_slots"
    PROVE  MarkerInv' /\ WritesInv'
  <1> DEFINE w == Write("active", Slots, Target[Slots])
  <1>1. /\ OneWrite(w) /\ Slots \in Setting
        /\ ~change.undo => \A a \in Action : disk.active[a] = change.goal[a]
    BY ConstantTypes DEF WholeInv, WritesInv
  <1> HIDE DEF w
  <1>2. Head(change.writes) = w /\ change'.writes = <<>>
    BY <1>1, OneWritten
  <1>3. /\ change'.step = "save_slots" /\ Target' = Target /\ change'.goal = change.goal
        /\ change'.undo = change.undo /\ (broken => disk' = disk)
    BY WriteMoves
  <1>4. ~broken => /\ MarkerInv' /\ disk'.active[Slots] = Target[Slots]
                   /\ \A s \in Setting : s # Slots => disk'.active[s] = disk.active[s]
    BY <1>1, <1>2, ActiveKeeps, ActiveWritten DEF w
  <1>5. MarkerInv' /\ (change'.missed \/ disk'.active[Slots] = Target[Slots])
    BY <1>4, RefusedWrite
  <1>6. ~change.undo => \A a \in Action : disk'.active[a] = change.goal[a]
    BY <1>1, <1>3, <1>4, ConstantTypes
  <1>7. ~change.undo => Target = change.goal
    BY DEF Target
  <1>. QED
    BY <1>2, <1>3, <1>5, <1>6, <1>7 DEF WritesInv, OneWrite

LEMMA WriteRestores ==
    ASSUME WholeInv, WriteNext, change.step = "restore_slots"
    PROVE  MarkerInv' /\ WritesInv'
  <1>1. PICK value \in Value(Slots) : OneWrite(Write("active", Slots, value))
    BY DEF WholeInv, WritesInv
  <1> DEFINE w == Write("active", Slots, value)
  <1>2. OneWrite(w) /\ Slots \in Setting
    BY <1>1, ConstantTypes
  <1> HIDE DEF w
  <1>3. Head(change.writes) = w /\ change'.writes = <<>> /\ change'.step = "restore_slots"
    BY <1>2, OneWritten, WriteMoves
  <1>4. MarkerInv'
    BY <1>2, <1>3, RefusedWrite, ActiveKeeps DEF w
  <1>. QED
    BY <1>1, <1>3, <1>4 DEF WritesInv, OneWrite

(* The marker is cleared: by the last write of a change, or of one whose   *)
(* keys Windows refused.                                                   *)
LEMMA WriteClears ==
    ASSUME WholeInv, WriteNext, change.step \in {"disarm", "give_up"}
    PROVE  MarkerInv' /\ WritesInv'
  <1> DEFINE w == Marker(FALSE)
  <1>1. /\ OneWrite(w)
        /\ change.step = "disarm" => Holds(disk.active, change.goal)
        /\ change.step = "give_up" => Read(disk.active) = shown
    BY DEF WholeInv, WritesInv
  <1> HIDE DEF w
  <1>2. Head(change.writes) = w /\ change'.writes = <<>>
    BY <1>1, OneWritten
  <1>3. /\ change'.step = change.step /\ shown' = shown /\ change'.goal = change.goal
        /\ change'.missed = (change.missed \/ broken) /\ (~broken => ~change.missed)
        /\ mishaps' = mishaps
    BY WriteMoves
  <1>4. ~broken => /\ disk'.armed = FALSE /\ disk'.active = disk.active
    BY <1>2, MarkerWritten DEF w
  <1>5. disk'.active = disk.active
    BY <1>4, RefusedWrite
  <1>6. MarkerInv'
    <2>1. CASE broken
      BY <2>1, RefusedWrite
    <2>2. CASE ~broken
      BY <1>1, <1>2, <1>3, <1>4, <2>2 DEF MarkerInv
    <2>. QED
      BY <2>1, <2>2
  <1>7. Holds(disk.active, change.goal) => Holds(disk.active, change.goal)'
    BY <1>3, <1>5 DEF Holds
  <1>8. Read(disk.active)' = Read(disk.active)
    BY <1>5 DEF Read, Loaded
  <1>9. change'.missed \/ ~disk'.armed
    BY <1>4, RefusedWrite
  <1>. QED
    BY <1>1, <1>2, <1>3, <1>6, <1>7, <1>8, <1>9 DEF WritesInv, OneWrite

LEMMA WriteWhole ==
    ASSUME WholeInv, WriteNext
    PROVE  LostInv' /\ MarkerInv' /\ WritesInv'
  BY WriteLost, WriteSteps, WriteArmsSlots, WriteArmsKeys, WriteSavesKeys, WriteSavesSlots,
     WriteRestores, WriteClears

-----------------------------------------------------------------------------
(* Entering a step.                                                        *)

LEMMA EnterWrites ==
    ASSUME NEW ch \in Change, NEW step
    PROVE  Enter(ch, step).writes = WritesOf(step, IF ch.undo THEN shown ELSE ch.goal)
  BY DEF Enter, Change

LEMMA ArmWritesFacts ==
    ASSUME shown \in Config
    PROVE  /\ Len(ArmWrites(shown)) = NAction + 1
           /\ \A i \in 1 .. NAction : ArmWrites(shown)[i] = Write("recovery", i, shown[i])
           /\ ArmWrites(shown)[NAction + 1] = Marker(TRUE)
  <1> DEFINE keys == KeyWrites("recovery", shown)
             marker == <<Marker(TRUE)>>
  <1>1. keys \in Seq(Writing) /\ Len(keys) = NAction /\ NAction \in Nat
    BY KeyWritesTypes, ConstantTypes
  <1>2. marker \in Seq(Writing) /\ Len(marker) = 1 /\ marker[1] = Marker(TRUE)
    <2> DEFINE m == Marker(TRUE)
    <2>1. m \in Writing
      BY MarkerTypes
    <2> HIDE DEF m
    <2>2. <<m>> \in Seq(Writing) /\ Len(<<m>>) = 1 /\ <<m>>[1] = m
      BY <2>1
    <2>. QED
      BY <2>2 DEF m
  <1>3. \A i \in 1 .. NAction : keys[i] = Write("recovery", i, shown[i])
    BY DEF KeyWrites, Action
  <1>4. ArmWrites(shown) = keys \o marker
    BY DEF ArmWrites
  <1> HIDE DEF keys, marker
  <1>5. /\ Len(keys \o marker) = Len(keys) + Len(marker)
        /\ \A i \in 1 .. Len(keys) + Len(marker) :
              (keys \o marker)[i] = IF i <= Len(keys) THEN keys[i] ELSE marker[i - Len(keys)]
    BY <1>1, <1>2, ConcatProperties
  <1>6. \A i \in 1 .. NAction : i \in 1 .. NAction + 1 /\ i <= NAction
    BY <1>1
  <1>7. NAction + 1 \in 1 .. NAction + 1 /\ ~(NAction + 1 <= NAction) /\ (NAction + 1) - NAction = 1
    BY <1>1
  <1>8. /\ Len(keys \o marker) = NAction + 1
        /\ \A i \in 1 .. NAction + 1 :
              (keys \o marker)[i] = IF i <= NAction THEN keys[i] ELSE marker[i - NAction]
    BY <1>1, <1>2, <1>5
  <1>. QED
    BY <1>2, <1>3, <1>4, <1>6, <1>7, <1>8

LEMMA EnterArmsKeys ==
    ASSUME NEW ch \in Change, shown \in Config, change' = Enter(ch, "arm_keys"),
           UNCHANGED <<disk, shown>>, disk.recovery[Slots] = shown[Slots]
    PROVE  ArmsKeys'
  <1> DEFINE value(a) == Write("recovery", a, shown[a])
             writes == change'.writes
  <1>1. writes = ArmWrites(shown) /\ NAction \in Nat
    BY EnterWrites, ConstantTypes DEF WritesOf
  <1>2. /\ Len(writes) = NAction + 1 /\ writes[NAction + 1] = Marker(TRUE)
        /\ \A i \in Action : writes[i] = value(i)
    BY <1>1, ArmWritesFacts DEF Action
  <1>3. /\ \A i \in 1 .. NAction + 1 : i = NAction + 1 \/ (i < NAction + 1 /\ i \in Action)
        /\ \A a \in Action : a \in 1 .. NAction + 1
        /\ NAction + 1 # 0
    BY <1>1 DEF Action
  <1> HIDE DEF value
  <1>4. \A i \in 1 .. Len(writes) : \/ i = Len(writes) /\ writes[i] = Marker(TRUE)
                                    \/ i < Len(writes) /\ \E a \in Action : writes[i] = value(a)
    BY <1>2, <1>3
  <1>5. \A a \in Action : \E i \in 1 .. Len(writes) : writes[i] = value(a)
    BY <1>2, <1>3
  <1>6. writes # <<>>
    BY <1>2, <1>3
  <1> HIDE DEF writes
  <1>. QED
    BY <1>4, <1>5, <1>6 DEF ArmsKeys, Awaits, value, writes

LEMMA EnterSavesKeys ==
    ASSUME NEW ch \in Change, shown \in Config, change' = Enter(ch, "save_keys"), UNCHANGED shown
    PROVE  SavesKeys'
  <1> DEFINE aims == IF ch.undo THEN shown ELSE ch.goal
             value(a) == Write("active", a, aims[a])
             writes == change'.writes
  <1>1. writes = KeyWrites("active", aims) /\ aims \in Config
    BY EnterWrites DEF WritesOf, Change
  <1>2. Target' = aims /\ (~change'.undo => aims = change'.goal)
    <2>1. change'.undo = ch.undo /\ change'.goal = ch.goal /\ shown' = shown
      BY EnterFacts
    <2>. QED
      BY <2>1 DEF Target
  <1> HIDE DEF aims
  <1>3. Len(writes) = NAction
    BY <1>1, KeyWritesTypes
  <1>4. \A a \in Action : writes[a] = value(a)
    BY <1>1 DEF KeyWrites
  <1>5. 1 .. Len(writes) = Action
    BY <1>3 DEF Action
  <1> HIDE DEF value, writes
  <1>. QED
    BY <1>2, <1>4, <1>5 DEF SavesKeys, Awaits, value, writes

(* What a move leaves alone.                                               *)
LEMMA MovesFacts ==
    ASSUME NEW ch \in Change, NEW step, Moves(ch, step)
    PROVE  /\ change' = Enter(ch, step) /\ change'.step = step
           /\ change'.missed = FALSE /\ change'.failed = ch.failed /\ change'.undo = ch.undo
           /\ change'.goal = ch.goal /\ Target' = IF ch.undo THEN shown ELSE ch.goal
           /\ change'.writes = WritesOf(step, IF ch.undo THEN shown ELSE ch.goal)
           /\ UNCHANGED <<disk, broken, shown, givenUp, mishaps>>
  <1>1. change' = Enter(ch, step) /\ UNCHANGED <<disk, broken, shown, givenUp, mishaps>>
    BY DEF Moves, window
  <1>2. /\ change'.step = step
        /\ change'.missed = FALSE /\ change'.failed = ch.failed /\ change'.undo = ch.undo
        /\ change'.goal = ch.goal
    BY <1>1, EnterFacts
  <1>3. change'.writes = WritesOf(step, IF ch.undo THEN shown ELSE ch.goal)
    BY <1>1, EnterWrites
  <1>. QED
    BY <1>1, <1>2, <1>3 DEF Target

-----------------------------------------------------------------------------
(* The steps that are done.                                                *)

Whole == LostInv /\ MarkerInv /\ WritesInv

(* What is known of a step whose writes are made.                          *)
LEMMA SyncedFacts ==
    ASSUME WholeInv, NEW ok \in BOOLEAN, Synced(ok)
    PROVE  /\ change.writes = <<>>
           /\ ok => ~change.missed
           /\ ~ok => (change.missed \/ change.failed) /\ mishaps # 0 /\ broken
           /\ change.missed \/ change.failed \/ change.undo => mishaps # 0 /\ broken
  <1>1. change.missed \in BOOLEAN /\ change.failed \in BOOLEAN /\ change.undo \in BOOLEAN
    BY WholeTypes DEF Change
  <1>2. change.missed \/ change.failed \/ change.undo => mishaps # 0 /\ broken
    <2>1. MishapInv /\ LostInv
      BY DEF WholeInv, CourseInv
    <2>2. change.missed \/ change.failed \/ change.undo => mishaps >= 1
      BY <2>1 DEF MishapInv
    <2>3. mishaps >= 1 => mishaps # 0
      BY WholeTypes
    <2>. QED
      BY <2>1, <2>2, <2>3 DEF LostInv
  <1>3. /\ change.writes = <<>>
        /\ ok => ~change.missed
        /\ ~ok => change.missed \/ change.failed
    BY <1>1 DEF Synced
  <1>. QED
    BY <1>2, <1>3

(* The registry is as it was, and no save has begun.                       *)
LEMMA StaysRead ==
    ASSUME disk.armed => Holds(disk.recovery, shown), disk.armed \/ Read(disk.active) = shown,
           UNCHANGED <<disk, shown>>, mishaps' = 0 => Read(disk.active) = shown,
           change'.step \in {"rest", "arm_slots", "arm_keys", "apply"},
           change'.step = "apply" => disk.armed
    PROVE  MarkerInv'
  <1>1. Read(disk'.active) = Read(disk.active) /\ Read(disk.active)' = Read(disk'.active)
        /\ (disk'.armed <=> disk.armed) /\ shown' = shown
    OBVIOUS
  <1>2. disk'.armed => Holds(disk.recovery, shown)'
    BY DEF Holds
  <1>. QED
    BY <1>1, <1>2 DEF MarkerInv

(* A change that ends with nothing saved.                                  *)
LEMMA MovesToRest ==
    ASSUME WholeInv, change.step \in {"arm_slots", "arm_keys", "give_up"}, Moves(change, "rest")
    PROVE  Whole'
  <1>1. LostInv /\ MarkerInv /\ (change.step = "give_up" => Read(disk.active) = shown) /\ change \in Change
    BY WholeTypes DEF WholeInv, WritesInv
  <1>2. /\ change'.step = "rest" /\ change'.missed = FALSE
        /\ change'.failed = change.failed /\ change'.undo = change.undo
        /\ change'.writes = <<>>
        /\ UNCHANGED <<disk, broken, shown, givenUp, mishaps>>
    BY <1>1, MovesFacts DEF WritesOf
  <1>3. LostInv'
    BY <1>1, <1>2 DEF LostInv
  <1>5. /\ ~disk.armed \/ mishaps = 0 => Read(disk.active) = shown
        /\ disk.armed => Holds(disk.recovery, shown)
    BY <1>1 DEF MarkerInv
  <1>7. MarkerInv'
    BY <1>2, <1>5, StaysRead
  <1>8. WritesInv'
    BY <1>2 DEF WritesInv
  <1>. QED
    BY <1>3, <1>7, <1>8 DEF Whole

LEMMA ArmSlotsWhole == WholeInv /\ ArmSlotsDone => Whole'
  <1> SUFFICES ASSUME WholeInv, ArmSlotsDone PROVE Whole'
    OBVIOUS
  <1>1. CASE Synced(FALSE) /\ Moves(change, "rest")
    BY <1>1, MovesToRest DEF ArmSlotsDone
  <1>2. CASE Synced(TRUE) /\ Moves(change, "arm_keys")
    <2>1. /\ change.step = "arm_slots" /\ ~change.missed /\ change.writes = <<>>
          /\ change \in Change /\ shown \in Config
      BY <1>2, SyncedFacts, WholeTypes DEF ArmSlotsDone
    <2>2. LostInv /\ MarkerInv /\ disk.recovery[Slots] = shown[Slots]
      BY <2>1 DEF WholeInv, WritesInv
    <2>3. /\ change' = Enter(change, "arm_keys")
          /\ change'.step = "arm_keys" /\ change'.missed = FALSE
          /\ change'.failed = change.failed /\ change'.undo = change.undo
          /\ UNCHANGED <<disk, broken, shown, givenUp, mishaps>>
      BY <1>2, <2>1, MovesFacts
    <2>4. ArmsKeys'
      BY <2>1, <2>2, <2>3, EnterArmsKeys
    <2>5. LostInv'
      BY <2>1, <2>2, <2>3 DEF LostInv
    <2>6. /\ ~disk.armed \/ mishaps = 0 => Read(disk.active) = shown
          /\ disk.armed => Holds(disk.recovery, shown)
      BY <2>1, <2>2 DEF MarkerInv
    <2>7. MarkerInv'
      BY <2>3, <2>6, StaysRead
    <2>8. WritesInv'
      BY <2>3, <2>4 DEF WritesInv
    <2>. QED
      BY <2>5, <2>7, <2>8 DEF Whole
  <1>. QED
    BY <1>1, <1>2 DEF ArmSlotsDone

LEMMA ArmKeysWhole == WholeInv /\ ArmKeysDone => Whole'
  <1> SUFFICES ASSUME WholeInv, ArmKeysDone PROVE Whole'
    OBVIOUS
  <1>1. CASE Synced(FALSE) /\ Moves(change, "rest")
    BY <1>1, MovesToRest DEF ArmKeysDone
  <1>2. CASE Synced(TRUE) /\ Moves(change, "apply")
    <2>1. /\ change.step = "arm_keys" /\ ~change.missed /\ change.writes = <<>>
          /\ change \in Change
      BY <1>2, SyncedFacts, WholeTypes DEF ArmKeysDone
    <2>2. LostInv /\ MarkerInv /\ disk.armed
      BY <2>1 DEF WholeInv, WritesInv, ArmsKeys
    <2>3. /\ change'.step = "apply" /\ change'.missed = FALSE /\ change'.writes = <<>>
          /\ change'.failed = change.failed /\ change'.undo = change.undo
          /\ UNCHANGED <<disk, broken, shown, givenUp, mishaps>>
      BY <1>2, <2>1, MovesFacts DEF WritesOf
    <2>4. LostInv'
      BY <2>1, <2>2, <2>3 DEF LostInv
    <2>5. /\ mishaps = 0 => Read(disk.active) = shown
          /\ disk.armed => Holds(disk.recovery, shown)
      BY <2>1, <2>2 DEF MarkerInv
    <2>6. MarkerInv'
      BY <2>2, <2>3, <2>5, StaysRead
    <2>7. WritesInv'
      BY <2>3 DEF WritesInv
    <2>. QED
      BY <2>4, <2>6, <2>7 DEF Whole
  <1>. QED
    BY <1>1, <1>2 DEF ArmKeysDone

(* The marker stays set, and nothing is said of the active values.         *)
LEMMA StaysArmed ==
    ASSUME WholeInv, disk.armed, change.step # "start", UNCHANGED <<disk, shown>>,
           change'.step \in {"rest", "apply"} => mishaps' # 0,
           change'.step \in {"rest", "apply", "save_keys", "save_slots", "restore_slots", "disarm", "give_up"}
    PROVE  MarkerInv'
  <1>1. Holds(disk.recovery, shown)
    BY DEF WholeInv, MarkerInv
  <1>2. Holds(disk.recovery, shown)' /\ disk'.armed
    BY <1>1 DEF Holds
  <1>. QED
    BY <1>2 DEF MarkerInv

(* A save that cannot be made is undone, and if it is being undone it is   *)
(* given up.                                                               *)
LEMMA UndoesWhole ==
    ASSUME WholeInv, Undoes, disk.armed, change.step # "start", mishaps # 0, broken
    PROVE  Whole'
  <1>1. change \in Change
    BY WholeTypes
  <1>2. CASE ~change.undo /\ Moves([change EXCEPT !.undo = TRUE, !.failed = TRUE], "apply")
    <2> DEFINE ch == [change EXCEPT !.undo = TRUE, !.failed = TRUE]
    <2>1. ch \in Change /\ ch.undo = TRUE /\ ch.failed = TRUE
      BY <1>1 DEF Change
    <2> HIDE DEF ch
    <2>2. Moves(ch, "apply")
      BY <1>2 DEF ch
    <2>3. /\ change'.step = "apply" /\ change'.missed = FALSE /\ change'.writes = <<>>
          /\ change'.failed = TRUE /\ change'.undo = TRUE
          /\ UNCHANGED <<disk, broken, shown, givenUp, mishaps>>
      BY <2>1, <2>2, MovesFacts DEF WritesOf
    <2>4. LostInv'
      BY <2>3 DEF LostInv
    <2>5. MarkerInv'
      BY <2>3, StaysArmed
    <2>6. WritesInv'
      BY <2>3 DEF WritesInv
    <2>. QED
      BY <2>4, <2>5, <2>6 DEF Whole
  <1>3. CASE change' = NoChange /\ UNCHANGED <<mishaps, disk, broken, window>>
    <2>1. /\ change'.step = "rest" /\ change'.missed = FALSE /\ change'.writes = <<>>
          /\ change'.failed = FALSE /\ change'.undo = FALSE
      BY <1>3 DEF NoChange
    <2>2. UNCHANGED <<disk, shown, mishaps>>
      BY <1>3 DEF window
    <2>3. LostInv'
      BY <2>1 DEF LostInv
    <2>4. MarkerInv'
      BY <2>1, <2>2, StaysArmed
    <2>5. WritesInv'
      BY <2>1 DEF WritesInv
    <2>. QED
      BY <2>3, <2>4, <2>5 DEF Whole
  <1>. QED
    BY <1>2, <1>3 DEF Undoes

LEMMA SaveKeysWhole == WholeInv /\ SaveKeysDone => Whole'
  <1> SUFFICES ASSUME WholeInv, SaveKeysDone PROVE Whole'
    OBVIOUS
  <1>1. change.step = "save_keys" /\ disk.armed /\ change \in Change
    BY WholeTypes DEF SaveKeysDone, WholeInv, MarkerInv
  <1>2. CASE Synced(FALSE) /\ Undoes
    BY <1>1, <1>2, SyncedFacts, UndoesWhole
  <1>3. CASE Synced(TRUE) /\ Moves(change, "save_slots")
    <2>1. /\ ~change.missed /\ change.writes = <<>>
          /\ change.missed \/ change.failed \/ change.undo => broken
      BY <1>3, SyncedFacts
    <2>2. ~change.undo => \A a \in Action : disk.active[a] = change.goal[a]
      BY <1>1, <2>1 DEF WholeInv, WritesInv, SavesKeys, Awaits
    <2>3. /\ change'.step = "save_slots" /\ change'.missed = FALSE /\ change'.goal = change.goal
          /\ change'.failed = change.failed /\ change'.undo = change.undo
          /\ change'.writes = <<Write("active", Slots, Target'[Slots])>>
          /\ UNCHANGED <<disk, broken, shown, givenUp, mishaps>>
      BY <1>1, <1>3, MovesFacts DEF WritesOf
    <2>4. change'.writes # <<>>
      BY <2>3
    <2>5. LostInv'
      BY <2>1, <2>3, <2>4 DEF LostInv
    <2>6. MarkerInv'
      BY <1>1, <2>3, StaysArmed
    <2>7. WritesInv'
      BY <2>2, <2>3, <2>4 DEF WritesInv, OneWrite
    <2>. QED
      BY <2>5, <2>6, <2>7 DEF Whole
  <1>. QED
    BY <1>2, <1>3 DEF SaveKeysDone

LEMMA SaveSlotsWhole == WholeInv /\ SaveSlotsDone => Whole'
  <1> SUFFICES ASSUME WholeInv, SaveSlotsDone PROVE Whole'
    OBVIOUS
  <1>1. change.step = "save_slots" /\ disk.armed /\ change \in Change /\ LostInv
    BY WholeTypes DEF SaveSlotsDone, WholeInv, MarkerInv
  <1>2. CASE Synced(FALSE) /\ Moves([change EXCEPT !.failed = TRUE], "restore_slots")
    <2> DEFINE ch == [change EXCEPT !.failed = TRUE]
    <2>1. ch \in Change /\ ch.failed = TRUE /\ change.slots \in Value(Slots) /\ ch.undo = change.undo
      BY <1>1 DEF Change
    <2> HIDE DEF ch
    <2>2. Moves(ch, "restore_slots") /\ broken
      BY <1>2, SyncedFacts DEF ch
    <2>3. /\ change'.step = "restore_slots" /\ change'.missed = FALSE
          /\ change'.writes = <<Write("active", Slots, change.slots)>>
          /\ UNCHANGED <<disk, broken, shown, givenUp, mishaps>>
      BY <2>1, <2>2, MovesFacts DEF WritesOf
    <2>4. LostInv'
      BY <2>2, <2>3 DEF LostInv
    <2>5. MarkerInv'
      BY <1>1, <2>3, StaysArmed
    <2>6. WritesInv'
      BY <2>1, <2>3 DEF WritesInv, OneWrite
    <2>. QED
      BY <2>4, <2>5, <2>6 DEF Whole
  <1>3. CASE Synced(TRUE) /\ Moves(change, "disarm")
    <2>1. ~change.missed /\ change.writes = <<>>
      BY <1>3, SyncedFacts
    <2>2. change.failed = FALSE /\ change.undo = FALSE
      BY <1>1, <2>1 DEF LostInv, Change
    <2>3. Holds(disk.active, change.goal)
      BY <1>1, <2>1, <2>2 DEF WholeInv, WritesInv, Holds, Setting
    <2>4. /\ change'.step = "disarm" /\ change'.missed = FALSE /\ change'.goal = change.goal
          /\ change'.failed = FALSE /\ change'.undo = FALSE
          /\ change'.writes = <<Marker(FALSE)>>
          /\ UNCHANGED <<disk, broken, shown, givenUp, mishaps>>
      BY <1>1, <1>3, <2>2, MovesFacts DEF WritesOf
    <2>5. LostInv'
      BY <2>4 DEF LostInv
    <2>6. MarkerInv'
      BY <1>1, <2>4, StaysArmed
    <2>7. Holds(disk.active, change.goal)'
      BY <2>3, <2>4 DEF Holds
    <2>8. change'.writes # <<>>
      BY <2>4
    <2>9. WritesInv'
      BY <2>4, <2>7, <2>8 DEF WritesInv, OneWrite
    <2>. QED
      BY <2>5, <2>6, <2>9 DEF Whole
  <1>. QED
    BY <1>2, <1>3 DEF SaveSlotsDone

LEMMA RestoreSlotsWhole == WholeInv /\ RestoreSlotsDone => Whole'
  <1> SUFFICES ASSUME WholeInv, RestoreSlotsDone PROVE Whole'
    OBVIOUS
  <1>1. change.step = "restore_slots" /\ disk.armed /\ change.failed
    BY DEF RestoreSlotsDone, WholeInv, MarkerInv, CourseInv, MishapInv
  <1>2. mishaps # 0 /\ broken
    BY <1>1, SyncedFacts DEF RestoreSlotsDone
  <1>. QED
    BY <1>1, <1>2, UndoesWhole DEF RestoreSlotsDone

(* The change is committed: the marker is cleared, the active values are   *)
(* those it aimed at, and the window shows them.                           *)
LEMMA DisarmWhole == WholeInv /\ DisarmDone => Whole'
  <1> SUFFICES ASSUME WholeInv, DisarmDone PROVE Whole'
    OBVIOUS
  <1>1. change.step = "disarm" /\ ~change.undo /\ ~change.failed
    BY DEF DisarmDone, WholeInv, LostInv
  <1>2. CASE Synced(FALSE) /\ Undoes
    <2>1. change.missed /\ mishaps # 0 /\ broken
      BY <1>1, <1>2, SyncedFacts
    <2>2. disk.armed
      BY <1>1, <2>1 DEF WholeInv, MarkerInv
    <2>. QED
      BY <1>1, <1>2, <2>1, <2>2, UndoesWhole
  <1>3. CASE Synced(TRUE) /\ Commit
    <2>1. ~change.missed /\ change.writes = <<>>
      BY <1>3, SyncedFacts
    <2>2. ~disk.armed /\ Holds(disk.active, change.goal)
      BY <1>1, <2>1 DEF WholeInv, WritesInv
    <2>3. Read(disk.active) = change.goal
      BY <2>2, ReadWhole, WholeTypes
    <2>4. shown' = change.goal /\ change' = NoChange /\ disk' = disk
      BY <1>3 DEF Commit
    <2>5. /\ change'.step = "rest" /\ change'.missed = FALSE /\ change'.writes = <<>>
          /\ change'.failed = FALSE /\ change'.undo = FALSE
      BY <2>4 DEF NoChange
    <2>6. Read(disk'.active) = shown'
      BY <2>3, <2>4
    <2>7. MarkerInv'
      BY <2>2, <2>4, <2>5, <2>6 DEF MarkerInv
    <2>8. LostInv'
      BY <2>5 DEF LostInv
    <2>9. WritesInv'
      BY <2>5 DEF WritesInv
    <2>. QED
      BY <2>7, <2>8, <2>9 DEF Whole
  <1>. QED
    BY <1>1, <1>2, <1>3 DEF DisarmDone, CommitUndo

LEMMA DoneWhole ==
    ASSUME WholeInv, ArmSlotsDone \/ ArmKeysDone \/ GiveUpDone \/ SaveKeysDone \/ SaveSlotsDone
                     \/ RestoreSlotsDone \/ DisarmDone
    PROVE  Whole'
  <1>1. CASE GiveUpDone
    BY <1>1, MovesToRest DEF GiveUpDone
  <1>. QED
    BY <1>1, ArmSlotsWhole, ArmKeysWhole, SaveKeysWhole, SaveSlotsWhole, RestoreSlotsWhole, DisarmWhole

-----------------------------------------------------------------------------
(* Sessions and the beginnings of changes.                                 *)

LEMMA StartWhole == WholeInv /\ Start => Whole'
  <1> SUFFICES ASSUME WholeInv, Start PROVE Whole'
    OBVIOUS
  <1> DEFINE c == Loaded(disk)
  <1>1. /\ c = IF disk.armed THEN Recover(disk.recovery) ELSE Read(disk.active)
        /\ disk.armed => Recover(disk.recovery) = shown
        /\ mishaps = 0 => Read(disk.active) = shown
    <2>1. c = IF disk.armed THEN Recover(disk.recovery) ELSE Read(disk.active)
      BY LoadedRead, WholeTypes
    <2>2. disk.armed => Recover(disk.recovery) = shown
      BY ReadWhole, WholeTypes DEF WholeInv, MarkerInv
    <2>3. mishaps = 0 => Read(disk.active) = shown
      BY DEF Start, WholeInv, MarkerInv
    <2> HIDE DEF c
    <2>. QED
      BY <2>1, <2>2, <2>3
  <1>2. c \in Config /\ HotkeysTypeOK
    BY WholeTypes, LoadedTypes DEF WholeInv, CourseInv, OwnInv, TypeOK, Registry
  <1>3. shown' = c /\ change' = NoChange /\ disk' = disk /\ Initialize([a \in Action |-> c[a]])
    BY DEF Start
  <1> HIDE DEF c
  <1>4. mishaps' >= mishaps
    BY <1>2, <1>3, ConfigTypes, StartedRight
  <1>5. mishaps' = 0 => mishaps = 0
    BY <1>4, WholeTypes
  <1>6. /\ change'.step = "rest" /\ change'.missed = FALSE /\ change'.writes = <<>>
        /\ change'.failed = FALSE /\ change'.undo = FALSE
    BY <1>3 DEF NoChange
  <1>7. /\ disk'.armed => Holds(disk'.recovery, shown')
        /\ ~disk'.armed \/ mishaps' = 0 => Read(disk'.active) = shown'
    <2>1. disk.armed => Holds(disk.recovery, shown)
      BY DEF WholeInv, MarkerInv
    <2>. QED
      BY <1>1, <1>3, <1>5, <2>1
  <1>8. Holds(disk.recovery, shown)' <=> Holds(disk'.recovery, shown')
    BY DEF Holds
  <1>9. MarkerInv'
    BY <1>6, <1>7, <1>8 DEF MarkerInv
  <1>10. LostInv'
    BY <1>6 DEF LostInv
  <1>11. WritesInv'
    BY <1>6 DEF WritesInv
  <1>. QED
    BY <1>9, <1>10, <1>11 DEF Whole

LEMMA EndsWhole ==
    ASSUME WholeInv, Close \/ Crash
    PROVE  Whole'
  <1>1. /\ change' = [NoChange EXCEPT !.step = "start"] /\ UNCHANGED <<disk, shown>>
        /\ givenUp' = IF AtRest THEN givenUp ELSE givenUp \cup {change.goal}
    BY DEF Close, Crash, Ends, window
  <1>2. /\ change'.step = "start" /\ change'.missed = FALSE /\ change'.writes = <<>>
        /\ change'.failed = FALSE /\ change'.undo = FALSE
    BY <1>1 DEF NoChange
  <1>3. /\ disk.armed => Holds(disk.recovery, shown)
        /\ ~disk.armed => change.step = "disarm" \/ Read(disk.active) = shown
    BY DEF WholeInv, MarkerInv, Close, Crash, AtRest
  <1>4. change.step = "disarm" => Read(disk.active) = change.goal
    BY ReadWhole, WholeTypes DEF WholeInv, WritesInv
  <1>5. mishaps' = 0 => Read(disk.active) = shown
    <2>1. CASE Close
      BY <2>1, <1>3 DEF Close, AtRest, WholeInv, MarkerInv
    <2>2. CASE Crash
      <3>1. mishaps' # 0
        BY <2>2, WholeTypes DEF Crash
      <3>. QED
        BY <3>1
    <2>. QED
      BY <2>1, <2>2
  <1>6. ~disk.armed => Read(disk.active) = shown \/ Read(disk.active) \in givenUp'
    BY <1>1, <1>3, <1>4 DEF AtRest
  <1>7. disk'.armed => Holds(disk.recovery, shown)'
    BY <1>1, <1>3 DEF Holds
  <1>8. Read(disk.active)' = Read(disk.active) /\ (disk'.armed <=> disk.armed) /\ shown' = shown
    BY <1>1
  <1>9. MarkerInv'
    BY <1>2, <1>5, <1>6, <1>7, <1>8 DEF MarkerInv
  <1>10. LostInv'
    BY <1>2 DEF LostInv
  <1>11. WritesInv'
    BY <1>2 DEF WritesInv
  <1>. QED
    BY <1>9, <1>10, <1>11 DEF Whole

LEMMA BeginWhole ==
    ASSUME WholeInv, NEW goal \in Config, Begin(goal)
    PROVE  Whole'
  <1> DEFINE ch == [NoChange EXCEPT !.goal = goal]
  <1>1. ch \in Change /\ ch.failed = FALSE /\ ch.undo = FALSE
    BY NoChangeTypes DEF Change, NoChange
  <1>2. change' = Enter(ch, "arm_slots") /\ AtRest /\ UNCHANGED <<disk, shown, mishaps>>
    BY DEF Begin, window
  <1> HIDE DEF ch
  <1>3. /\ change'.step = "arm_slots" /\ change'.missed = FALSE
        /\ change'.failed = FALSE /\ change'.undo = FALSE
        /\ change'.writes = <<Write("recovery", Slots, shown[Slots])>> /\ shown' = shown
    <2>1. /\ change'.step = "arm_slots" /\ change'.missed = FALSE
          /\ change'.failed = FALSE /\ change'.undo = FALSE
      BY <1>1, <1>2, EnterFacts
    <2>2. change'.writes = WritesOf("arm_slots", IF ch.undo THEN shown ELSE ch.goal)
      BY <1>1, <1>2, EnterWrites
    <2>. QED
      BY <1>2, <2>1, <2>2 DEF WritesOf
  <1>4. change'.writes # <<>>
    BY <1>3
  <1>5. /\ disk.armed => Holds(disk.recovery, shown)
        /\ ~disk.armed \/ mishaps = 0 => Read(disk.active) = shown
    BY <1>2 DEF WholeInv, MarkerInv, AtRest
  <1>6. MarkerInv'
    BY <1>2, <1>3, <1>5, StaysRead
  <1>7. LostInv'
    BY <1>3 DEF LostInv
  <1>8. WritesInv'
    BY <1>3, <1>4 DEF WritesInv, OneWrite
  <1>. QED
    BY <1>6, <1>7, <1>8 DEF Whole

-----------------------------------------------------------------------------
(* The keys of a change are registered.                                    *)

(* Windows refuses no registration.                                        *)
NeverRefused == Refusals \subseteq {NoRefusal}

(* When Windows may refuse them, nothing else has failed before.           *)
LEMMA RefusedFirst ==
    ASSUME OneMishap \/ NeverRefused, WholeInv, NEW config \in [Action -> HotKey],
           NEW r \in ApplyOutcomes(config)
    PROVE  r.success \in BOOLEAN /\ (~r.success => mishaps = 0)
  <1> DEFINE new == Natives(config, WithQuickRun(config))
  <1>1. r \in Outcomes(Owning(current, TRUE, TRUE), new)
    BY HasOwns DEF ApplyOutcomes, WholeInv, CourseInv, OwnInv
  <1> HIDE DEF new
  <1>2. r.success \in BOOLEAN /\ (~(mishaps < MaxMishaps) => r.success = TRUE)
    BY <1>1, OutcomeFacts DEF Honest
  <1>3. CASE OneMishap
    <2>1. mishaps \in Nat /\ MaxMishaps \in Nat
      BY WholeTypes, ConstantTypes
    <2>. QED
      BY <1>2, <1>3, <2>1 DEF OneMishap
  <1>4. CASE NeverRefused
    <2>1. PICK refusal \in Refusals \cup {NoRefusal} : r = Replace(Owning(current, TRUE, TRUE), new, refusal)
      BY <1>1 DEF Outcomes
    <2>2. refusal = NoRefusal
      BY <1>4, <2>1 DEF NeverRefused
    <2>. QED
      BY <1>2, <2>1, <2>2, ReplaceSucceeds
  <1>. QED
    BY <1>3, <1>4

LEMMA ApplyWhole == (OneMishap \/ NeverRefused) /\ WholeInv /\ ApplyKeys => Whole'
  <1> SUFFICES ASSUME OneMishap \/ NeverRefused, WholeInv, ApplyKeys PROVE Whole'
    OBVIOUS
  <1> DEFINE config == [a \in Action |-> Target[a]]
  <1>1. config \in [Action -> HotKey]
    BY WholeTypes, ConfigTypes
  <1>2. PICK r \in ApplyOutcomes(config) :
          change' = IF change.undo
                    THEN Enter([change EXCEPT !.keysBack = r.success], "save_keys")
                    ELSE Enter(change, IF r.success THEN "save_keys" ELSE "give_up")
    BY DEF ApplyKeys
  <1> HIDE DEF config
  <1>3. r.success \in BOOLEAN /\ (~r.success => mishaps = 0)
    BY <1>1, <1>2, RefusedFirst
  <1>4. /\ change.step = "apply" /\ UNCHANGED <<disk, broken, shown>>
        /\ change \in Change /\ shown \in Config
    BY WholeTypes DEF ApplyKeys, window
  <1>5. disk.armed /\ LostInv /\ MarkerInv
    BY <1>4 DEF WholeInv, MarkerInv
  <1>6. ASSUME NEW ch \in Change, change' = Enter(ch, "save_keys"), ch.undo = change.undo, ch.failed = change.failed
        PROVE  Whole'
    <2>1. /\ change'.step = "save_keys" /\ change'.missed = FALSE
          /\ change'.undo = change.undo /\ change'.failed = change.failed
      BY <1>6, EnterFacts
    <2>2. SavesKeys'
      BY <1>4, <1>6, EnterSavesKeys
    <2>3. LostInv'
      BY <1>4, <1>5, <2>1 DEF LostInv
    <2>4. MarkerInv'
      BY <1>4, <1>5, <2>1, StaysArmed
    <2>5. WritesInv'
      BY <2>1, <2>2 DEF WritesInv
    <2>. QED
      BY <2>3, <2>4, <2>5 DEF Whole
  <1>7. CASE change.undo
    <2> DEFINE ch == [change EXCEPT !.keysBack = r.success]
    <2>1. ch \in Change /\ ch.undo = change.undo /\ ch.failed = change.failed
      BY <1>3, <1>4 DEF Change
    <2>2. change' = Enter(ch, "save_keys")
      BY <1>2, <1>7
    <2> HIDE DEF ch
    <2>. QED
      BY <1>6, <2>1, <2>2
  <1>8. CASE ~change.undo /\ r.success
    BY <1>2, <1>4, <1>6, <1>8
  <1>9. CASE ~change.undo /\ ~r.success
    <2>1. change' = Enter(change, "give_up")
      BY <1>2, <1>9
    <2>2. /\ change'.step = "give_up" /\ change'.missed = FALSE
          /\ change'.undo = change.undo /\ change'.failed = change.failed
      BY <1>4, <2>1, EnterFacts
    <2>3. change'.writes = <<Marker(FALSE)>>
      BY <1>4, <2>1, EnterWrites DEF WritesOf
    <2>4. ~change.undo /\ ~change.failed
      BY <1>4, <1>5, <1>9 DEF LostInv
    <2>5. Read(disk.active) = shown
      BY <1>3, <1>4, <1>5, <1>9 DEF MarkerInv
    <2>6. LostInv'
      BY <2>2, <2>4 DEF LostInv
    <2>7. MarkerInv'
      BY <1>4, <1>5, <2>2, StaysArmed
    <2>8. Read(disk.active)' = shown'
      BY <1>4, <2>5
    <2>9. WritesInv'
      BY <2>2, <2>3, <2>8 DEF WritesInv, OneWrite
    <2>. QED
      BY <2>6, <2>7, <2>9 DEF Whole
  <1>. QED
    BY <1>7, <1>8, <1>9

-----------------------------------------------------------------------------
(* Whatever happens.                                                       *)

LEMMA GestureWhole ==
    ASSUME WholeInv, StartRecording \/ StopRecording \/ \E on \in BOOLEAN : EditKey(on)
    PROVE  Whole'
  <1>1. UNCHANGED <<disk, change, shown, givenUp, broken>>
    BY DEF StartRecording, StopRecording, EditKey
  <1>2. mishaps' \in {mishaps, mishaps + 1}
    BY DEF StartRecording, StopRecording, EditKey, SetQuickRunEnabled, Registrar
  <1>3. mishaps' = 0 => mishaps = 0
    BY <1>2, WholeTypes
  <1>. QED
    BY <1>1, <1>3, WholeKeeps DEF Whole, WholeInv

LEMMA RegistryWhole ==
    ASSUME Steady, WholeInv, RegistryFails \/ RegistryRecovers
    PROVE  Whole'
  <1>1. UNCHANGED <<disk, change, shown, givenUp>>
    BY DEF RegistryFails, RegistryRecovers, window
  <1>2. mishaps' = 0 => mishaps = 0
    BY WholeTypes DEF RegistryFails, RegistryRecovers
  <1>3. change.missed \/ change.failed \/ change.undo => broken'
    BY DEF RegistryFails, RegistryRecovers, Steady, WholeInv, LostInv
  <1>4. LostInv'
    BY <1>1, <1>3 DEF WholeInv, LostInv
  <1>5. MarkerInv' /\ WritesInv'
    BY <1>1, <1>2, KeepsWrites DEF WholeInv
  <1>. QED
    BY <1>4, <1>5 DEF Whole

LEMMA WholeStep == Steady /\ (OneMishap \/ NeverRefused) /\ WholeInv /\ [Next]_vars => WholeInv'
  <1> SUFFICES ASSUME Steady, OneMishap \/ NeverRefused, WholeInv, [Next]_vars PROVE WholeInv'
    OBVIOUS
  <1>1. CourseInv'
    BY CourseStep DEF WholeInv
  <1> SUFFICES Whole'
    BY <1>1 DEF WholeInv, Whole
  <1>2. CASE UNCHANGED vars
    <2>1. UNCHANGED <<disk, change, shown, givenUp, broken, mishaps>>
      BY <1>2 DEF vars, window
    <2>. QED
      BY <2>1, WholeKeeps DEF Whole, WholeInv
  <1>3. CASE ChangeHotkeys \/ ChangeQuickRun
    BY <1>3, BeginWhole DEF ChangeHotkeys, ChangeQuickRun
  <1>4. CASE WriteNext
    BY <1>4, WriteWhole DEF Whole
  <1>5. CASE RegistryFails \/ RegistryRecovers
    BY <1>5, RegistryWhole
  <1>6. CASE Close \/ Crash
    BY <1>6, EndsWhole
  <1>. QED
    BY <1>2, <1>3, <1>4, <1>5, <1>6, StartWhole, ApplyWhole, DoneWhole, GestureWhole DEF Next

LEMMA WholeInit == Init => WholeInv
  <1> SUFFICES ASSUME Init PROVE WholeInv
    OBVIOUS
  <1> DEFINE blank == [s \in Setting |-> Unset]
  <1>1. CourseInv
    BY CourseInit
  <1>2. /\ disk.active = blank /\ disk.armed = FALSE /\ shown = Default
        /\ change = [NoChange EXCEPT !.step = "start"]
    BY DEF Init
  <1>3. /\ change.step = "start" /\ change.missed = FALSE /\ change.writes = <<>>
        /\ change.failed = FALSE /\ change.undo = FALSE
    BY <1>2 DEF NoChange
  <1>4. Read(disk.active) = shown
    <2>1. Default = [s \in Setting |-> Default[s]]
      BY ConstantTypes DEF Config
    <2>2. OrDefault(blank) = [s \in Setting |-> Default[s]]
      BY DEF OrDefault
    <2>3. OrDefault(blank) = Default
      BY <2>1, <2>2
    <2>4. OrDefault(Default)[Slots] = Default[Slots]
      BY ConstantTypes DEF OrDefault
    <2>5. Read(blank) = [s \in Setting |-> Default[s]]
      BY <2>3, <2>4 DEF Read, Loaded
    <2>. QED
      BY <1>2, <2>1, <2>5
  <1>5. LostInv
    BY <1>3 DEF LostInv
  <1>6. MarkerInv
    BY <1>2, <1>3, <1>4 DEF MarkerInv
  <1>7. WritesInv
    BY <1>3 DEF WritesInv
  <1>. QED
    BY <1>1, <1>5, <1>6, <1>7 DEF WholeInv

(* Hotkeys and slots are changed together or not at all, whatever is cut    *)
(* off and whatever is lost: any number of crashes and lost writes when     *)
(* Windows refuses no key, or one mishap of any kind; the registry that     *)
(* refuses a write of a change refuses the rest.                            *)
THEOREM SettingsStayWhole ==
    Steady /\ (OneMishap \/ NeverRefused) => (Spec => []SettingsWhole)
  <1> SUFFICES ASSUME Steady, OneMishap \/ NeverRefused PROVE Spec => []SettingsWhole
    OBVIOUS
  <1>1. Init => WholeInv
    BY WholeInit
  <1>2. WholeInv /\ [Next]_vars => WholeInv'
    BY WholeStep
  <1>3. WholeInv => SettingsWhole
    <2> SUFFICES ASSUME WholeInv, change.step = "start" PROVE Loaded(disk) \in {shown} \cup givenUp
      BY DEF SettingsWhole
    <2>1. Loaded(disk) = IF disk.armed THEN Recover(disk.recovery) ELSE Read(disk.active)
      BY LoadedRead, WholeTypes
    <2>2. disk.armed => Recover(disk.recovery) = shown
      BY ReadWhole, WholeTypes DEF WholeInv, MarkerInv
    <2>3. ~disk.armed => Read(disk.active) \in {shown} \cup givenUp
      BY DEF WholeInv, MarkerInv
    <2>. QED
      BY <2>1, <2>2, <2>3
  <1>. QED
    BY <1>1, <1>2, <1>3, PTL DEF Spec

=============================================================================
