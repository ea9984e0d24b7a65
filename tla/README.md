# MacroFlow: a TLA+ verification project

MacroFlow records what a user does with the keyboard and the mouse on Windows,
lets the recording be edited, and plays it back through `SendInput`. It is
written in Python with PyQt6 in three layers: `ui/` over the core modules over
`win32/`. This directory holds TLA+ models of its concurrent core, the runs
that check them with TLC, and theorems about each of its parts that TLAPS
checks. Around that core stand models of the window that owns it, of its
hotkeys and settings, of the user's files and of the editor. Paths below are
relative to `src/src/macroflow/`.

## 1. Inventory

| Component | State it keeps | Operations | Talks to |
|---|---|---|---|
| Playback engine `player.py` | worker thread and session, stop flag, pausable clock, pending pause, inputs held, progress | `play`, `stop`, `pause`, `resume`, the loop of the worker | `SendInput`; callbacks on the worker's thread |
| Recorder `recorder.py` | raw queue, event buffer, pause intervals, suppressed inputs, release fences, emergency callback | `start_/stop_/pause_/resume_recording`, `inject_*`, the consumer loop | hook thread by the queue; the window by callbacks |
| Flow engine `script_engine.py` | flow, worker thread, stop flag, the player session it waits for | `start`, `stop`, one handler per kind of node | the player; callbacks to its host |
| Sequencer panel `ui/sequencer.py`, `sequence_model.py` | list of steps with status, engine, active generation, capture, watch timer | edit, capture, run, stop, load, save, merge | flow engine by calls and queued Qt signals |
| Window `ui/main_window.py`, `ui/playback_repeat.py`, `ui/append_recording.py` | idle / recording / stopping / playing, repeat session, append mode, quick text | buttons, hotkeys, polls, repeat worker, emergency stop, close | every other component |
| Hooks `win32/hooks.py` | pump threads, their ids, cancel flags | start and stop of the two hooks | recorder, window |
| Hotkeys `win32/hotkeys.py`, `ui/hotkey_runtime.py` | registered set, native and focused actions, degraded | `replace` with rollback, `initialize`, `apply`, `set_quick_run_enabled` | window |
| Settings `hotkey_config.py`, `quick_run.py` | two settings with recovery records | arm, save, disarm, load | window, hotkeys |
| User data `user_data.py` | data directory, migration manifest | stage, copy, rename, merge, fall back | file system |
| Macro files `macro_file.py` | the file and its backup | `save`, `load`, edit functions | file system, editor |
| Editor, favorites, overlay, dialogs | tables, undo history, stored order | editing | window |
| Pure functions `event_insertions.py`, `sequence_merge.py`, `expression_sandbox.py` | none | lists to lists, a syntax check | editor, sequencer |

What is hard in it, and what makes each part correct:

- **Playback.** Four threads meet in module globals: the worker, the GUI, the
  repeat worker and the flow engine. Joins time out, callbacks of the worker
  may call the player again, a pause must wait until no gesture is open, and a
  stop must release what is held without the worker pressing it again. Correct
  means: one worker, a stop that sticks, a pause that holds nothing, nothing
  left held, and no call that hangs.
- **Recording.** The hook stamps events; the consumer classifies them later,
  when pauses may have begun and ended since. Correct means: the buffer is a
  function of what was captured and of the pauses, not of the consumer's lag;
  nothing captured is lost; no gesture is split by a pause; order is time.
- **Flow engine.** A stop may come at any point of starting and ending a
  playback. Correct means: no playback outlives its worker unstopped, each
  node is reported once, the host learns how a run ended.
- **Sequencer.** Messages of the worker wait in the GUI's event queue while
  runs are stopped and started again and the list is edited. Correct means: a
  row shows what happened to its own node in the present run, and the panel
  is locked just as long as a worker lives.
- **Window.** Handlers open dialogs in whose event loops other handlers run;
  a repeat worker, a save worker and the player's thread post messages to it.
  Correct means: what runs is shown and can be stopped, a stop is not overtaken
  by the next cycle of a repetition, a recording lands where it was asked to,
  and the window comes back to idle.
- **Hotkeys and settings.** A set of registrations is replaced by calls each of
  which Windows may refuse, those of the rollback too; two settings are written
  value by value and a session may end between. Correct means: the program
  knows what it holds, a key does what the window shows, and the next start
  finds the old settings or the new ones.
- **User data and favorites.** Files and an index change one after the other;
  any access may fail or be the last. Correct means: nothing is lost, nothing
  older goes over anything newer, what is taken back leaves no trace.
- **Editor.** A dialog remembers rows while recordings and captures change the
  list under it. Correct means: an edit changes its own row, every edit can be
  undone until the stack is full, every event is shown once, and an edit leaves
  a macro that was in the order of its time in that order.
- **Hooks.** Handshakes with timeouts between the pump and its starter.

`PROJECT.json` lists every hazard at its line with the properties that cover
it; those without one are not modelled (section 7) or are broken by the code
today (section 8).

## 2. Modules

| Module | Models | Kind |
|---|---|---|
| `Player` | `player.py` | detailed state machine |
| `PlaybackSlot` | what `player.py` promises its callers | abstract specification, refined by `Player` |
| `PlayerProofs` | theorems about `Player` | TLAPS |
| `Recorder` | `recorder.py`, with the hook callbacks that feed it | state machine and the reference definitions `Wanted` and `TimeOf` |
| `RecorderProofs` | theorems about `Recorder` | TLAPS |
| `FlowEngine` | `FlowEngine` of `script_engine.py` | state machine over flow graphs; the player appears as one slot |
| `Sequencer` | `ui/sequencer.py` and `build_sequence_flow`, composed with `FlowEngine` | list, flow built from it, panel and event queue |
| `SequencerProofs` | theorems about `FlowEngine`, and on them about `Sequencer` | TLAPS |
| `Window` | `ui/main_window.py`, `ui/playback_repeat.py`, `ui/append_recording.py` | state machine that composes what player, recorder and sequencer promise |
| `WindowProofs` | theorems about `Window` | TLAPS |
| `Hotkeys` | `win32/hotkeys.py`, `ui/hotkey_runtime.py` | the replacement of a set under refusals, the runtime over it |
| `HotkeySettings` | `_apply_hotkey_config` of the window, `hotkey_config.py`, `quick_run.py` | state machine over `Hotkeys` and the registry, with crashes |
| `HotkeyProofs` | theorems about `Hotkeys` and `HotkeySettings` | TLAPS |
| `UserData` | `user_data.py` | state machine over two roots and the settings, with crashes |
| `UserDataProofs` | theorems about `UserData` | TLAPS |
| `Favorites` | `ui/favorites.py`, `favorites_batch.py`, `favorites_index.py` | state machine over files and an index, with crashes |
| `FavoritesProofs` | theorems about `Favorites` | TLAPS |
| `Editor` | `ui/editor*.py`, `event_insertions.py`, the edits of `macro_file.py`, `sequence_merge.py` | state machine over event lists, with reference properties |
| `EditorProofs` | theorems about `Editor` | TLAPS |
| `MC*` | instances for TLC | macros, flows, lists, programs, keys, failures |

### Player

The module globals are variables with names near their own. A region under
`_input_state_lock` is one action; so is a region under
`_playback_lifecycle_lock` that does not block. `play()` joins the previous
worker *inside* its region, so that lock is a variable (`lock`) that a call
holds over several actions. A call of `play` or `stop` that finds it held waits
at a place of its own (`p_enter`, `s_enter`); it is an `RLock`
(`player.py:163`), but no call enters it twice. Between two regions everything interleaves: each
place of `_play_loop` where the stop flag, the pause or a callback is consulted
is a value of `wpc[w]`, each place of `play`, `stop`, `pause` and `resume` a
value of `pc[t]`. Any thread may call, a worker from its callbacks included:
a `play` from the callback of an old worker waits for the lock while the `play`
that holds it joins that worker. `may` gives for a behaviour the operations
each thread calls.

Abstracted: time (a wait may end at any moment that the clock runs, a join may
time out), coordinates and speed, and the nesting of Condition and Loop blocks,
which are flattened: the stop check after each inner event is kept.
`pauseEvent` is the `threading.Event` behind `start_pause_requested`; the
window sets it before `pause()` and clears it before `resume()`
(`ui/main_window.py:1236-1246`). `osDown` is external: what the operating
system holds down as a result of `SendInput`. `dropped` is a history variable.

`PlaybackSlot` says the same with four variables: one slot, a stop signal that
stays while a playback runs, and inputs that only a running playback presses.
`Player` maps to it by `running <- IF IsPlaying THEN thread ELSE None`, the
workers past `new` as `used`, `stopFlag` and `osDown`.

### Recorder

The clock is a count of its readings since the start, so two readings never
agree. The queue is `log` without its first `taken` items: keeping what was
captured lets `Wanted(n)` and `TimeOf(n)` say what item `n` asks for, without
knowing when the consumer came to it; `Captured` are the entries of the buffer
that an item of the queue made. A hook callback (stamp, push) is one
action; so is each region under `_pause_lock`. The window injects, pauses and
resumes only while it is recording (its toolbar and hotkeys allow nothing
else), and one stop runs at a time. The consumer's locals are part of
`consumer`: the item it judges, the boundary it read, the stamp it computed. A fence is a
set of keys of which the first that is let go takes it down, and the pause
forgets the others with it: the window sets one, the codes of all Ctrl keys
(`ui/main_window.py:1196`), which is the `Group` of the instances.
`Mates` are the keys of one fence; `FenceSplits` says that another one
of them was let go between a press and a release. `May` names the calls and the failures an instance considers.

### FlowEngine and Sequencer

`at` is where the worker stands in `_run` and `_run_macro_data`: between
`player.play` returning, the session being stored, the wait, the test of the
stop flag and the stop of the session. The playback is what `PlaybackSlot`
promises plus the order of its callback: `running`, then `ok` or `failed`
(about to call back), `returning`, `dead`; a stopped one dies without calling
back unless it was past its last look at the flag. `player.play` may always
raise: a stop under way, the thread of the last playback still returning, or
no thread. Waits, colour polls and joins end at any moment. `told` is the
sequence of callbacks made, tagged with the run.

The sequencer makes a fresh engine for each run and sets `engine` back to
`None` when it hears the end of it. Its worker does nothing after its last
callback, so worker death and last callback are one action here, and the
variables of the old engine serve for the next. `told` is also the GUI's event
queue: `seen` messages have been handled. The GUI thread handles none while it
stands in `stop()`. `items` carry a history field `node`, the node the present
run has for the item; `BuildFlow` and `RowOf` translate `_build_canonical_flow`,
`build_sequence_flow` and `_node_id_to_idx`.

### Window

An action is a handler of the GUI thread from one event to the next, as far as
it does not block or open a dialog. A handler that blocks (the join of
`player.stop`, of the save worker, `processEvents` in a close) leaves the GUI
thread in `gui`; one that opens a dialog leaves on `dialogs` what it remembers,
and goes on in an action of its own when the dialog is on top and is closed:
`AnswerRepeat`, `AnswerAppend`, `CloseQuickText`, `CloseQuickFailed`,
`CloseFocusLost`, `CloseNotRestored`, `OnSequenceDone`, `AnswerDiscard`. Between the two hotkeys,
messages and timers are handled. `queue` holds the messages of the repeat
workers and of the save worker. A repeat worker stands in `worker[s].pc`; its
gate (`start_player_if_allowed`) is the place `starting`, which a stop waits
for. The player is its slot: `running`, `returning` from its callback, none;
`rec` and `seq` are what `Recorder` and `Sequencer` promise. A macro is the list
of the recordings it consists of; `wanted` is a history variable that says what
the user asked the present recording to become. A quick text ends by
`EndQuickText`, which looks at the recording and at the focus again after each
of its messages: resumed, left paused, or one more warning. Until then its
dialogs on the stack (`OfText`) carry the number of its recording.

### Hotkeys and HotkeySettings

`held` is what Windows holds for the process, `current` what `NativeHotkeySet`
believes. A replacement is one action: it runs on the GUI thread without
yielding. Which of its calls are refused is chosen for each step of it
(`Refusal`: removals, additions, drops of what was added, restorations).
`runtime` is the `HotkeyRuntime`: which actions are global, which focused,
degraded or not. In `HotkeySettings` a change goes through the steps of
`_apply_hotkey_config`: arm slots, arm keys, apply, save keys, save slots,
disarm, and through the same ones backwards. A write of a value is one action,
which the end of the session may follow; a write may be lost and reported by
`sync` only. `Loaded` is what a start makes of a registry it finds.

### UserData

`legacy` and `stable` are the old directory beside the program and the new one of
the user; `settings` the root, the manifest and the remembered paths. A start
copies file by file (`KnownFile`, `CopyFile`, `CopyIndex`), into a staging
directory the first time, then rewrites the paths and commits the settings
write by write; it falls back to the old root when a copy fails and puts the
settings back when a write does. `Dies` ends the process after any step.
Between two starts the user saves, deletes and lists files with either version.
A hash is the content it is the hash of; `dismissed` and `moved` are history
variables.

### Favorites

`files` is the directory, `hidden` the staged files, `stored` the index on disk,
`index` the one in memory. An operation does its part on the disk access by
access (`pc`), saves the index, then deletes what was staged; `Undo` and
`Undone` take it back. Another program may add and delete files.

### Editor

`events` are the events of the loaded macro; a row is the set of places in it
that `BuildRows` collects (a click, a drag, a key press with its release, a
scroll, a single event). An edit opens a dialog with what the code remembers
(the id of the row's first event, the places of its events, or a finished list)
and applies it when the dialog is accepted. The undo stack keeps the last
`MaxUndo` states, as the code's `deque(maxlen=50)` does (`ui/editor.py:122`, `197`). `Recorded`, `Opened`, `Merged` and
`Capture` happen meanwhile where the window lets them. An event has a mark that
stands for everything an edit changes of it.

## 3. Runs

Every property has a mutant in `PROJECT.json`: a plausible bug put into one
definition, which makes TLC find that property violated under the run's cfg.

| Run | Instance | What it shows |
|---|---|---|
| `player_safety` | 2 workers, 2 other threads, a chord with a drag in it, a failing paste while a key is held; three programs; 1.6 million states, two minutes | `OneWorker`, `PausedMeansReleased`, `StopLeavesAtMostInFlight`, `EndReleases`, `StopClearedOnlyWhenDead`, and that every step is a step of `PlaybackSlot` |
| `player_every_event` | 1 worker; a drag, every kind of wait in and out of a block, a failing paste; two programs, one of pauses and one of callbacks that play and stop while a user stops and a thread plays; 79 thousand states, two minutes | under fairness `StoppedWorkerDies`, `CallsReturn` |
| `recorder_timeline` | 1 key, 6 readings, pauses, texts, colours, several recordings, every failure but a failed cleanup; 1.5 million states, over two minutes | `Faithful`, `NothingLost`, `NothingLeaks`, and under fairness `StopDelivers` |
| `recorder_window` | two keys of the fence the window sets, the ESC key with its alarm, moves, 6 readings, pauses, the fence; 5.3 million states | `Chronological`, `OnlyFencesSplitGestures` |
| `flow_engine` | 2 callers, 2 runs, 2 playbacks, a ring with a counter and a broken flow; 1.1 million states | `NoOrphanPlayback`, `WellReported`, `EndIsTold`, `StopEnds` |
| `sequencer` | lists of up to 2 steps, 2 runs, 1 playback; 0.8 million states | `IdleMeansDead`, `RowsShowTheirNodes`, `DeadEngineIsLetGo` |
| `window` | 2 playbacks of 1 or 2 cycles, 2 recordings, 3 of both together, a sequence, every dialog; 1.0 million states, three minutes | `NothingRunsUnseen`, `LandsAsAsked`, `TypingIsNotRecorded`, `ShownAsIs`, and under fairness `WindowComesBack` |
| `hotkey_settings` | 1 runtime and 1 quick-run action, 3 keys, any set of refusals in one replacement, or one lost write or crash; 97 thousand states | `OwnsWhatItHolds`, `KeysDoWhatTheyShow`, `SettingsWhole`, `RecordingIsClean` |
| `userdata` | 2 names, 2 contents, 1 remembered path, 3 acts of the user, 2 mishaps; 2.8 million states | `NothingIsLeftBehind`, `ImportOnlyAdds`, `PathsLeadHome` |
| `favorites` | 3 names, 2 groups, 2 operations, 2 mishaps; 1.6 million states | `EveryFileListed`, `NothingDestroyed`, `FailureLeavesNoTrace` |
| `editor` | a drag with a scroll in it, two overlapping keys with a double scroll; 2 edits, 2 undos, redos, appends or colour checks, an undo stack of 2; 0.2 million states, over a minute | `EditsKeepTime`, `RowsShowEveryEvent`, `EditTouchesItsRow`, `EveryEditIsUndoable` |
| `player_stuck_input` | small | a disagreement of the code with its documentation, section 4 |

Why these bounds are enough for what they are to show. Two workers are the
least for an old and a new playback to overlap; of three, two would have to be
alive for the third to matter, and `SingleWorker` is proved for any number. One
worker is enough for what a single playback waits for. It is enough for
`CallsReturn` too: the second `play` takes the lock and joins the one worker,
whose callback calls `play` or `stop` and waits for that lock; when the join has
timed out the `play` raises, and where it finds the worker gone the start of
another fails as a thread that cannot be created does. Two pauses and a press
and a release fit into six readings: a gesture may begin before, in or after a
pause and end in another, and two keys of a fence be down across a pause.
Buttons are inputs like keys, and the filtered hotkeys are in the proofs only.
Two runs are the least for messages of one to be handled in the other; the
fields `run` and `active` compare only for equality. One playback in the
`sequencer` run means that in a list of two plays, one `play` raises; the
interplay of successive playbacks is in `flow_engine`. `sequencer` makes no
edits after its last run, and its lists have step ids of their own (section 8
says why).

In `window` two playbacks, two recordings and two cycles let an old one meet a
new one, in any order of three starts; a message may wait while one key is
pressed (`MaxQueue`), dialogs nest as they do in the code. Windows refuses to
take the quick-run keys back after the last recording only, a bound on states;
the next recording would ask for them again. In `hotkey_settings` three keys are
the least with which two actions exchange keys and a third key is new; one
replacement may go wrong in every way, while two mishaps let the code mix
old and new settings (section 8); with any number of them and no refused key it
does not (section 5). In `userdata` one mishap may hit a first
migration and another the start that repairs it; two contents make a conflict.
The step after which the code can leave a file behind, moving the new root away,
is one of the run's; `NothingIsLeftBehind` is about the behaviours where it has
not happened (`moved`), and `MCUserData_lost.cfg` shows the others (section 8).
Three names give a batch one file that stays behind, one staged and one renamed
onto. In `editor` the first macro has every event of a gesture apart from the
others, the second two gestures that overlap; two edits are one to prepare the
place and one that falls on it. An undo stack of two overflows at the third
change (two edits and a colour check), and a redo may find it full. Recordings
that are out of the order of their time are in the proof of `RowsAlwaysTell`.

Deadlock is not checked in `recorder_*`, `sequencer`, `window`,
`hotkey_settings` and `editor`: a user may stop doing anything, a closed window
does nothing more, and starts and edits are bounded. In the others a call is
always possible.

What the passing instances exclude is named by a constant. `Rash = FALSE` in
`MCWindow`: no hotkeys while a question is open, no second request to stop a
recording that has ended, and no failure to suspend the quick-run keys.
`May = {}` in `MCHotkeySettings` and `MCEditor`: no key field entered during a
recording, no capture inside a dialog, no dialog answered after the macro under
it was replaced, no recording that goes on from a macro edited meanwhile and ends
under a dialog, no macro merged twice. `MixedDrag = FALSE`, `HardLinks = FALSE`
(the weaker file system). Section 8 says what happens with each.

Each module has a type invariant, and each is proved (section 5); those of
`Favorites` and `Editor` are therefore not among the runs' properties. The inductive
invariants of section 5 were checked on these instances before they were proved.

### Fairness

`Player`: weak fairness of each worker and of each call under way. Python
threads are scheduled; nobody has to call the player, and nothing makes the
screen show what a trigger waits for (`ScreenStep` is not fair). A worker whose
callbacks may call the player without end is not promised to die (`may[w] = {}`
in `StoppedWorkerDies`); that its calls return is `CallsReturn`.
`Recorder`: weak fairness of the consumer (it polls), of a stop and of a start
under way; not of the user, nor of the hook.
`FlowEngine`: the worker, each stop under way, and the playback once it was
stopped or is past its last event; a playback that waits for a trigger need not
end. `Sequencer`: the same, and the GUI thread as a whole (`GuiStep`): it
handles its queue and its timers. `Window`: the GUI thread (`Gui`: messages,
the poll, joins), the save worker, each repeat worker, a player that was stopped
or is returning; not the user, nor a playback that nobody stops, nor a dialog
that nobody closes. Strong fairness is assumed in one place: a call that waits for
the lifecycle lock gets it if it is free again and again (`GetsLock` of
`Player`). Every call gives the lock back; assumed is that others do not
overtake a waiting one for ever. `HotkeySettings`, `UserData`,
`Favorites` and `Editor` state safety only.

## 4. Finding

`player_stuck_input` (`player.py:275`): a stop between the worker's last check
and its locked key-down releases first; the key is then pressed and nobody
releases it, though `docs/product-specs/macro-player.md:105` has a stop release
what is left. `StopLeavesAtMostInFlight` bounds the damage to one input. What
else was seen is in section 8.

## 5. What is proved

The theorems hold for any sets of threads, workers, keys, flows, rows and
actions and any bounds, from one assumption for each module: `PlayerAssumption`,
`FlowAssumption`, `SequencerAssumption`, `HotkeysAssumption` with
`SettingsAssumption`, `RecorderAssumption`, `WindowAssumption`,
`UserDataAssumption`, `FavoritesAssumption`, `EditorAssumption`. They say that the sets are what they stand for (callers are
not workers, `None` is no input, no path and no number of a run, a flow has the
edges of its nodes, half a file is nobody's content, the events of a recording
have ids of their own), which the code has by construction. That a recording is
in the order of its time is not among them, for section 8 shows recordings that
are not; the one theorem that needs it has it as a hypothesis (`Ordered`).

**`PlayerProofs`**, in layers, each using the ones before:

1. `Typing`: `TypeOK` with `IndexInv`, that a worker at an event has an index
   inside its macro. Without the second the event in hand has no type.
2. `Lifecycle`: `LifecycleInv` ties the lifecycle lock, the program points of
   `play` and `stop`, the session, the stop flag and the worker in the slot
   together. `OneWorker` alone is not inductive: that `play` finds no live worker
   when it spawns follows only from who holds the lock since the join. From it
   `SingleWorker` and, as an action property, `StopSticks`.
3. `Inputs`: `InputInv`, on which state is active, that workers not yet begun
   hold nothing, that a paused worker holds nothing. From it `PauseAtBoundary`
   and `Tracked`.
4. `EndsReleased` is `EndReleases`, by `EndInv`: where nobody may stop, the stop
   flag stays clear and a worker comes to its end only through a release; with
   `InputInv`, by which what is down is recorded, nothing is. `AtMostInFlight` is
   `StopLeavesAtMostInFlight`, by `InFlightInv`: past the release of a stop the
   worker holds nothing, or one input and is past the send, so that the next
   check of the flag leads it to its end.
5. `Refinement`: initial states of `Player` are initial in `PlaybackSlot`, and
   every step is a step of it or a stutter; it needs the invariants of 1 to 3.

**`SequencerProofs`** begins with the engine alone: `Typing`; `NoOrphan` by `OrphanInv`, which adds to
`NoOrphanPlayback` where a worker with an unstopped playback may stand, that the
playback is its own and that nobody has been told of its end; `Reporting` by
`ReportInv`, which says what the last message of a run is at each place of the
worker, for otherwise nothing keeps the next one in order; `EndsAreTold` by
`EndInv`, the converse of `EndIsTold` with it: who said the end is past it.

Its second part carries the invariants of the engine through the panel:
`BuildFlow` of any list is a flow, so what the engine assumes of its flows is
proved of those it is given. `CallInv` says that the GUI thread stands in a stop
only of an engine it holds. `UnlockedIsIdle` is `IdleMeansDead`, and
`PanelKeepsEngine` says that the three promises of the engine hold under the
panel, over engines that are replaced. `RowsTellTheRun` is `RowsShowTheirNodes`:
the nodes of the flow that `BuildFlow` folds together carry the names it gives
them, `RowOf` takes each name back to its row, and both stay so while the list
cannot be edited. It is stated for steps whose ids are their own (`IdsApart`):
random where a row is made, unique in a saved v1.1 document, but not so in a
document of v1.0, with which the code shows progress at the wrong row (section 8).

**`HotkeyProofs`**: `Ownership` for any refusals and any number of them, from a
lemma that every replacement is `Honest`: it knows what it holds, and a success
or a rollback holds what it should. `KeysShown` and `RecordingsAreClean` need
what a session goes through: `SessionInv` (which steps a change takes and when
the window records), `MishapInv` (nothing is amiss before the first mishap),
`RightInv` (a runtime that does not call itself degraded has the keys of its
configuration), `CleanInv` (which configuration that is). Both are stated for at
most one mishap (`OneMishap`): with two the code breaks them, and
`MCHotkeySettings_twice.cfg` shows how. `BreaksAloud`, an action property, is
what remains for any number: no step makes right keys wrong without raising the
degraded flag. `RecordingsAreClean` leaves out the key field entered during a
recording (`MCHotkeySettings_field.cfg`).

Its second part builds on the first: `SettingsStayWhole` is `SettingsWhole`, for one
mishap of any kind, or for any number of crashes and lost writes where Windows
refuses no key (`NeverRefused`), in a registry that takes no more writes of a
change once it refused one (`Steady`). `MarkerInv` is the argument of the
recovery marker: while it is set the recovery values are those of the window,
and it is set from before the first write of a save until after the last; while
it is not, the active values are whole. That it is set only over a complete copy,
and cleared only over a complete save, follows from `WritesInv`: which writes a
step has yet to make, and that every value it has not written is still among
them. `LostInv` says that a missed write leads to an undo or an end, never on to
the next step. That Windows must refuse nothing after a crash is no weakness of
the proof: `MCHotkeySettings_refused.cfg` shows what the code does then.

**`UserDataProofs`**: one inductive invariant, `IInv`, for every part of a start
relies on what the former starts left. `CopyOK`: the files looked at so far are
in the manifest to be, and what is in the map leads to the same content.
`WritesOK` and `PersistOK`: each write still to come, and each value still to be
put back, is a well-formed manifest or a path that leads where the old one led,
and unless a write was missed the new manifest is committed or about to be.
`SettledOK`: the program works in the stable root only with a manifest of the
whole legacy one. `DismissedOK`: what was dismissed and not touched since is in
the legacy root and in the manifest, which is why a start leaves it away. From
it, as action properties, `StartsOnlyAdd` (with a lemma that a free name for a
conflict always exists: there are more candidates than files) and `PathsAreKept`.
`NothingIsLost` is `NothingIsLeftBehind`, by `KeptInv`: whatever a manifest lists
that is committed, about to be, or remembered to be put back, is in the stable
root or was dismissed; a copy, a death and a failed write never take that back,
and the user who overwrites a file dismisses what was imported there. It is
stated for the time before somebody moves a stable root away (`moved`), because
after that step the code can leave a file behind (`MCUserData_lost.cfg`).

**`FavoritesProofs`**: one inductive invariant, `FavInv`, over the steps of an
operation. `StagedOK`: what is staged is hidden, one of each name, and no file
has taken such a name, so that putting it back goes over nothing. `RenamedOK`: a
renamed file is under its new name and the directory is otherwise that of before,
so that the rename back goes over nothing either. `TraceOK`: with what is staged,
the directory is the one the operation found, unless something could not be taken
back. `StepOK`: what each step relies on, among it that the index about to be
saved lists nothing that is staged, and that the one on disk does not when the
files are deleted. From it `NothingIsDestroyed` and `TakenBackWithoutTrace`, as
action properties, for every way of dragging; and `NoFileUnlisted`, where groups
and files are not dragged together (`MixedDrag = FALSE`): with them the default
group can end up outside the index (`MCFavorites_drag.cfg`), and a rebuild then
finds no group for what is not listed.

**`EditorProofs`**: one inductive invariant, `EditorInv`. `ListsFine`: every list
that may come on screen again (the events, the original, both stacks, the macro
a recording goes on from, what a dialog shows, a cut worked out) has no id that
was not given out yet, no id twice where `May` is empty, and is in the order of its
time where the macros are (`Ordered`); the two stacks together fit into the
limit. `CaptureKnows`: a capture without an anchor that would find the macro
unchanged belongs to an empty macro; otherwise a colour meant for the beginning
would go behind the last time. `DialogKnows`: a dialog remembers a row of what it
was opened on, and the macro still begins with that or has none of its events any
more, for a recording gives its events new ids. From it:

1. `RowsAlwaysTell` is `RowsShowEveryEvent`, for any `May` and for macros in any
   order. `RowsFacts` says what `BuildRows` makes of any list, by well-founded
   reasoning over its recursive function: the rows hold each place once, in the
   order in which they begin, the moves aside that are not shown.
   `TimeStaysInOrder` is `EditsKeepTime`, for macros that are in order
   (`Ordered`): each insertion, shift, cut and merge keeps it.
2. `UndoIsComplete` is `EveryEditIsUndoable`, for any `May` and any limit: what is
   on screen and what the two stacks hold around it are one history, and a step
   adds to it or walks along it; it forgets a state, the oldest, only for a
   change that finds the undo stack full. Undo and redo never do, for what is in
   both stacks came out of one (`Len(undo) + Len(redo) <= MaxUndo`).
3. `EditsTouchTheirRow` is `EditTouchesItsRow`, where `May` is empty: with any of
   its members the code breaks it (section 8). An edit finds its event by id, the
   others of the row by the places they had; both lead to the row because of
   `DialogKnows` and the distinct ids. For the wheel, whose edit takes events out,
   `PlaceOfPlace` and `RestOfWithout` say that taking out events of the row leaves
   the others as they were.

**`RecorderProofs`**, again in layers:

1. `Typing` by `BaseInv`: with `TypeOK` the timeline of pauses (disjoint, in
   order, past: `TimelineInv`) and that what the consumer is at exists and its
   boundary is not zero (`ItemInv`), for the stamp before it is a time.
2. `HandedOverWhole` is `NothingLost`, by `StopInv` (the order of the stop: when
   the consumer ends, nothing comes in any more) and `CompleteInv`, for a user
   who has no ESC key (`NoAlarm`). `NothingRunsOn` is `NothingLeaks`, by `LeakInv`,
   where a hook can be removed after a consumer that did not start
   (`HookComesOff`).
3. `PastIsSettled`: a pause begins and ends at the present, so in which pause a
   reading of the past lies, where that pause began and what time it projects
   to never change again; `ItemSettled` says the same of `Wanted` and `TimeOf`.
   Without it no fact about an item would survive a step of the window.
4. `BufferInOrder` is `Chronological`: `LogInv` (the queue bears readings in
   order), `ConsumerInv` (the boundary or stamp the consumer carries from one
   locked region to the next is still that of its item) and `StampInv` (the
   buffer has items done with, in order, at their times); then moving readings
   to the instant before their pause and projecting them are monotonic. It is
   about recordings without injections (`NoInjection`): with a colour or a text
   the code breaks it (section 8).
5. `PausesTakeGestures` is `OnlyFencesSplitGestures`, for fences of any keys and
   under no condition. `GestureInv` says what
   `pressed` and `suppressed` mean: an input is in `suppressed` if the gesture
   under way began in a pause, in `pressed` if it began outside, in neither if none is
   under way, except between the decision to record an item and its record, when
   `pressed` lags. It holds for inputs that no transition is taken from but by
   pauses (`Tracked`), and where a fence has taken one, what it says holds or
   another key of that fence was let go since the press (`Split`).
6. `RecordedFaithfully` is `Faithful`, by `SoundInv` (what is buffered was wanted)
   and `WholeInv` (what was wanted is buffered), with every call of the window
   but the fences and without the alarm (`NoAlarm`, `NoFence`), which take items
   out on purpose.

**`WindowProofs`**: one inductive invariant, `WindowInv`, because every part of
the window trusts the others. `WorkersObey` and `PlayerObeys`: a worker that
nobody stopped is that of the window's session, and an unstopped player has such
a worker that waits for it; a stop goes to the session, behind its gate, and
then to the player, so between the two the player may still run but its worker
no longer counts. `MessagesTrue`: what a message says is still so when it is
taken, for a worker posts as the last thing it does, and a save worker that has
posted is not forgotten before its one message is handled. `RecordingKnown`: the
state tells what the recorder and the save worker do. `DialogsNest` and `Fits`:
at most one text dialog and one other over it, a quick text that is not done
with has the window's recording paused as long as that is its own, and while a question is open the
window is as it was when it asked, which is why `_start_playback` and
`_start_recording` need not look again. `GuiWaits` covers the joins.
`InOrder` is about the bound on sessions. From `WindowInv` follow
`NothingUnseen` and `Shown`. `Landed` needs `AskedInv` with it: what is asked for is fixed
when a recording begins, append mode is off between recordings, and a macro put
aside implies one that replaced it. `TypingLeftOut` is `TypingIsNotRecorded`, by `Fits`:
a resume is refused while a dialog of the text is open, and the text's own
resume comes with the end of it. All four are for a user who presses no hotkeys while a
question is open and does not ask twice to stop a recording (`Careful`, the
`Rash = FALSE` of the runs); every failure of `Faults` is allowed, except that
`Landed` wants the quick-run keys to be suspendable (`KeysSuspend`): after an
append refused there the append mode stays on.

The conditions in parentheses are not needed by the proofs only: for each, the
code does otherwise in the environment it excludes, as section 8 says.

## 6. What is only model-checked

All liveness: TLAPS does not reason about fairness here, nor about `ENABLED`.
Every safety property of the runs is stated by a theorem, most under a condition
that section 5 names; TLC checks each on instances inside that condition. In
`Recorder`, cardinalities count the
readings that `Project` leaves, so the proofs know of it that it is monotonic and
depends on earlier pauses only, not its value; that it is the sum of the running
intervals, as the code computes it, is by definition.

## 7. What is not modelled

Coordinates, timing and speed (data that no property distinguishes), rendering,
texts of dialogs, logging. The syntax check of expressions: its subject is
Python text. Saving, loading and validation of macro files and sequence
documents: a save writes a temporary file, copies the backup and replaces, in
one thread; the rest are conversions. The message pumps of `win32/hooks.py` and
their handshakes: `Recorder` lets a start and a stop of the hooks fail, and takes
a hook callback as atomic (one thread stamps and pushes). In `Recorder`, two
stops at once (the window serializes them). In `NothingLeaks`, a failure to
remove the hook after the consumer could not be started: the code leaves the
hook behind then and says so in its error (`HookComesOff`). In `FlowEngine`, loading and saving of
flows and the path checks of macro files, which appear as a file that cannot be
played. In `Sequencer`, dirty state, file dialogs and `project_sequence_flow`. In
`HotkeySettings`, the focused shortcuts of the editor, which never change. In
`UserData`, links, permissions and the retry of a directory that cannot be made.
In `Favorites`, the order of groups and files, their names and what is expanded.
In `Editor`, the selection and the menus. `ui/overlay.py` draws the state of
others; `win32/sendinput.py` and its neighbours are calls of the system.

## 8. Seen while modelling

Each of these is a property, of a run in another instance or of its own, with a
cfg under which TLC finds it violated within a minute:

| cfg | Property | What the counterexample shows |
|---|---|---|
| `MCPlayer_dropped.cfg` | `ProgressCountsExecuted` | `player.py:276`: a pause between the worker's last check and its lock makes it drop the event and count it as played |
| `MCPlayer_resume.cfg` | `ResumeTakesHold` | `player.py:736`: a resume between the reading of the start-pause request and the pause of the clock is lost |
| `MCRecorder_alarm.cfg` | `NothingLost` | `recorder.py:303`: the emergency callback is tested, cleared by `stop_recording`, and called: the consumer dies with events queued |
| `MCRecorder_color.cfg` | `Chronological` | `recorder.py:560`: a colour trigger goes past the raw queue and stands before events captured earlier |
| `MCRecorder_text.cfg` | `Chronological` | `recorder.py:357`, `589`: a text injected in a pause stands at its boundary; a key held into the pause and let go after the text is recorded after it, at the instant before the boundary |
| `MCRecorder_ctrl.cfg` | `PausedGestureLeftOut` | `recorder.py:344`: the fence that the window sets after a quick text is of all Ctrl keys (`ui/main_window.py:1196`); if the left and the right one were both pressed in the pause and are both down when it ends, the release of the first takes the fence and forgets that the second belongs to the pause, whose release is then recorded; `docs/product-specs/macro-recorder.md:140` leaves such a gesture out with its release. `OnlyFencesSplitGestures` says that this is the only way |
| `MCSequencer_capture.cfg` | `CaptureKeepsOthers` | `ui/sequencer.py:685`: a step being edited by capture is remembered by row number; edits of the list before F6 make the capture overwrite another step |
| `MCWindow_rash.cfg` | `RecordingIsSeen` | `ui/main_window.py:1573`: a recording begun by hotkey while the repeat question is open goes on unseen behind the playback the answer starts |
| `MCWindow_composer.cfg` | `ComposerLeftOut` | `ui/main_window.py:1254`: while the composer of a quick text is open, which says that nothing is recorded until it is closed (`ui/quick_text_dialog.py:30`), the record hotkey stops the recording it belongs to and starts another, which is not paused and cannot be (`1210`). `TypingIsNotRecorded` says that the recording it belongs to stays paused |
| `MCHotkeySettings_field.cfg` | `RecordingIsClean` | `ui/main_window.py:864-875`: a key field of the quick-run page that loses the focus during a recording brings the quick-run keys back, which `1288` had suspended for its length |
| `MCHotkeySettings_twice.cfg` | `KeysDoWhatTheyShow` | `ui/hotkey_runtime.py:198-206`: after a start whose rollback failed (degraded), an update of the quick-run keys that is refused and rolled back clears the degraded flag, and the keys it was raised for still do nothing |
| `MCHotkeySettings_refused.cfg` | `SettingsWhole` | `ui/main_window.py:1926`: a session ends in the middle of a save, with the marker set; the next loads the recovery values and leaves the half-written active ones alone; when Windows then refuses the keys of another change, the handler clears the marker ("Commit active settings by durably clearing the recovery marker", `hotkey_config.py:378`), and the start after that finds what the cut-off save had written |
| `MCUserData_lost.cfg` | `EverythingArrived` | `user_data.py`: the stable root is lost while the old one is empty, and made anew by a start that ends before it has written the new manifest; a file that comes back with its old content is taken for one the user has deleted |
| `MCFavorites_drag.cfg` | `DropsKeepGroups` | `ui/favorites.py:60-66`: the widget promises that groups stay at the root; a group and a file dragged together into a group take the group, the default one too, out of the index |
| `MCEditor_capture.cfg` | `EditTouchesItsRow` | `ui/editor.py:1061`: a colour captured by F6 while a dialog is open shifts the places the dialog remembers |
| `MCEditor_merge.cfg` | `EditTouchesItsRow` | two copies of a macro merged keep the ids of their events; an edit finds the first copy |
| `MCEditor_append.cfg` | `AppendKeepsEdits` | `ui/main_window.py:1284`: a recording that goes on from a macro goes on from a copy; edits made meanwhile are lost |
| `MCEditor_stale.cfg` | `EditTouchesItsRow` | `ui/main_window.py:1284`, `1403`: such a recording ends while a dialog is open; the copy comes back under it, and the places the dialog remembers are those of other events |

Without a cfg:

- Window. A second stop after the save worker has ended posts an error that sets
  the window idle before the recording is shown (`1762`), also while the message
  is open that the quick-run keys were not taken back. An append that fails
  while those keys are being suspended leaves the append mode set (`1304`). The
  quick text uses what it knew of its recording before the warning that the
  focus is lost (`1171-1205`).
- Hotkeys and settings. A failed restoration leaves quick run disabled inside the
  runtime. The marker is written even when a recovery value was lost before it:
  in a registry that refuses one write and takes the next (`May = {"flicker"}`)
  `SettingsWhole` does not hold.
- Favorites. An index that cannot be read at a start forgets all groups
  (`_load_index`). The remove button acts on the current item, not on the
  selected ones. A crash between a rename and the save of the index puts the
  file into the default group; one between staging and the save leaves the
  file hidden.
- Editor. An edit whose event is gone clears the redo stack; a text edit of one
  pushes an undo step that changes nothing, and drops the oldest state for it
  when the stack is full. Deleting what comes after a row may
  cut the release of a press that overlaps it. A cut asked for before a
  recording ended is applied to the new macro and brings the old one back
  (`May = {"late answer"}`, `EditTouchesItsRow`).
- Recorder. `start_recording` ignores a call while it records; a stop that fails
  leaves it recording. Of the three ESC presses of the emergency stop, only the
  third is left out of the recording; `docs/product-specs/macro-recorder.md:126`
  says all are. It is taken out before the pauses look at it (`301-305`), so that
  if it was pressed in a pause, its release after the pause is recorded alone.
- Player. A drag's release may be sent twice around a stop.
- Sequencer. A v1.0 list is loaded with step ids `macro_NNN`. After its rows are
  moved or removed, the flow built from it numbers nodes anew, and
  `_node_id_to_idx` finds the row that has the id by its old number: the wrong
  row shows the progress. (`RowsShowTheirNodes` with a v1.0 list of two macros as
  `Documents`.)
- Flow engine. It may start a playback after a stop was requested, while it was
  reading the macro file; it stops it right after. The repeat session has a gate
  against this.
