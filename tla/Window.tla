------------------------------- MODULE Window -------------------------------
(***************************************************************************)
(* The window, src/macroflow/ui/main_window.py, with the repeat session of *)
(* ui/playback_repeat.py: the one place that starts and stops recordings,  *)
(* playbacks and sequences.  Its handlers run on the GUI thread, one at a  *)
(* time.  The repeat workers, the thread that ends a recording and the     *)
(* player's thread run beside it and post messages to its queue.  A dialog *)
(* opened by a handler runs an event loop of its own: messages, timers and *)
(* hotkeys are handled inside it, and the handler goes on afterwards, in   *)
(* a window that may have changed.                                         *)
(*                                                                         *)
(* Player, Recorder and Sequencer appear as what they promise.             *)
(***************************************************************************)
EXTENDS Integers, Sequences, FiniteSets
LOCAL INSTANCE SequencesExt

CONSTANTS
    MaxSessions,    \* bound: the repeat sessions, that is the playbacks
    MaxRecordings,  \* bound: the recordings that are started
    MaxStarts,      \* bound: playbacks and recordings together
    MaxQueue,       \* bound: the messages that wait before a key is pressed
    Cycles,         \* the repetitions the user may ask for
    Faults,         \* what may fail
    Rash            \* TRUE: the user presses hotkeys while a question is
                    \* open and asks again to stop before the window has
                    \* heard that the recording is saved

FaultKind == {"recorder", "stop", "play", "suspend", "restore", "focus"}

Sessions == 1 .. MaxSessions

ASSUME WindowAssumption ==
    /\ MaxSessions \in Nat /\ MaxRecordings \in Nat
    /\ MaxStarts \in Nat /\ MaxQueue \in Nat
    /\ Cycles \subseteq Nat \ {0}
    /\ Faults \subseteq FaultKind
    /\ Rash \in BOOLEAN

VARIABLES
    state,          \* _state
    paused,         \* _paused, what overlay and toolbar show
    pauseEvent,     \* _playback_pause_event
    polling,        \* _poll_timer is running
    hook,           \* the emergency hook is installed
    gui,            \* "free", or what the GUI thread stands in: a stop of
                    \* the player ("stopping", "closing"), a join of the
                    \* save worker ("joining"), processEvents after it
                    \* ("draining"), the rest of a close ("leaving")
    closed,         \* the window is closed
    dialogs,        \* the open dialogs with what their handlers remember,
                    \* innermost first
    queue,          \* messages posted to the GUI thread
    session,        \* _repeat_session, 0 for None
    repeat,         \* the sessions: is_active, _stop_requested
    worker,         \* the repeat workers: place, cycle and cycles in all
    done,           \* done_event and error_holder of the present cycle
    player,         \* the player's slot: owner, "none", "running" or
                    \* "returning" from its callback; stop, the stop flag
    seq,            \* the sequencer: "off", "on", "stopping"
    rec,            \* the recorder: on, paused
    saver,          \* _recording_stop_thread: "none", "stopping" the
                    \* recorder, "saving" the recording, "ended"
    gen,            \* _recording_generation
    quick,          \* the quick-run hotkeys: "on", "off" for a recording, or
                    \* "refused", when Windows did not take them back
    quickText,      \* _quick_text_session_active
    appendMode,     \* _append_recording_mode
    base,           \* _append_base_macro
    macro,          \* _macro: the recordings it consists of; <<>> for None
    prev,           \* _prev_macro
    wanted          \* history: what the user asked the recording to make

display == <<state, paused, polling, hook>>
life == <<gui, closed>>
playback == <<pauseEvent, session, repeat, worker, done, player>>
recording == <<rec, saver, gen, quick, quickText>>
content == <<appendMode, base, macro, prev, wanted>>
window == <<display, life, dialogs, seq, recording, content>>
vars == <<window, queue, playback>>

State == {"idle", "recording", "stopping", "playing"}
Place == {"none", "check", "held", "gate", "starting", "wait", "interval", "finish", "ended"}

NoPlayback == [owner |-> 0, phase |-> "none", stop |-> FALSE]
IsPlaying == player.phase # "none"
SaverAlive == saver \in {"stopping", "saving"}
Post(msg) == queue' = Append(queue, msg)

GuiRuns == gui \in {"free", "draining"} /\ ~closed

(* The buttons are behind a modal dialog; the hotkeys are not.  Whatever    *)
(* has a hotkey can be had by it when the button could be pressed.          *)
MayAsk == GuiRuns /\ Len(queue) <= MaxQueue
Buttons == MayAsk /\ dialogs = <<>>
Hotkeys ==
    /\ MayAsk
    /\ dialogs # <<>> /\ ~Rash => Head(dialogs).kind = "quickText"

Open(dialog) == dialogs' = <<dialog>> \o dialogs
Top(kind) == GuiRuns /\ dialogs # <<>> /\ Head(dialogs).kind = kind
CloseTop == dialogs' = Tail(dialogs)

-----------------------------------------------------------------------------
(* The thread of a repeat session.                                         *)

Worker(s, from) == worker[s].pc = from
Goes(s, to) == worker' = [worker EXCEPT ![s].pc = to]
Returns(s) == worker' = [worker EXCEPT ![s] = [pc |-> "ended", cycle |-> 0, total |-> 0]]
Active(s, on) == repeat' = [repeat EXCEPT ![s].active = on]

(* should_start_cycle.                                                     *)
ShouldStartCycle(s) == ~repeat[s].stopped /\ worker[s].cycle <= worker[s].total

CheckCycle(s) ==
    /\ Worker(s, "check")
    /\ Goes(s, IF ShouldStartCycle(s) THEN "held" ELSE "finish")
    /\ UNCHANGED <<window, queue, pauseEvent, session, repeat, done, player>>

(* A pause that is on holds the next cycle back.                           *)
LeaveHold(s) ==
    /\ Worker(s, "held")
    /\ \/ /\ pauseEvent /\ repeat[s].stopped
          /\ Returns(s)
          /\ UNCHANGED repeat
       \/ /\ ~pauseEvent
          /\ Goes(s, "gate")
          /\ Active(s, TRUE)            \* mark_cycle_started
    /\ UNCHANGED <<window, queue, pauseEvent, session, done, player>>

(* start_player_if_allowed looks at the stop with its gate held, and keeps  *)
(* it held until the player was started.                                   *)
EnterGate(s) ==
    /\ Worker(s, "gate")
    /\ IF repeat[s].stopped THEN Returns(s) ELSE Goes(s, "starting")
    /\ UNCHANGED <<window, queue, pauseEvent, session, repeat, done, player>>

(* Mutant of GateFree: a stop does not wait for a player being started. *)
GateIgnored(s) == TRUE

(* request_stop has to wait for the gate. *)
GateFree(s) == ~Worker(s, "starting")

(* player.play raises while the last playback has not died.                *)
StartPlayer(s) ==
    /\ Worker(s, "starting")
    /\ \/ /\ ~IsPlaying
          /\ player' = [owner |-> s, phase |-> "running", stop |-> FALSE]
          /\ Goes(s, "wait")
          /\ UNCHANGED queue
       \/ /\ IsPlaying \/ "play" \in Faults
          /\ Post([kind |-> "error", of |-> s])
          /\ Returns(s)
          /\ UNCHANGED player
    /\ UNCHANGED <<window, pauseEvent, session, repeat, done>>

AwaitDone(s) ==
    /\ Worker(s, "wait")
    /\ \/ /\ done[s] = "no" /\ repeat[s].stopped
          /\ Returns(s)
          /\ UNCHANGED <<queue, repeat>>
       \/ /\ done[s] = "error"
          /\ Post([kind |-> "error", of |-> s])
          /\ Returns(s)
          /\ UNCHANGED repeat
       \/ /\ done[s] = "ok"
          /\ LET more == worker[s].cycle < worker[s].total IN
             /\ worker' = [worker EXCEPT ![s].pc = IF more THEN "interval" ELSE "finish",
                                         ![s].cycle = @ + 1]
             /\ repeat' = [repeat EXCEPT ![s].active = @ \/ more]   \* mark_between_cycles
          /\ UNCHANGED queue
    /\ done' = [done EXCEPT ![s] = "no"]
    /\ UNCHANGED <<window, pauseEvent, session, player>>

PassInterval(s) ==
    /\ Worker(s, "interval")
    /\ repeat[s].stopped \/ ~pauseEvent
    /\ \/ repeat[s].stopped /\ Returns(s)
       \/ ~pauseEvent /\ Goes(s, "check")
    /\ UNCHANGED <<window, queue, pauseEvent, session, repeat, done, player>>

FinishRepeat(s) ==
    /\ Worker(s, "finish")
    /\ Active(s, FALSE)                 \* mark_finished
    /\ Post([kind |-> "complete", of |-> s])
    /\ Returns(s)
    /\ UNCHANGED <<window, pauseEvent, session, done, player>>

RepeatWorker(s) ==
    \/ CheckCycle(s) \/ LeaveHold(s) \/ EnterGate(s) \/ StartPlayer(s)
    \/ AwaitDone(s) \/ PassInterval(s) \/ FinishRepeat(s)

-----------------------------------------------------------------------------
(* The player's thread: it calls back, and dies a little later.  A stopped *)
(* one may be past its last look at the flag.                              *)

PlayerEnds ==
    /\ player.phase = "running"
    /\ \/ \E result \in {"ok", "error"} :
            /\ done' = [done EXCEPT ![player.owner] =
                    IF Worker(player.owner, "wait") THEN result ELSE @]
            /\ player' = [player EXCEPT !.phase = "returning"]
       \/ /\ player.stop
          /\ player' = NoPlayback
          /\ UNCHANGED done
    /\ UNCHANGED <<window, queue, pauseEvent, session, repeat, worker>>

PlayerDies ==
    /\ player.phase = "returning"
    /\ player' = NoPlayback
    /\ UNCHANGED <<window, queue, pauseEvent, session, repeat, worker, done>>

-----------------------------------------------------------------------------
(* Starting and stopping playbacks.                                        *)

Used == {s \in Sessions : worker[s].pc # "none"}
NextSession == Cardinality(Used) + 1
MayStart == Cardinality(Used) + gen < MaxStarts

(* _start_playback after its question.  Nothing is looked at again.  (An   *)
(* emergency hook that cannot be installed leaves everything as it was.)   *)
StartPlayback(cycles) ==
    /\ NextSession \in Sessions /\ MayStart
    /\ state' = "playing" /\ paused' = FALSE /\ polling' = TRUE /\ hook' = TRUE
    /\ pauseEvent' = FALSE
    /\ session' = NextSession
    /\ repeat' = [repeat EXCEPT ![NextSession] =
            [active |-> TRUE, stopped |-> FALSE]]
    /\ worker' = [worker EXCEPT ![NextSession] =
            [pc |-> "check", cycle |-> 1, total |-> cycles]]
    /\ UNCHANGED <<life, queue, done, player, seq, recording, content>>

(* _toggle_playback, _start_range_playback, _on_play_event_range.          *)
AskPlay(cycles) ==
    /\ Hotkeys
    /\ state = "idle" /\ seq = "off" /\ macro # <<>>
    /\ IF cycles > 1
       THEN /\ Open([kind |-> "repeat", total |-> cycles])
            /\ UNCHANGED <<display, life, queue, playback, seq, recording, content>>
       ELSE StartPlayback(1) /\ UNCHANGED dialogs

AnswerRepeat(yes) ==
    /\ Top("repeat")
    /\ CloseTop
    /\ IF yes
       THEN StartPlayback(Head(dialogs).total)
       ELSE UNCHANGED <<display, life, queue, playback, seq, recording, content>>

(* _execute_quick_slot plays a file once; it does not ask.                 *)
QuickSlot ==
    /\ Hotkeys /\ quick = "on"
    /\ state = "idle" /\ seq = "off"
    /\ StartPlayback(1)
    /\ UNCHANGED dialogs

Forget == IF session = 0 THEN repeat
          ELSE [repeat EXCEPT ![session].active = FALSE]

(* How a playback leaves the window, whatever ended it.                    *)
PlaybackLeaves ==
    /\ state' = "idle" /\ paused' = FALSE /\ polling' = FALSE /\ hook' = FALSE
    /\ session' = 0
    /\ repeat' = Forget
    /\ pauseEvent' = FALSE

(* _stop_playback up to the join of player.stop: first the session, whose  *)
(* gate it waits for, then the player.                                     *)
StopPlayback(as) ==
    /\ session # 0 => GateFree(session)
    /\ repeat' = IF session = 0 THEN repeat ELSE [repeat EXCEPT ![session].stopped = TRUE]
    /\ pauseEvent' = FALSE /\ paused' = FALSE
    /\ player' = [player EXCEPT !.stop = @ \/ IsPlaying]
    /\ gui' = as
    /\ UNCHANGED <<state, polling, session, worker, done, closed, dialogs, queue, recording, content>>

(* player.stop returns, the thread dead or the join timed out.             *)
StopReturns ==
    /\ gui \in {"stopping", "closing"}
    /\ \/ /\ ~IsPlaying
          /\ PlaybackLeaves
          /\ gui' = IF gui = "closing" THEN "leaving" ELSE "free"
       \/ /\ IsPlaying
          /\ hook' = FALSE
          /\ gui' = "free"
          /\ UNCHANGED <<state, paused, polling, session, repeat, pauseEvent>>
    /\ UNCHANGED <<closed, dialogs, queue, worker, done, player, seq, recording, content>>

PressStop ==
    /\ Hotkeys
    /\ state = "playing"
    /\ StopPlayback("stopping")
    /\ UNCHANGED <<hook, seq>>

(* _toggle_pause of a playback: the event first, then the player.          *)
PausePlayback ==
    /\ Hotkeys
    /\ state = "playing"
    /\ pauseEvent' = ~paused
    /\ paused' = ~paused
    /\ UNCHANGED <<state, polling, hook, life, dialogs, queue, session, repeat, worker, done, player, seq, recording, content>>

(* _on_play_complete of a message, which names its session, or of a poll.  *)
OnComplete ==
    /\ PlaybackLeaves
    /\ UNCHANGED <<life, dialogs, worker, done, player, seq, recording, content>>

(* Mutant of PollWaits: a stopped session is waited for like any other. *)
PollWaitsOn == session # 0 /\ repeat[session].active

(* should_poll_wait_for_worker. *)
PollWaits == session # 0 /\ repeat[session].active /\ ~repeat[session].stopped

Poll ==
    /\ GuiRuns /\ polling /\ state = "playing"
    /\ ~IsPlaying /\ ~PollWaits
    /\ OnComplete
    /\ UNCHANGED queue

-----------------------------------------------------------------------------
(* The sequencer, and the emergency hook it shares with playbacks.         *)

StartSequence ==
    /\ Hotkeys
    /\ state = "idle" /\ seq = "off"
    /\ seq' = "on" /\ hook' = TRUE
    /\ UNCHANGED <<state, paused, polling, life, dialogs, queue, playback, recording, content>>

StopSequence ==
    /\ Hotkeys
    /\ seq # "off"
    /\ seq' \in {"off", "stopping"} /\ hook' = FALSE
    /\ UNCHANGED <<state, paused, polling, life, dialogs, queue, playback, recording, content>>

(* The panel lets its engine go; then it tells the window, after the user  *)
(* has read the message of an error.                                       *)
SequenceEnds ==
    /\ GuiRuns
    /\ seq # "off"
    /\ seq' = "off"
    /\ \/ hook' = FALSE /\ UNCHANGED dialogs
       \/ Open([kind |-> "sequenceError"]) /\ UNCHANGED hook
    /\ UNCHANGED <<state, paused, polling, life, queue, playback, recording, content>>

OnSequenceDone ==
    /\ Top("sequenceError")
    /\ CloseTop
    /\ hook' = FALSE
    /\ UNCHANGED <<state, paused, polling, life, queue, playback, seq, recording, content>>

-----------------------------------------------------------------------------
(* Starting a recording.                                                   *)

(* set_quick_run_enabled(True), which Windows may refuse; as a bound, only *)
(* after the last recording.                                               *)
MayRefuse == "restore" \in Faults /\ gen = MaxRecordings
Restored(keys) == keys = "on" \/ (MayRefuse /\ keys = "refused")

(* _start_recording, asked for by F6 or after the question of an append.   *)
(* Nothing is looked at again here either; a recorder that records already *)
(* goes on (start_recording ignores the call).                             *)
SuspendFails(append, from) ==
    /\ "suspend" \in Faults
    /\ appendMode' = append /\ base' = from
    /\ UNCHANGED <<display, rec, gen, quick, prev, wanted>>

RecorderFails ==
    /\ "recorder" \in Faults /\ ~rec.on
    /\ prev' = IF macro # <<>> THEN macro ELSE prev
    /\ Restored(quick')
    /\ appendMode' = FALSE /\ base' = <<>>
    /\ UNCHANGED <<display, rec, gen, wanted>>

RecorderStarts(append, from, asked) ==
    /\ gen < MaxRecordings /\ MayStart
    /\ prev' = IF macro # <<>> THEN macro ELSE prev
    /\ appendMode' = append /\ base' = from
    /\ rec' = IF rec.on THEN rec ELSE [on |-> TRUE, paused |-> FALSE]
    /\ quick' = "off"
    /\ gen' = gen + 1
    /\ wanted' = asked
    /\ state' = "recording" /\ paused' = FALSE /\ polling' = TRUE
    /\ UNCHANGED hook

StartRecording(append, from, asked) ==
    /\ \/ SuspendFails(append, from)
       \/ RecorderFails
       \/ RecorderStarts(append, from, asked)
    /\ UNCHANGED <<life, queue, playback, seq, saver, quickText, macro>>

PressRecord ==
    /\ Hotkeys
    /\ state = "idle" /\ seq = "off"
    /\ StartRecording(appendMode, base, <<gen + 1>>)
    /\ UNCHANGED dialogs

(* _start_append_recording asks first.                                     *)
AskAppend ==
    /\ Buttons
    /\ state = "idle" /\ seq = "off" /\ macro # <<>>
    /\ Open([kind |-> "append"])
    /\ UNCHANGED <<display, life, queue, playback, seq, recording, content>>

AnswerAppend(yes) ==
    /\ Top("append")
    /\ CloseTop
    /\ IF yes
       THEN StartRecording(TRUE, macro, Append(macro, gen + 1))
       ELSE UNCHANGED <<display, life, queue, playback, seq, recording, content>>

-----------------------------------------------------------------------------
(* Pauses and quick text.                                                  *)

(* Mutant of NoTextOpen: F8 works while a text is being composed. *)
TextIgnored == TRUE

(* Neither F8 nor F9 does anything before the last text is done with. *)
NoTextOpen == ~quickText

(* _toggle_pause of a recording: what to do is read from _paused.          *)
PauseRecording ==
    /\ Hotkeys
    /\ state = "recording" /\ NoTextOpen
    /\ rec.on /\ rec.paused = paused
    /\ rec' = [rec EXCEPT !.paused = ~@]
    /\ paused' = ~paused
    /\ UNCHANGED <<state, polling, hook, life, dialogs, queue, playback, seq, saver, gen, quick, quickText, content>>

(* _capture_quick_text up to the dialog it opens.                          *)
OpenQuickText ==
    /\ Hotkeys
    /\ state = "recording" /\ NoTextOpen
    /\ quickText' = TRUE
    /\ rec' = [rec EXCEPT !.paused = TRUE]
    /\ paused' = TRUE
    /\ Open([kind |-> "quickText", gen |-> gen, owns |-> ~rec.paused])
    /\ UNCHANGED <<state, polling, hook, life, queue, playback, seq, saver, gen, quick, content>>

(* _owns_recording_session. *)
OwnsRecording(dialog) == state = "recording" /\ quickText /\ gen = dialog.gen

(* The end of _capture_quick_text, whatever came before: the pause is ended *)
(* if this dialog began it and the window that had the focus has it again. *)
(* When it has not, the user is told, unless he was told before.           *)
EndQuickText(dialog, warned) ==
    \/ /\ ~OwnsRecording(dialog)
       /\ quickText' = FALSE
       /\ CloseTop
       /\ UNCHANGED <<rec, paused>>
    \/ /\ OwnsRecording(dialog)
       /\ quickText' = FALSE
       /\ CloseTop
       /\ \/ /\ dialog.owns /\ rec.paused          \* resume_recording
             /\ rec' = [rec EXCEPT !.paused = FALSE] /\ paused' = FALSE
          \/ /\ ~(dialog.owns /\ rec.paused) \/ (warned /\ "focus" \in Faults)
             /\ paused' = TRUE
             /\ UNCHANGED rec
    \/ /\ OwnsRecording(dialog) /\ ~warned /\ "focus" \in Faults
       /\ dialogs' = <<[kind |-> "focusLost", gen |-> dialog.gen]>> \o Tail(dialogs)
       /\ UNCHANGED <<quickText, rec, paused>>

QuickTextKeeps == <<state, polling, hook, life, queue, playback, seq, saver, gen, quick, content>>

(* The composer is closed.  An accepted text of this recording is typed    *)
(* and recorded: it is too long, or the focus, the clipboard, the paste or *)
(* the record fails, and the user is told.  (The looks at the recording in *)
(* between see what the first one saw: no event is handled between them.)  *)
CloseQuickText(accepted) ==
    /\ Top("quickText")
    /\ \/ EndQuickText(Head(dialogs), FALSE)
       \/ /\ accepted /\ OwnsRecording(Head(dialogs))
          /\ \E warned \in BOOLEAN :
                /\ warned => "focus" \in Faults
                /\ dialogs' = <<[kind |-> "quickFailed", gen |-> Head(dialogs).gen,
                                 owns |-> Head(dialogs).owns, warned |-> warned]>>
                                    \o Tail(dialogs)
          /\ UNCHANGED <<quickText, rec, paused>>
    /\ UNCHANGED QuickTextKeeps

CloseQuickFailed ==
    /\ Top("quickFailed")
    /\ EndQuickText(Head(dialogs), Head(dialogs).warned)
    /\ UNCHANGED QuickTextKeeps

(* After the message that the focus is lost nothing is looked at again.    *)
CloseFocusLost ==
    /\ Top("focusLost")
    /\ CloseTop
    /\ quickText' = FALSE
    /\ paused' = TRUE
    /\ UNCHANGED rec
    /\ UNCHANGED QuickTextKeeps

-----------------------------------------------------------------------------
(* Ending a recording.                                                     *)

(* _do_stop_recording, which leaves a live save worker alone.              *)
StopRecording ==
    IF SaverAlive
    THEN UNCHANGED <<state, paused, polling, saver>>
    ELSE /\ state' = "stopping" /\ paused' = FALSE /\ polling' = FALSE
         /\ saver' = "stopping"

(* Whether the user would ask for a stop now: not of a recording that has  *)
(* ended, though the window may still show that it is being stopped.       *)
MayAskStop == saver = "ended" \/ Top("notRestored") => Rash

PressStopRecording ==
    /\ Hotkeys
    /\ state \in {"recording", "stopping"} /\ MayAskStop
    /\ StopRecording
    /\ UNCHANGED <<hook, life, dialogs, queue, playback, seq, rec, gen, quick, quickText, content>>

(* _stop_recording_worker: recorder.stop_recording, which raises when      *)
(* nothing is recorded, and the recording stays on when it fails ...       *)
SaverStops ==
    /\ saver = "stopping"
    /\ \/ /\ rec.on
          /\ rec' = [on |-> FALSE, paused |-> FALSE]
          /\ saver' = "saving"
          /\ UNCHANGED queue
       \/ /\ ~rec.on \/ "stop" \in Faults
          /\ Post([kind |-> "stopError"])
          /\ saver' = "ended"
          /\ UNCHANGED rec
    /\ UNCHANGED <<display, life, dialogs, playback, seq, gen, quick, quickText, content>>

(* ... then the temporary file.  (That it cannot be written is one more    *)
(* message.)                                                               *)
SaverSaves ==
    /\ saver = "saving"
    /\ saver' = "ended"
    /\ Post([kind |-> "recorded", gen |-> gen])
    /\ UNCHANGED <<display, life, dialogs, playback, seq, rec, gen, quick, quickText, content>>

(* Mutant of Land: the append mode stays on. *)
LandInMode(g) ==
    /\ macro' = IF appendMode /\ base # <<>> THEN Append(base, g) ELSE <<g>>
    /\ state' = "idle" /\ wanted' = <<>>
    /\ UNCHANGED <<paused, polling, hook, prev, appendMode, base>>

(* The end of _on_recording_done: the macro is replaced or appended to.    *)
Land(g) ==
    /\ macro' = IF appendMode /\ base # <<>> THEN Append(base, g) ELSE <<g>>
    /\ appendMode' = FALSE /\ base' = <<>> /\ wanted' = <<>>
    /\ state' = "idle"
    /\ UNCHANGED <<paused, polling, hook, prev>>

(* Mutant of OnRecordingDone: the quick-run keys are not registered again. *)
OnRecordingDoneMute(g) ==
    /\ saver' = "none"
    /\ Land(g)
    /\ UNCHANGED <<life, dialogs, playback, seq, rec, gen, quick, quickText>>

OnRecordingDone(g) ==
    /\ saver' = "none"
    /\ Restored(quick')
    /\ \/ /\ quick' = "on"
          /\ Land(g)
          /\ UNCHANGED dialogs
       \/ /\ quick' = "refused"
          /\ Open([kind |-> "notRestored", gen |-> g])
          /\ UNCHANGED <<display, content>>
    /\ UNCHANGED <<life, playback, seq, rec, gen, quickText>>

CloseNotRestored ==
    /\ Top("notRestored")
    /\ CloseTop
    /\ Land(Head(dialogs).gen)
    /\ UNCHANGED <<life, queue, playback, seq, recording>>

(* _on_play_error, for a failed stop of a recording and for a playback.    *)
OnError ==
    /\ \/ /\ state = "stopping" /\ rec.on
          /\ saver' = "none"
          /\ UNCHANGED <<display, pauseEvent, session, repeat, quick>>
       \/ /\ ~(state = "stopping" /\ rec.on)
          /\ saver' = IF state = "stopping" THEN "none" ELSE saver
          /\ IF state = "stopping" THEN Restored(quick') ELSE UNCHANGED quick
          /\ PlaybackLeaves
    /\ UNCHANGED <<life, dialogs, worker, done, player, seq, rec, gen, quickText, content>>

-----------------------------------------------------------------------------
(* Messages, the emergency stop and the end of the window.                 *)

HandleMessage ==
    /\ GuiRuns /\ queue # <<>>
    /\ queue' = Tail(queue)
    /\ LET msg == Head(queue) IN
       \/ /\ msg.kind \in {"complete", "error"} /\ msg.of # session     \* a stale owner
          /\ UNCHANGED <<window, playback>>
       \/ msg.kind = "complete" /\ msg.of = session /\ OnComplete
       \/ msg.kind = "error" /\ msg.of = session /\ OnError
       \/ msg.kind = "stopError" /\ OnError
       \/ msg.kind = "recorded" /\ OnRecordingDone(msg.gen)

(* _emergency_stop: three times ESC, or the stop button.                   *)
EmergencyStop ==
    /\ GuiRuns
    /\ MayAskStop
    /\ IF seq = "off"
       THEN UNCHANGED <<seq, hook>>
       ELSE seq' \in {"off", "stopping"} /\ hook' = FALSE
    /\ \/ /\ state \in {"recording", "stopping"}
          /\ StopRecording
          /\ UNCHANGED <<life, dialogs, queue, playback, rec, gen, quick, quickText, content>>
       \/ /\ state = "playing"
          /\ StopPlayback("stopping")
       \/ /\ state = "idle"
          /\ UNCHANGED <<state, paused, polling, life, dialogs, queue, playback, recording, content>>

(* closeEvent: what runs is stopped first; a recording is waited for.      *)
Close ==
    /\ Buttons /\ gui = "free" /\ MayAskStop
    /\ \/ /\ state = "recording"
          /\ StopRecording
          /\ gui' = "joining"
          /\ UNCHANGED <<hook, closed, dialogs, queue, playback, seq, rec, gen, quick, quickText, content>>
       \/ /\ state = "stopping" /\ saver # "none"
          /\ gui' = "joining"
          /\ UNCHANGED <<display, closed, dialogs, queue, playback, seq, recording, content>>
       \/ /\ state = "playing"
          /\ StopPlayback("closing")
          /\ UNCHANGED <<hook, seq>>
       \/ /\ state = "idle"
          /\ gui' = "leaving"
          /\ UNCHANGED <<display, closed, dialogs, queue, playback, seq, recording, content>>

(* The join of the save worker, which may time out; then processEvents.    *)
CloseJoins ==
    /\ gui = "joining"
    /\ gui' = IF SaverAlive THEN "free" ELSE "draining"
    /\ UNCHANGED <<display, closed, dialogs, queue, playback, seq, recording, content>>

CloseDrained ==
    /\ gui = "draining" /\ queue = <<>> /\ dialogs = <<>>
    /\ gui' = IF state = "idle" THEN "leaving" ELSE "free"
    /\ UNCHANGED <<display, closed, dialogs, queue, playback, seq, recording, content>>

(* The sequencer is stopped, and asks about unsaved changes.               *)
CloseLeaves ==
    /\ gui = "leaving"
    /\ gui' = "free"
    /\ IF seq = "off" THEN UNCHANGED <<seq, hook>>
       ELSE seq' \in {"off", "stopping"} /\ hook' = FALSE
    /\ \/ seq' = "off" /\ closed' = TRUE /\ UNCHANGED dialogs
       \/ seq' = "off" /\ Open([kind |-> "discard"]) /\ UNCHANGED closed
       \/ seq' # "off" /\ UNCHANGED <<closed, dialogs>>
    /\ UNCHANGED <<state, paused, polling, queue, playback, recording, content>>

AnswerDiscard(yes) ==
    /\ Top("discard")
    /\ CloseTop
    /\ closed' = yes
    /\ UNCHANGED <<display, gui, queue, playback, seq, recording, content>>

(* A macro is loaded, and the one before the last recording restored.      *)
(* After the last recording that would lead nowhere.                       *)
LoadMacro ==
    /\ Buttons
    /\ state = "idle" /\ seq = "off" /\ macro = <<>> /\ MayStart
    /\ macro' = <<0>>
    /\ UNCHANGED <<display, life, dialogs, queue, playback, seq, recording, appendMode, base, prev, wanted>>

RestorePrev ==
    /\ Buttons
    /\ state = "idle" /\ seq = "off" /\ prev # <<>> /\ gen < MaxRecordings /\ MayStart
    /\ macro' = prev /\ prev' = <<>>
    /\ UNCHANGED <<display, life, dialogs, queue, playback, seq, recording, appendMode, base, wanted>>

-----------------------------------------------------------------------------
Init ==
    /\ state = "idle" /\ paused = FALSE /\ polling = FALSE /\ hook = FALSE
    /\ gui = "free" /\ closed = FALSE /\ dialogs = <<>> /\ queue = <<>>
    /\ pauseEvent = FALSE /\ session = 0
    /\ repeat = [s \in Sessions |-> [active |-> FALSE, stopped |-> FALSE]]
    /\ worker = [s \in Sessions |-> [pc |-> "none", cycle |-> 0, total |-> 0]]
    /\ done = [s \in Sessions |-> "no"]
    /\ player = NoPlayback
    /\ seq = "off"
    /\ rec = [on |-> FALSE, paused |-> FALSE] /\ saver = "none" /\ gen = 0
    /\ quick = "on" /\ quickText = FALSE
    /\ appendMode = FALSE /\ base = <<>> /\ macro = <<>> /\ prev = <<>> /\ wanted = <<>>

User ==
    \/ \E n \in Cycles : AskPlay(n)
    \/ \E yes \in BOOLEAN : AnswerRepeat(yes) \/ AnswerAppend(yes) \/ AnswerDiscard(yes)
    \/ QuickSlot \/ PressStop \/ PausePlayback \/ StartSequence \/ StopSequence
    \/ PressRecord \/ AskAppend \/ PauseRecording \/ OpenQuickText
    \/ \E accepted \in BOOLEAN : CloseQuickText(accepted)
    \/ CloseQuickFailed \/ CloseFocusLost \/ PressStopRecording \/ CloseNotRestored \/ OnSequenceDone
    \/ EmergencyStop \/ Close \/ LoadMacro \/ RestorePrev

Gui == HandleMessage \/ Poll \/ StopReturns \/ CloseJoins \/ CloseDrained \/ CloseLeaves
Saver == SaverStops \/ SaverSaves

Next ==
    \/ User \/ Gui \/ Saver
    \/ \E s \in Sessions : RepeatWorker(s)
    \/ PlayerEnds \/ PlayerDies
    \/ SequenceEnds

(* Threads are scheduled, timers fire and the GUI handles its queue.  The  *)
(* user need not do anything, and an unstopped playback need not end.      *)
Fairness ==
    /\ WF_vars(Gui) /\ WF_vars(Saver)
    /\ \A s \in Sessions : WF_vars(RepeatWorker(s))
    /\ WF_vars(player.stop /\ PlayerEnds) /\ WF_vars(PlayerDies)

Spec == Init /\ [][Next]_vars /\ Fairness

-----------------------------------------------------------------------------
Dialog ==
    [kind : {"repeat"}, total : Cycles]
        \cup [kind : {"append", "discard", "sequenceError"}]
        \cup [kind : {"quickText"}, gen : 1 .. MaxRecordings, owns : BOOLEAN]
        \cup [kind : {"quickFailed"}, gen : 1 .. MaxRecordings, owns : BOOLEAN, warned : BOOLEAN]
        \cup [kind : {"notRestored", "focusLost"}, gen : 1 .. MaxRecordings]

Message ==
    [kind : {"complete", "error"}, of : Sessions]
        \cup [kind : {"stopError"}]
        \cup [kind : {"recorded"}, gen : 1 .. MaxRecordings]

Macro == Seq(0 .. MaxRecordings)

TypeOK ==
    /\ state \in State
    /\ paused \in BOOLEAN /\ polling \in BOOLEAN /\ hook \in BOOLEAN
    /\ gui \in {"free", "stopping", "closing", "joining", "draining", "leaving"}
    /\ closed \in BOOLEAN
    /\ dialogs \in Seq(Dialog) /\ queue \in Seq(Message)
    /\ pauseEvent \in BOOLEAN /\ session \in Sessions \cup {0}
    /\ repeat \in [Sessions -> [active : BOOLEAN, stopped : BOOLEAN]]
    /\ worker \in [Sessions -> [pc : Place, cycle : Nat, total : Cycles \cup {0, 1}]]
    /\ done \in [Sessions -> {"no", "ok", "error"}]
    /\ player \in [owner : Sessions \cup {0}, phase : {"none", "running", "returning"},
                   stop : BOOLEAN]
    /\ seq \in {"off", "on", "stopping"}
    /\ rec \in [on : BOOLEAN, paused : BOOLEAN]
    /\ saver \in {"none", "stopping", "saving", "ended"} /\ gen \in 0 .. MaxRecordings
    /\ quick \in {"on", "off", "refused"} /\ quickText \in BOOLEAN /\ appendMode \in BOOLEAN
    /\ base \in Macro /\ macro \in Macro /\ prev \in Macro /\ wanted \in Macro

(* What runs, the window shows and can stop.  A recorder that records, a   *)
(* player that plays and was not told to stop, a sequence: the state says  *)
(* so, input is never played without the emergency hook, and a closed      *)
(* window has left nothing behind.                                         *)
NothingRunsUnseen ==
    /\ rec.on => state \in {"recording", "stopping"}
    /\ player.phase = "running" /\ ~player.stop =>
            state = "playing" /\ session = player.owner /\ hook
    /\ seq = "on" => state = "idle" /\ hook
    /\ closed => state = "idle" /\ seq = "off" /\ ~rec.on

(* A recording ends up as the user asked for it when it was begun: alone,  *)
(* or behind the macro that was there then, whatever was begun, refused or *)
(* failed in between; and the macro it replaces can be restored.           *)
LandsAsAsked ==
    [][state = "stopping" /\ state' = "idle" /\ macro' # macro =>
            macro' = wanted /\ prev' = macro]_vars

(* What is typed into the composer, or done until its message of a failure *)
(* is read, is not recorded in the recording in which it was opened: F8, a *)
(* stop and a restart, or an earlier text that comes to its end, do not    *)
(* end the pause before the text is done with.                             *)
OfText == {"quickText", "quickFailed", "focusLost"}

TypingIsNotRecorded ==
    \A i \in DOMAIN dialogs :
        dialogs[i].kind \in OfText /\ dialogs[i].gen = gen /\ rec.on => rec.paused

(* What F8 will do next is decided by the _paused of the window: it agrees *)
(* with the recorder and with the event the repeat worker waits for; and   *)
(* the quick-run keys do not reach into a recording, and come back after   *)
(* it unless Windows refuses them.                                         *)
ShownAsIs ==
    /\ state = "recording" /\ rec.on => paused = rec.paused
    /\ state = "playing" => paused = pauseEvent
    /\ rec.on => quick = "off"
    /\ state = "idle" => quick # "off"

(* A playback that was stopped or whose worker is gone does not keep the   *)
(* window: it comes back to idle by message or by poll, though the stop of *)
(* the player timed out.  Nor does a save that nobody retries.             *)
Held ==
    \/ session # 0 /\ (repeat[session].stopped \/ Worker(session, "ended"))
    \/ SaverAlive

WindowComesBack == []<>(closed \/ ~Held)

(* ui/quick_text_dialog.py:30: until it is saved or cancelled, nothing that *)
(* is done is recorded.                                                    *)
ComposerLeftOut ==
    \A i \in DOMAIN dialogs : dialogs[i].kind = "quickText" /\ rec.on => rec.paused

(* docs/product-specs/macro-recorder.md:76: that it records can be seen.   *)
RecordingIsSeen == rec.on => state \in {"recording", "stopping"}
=============================================================================
