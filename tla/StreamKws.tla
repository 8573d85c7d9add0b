------------------------------ MODULE StreamKws ------------------------------
(***************************************************************************)
(* The streaming program: main() from the start of the recorder to its     *)
(* exit status, composed with the capture thread (AudioRecorder, on the    *)
(* state of AudioCapture), the feature pipeline between the two            *)
(* (FrameChannel, which FeaturePipeline implements), the prompt's thread   *)
(* (WakeupNotifier, on the state of WakeupPlayback), and the signals that  *)
(* stop it.                                                                *)
(***************************************************************************)
EXTENDS AudioCapture, WakeupPlayback, Sequences

CONSTANTS FrameLength, FrameShift,              \* see Framing
          stride_frames                         \* options.stride_frames

ASSUME StreamAssumption ==
    /\ stride_frames \in Nat \ {0}
    /\ FrameLength \in Nat \ {0} /\ FrameShift \in 1..FrameLength

VARIABLES
    published, consumed, asked, out, result,    \* see FrameChannel
    main,        \* where main() is
    exit_code,   \* what it returned
    ctrl_c,      \* Ctrl+C was pressed: both processes get SIGINT
    handled,     \* history: HandleSignal() ran
    crashed      \* history: the source stopped, and no Ctrl+C stopped it

recorder_vars == <<OnMac, source, buffered, recorded, resource, owner, capture,
                   samples_read, captured_samples, capture_overruns, failed, delivered,
                   finished>>
channel_vars  == <<published, consumed, asked, out, result>>
notifier_vars == <<caller, playback_active, joinable, playback_thread, player,
                   led_available, brightness>>
main_vars     == <<main, exit_code>>
signal_vars   == <<ctrl_c, handled, crashed>>
vars == <<recorder_vars, exiting, channel_vars, notifier_vars, main_vars, signal_vars>>

Recorder == INSTANCE AudioRecorder

\* The callbacks are AcceptWaveform and set_input_finished.
Channel == INSTANCE FrameChannel WITH
    ChunkSizes <- 1..chunk_samples, ReadSizes <- {stride_frames},
    sampled <- delivered, closed <- finished

\* No other program changes the LED here, once this one has started.
Notifier == INSTANCE WakeupNotifier

Init ==
    /\ Recorder!Init /\ Channel!Init /\ Notifier!Init
    /\ main = "open"
    /\ exit_code = -1
    /\ ctrl_c = FALSE
    /\ handled = FALSE
    /\ crashed = FALSE

-----------------------------------------------------------------------------
(* main().                                                                 *)

Goto(from, to) == main = from /\ main' = to

\* A failed Open() ends the program at once; the destructor closes the rest.
Open ==
    /\ Recorder!Open
    /\ IF owner' = "opened" THEN Goto("open", "start") /\ UNCHANGED exit_code
       ELSE Goto("open", "destroy") /\ exit_code' = 1
    /\ UNCHANGED <<channel_vars, notifier_vars, signal_vars>>

Destroy ==
    /\ Goto("destroy", "exited")
    /\ Recorder!Close
    /\ UNCHANGED <<exit_code, channel_vars, notifier_vars, signal_vars>>

\* signal(), and recorder.Start().
Start ==
    /\ Goto("start", "loop")
    /\ Recorder!Start
    /\ UNCHANGED <<exit_code, channel_vars, notifier_vars, signal_vars>>

\* while (!g_exiting) Read(stride_frames).
Loop ==
    /\ ~exiting
    /\ Goto("loop", "read")
    /\ Channel!Ask(stride_frames)
    /\ UNCHANGED <<recorder_vars, exiting, exit_code, notifier_vars, signal_vars>>

LoopEnds ==
    /\ exiting
    /\ Goto("loop", "stop")
    /\ UNCHANGED <<recorder_vars, exiting, exit_code, channel_vars, notifier_vars,
                   signal_vars>>

\* Read() takes frames until it has them all, or gives up at the end of input.
Read ==
    /\ Channel!Take \/ Channel!GiveUp
    /\ Goto("read", CASE result' = "pending" -> "read"
                      [] result' = "true"    -> "infer"
                      [] result' = "false"   -> "stop")
    /\ UNCHANGED <<recorder_vars, exiting, exit_code, notifier_vars, signal_vars>>

\* The window, the model and the postprocessor: with or without a wake word.
\* The exit after a failed Push() is not there: what Read() gives is a legal
\* block (PushNeverFails of InferenceLoop).
Infer ==
    /\ Goto("infer", "loop") \/ Goto("infer", "notify")
    /\ UNCHANGED <<recorder_vars, exiting, exit_code, channel_vars, notifier_vars,
                   signal_vars>>

Notify ==
    /\ Goto("notify", "notifying")
    /\ Notifier!Notify
    /\ UNCHANGED <<recorder_vars, exiting, exit_code, channel_vars, signal_vars>>

Notified ==
    /\ caller = "idle"
    /\ Goto("notifying", "loop")
    /\ UNCHANGED <<recorder_vars, exiting, exit_code, channel_vars, notifier_vars,
                   signal_vars>>

\* g_exiting = 1, whatever ended the loop.
Stop ==
    /\ Goto("stop", "join")
    /\ Recorder!SetExiting
    /\ UNCHANGED <<exit_code, channel_vars, notifier_vars, signal_vars>>

\* mutant: a program that was told to stop does not wait for its recorder
JoinUnlessTold ==
    /\ Goto("join", "wait")
    /\ owner' = IF handled THEN owner ELSE "joined"
    /\ handled \/ Recorder!Join
    /\ UNCHANGED <<OnMac, source, buffered, recorded, resource, exiting, capture,
                   samples_read, captured_samples, capture_overruns, failed, delivered, finished,
                   exit_code, channel_vars, notifier_vars, signal_vars>>

Join ==
    /\ Goto("join", "wait")
    /\ Recorder!Join
    /\ UNCHANGED <<exit_code, channel_vars, notifier_vars, signal_vars>>

\* mutant: the prompt is left playing
WaitSkipped ==
    /\ Goto("wait", "close")
    /\ UNCHANGED <<recorder_vars, exiting, exit_code, channel_vars, notifier_vars,
                   signal_vars>>

\* notifier.Wait(), which returns at once if there is no thread to join.
Wait ==
    /\ main = "wait" /\ main' = IF joinable THEN "waiting" ELSE "close"
    /\ Notifier!Wait
    /\ UNCHANGED <<recorder_vars, exiting, exit_code, channel_vars, signal_vars>>

Waited ==
    /\ caller = "done"
    /\ Goto("waiting", "close")
    /\ UNCHANGED <<recorder_vars, exiting, exit_code, channel_vars, notifier_vars,
                   signal_vars>>

\* recorder.Close(), and main's result.
Close ==
    /\ Goto("close", "exited")
    /\ Recorder!Close
    /\ exit_code' = IF failed THEN 1 ELSE 0
    /\ UNCHANGED <<channel_vars, notifier_vars, signal_vars>>

MainStep == \/ Open \/ Destroy \/ Start \/ Loop \/ LoopEnds \/ Infer \/ Notify
            \/ Notified \/ Stop \/ Join \/ Wait \/ Waited \/ Close

-----------------------------------------------------------------------------
(* The other threads.                                                      *)

\* mutant: AcceptWaveform returns before the frames have been pushed
CaptureRunsAhead ==
    /\ Recorder!CaptureStep
    /\ UNCHANGED <<channel_vars, notifier_vars, main_vars, signal_vars>>

\* AcceptWaveform returns when the frames that are whole have been pushed.
CaptureStep ==
    /\ Recorder!CaptureStep
    /\ capture = "count" => published = Channel!NumFrames(delivered)
    /\ UNCHANGED <<channel_vars, notifier_vars, main_vars, signal_vars>>

Publish ==
    /\ capture = "count"
    /\ Channel!Publish
    /\ UNCHANGED <<recorder_vars, exiting, notifier_vars, main_vars, signal_vars>>

PlaybackStep ==
    /\ Notifier!PlaybackStep
    /\ UNCHANGED <<recorder_vars, exiting, channel_vars, main_vars, signal_vars>>

\* Steps that main() takes inside Notify() and Wait().
CallerStep ==
    /\ Notifier!CallerStep
    /\ UNCHANGED <<recorder_vars, exiting, channel_vars, main_vars, signal_vars>>

-----------------------------------------------------------------------------
(* Outside.                                                                *)

PlayerExits ==
    /\ Notifier!PlayerExits
    /\ UNCHANGED <<recorder_vars, exiting, channel_vars, main_vars, signal_vars>>

SourceStep ==
    /\ \/ Recorder!Record /\ UNCHANGED crashed
       \/ Recorder!SourceStops /\ crashed' = (OnMac \/ ~ctrl_c)
    /\ UNCHANGED <<channel_vars, notifier_vars, main_vars, ctrl_c, handled>>

Running == main \notin {"open", "destroy", "start", "exited"}

\* The terminal sends SIGINT to the program and to arecord; PortAudio does not
\* stop for it.
CtrlC ==
    /\ Running /\ ~ctrl_c
    /\ ctrl_c' = TRUE
    /\ UNCHANGED <<recorder_vars, exiting, channel_vars, notifier_vars, main_vars, handled,
                   crashed>>

\* The program's handler runs: after Ctrl+C, or for a SIGTERM of its own.
HandleSignal ==
    /\ Running
    /\ Recorder!SetExiting
    /\ handled' = TRUE
    /\ UNCHANGED <<channel_vars, notifier_vars, main_vars, ctrl_c, crashed>>

Next ==
    \/ MainStep \/ Read \/ CaptureStep \/ Publish \/ PlaybackStep \/ CallerStep
    \/ PlayerExits \/ SourceStep \/ CtrlC \/ HandleSignal
    \/ main = "exited" /\ UNCHANGED vars

\* The threads run; the pipeline promises progress to a reader only once the
\* input is finished; the source and the player do not hang; and a signal that
\* was sent is handled.
Fairness ==
    /\ WF_vars(MainStep) /\ WF_vars(CallerStep)
    /\ WF_vars(CaptureStep) /\ WF_vars(Publish)
    /\ WF_vars(finished /\ Read)
    /\ WF_vars(PlaybackStep) /\ WF_vars(PlayerExits)
    /\ WF_vars(SourceStep)
    /\ WF_vars(ctrl_c /\ ~handled /\ HandleSignal)

Spec == Init /\ [][Next]_vars /\ Fairness

-----------------------------------------------------------------------------
\* The capture thread and main() use the pipeline as it has to be used: no
\* samples after the end of input, and the end only after the last frame.
UsesChannel == Channel!Init /\ [][Channel!Next]_Channel!vars

\* When main() returns, nothing of the program is left running or open: no
\* capture thread, no playback thread, no player, no source.
AllReleased ==
    main = "exited" => /\ capture \in {"none", "done"} /\ resource = "none"
                       /\ ~joinable /\ player = "none"

\* The captured time in the last line of the log is what was captured.
ReportIsFinal == main \in {"close", "exited"} => captured_samples = delivered

\* The program returns 0 only if a signal told it to stop: a source that ends
\* by itself is a failure.
FailureIsReported == exit_code = 0 => handled

\* The program ends: after a signal, and after a failure of the source, also
\* while main() waits in Read() and the prompt is being played.
ShutsDown == (handled \/ failed) ~> main = "exited"

\* "0 on a normal exit, 1 on a failure": Ctrl+C, the way to stop the program,
\* is no failure as long as the source was well until then.
CtrlCIsNormal ==
    ctrl_c /\ handled /\ ~crashed /\ main = "exited" => exit_code = 0
=============================================================================
