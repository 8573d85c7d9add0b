---------------------------- MODULE AudioRecorder ----------------------------
(***************************************************************************)
(* AudioRecorder: its owner opens the source (an arecord process behind a  *)
(* pipe, or a PortAudio stream), starts the capture thread, joins it and   *)
(* closes the source.  The capture thread reads chunks and hands them to   *)
(* its callback until *exiting_ is set, which the owner, a signal handler  *)
(* or the thread itself may do.                                            *)
(***************************************************************************)
EXTENDS AudioCapture, FiniteSetsExt

environment == <<OnMac, source, buffered, recorded>>
counts      == <<samples_read, captured_samples, capture_overruns>>
thread      == <<capture, counts, failed, delivered, finished>>
vars        == <<environment, resource, owner, exiting, thread>>

Init ==
    /\ OnMac \in BOOLEAN
    /\ source = "running" /\ buffered = 0 /\ recorded = 0
    /\ resource = "none"
    /\ owner = "new"
    /\ exiting = FALSE
    /\ capture = "none"
    /\ samples_read = 0 /\ captured_samples = 0 /\ capture_overruns = 0
    /\ failed = FALSE
    /\ delivered = 0
    /\ finished = FALSE

-----------------------------------------------------------------------------
(* The source.                                                             *)

\* Samples arrive while something listens; what does not fit is lost before
\* the program sees it.
Record ==
    /\ source = "running" /\ resource = "stream"
    /\ recorded < MaxSamples
    /\ buffered < Buffered
    /\ recorded' = recorded + 1
    /\ buffered' = buffered + 1
    /\ UNCHANGED <<OnMac, source, resource, owner, exiting, thread>>

\* arecord ends, or the device fails.
SourceStops ==
    /\ source = "running" /\ resource = "stream"
    /\ source' = "stopped"
    /\ UNCHANGED <<OnMac, buffered, recorded, resource, owner, exiting, thread>>

-----------------------------------------------------------------------------
(* The owner.                                                              *)

\* On macOS Open() may fail with the library initialised; popen() just fails.
Open ==
    /\ owner = "new"
    /\ \/ resource' = "stream" /\ owner' = "opened"
       \/ /\ resource' \in (IF OnMac THEN {"none", "library", "stream"} ELSE {"none"})
          /\ owner' = "unopened"
    /\ UNCHANGED <<environment, exiting, thread>>

Start ==
    /\ owner = "opened"
    /\ owner' = "started"
    /\ capture' = "test"
    /\ UNCHANGED <<environment, resource, exiting, counts, failed, delivered, finished>>

\* A signal handler, or the owner that wants to stop.
SetExiting ==
    /\ exiting' = TRUE
    /\ UNCHANGED <<environment, resource, owner, thread>>

\* mutant: does not wait for the thread
JoinAtOnce ==
    /\ owner = "started"
    /\ owner' = "joined"
    /\ UNCHANGED <<environment, resource, exiting, thread>>

Join ==
    /\ owner = "started"
    /\ capture = "done"
    /\ owner' = "joined"
    /\ UNCHANGED <<environment, resource, exiting, thread>>

\* Close(), which ~AudioRecorder() calls too.  pclose() closes the pipe and
\* waits for arecord, which ends when it next writes.
Close ==
    /\ owner \in {"unopened", "joined"}
    /\ resource' = "none"
    /\ source' = IF resource = "stream" THEN "stopped" ELSE source
    /\ buffered' = 0
    /\ owner' = "closed"
    /\ UNCHANGED <<OnMac, recorded, exiting, thread>>

-----------------------------------------------------------------------------
(* The capture thread.                                                     *)

At(from, to) == capture = from /\ capture' = to

\* while (!*exiting_) ...
TestExiting ==
    /\ IF exiting THEN At("test", "finish")
       ELSE At("test", IF OnMac THEN "pa_read" ELSE "fill")
    /\ samples_read' = 0
    /\ UNCHANGED <<environment, resource, owner, exiting, captured_samples,
                   capture_overruns, failed, delivered, finished>>

\* while (samples_read < pcm.size() && !*exiting_) ...
TestFull ==
    /\ At("fill", IF samples_read < chunk_samples /\ ~exiting
                    THEN "fread" ELSE "deliver")
    /\ UNCHANGED <<environment, resource, owner, exiting, counts, failed, delivered,
                   finished>>

Take(n) ==
    /\ buffered' = buffered - n
    /\ samples_read' = samples_read + n
    /\ UNCHANGED <<OnMac, source, recorded>>

\* mutant: a short count is taken for a whole chunk
FreadWhole ==
    /\ buffered >= chunk_samples - samples_read \/ source = "stopped"
    /\ buffered' = buffered - Min({chunk_samples - samples_read, buffered})
    /\ samples_read' = chunk_samples
    /\ At("fread", IF buffered > 0 THEN "fill" ELSE "ended")
    /\ UNCHANGED <<OnMac, source, recorded, resource, owner, exiting, captured_samples,
                   capture_overruns, failed, delivered, finished>>

\* fread() blocks until it has the rest of the chunk; at the end of the stream
\* it returns what there is, which may be nothing.
Fread ==
    LET wanted == chunk_samples - samples_read
        count  == Min({wanted, buffered})
    IN  /\ buffered >= wanted \/ source = "stopped"
        /\ Take(count)
        /\ At("fread", IF count > 0 THEN "fill" ELSE "ended")
        /\ UNCHANGED <<resource, owner, exiting, captured_samples, capture_overruns,
                       failed, delivered, finished>>

\* A signal may interrupt fread(), after its handler has run: clearerr(), and
\* the loop goes on.
FreadInterrupted ==
    /\ exiting
    /\ \E n \in 0..Min({chunk_samples - samples_read - 1, buffered}) : Take(n)
    /\ At("fread", "fill")
    /\ UNCHANGED <<resource, owner, exiting, captured_samples, capture_overruns, failed,
                   delivered, finished>>

\* mutant: the end of the stream is tried again
RetryAlways ==
    /\ At("ended", "fill")
    /\ UNCHANGED <<environment, resource, owner, exiting, counts, failed, delivered,
                   finished>>

\* The end of the stream is a failure unless the program is exiting.
TestEnded ==
    /\ At("ended", IF exiting THEN "deliver" ELSE "fail")
    /\ UNCHANGED <<environment, resource, owner, exiting, counts, failed, delivered,
                   finished>>

\* mutant: a failure counts only when the chunk is empty
FailWhenEmpty ==
    /\ At("fail", "raise")
    /\ failed' = (samples_read = 0)
    /\ UNCHANGED <<environment, resource, owner, exiting, counts, delivered, finished>>

Fail ==
    /\ At("fail", "raise")
    /\ failed' = TRUE
    /\ UNCHANGED <<environment, resource, owner, exiting, counts, delivered, finished>>

\* *exiting_ = 1; on macOS the loop is left, otherwise what was read is still
\* delivered.
Raise ==
    /\ At("raise", IF OnMac THEN "finish" ELSE "deliver")
    /\ exiting' = TRUE
    /\ UNCHANGED <<environment, resource, owner, counts, failed, delivered, finished>>

\* Pa_ReadStream() returns a whole chunk, with a note if input was lost.
PaRead ==
    /\ buffered >= chunk_samples
    /\ Take(chunk_samples)
    /\ At("pa_read", "deliver")
    /\ capture_overruns' \in {capture_overruns, capture_overruns + 1}
    /\ UNCHANGED <<resource, owner, exiting, captured_samples, failed, delivered, finished>>

PaFails ==
    /\ source = "stopped"
    /\ At("pa_read", "fail")
    /\ UNCHANGED <<environment, resource, owner, exiting, counts, failed, delivered,
                   finished>>

\* audio_callback(pcm), of which a partial chunk is a copy.
Deliver ==
    /\ At("deliver", IF samples_read = 0 THEN "finish" ELSE "count")
    /\ delivered' = delivered + samples_read
    /\ UNCHANGED <<environment, resource, owner, exiting, counts, failed, finished>>

\* captured_samples_ is updated only after the callback.
Count ==
    /\ At("count", "test")
    /\ captured_samples' = captured_samples + samples_read
    /\ UNCHANGED <<environment, resource, owner, exiting, samples_read, capture_overruns,
                   failed, delivered, finished>>

\* mutant: only a failure is reported to the reader
FinishOnFailure ==
    /\ At("finish", "done")
    /\ finished' = failed
    /\ UNCHANGED <<environment, resource, owner, exiting, counts, failed, delivered>>

Finish ==
    /\ At("finish", "done")
    /\ finished' = TRUE
    /\ UNCHANGED <<environment, resource, owner, exiting, counts, failed, delivered>>

CaptureStep ==
    \/ TestExiting \/ TestFull \/ Fread \/ FreadInterrupted \/ TestEnded
    \/ Fail \/ Raise \/ PaRead \/ PaFails \/ Deliver \/ Count \/ Finish

Next ==
    \/ Record \/ SourceStops
    \/ Open \/ Start \/ SetExiting \/ Join \/ Close
    \/ CaptureStep

\* The thread is scheduled, and the source gives samples or ends: a source
\* that does neither keeps fread() and the program for ever.
Fairness ==
    /\ WF_vars(CaptureStep)
    /\ WF_vars(Record \/ SourceStops)
    /\ WF_vars(Start) /\ WF_vars(Join) /\ WF_vars(Close)

Spec == Init /\ [][Next]_vars /\ Fairness

-----------------------------------------------------------------------------
TypeOK ==
    /\ OnMac \in BOOLEAN
    /\ source \in {"running", "stopped"}
    /\ buffered \in 0..Buffered /\ recorded \in 0..MaxSamples
    /\ resource \in {"none", "library", "stream"}
    /\ owner \in {"new", "unopened", "opened", "started", "joined", "closed"}
    /\ exiting \in BOOLEAN /\ failed \in BOOLEAN /\ finished \in BOOLEAN
    /\ capture \in {"none", "test", "fill", "fread", "pa_read", "ended", "fail",
                    "raise", "deliver", "count", "finish", "done"}
    /\ samples_read \in 0..chunk_samples
    /\ captured_samples \in Nat /\ delivered \in Nat
    /\ capture_overruns \in Nat
=============================================================================
