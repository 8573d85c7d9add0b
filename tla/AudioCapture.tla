---------------------------- MODULE AudioCapture ----------------------------
(***************************************************************************)
(* What AudioRecorder keeps of a capture, and what it promises to the      *)
(* program that owns it.                                                   *)
(***************************************************************************)
EXTENDS Integers

CONSTANTS chunk_samples, \* chunk_samples_
          Buffered,      \* samples the pipe, or PortAudio, can hold
          MaxSamples     \* bound of the model: samples a source gives in all

ASSUME RecorderAssumption ==
    /\ chunk_samples \in Nat \ {0} /\ Buffered \in Nat /\ MaxSamples \in Nat
    /\ Buffered >= chunk_samples

VARIABLES
    OnMac,             \* built for macOS; else for Linux, with arecord
    source,            \* "running" or "stopped": arecord, or the device
    buffered,          \* samples that can be read from it
    recorded,          \* samples it has given in all
    resource,          \* what is open: "none", "library" or "stream"
    owner,             \* what the owner has called last
    exiting,           \* *exiting_, that is g_exiting
    capture,           \* where the capture thread is
    samples_read,      \* the thread's count of samples in pcm
    captured_samples,  \* captured_samples_
    capture_overruns,  \* capture_overruns_
    failed,            \* failed_
    delivered,         \* samples handed to audio_callback
    finished           \* finished_callback was called

-----------------------------------------------------------------------------
\* Every sample taken from the source is in pcm or was delivered, until the
\* source is closed: none is dropped on a partial chunk, an interrupted read,
\* an exit or a failure.
Pending == IF capture \in {"fill", "fread", "ended", "fail", "raise", "deliver"}
             THEN samples_read ELSE 0

NoSampleLost ==
    owner # "closed" => recorded = buffered + Pending + delivered

\* The source is not closed under a thread that may still read it.
NoReadAfterClose == capture \notin {"none", "done"} => resource = "stream"

\* Once the flag is set the thread ends, on a silent source too provided it
\* ends at last; a stopped source sets the flag.
ThreadEnds == (capture # "none" /\ (exiting \/ source = "stopped")) ~> finished
=============================================================================
