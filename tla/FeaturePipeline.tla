--------------------------- MODULE FeaturePipeline ---------------------------
(***************************************************************************)
(* FeaturePipeline as its two threads run it: thread A accepts waveforms   *)
(* and finishes the input, thread B reads features.  Each step is one      *)
(* access to shared state: an operation of feature_queue_ (atomic under    *)
(* the queue's own mutex), a hold of mutex_, or a notification.            *)
(*                                                                         *)
(* mutex_ is held by B exactly at the pcs of HoldsMutex; A takes it only   *)
(* inside the one step that sets input_finished_.  AcceptWaveform notifies *)
(* finish_condition_ without taking it.                                    *)
(***************************************************************************)
EXTENDS Framing

CONSTANTS
    ChunkSizes,   \* samples in a waveform that thread A may accept
    ReadCounts,   \* values of num_frames that thread B may pass to Read
    SizeModulus,  \* 2^(width of size_t)
    MaxSamples    \* bound of the model: samples accepted since a Reset

ASSUME PipelineAssumption == /\ ChunkSizes \subseteq Nat
                             /\ ReadCounts \subseteq Int
                             /\ SizeModulus \in Nat \ {0}
                             /\ MaxSamples \in Nat

VARIABLES
    \* members of the class
    feature_queue, num_frames, input_finished, remained_wav,
    \* thread A: its pc, and the locals waves and feats of AcceptWaveform
    wpc, waves, feats,
    \* thread B: its pc, the count asked for, the frames of this Read and
    \* what the last Read returned
    rpc, asked, out, result,
    \* history: samples accepted and frames read since the last Reset
    sampled, consumed

members == <<feature_queue, num_frames, input_finished, remained_wav>>
writer  == <<wpc, waves, feats>>
reader  == <<rpc, asked, out, result>>
history == <<sampled, consumed>>
vars    == <<members, writer, reader, history>>

WriterPcs == {"idle", "push", "notify", "finish"}
ReaderPcs == {"idle", "empty", "pop", "lock", "while", "wait", "waiting",
              "woken", "recheck", "popLocked", "final"}

Init ==
    /\ feature_queue = <<>> /\ num_frames = 0
    /\ input_finished = FALSE /\ remained_wav = <<>>
    /\ wpc = "idle" /\ waves = <<>> /\ feats = <<>>
    /\ rpc = "idle" /\ asked = 0 /\ out = <<>> /\ result = "true"
    /\ sampled = 0 /\ consumed = 0

NeverHeld == FALSE  \* mutant: set_input_finished without the lock_guard
HoldsMutex == rpc \in {"while", "wait", "recheck", "popLocked", "final"}

\* finish_condition_.notify_one(): lost unless B is waiting at that moment.
NotifyOne == rpc' = IF rpc = "waiting" THEN "woken" ELSE rpc

-----------------------------------------------------------------------------
(* Thread A                                                                *)

\* AcceptWaveform up to the features of all whole frames.  The caller does
\* not accept a waveform after set_input_finished (feature_pipeline.h:78).
AcceptWaveform(k) ==
    /\ wpc = "idle"
    /\ ~input_finished
    /\ sampled + k <= MaxSamples
    /\ waves' = remained_wav \o Samples(sampled + 1, sampled + k)
    /\ feats' = Compute(waves')
    /\ sampled' = sampled + k
    /\ wpc' = "push"
    /\ UNCHANGED <<members, reader, consumed>>

Push ==
    /\ wpc = "push"
    /\ feats # <<>>
    /\ feature_queue' = Append(feature_queue, Head(feats))
    /\ feats' = Tail(feats)
    /\ UNCHANGED <<num_frames, input_finished, remained_wav, wpc, waves,
                   reader, history>>

\* All frames are queued: count them and keep the residual samples.
KeepResidual ==
    /\ wpc = "push"
    /\ feats = <<>>
    /\ num_frames' = num_frames + NumFrames(Len(waves))
    /\ remained_wav' = Residual(waves)
    /\ waves' = <<>>
    /\ wpc' = "notify"
    /\ UNCHANGED <<feature_queue, input_finished, feats, reader, history>>

\* The last statement of both AcceptWaveform and set_input_finished.
Notify ==
    /\ wpc \in {"notify", "finish"}
    /\ NotifyOne
    /\ wpc' = "idle"
    /\ UNCHANGED <<members, waves, feats, asked, out, result, history>>

SetInputFinished ==
    /\ wpc = "idle"
    /\ ~input_finished
    /\ ~HoldsMutex
    /\ input_finished' = TRUE
    /\ wpc' = "finish"
    /\ UNCHANGED <<feature_queue, num_frames, remained_wav, waves, feats,
                   reader, history>>

-----------------------------------------------------------------------------
(* Thread B                                                                *)

\* Read compares the size_t feats->size() with the int num_frames.
AsSizeT(n) == n % SizeModulus

\* A call of Read: feats->clear() and the first test of its loop.
Read(n) ==
    /\ rpc = "idle"
    /\ asked' = AsSizeT(n)
    /\ out' = <<>>
    /\ rpc' = IF asked' = 0 THEN "idle" ELSE "empty"
    /\ result' = IF asked' = 0 THEN "true" ELSE "pending"
    /\ UNCHANGED <<members, writer, history>>

\* ReadOne: the unlocked Empty().
TestEmpty ==
    /\ rpc = "empty"
    /\ rpc' = IF feature_queue # <<>> THEN "pop" ELSE "lock"
    /\ UNCHANGED <<members, writer, asked, out, result, history>>

\* Pop, the return of ReadOne (which releases mutex_) and Read's next test.
Pop ==
    /\ rpc \in {"pop", "popLocked"}
    /\ feature_queue # <<>>
    /\ out' = Append(out, Head(feature_queue))
    /\ feature_queue' = Tail(feature_queue)
    /\ consumed' = consumed + 1
    /\ rpc' = IF Len(out') < asked THEN "empty" ELSE "idle"
    /\ result' = IF Len(out') < asked THEN "pending" ELSE "true"
    /\ UNCHANGED <<num_frames, input_finished, remained_wav, writer, asked,
                   sampled>>

\* Acquire mutex_, on entry or on return from wait().
Lock ==
    /\ rpc \in {"lock", "woken"}
    /\ rpc' = IF rpc = "lock" THEN "while" ELSE "recheck"
    /\ UNCHANGED <<members, writer, asked, out, result, history>>

\* while (!input_finished_)
While ==
    /\ rpc = "while"
    /\ rpc' = IF input_finished THEN "final" ELSE "wait"
    /\ UNCHANGED <<members, writer, asked, out, result, history>>

\* wait() releases mutex_ and blocks in one step.
Wait ==
    /\ rpc = "wait"
    /\ rpc' = "waiting"
    /\ UNCHANGED <<members, writer, asked, out, result, history>>

\* std::condition_variable::wait may return without a notification.
SpuriousWakeup ==
    /\ rpc = "waiting"
    /\ rpc' = "woken"
    /\ UNCHANGED <<members, writer, asked, out, result, history>>

\* mutant: a wakeup is taken for a feature
RecheckNothing ==
    /\ rpc = "recheck"
    /\ rpc' = "popLocked"
    /\ UNCHANGED <<members, writer, asked, out, result, history>>

Recheck ==
    /\ rpc = "recheck"
    /\ rpc' = IF feature_queue # <<>> THEN "popLocked" ELSE "while"
    /\ UNCHANGED <<members, writer, asked, out, result, history>>

\* mutant: the end of the input is taken for an empty queue
NoDoubleCheck ==
    /\ rpc = "final"
    /\ rpc' = "idle" /\ result' = "false"
    /\ UNCHANGED <<members, writer, asked, out, history>>

\* The double check after the loop; ReadOne and Read return false.
DoubleCheck ==
    /\ rpc = "final"
    /\ IF feature_queue # <<>>
         THEN rpc' = "popLocked" /\ UNCHANGED result
         ELSE rpc' = "idle" /\ result' = "false"
    /\ UNCHANGED <<members, writer, asked, out, history>>

-----------------------------------------------------------------------------
\* mutant: the residual of one utterance leaks into the next
ResetKeepsResidual ==
    /\ wpc = "idle" /\ rpc = "idle"
    /\ feature_queue' = <<>> /\ num_frames' = 0 /\ input_finished' = FALSE
    /\ sampled' = 0 /\ consumed' = 0
    /\ UNCHANGED <<remained_wav, writer, reader>>

\* Reset takes no lock: it is for the moment when neither thread is inside.
Reset ==
    /\ wpc = "idle" /\ rpc = "idle"
    /\ feature_queue' = <<>> /\ num_frames' = 0
    /\ input_finished' = FALSE /\ remained_wav' = <<>>
    /\ sampled' = 0 /\ consumed' = 0
    /\ UNCHANGED <<writer, reader>>

WriterStep == Push \/ KeepResidual \/ Notify
ReaderStep ==
    TestEmpty \/ Pop \/ Lock \/ While \/ Wait \/ Recheck \/ DoubleCheck

Next ==
    \/ \E k \in ChunkSizes : AcceptWaveform(k)
    \/ SetInputFinished
    \/ WriterStep
    \/ \E n \in ReadCounts : Read(n)
    \/ ReaderStep
    \/ SpuriousWakeup
    \/ Reset

\* A thread inside a call is scheduled.  Nothing makes A call, and a
\* spurious wakeup is never owed.
Fairness == WF_vars(WriterStep) /\ WF_vars(ReaderStep)

Spec == Init /\ [][Next]_vars /\ Fairness

-----------------------------------------------------------------------------
\* The types, and that result tells whether a Read is in progress.
TypeOK ==
    /\ feature_queue \in Seq(Frame) /\ feats \in Seq(Frame)
    /\ out \in Seq(Frame)
    /\ remained_wav \in Seq(Nat) /\ waves \in Seq(Nat)
    /\ num_frames \in Nat /\ sampled \in Nat /\ consumed \in Nat
    /\ input_finished \in BOOLEAN
    /\ wpc \in WriterPcs /\ rpc \in ReaderPcs
    /\ asked \in 0..(SizeModulus - 1)
    /\ result \in {"true", "false", "pending"}
    /\ (rpc = "idle") <=> (result # "pending")

\* However the capture thread chunks the audio, the frames read so far, the
\* frames queued and the frames still to be pushed are together the frames of
\* the uninterrupted stream: none lost, repeated or cut at a chunk boundary.
StreamIntegrity ==
    /\ consumed + Len(feature_queue) + Len(feats)
         = IF wpc = "push" THEN NumFrames(sampled) ELSE num_frames
    /\ wpc # "push" => num_frames = NumFrames(sampled)
    /\ \A i \in 1..Len(feature_queue) :
           feature_queue[i] = FrameAt(consumed + i)
    /\ \A i \in 1..Len(feats) :
           feats[i] = FrameAt(consumed + Len(feature_queue) + i)
    /\ result = "pending" =>
           \A i \in 1..Len(out) : out[i] = FrameAt(consumed - Len(out) + i)

\* Between calls remained_wav_ holds exactly the samples that no counted
\* frame starts before or at, and they are fewer than one frame.
ResidualIsShort ==
    wpc # "push" =>
        /\ remained_wav = Samples(FrameShift * num_frames + 1, sampled)
        /\ Len(remained_wav) < FrameLength

\* The reader's check-then-act pairs, Empty() and then Pop(), are safe with one
\* reader: BlockingQueue::Pop never has to wait (under mutex_ it would wait
\* with the lock that set_input_finished needs).
PopNeverBlocks == rpc \in {"pop", "popLocked"} => feature_queue # <<>>

\* Read gives up only at the end of the input: when it returns false, every
\* whole frame of every accepted sample was read (the double check).
FalseOnlyAtEnd ==
    [][(result = "pending" /\ result' = "false") =>
           /\ input_finished
           /\ consumed = NumFrames(sampled)
           /\ Len(out) < asked]_vars

\* Once the input is finished no Read stays blocked, even one that tested
\* input_finished_ just before it was set.
ReadReturns == input_finished ~> (rpc = "idle")

\* The comment on ReadOne and Read (feature_pipeline.h:84-85, 92-93): it blocks
\* when there is no feature in feature_queue_ and the input is not finished.
\* So with thread A outside the class a blocked reader faces an empty queue.
BlocksOnlyWhenEmpty ==
    (rpc = "waiting" /\ wpc = "idle") => feature_queue = <<>>

\* FeaturePipeline implements FrameChannel: what was published is what was
\* read or is queued.
Channel == INSTANCE FrameChannel WITH
    published <- consumed + Len(feature_queue),
    closed    <- input_finished,
    ReadSizes <- {AsSizeT(n) : n \in ReadCounts}

ImplementsChannel == Channel!Spec
=============================================================================
