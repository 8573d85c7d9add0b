------------------------------ MODULE Framing ------------------------------
(***************************************************************************)
(* How Fbank::Compute and Mfcc::Compute cut a waveform into frames.  A     *)
(* frame is FrameLength samples and the next one starts FrameShift samples *)
(* later; FeaturePipelineConfig sets them to 25 ms and 10 ms.  The         *)
(* arithmetic on a frame (window, FFT, mel filters) is a function of that  *)
(* frame alone, so a feature is represented by the samples it came from.   *)
(***************************************************************************)
EXTENDS Integers, Sequences

CONSTANTS FrameLength,  \* samples in a frame        (frame_length_)
          FrameShift    \* samples between two starts (frame_shift_)

ASSUME FramingAssumption == /\ FrameLength \in Nat \ {0}
                            /\ FrameShift \in 1..FrameLength

\* The number of whole frames in n samples.
NumFrames(n) ==
    IF n < FrameLength THEN 0 ELSE 1 + (n - FrameLength) \div FrameShift

\* The frames of a waveform, in order.
Compute(waves) ==
    [i \in 1..NumFrames(Len(waves)) |->
        SubSeq(waves, FrameShift * (i - 1) + 1,
                      FrameShift * (i - 1) + FrameLength)]

\* mutant: the residual starts after the last frame, without the overlap
ResidualAfterFrame(waves) ==
    SubSeq(waves, FrameShift * NumFrames(Len(waves)) + FrameLength
                    - FrameShift + 1, Len(waves))

\* What AcceptWaveform keeps in remained_wav_ for the next call.
Residual(waves) ==
    SubSeq(waves, FrameShift * NumFrames(Len(waves)) + 1, Len(waves))

-----------------------------------------------------------------------------
(* The reference: one uninterrupted stream whose i-th sample is the number *)
(* i.                                                                      *)

\* The samples first..last of the stream.
Samples(first, last) == [i \in 1..(last - first + 1) |-> first + i - 1]

Frame == [1..FrameLength -> Nat]

\* The k-th frame of the stream, k >= 1, however the stream was chunked.
FrameAt(k) ==
    Samples(FrameShift * (k - 1) + 1, FrameShift * (k - 1) + FrameLength)
=============================================================================
