----------------------------- MODULE WakeWords -----------------------------
(***************************************************************************)
(* The wake words, the wake-up policy's thresholds, and what the policy    *)
(* reads from one frame of model output.  A probability is a level of      *)
(* 0..Top: only its order against the thresholds and against the other     *)
(* probabilities matters.                                                  *)
(***************************************************************************)
EXTENDS Integers, Sequences, FiniteSetsExt

CONSTANTS NumWakeWords,     \* kNumWakeWords; wake word k reads class k
          Top,              \* the highest level a probability takes
          High, Medium,     \* trigger thresholds
          MediumHits,       \* blocks in a row a medium trigger needs
          Release,          \* level below which a frame is low
          ReleaseLow        \* low frames in a row that re-arm

ASSUME WakeWordsAssumption ==
    /\ NumWakeWords \in Nat \ {0}
    /\ Top \in Nat
    /\ High \in Nat \ {0} /\ Medium \in Nat \ {0} /\ Release \in Nat
    /\ MediumHits \in Nat \ {0} /\ ReleaseLow \in Nat

Keywords == 1..NumWakeWords

\* A frame of output is the sequence of its class probabilities; it may hold
\* fewer classes than there are wake words.
OutputFrame == Seq(0..Top)

\* The probability of keyword k in a frame, -1 if the frame has no such class.
Score(frame, k) == IF k <= Len(frame) THEN frame[k] ELSE -1

\* No wake word reaches the release threshold in the frame.
IsLow(frame) ==
    \A k \in Keywords : k <= Len(frame) => frame[k] < Release
=============================================================================
