------------------------ MODULE SlidingFeatureWindow ------------------------
(***************************************************************************)
(* SlidingFeatureWindow: a ring buffer of the newest feature frames and    *)
(* the fixed-size window that the model sees, rebuilt in time order after  *)
(* every push.                                                             *)
(***************************************************************************)
EXTENDS Integers, Sequences

CONSTANTS window_frames,   \* window_frames_
          Frames,          \* frames of the right dimension
          Misfits,         \* frames of another dimension
          Zero,            \* the frame of zeroes the buffers start with
          Blocks           \* the blocks that may be pushed

ASSUME WindowAssumption ==
    /\ window_frames \in Nat \ {0}
    /\ Zero \in Frames /\ Misfits \cap Frames = {}
    /\ Blocks \subseteq Seq(Frames \cup Misfits)

VARIABLES
    ring,           \* ring_
    window,         \* window_
    write_index,    \* write_index_
    newest_frames,  \* newest_frames_
    pushed,         \* what the last Push returned
    stored,         \* history: the frames that entered the ring, in order
    shown           \* history: how many of them the window was built from

buffers == <<ring, window, write_index, newest_frames>>
vars    == <<buffers, pushed, stored, shown>>

Slots == 0..(window_frames - 1)

Init ==
    /\ ring = [i \in Slots |-> Zero]
    /\ window = [i \in Slots |-> Zero]
    /\ write_index = 0
    /\ newest_frames = 0
    /\ pushed = TRUE
    /\ stored = <<>>
    /\ shown = 0

-----------------------------------------------------------------------------
\* The loop writes one frame after the other from index on.
Written(old_ring, index, block) ==
    [i \in Slots |->
        LET j == (i - index) % window_frames
        IN  IF j < Len(block) THEN block[j + 1] ELSE old_ring[i]]

Advanced(index, block) == (index + Len(block)) % window_frames

\* mutant: the window starts one frame late
RebuiltLate(new_ring, index) ==
    [frame \in Slots |-> new_ring[(index + frame + 1) % window_frames]]

\* The window is the ring read from its oldest frame on.
Rebuilt(new_ring, index) ==
    [frame \in Slots |-> new_ring[(index + frame) % window_frames]]

\* mutant: a block that reaches the end leaves the index at 0
StoreFromStart(block) ==
    /\ ring' = Written(ring, write_index, block)
    /\ write_index' = IF write_index + Len(block) >= window_frames
                        THEN 0 ELSE write_index + Len(block)
    /\ stored' = stored \o block

Store(block) ==
    /\ ring' = Written(ring, write_index, block)
    /\ write_index' = Advanced(write_index, block)
    /\ stored' = stored \o block

\* Null, empty or more frames than the window: rejected untouched.
PushRejected(block) ==
    /\ Len(block) \notin 1..window_frames
    /\ pushed' = FALSE
    /\ UNCHANGED <<buffers, stored, shown>>

\* A misfit is found while the frames before it are in the ring already: they
\* stay there, but the window is not rebuilt.
PushMisfit(block) ==
    /\ Len(block) \in 1..window_frames
    /\ \E n \in 1..Len(block) :
           /\ block[n] \in Misfits
           /\ \A i \in 1..(n - 1) : block[i] \in Frames
           /\ Store(SubSeq(block, 1, n - 1))
    /\ pushed' = FALSE
    /\ UNCHANGED <<window, newest_frames, shown>>

PushBlock(block) ==
    /\ Len(block) \in 1..window_frames
    /\ \A i \in 1..Len(block) : block[i] \in Frames
    /\ Store(block)
    /\ newest_frames' = Len(block)
    /\ window' = Rebuilt(ring', write_index')
    /\ pushed' = TRUE
    /\ shown' = Len(stored')

Push(block) == PushRejected(block) \/ PushMisfit(block) \/ PushBlock(block)

newest_start == window_frames - newest_frames

Next == \E block \in Blocks : Push(block)

Spec == Init /\ [][Next]_vars

-----------------------------------------------------------------------------
TypeOK ==
    /\ ring \in [Slots -> Frames]
    /\ window \in [Slots -> Frames]
    /\ write_index \in Slots
    /\ newest_frames \in 0..window_frames
    /\ pushed \in BOOLEAN

\* Frame number n of the frames stored, and silence before the first.
Stored(n) == IF n \in 1..Len(stored) THEN stored[n] ELSE Zero

\* The window holds, oldest first, the newest frames stored up to the last
\* successful push, wherever write_index_ has wrapped to since.
WindowIsLatest ==
    \A frame \in Slots :
        window[frame] = Stored(shown - window_frames + 1 + frame)

\* The ring read from write_index_ on holds the newest frames stored, those of
\* a push that failed half way included: what the next window is built from.
RingIsLatest ==
    \A frame \in Slots :
        ring[(write_index + frame) % window_frames]
            = Stored(Len(stored) - window_frames + 1 + frame)
=============================================================================
