----------------------- MODULE MCSlidingFeatureWindow -----------------------
(* Values of the constants of SlidingFeatureWindow for TLC.                *)
EXTENDS SlidingFeatureWindow, SequencesExt

CONSTANTS zero, a, b, misfit

MCFrames == {zero, a, b}

\* Every block of up to one frame more than the window, the empty one, and
\* blocks with a misfit at every position.
MCBlocks ==
    UNION {[1..n -> {a, b}] : n \in 0..(window_frames + 1)}
    \cup {<<misfit>>, <<a, misfit>>, <<b, misfit, a>>, <<b, a, misfit>>}

\* Bound of the model: frames in the history, twice the ring and one.
HistoryIsShort == Len(stored) =< 2 * window_frames

\* Written and Advanced are the loop of Push.
ASSUME \A index \in Slots : \A block \in MCBlocks :
    LET old == [i \in Slots |-> i]
        Put(s, f) == <<[s[1] EXCEPT ![s[2]] = f], (s[2] + 1) % window_frames>>
    IN  Len(block) =< window_frames =>
            FoldLeft(Put, <<old, index>>, block)
              = <<Written(old, index, block), Advanced(index, block)>>
=============================================================================
