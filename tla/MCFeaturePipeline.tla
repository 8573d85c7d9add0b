------------------------- MODULE MCFeaturePipeline -------------------------
(* Values of the constants of FeaturePipeline for TLC.                     *)
EXTENDS FeaturePipeline

\* The same ratio as 25 ms to 10 ms: consecutive frames overlap, and a chunk
\* may carry no whole frame, one, or several.
MCChunkSizes == {0, 1, 4, 7}

\* No frame, one, two, and a negative count.
MCReadCounts == {-1, 0, 1, 2}
=============================================================================
