--------------------------- MODULE MCFrameFeatures ---------------------------
(* Values of the constants of FrameFeatures for TLC.                       *)
EXTENDS FrameFeatures

\* Concave and increasing, as the mel scale is.
MCMelScale(f) == <<0, 9, 17, 24, 31, 37, 43, 49, 54, 59, 64, 69, 73, 77, 81, 85, 89>>[f + 1]

MCWindow(length, j) == 2 + j * (length - j)

MCLogOf(x) == CHOOSE e \in 0..(P - 2) : Points[e] = x

MCLifter(ceps) == ceps + 3

\* For two frames, or none: all samples alike but one, which is in the first
\* frame, in both or in the second.
MCWaves(length) ==
    {[j \in 1..n |-> IF j = place THEN one ELSE others] :
        n \in {length - 1, length + frame_shift},
        place \in {1, 2, 3, length, length + frame_shift},
        one \in {1, 5}, others \in {0, 1}}
=============================================================================
