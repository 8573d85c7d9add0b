--------------------------- MODULE MCInferenceLoop ---------------------------
(* Options and models for InferenceLoop, and a bound: blocks are read      *)
(* while there are few frames.                                             *)
EXTENDS InferenceLoop

CONSTANT MaxFrames  \* bound of the model

StreamIsShort == absolute =< MaxFrames

MCOptions ==
    [legal : BOOLEAN, threshold : {0, Release, High}, feature_dim : {2, 3},
     stride_frames : 0..(window_frames + 1)]

Good ==
    [version_ok |-> TRUE, fits |-> TRUE,
     input   |-> [type |-> "float32", dims |-> <<1, window_frames, 2>>, scale |-> 1,
                  zero |-> 0],
     outputs |-> <<[role |-> "probabilities", dims |-> <<1, window_frames, 2>>],
                   [role |-> "cache", dims |-> <<1, 4, 5>>]>>]

MCModels ==
    {Good, [Good EXCEPT !.version_ok = FALSE], [Good EXCEPT !.fits = FALSE]}
=============================================================================
