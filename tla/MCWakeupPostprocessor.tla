----------------------- MODULE MCWakeupPostprocessor -----------------------
(* Values of the constants of WakeupPostprocessor for TLC.                 *)
EXTENDS WakeupPostprocessor, SequencesExt

\* Levels: 0 low, 1 released but not medium, 2 medium, 3 and 4 high.
MCFrames == {<<0, 0>>, <<1, 0>>, <<2, 0>>, <<2, 3>>}

\* No frame (Forward failed), one or two frames, and outputs in which two
\* keywords compete, scores are equal or a class is missing.
MCOutputs ==
    {<<>>} \cup {<<f>> : f \in MCFrames} \cup {<<f, g>> : f, g \in MCFrames}
    \cup {<<<<3, 4>>, <<4, 4>>>>, <<<<0, 0>>, <<2, 2>>>>, <<<<3>>, <<3>>>>}

\* The whole output, a range that starts before it, one that ends beyond it.
MCRanges == {<<0, 2>>, <<-1, 1>>, <<1, 3>>}

\* Bound of the model: blocks and frames in the history.
HistoryIsShort == Len(heard) < 3 /\ Len(quiet) < 4

\* LowRun is the loop of Process: one frame after the other.
ASSUME \A before \in 0..3 : \A block \in MCOutputs :
    LowRun(before, block)
      = FoldLeft(LAMBDA n, f : IF IsLow(f) THEN n + 1 ELSE 0, before, block)
=============================================================================
