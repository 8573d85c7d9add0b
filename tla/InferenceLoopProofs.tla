------------------------- MODULE InferenceLoopProofs -------------------------
(***************************************************************************)
(* The inference loop keeps its four ways of counting frames together, for *)
(* every window, stride, threshold and stream.  What the window and the    *)
(* postprocessor keep by themselves is taken from the proofs about them.   *)
(***************************************************************************)
EXTENDS InferenceLoop, TLAPS

W == INSTANCE SlidingFeatureWindowProofs WITH
    Frames <- FeatureFrame, Misfits <- {}, Zero <- Silence, Blocks <- {}
P == INSTANCE WakeupPostprocessorProofs WITH Outputs <- {}, Ranges <- {}

Startups == {"options", "threshold", "prompt", "model", "dimension", "stride",
             "recorder"}
Places   == Startups \cup {"read", "push", "reset", "forward", "judge", "record",
                           "report", "notify", "left", "exited"}

n == Len(new_features)

\* The frames of the stream that were there before this block.
before == absolute - n

\* From "read" on the block fits the window, and the threshold is one that low
\* frames do not reach, whatever the options were.
StartedWell ==
    /\ pc \in Places
    /\ options \in Options /\ model \in Models
    /\ pc \in {"threshold", "prompt", "model", "dimension", "stride"} =>
         stride_frames > 0
    /\ pc \notin Startups \cup {"exited"} \/ pc = "recorder" =>
         stride_frames \in 1..window_frames
    /\ pc \notin {"options", "threshold", "exited"} => ThresholdFits

\* A frame is stored under its number in the stream.
StoredByNumber ==
    /\ absolute \in Nat /\ before \in Nat
    /\ new_features \in Seq(FeatureFrame)
    /\ pc \notin Startups \cup {"read", "left", "exited"} => n = stride_frames
    /\ \A i \in 1..n : new_features[i].number = before + i
    /\ \A i \in 1..Len(stored) : stored[i].number = i
    /\ Len(stored) = IF pc = "push" THEN before ELSE absolute
    /\ pc \in {"reset", "forward", "judge"} =>
         /\ newest_frames = n /\ shown = absolute
         /\ \A i \in 1..n : window[window_frames - n + i - 1] = new_features[i]

\* The network sees the window and nothing else, and judges each frame of it.
FedByWindow ==
    /\ pc = "forward" => cache = <<>>
    /\ pc = "judge" /\ prob # <<>> =>
         /\ cache = GetFeatures
         /\ prob = [i \in 1..window_frames |-> <<window[i - 1].level>>]

Through == IF pc \in {"push", "reset", "forward", "judge"} THEN before ELSE absolute

JudgedByNumber ==
    /\ judged \in Seq(FeatureFrame) /\ lost \in Nat
    /\ \A i \in 1..Len(judged) : judged[i].number \in 1..Through
    /\ \A i, j \in 1..Len(judged) : i < j => judged[i].number < judged[j].number
    /\ Len(judged) + lost = Through

\* A wake word is one of the new frames, and is reported before the next read.
Triggered ==
    /\ pc \in {"report", "notify"} => result.triggered # 0
    /\ pc \in {"record", "report", "notify"} /\ result.triggered # 0 =>
         /\ quiet = <<>>
         /\ \E i \in 1..n :
                LET k == result.triggered
                IN  /\ result.frames[k] = window_frames - n + i - 1
                    /\ newest_frames = n
                    /\ new_features[i].level = result.scores[k]
                    /\ \A j \in 1..(i - 1) : new_features[j].level < result.scores[k]

End(number) == frame_length + (number - 1) * frame_shift

\* The time of the last wake word is one of the stream so far.
Timed ==
    /\ processed_frames = IF pc \in {"push", "reset", "forward", "judge", "record"}
                            THEN before ELSE absolute
    /\ pc = "report" => first_new_absolute_frame = before
    /\ keyword_time \in Int
    /\ keyword_time < End(processed_frames + 1)

\* What the postprocessor has heard since the wake word is what was judged.
QuietIsJudged ==
    /\ Len(quiet) =< Len(judged)
    /\ \A i \in 1..Len(quiet) :
           LET frame == judged[Len(judged) - Len(quiet) + i]
           IN  quiet[i] = <<frame.level>> /\ keyword_time < End(frame.number)

IInv ==
    /\ W!IInv /\ P!IInv
    /\ StartedWell /\ StoredByNumber /\ FedByWindow /\ JudgedByNumber
    /\ Triggered /\ Timed /\ QuietIsJudged
    /\ KeywordTimeIsReal /\ RearmedByQuiet
-----------------------------------------------------------------------------
(* The parts.                                                              *)

LEMMA WindowParts ==
    /\ Window!Init => W!Init
    /\ W!Init => W!IInv
  <1>1. Window!Init => W!Init
    BY DEF Window!Init, W!Init, Window!Slots, W!Slots
  <1>2. W!Init => W!IInv
    <2>1. /\ window_frames \in Nat \ {0} /\ Silence \in FeatureFrame
          /\ {} \cap FeatureFrame = {} /\ {} \subseteq Seq(FeatureFrame \cup {})
      BY LoopAssumption DEF FeatureFrame
    <2> QED BY <2>1, W!InitInv
  <1> QED BY <1>1, <1>2

LEMMA PushPart ==
    ASSUME NEW block, Window!Push(block)
    PROVE  W!Push(block)
  BY DEF Window!Push, Window!PushRejected, Window!PushMisfit, Window!PushBlock,
         Window!Store, Window!Written, Window!Advanced, Window!Rebuilt, Window!Slots,
         Window!buffers,
         W!Push, W!PushRejected, W!PushMisfit, W!PushBlock,
         W!Store, W!Written, W!Advanced, W!Rebuilt, W!Slots, W!buffers

LEMMA PostParts ==
    /\ Post!Init => P!Init
    /\ P!Init => P!IInv
  <1>1. Post!Init => P!Init
    BY DEF Post!Init, P!Init, Post!EmptyResult, P!EmptyResult, Post!Keywords, P!Keywords,
           Post!NoCause, P!NoCause
  <1>2. P!Init => P!IInv
    BY WakeWordsAssumption, P!InitInv
  <1> QED BY <1>1, <1>2

LEMMA ProcessPart ==
    ASSUME NEW probs, NEW begin, NEW end, Post!Process(probs, begin, end)
    PROVE  P!Process(probs, begin, end)
  BY DEF Post!Process, Post!Checked, Post!ProcessHigh, Post!ProcessMedium,
         Post!ProcessNothing, Post!ProcessReleased, Post!Fire, Post!ClearCounters,
         Post!HighKeywords, Post!Streaks, Post!LowRun, Post!Winner, Post!Measured,
         Post!BestFrame, Post!BestScore, Post!Keywords, Post!Score, Post!IsLow,
         Post!NoCause, Post!Max, Post!Min,
         P!Process, P!Checked, P!ProcessHigh, P!ProcessMedium,
         P!ProcessNothing, P!ProcessReleased, P!Fire, P!ClearCounters,
         P!HighKeywords, P!Streaks, P!LowRun, P!Winner, P!Measured,
         P!BestFrame, P!BestScore, P!Keywords, P!Score, P!IsLow,
         P!NoCause, P!Max, P!Min
LEMMA WindowKept == ASSUME W!IInv, UNCHANGED window_vars PROVE W!IInv'
  <1>1. /\ window_frames \in Nat \ {0} /\ Silence \in FeatureFrame
        /\ {} \cap FeatureFrame = {} /\ {} \subseteq Seq(FeatureFrame \cup {})
    BY LoopAssumption DEF FeatureFrame
  <1>2. UNCHANGED W!vars
    BY DEF window_vars, W!vars, W!buffers
  <1> QED BY <1>1, <1>2, W!NextInv

LEMMA PostKept == ASSUME P!IInv, UNCHANGED post_vars PROVE P!IInv'
  <1>1. UNCHANGED P!vars
    BY DEF post_vars, P!vars, P!counters
  <1> QED BY <1>1, WakeWordsAssumption, P!NextInv

LEMMA ConcatParts ==
    ASSUME NEW S, NEW s \in Seq(S), NEW t \in Seq(S)
    PROVE  /\ s \o t \in Seq(S) /\ Len(s \o t) = Len(s) + Len(t)
           /\ \A i \in 1..Len(s) : (s \o t)[i] = s[i]
           /\ \A i \in 1..Len(t) : (s \o t)[Len(s) + i] = t[i]
  OBVIOUS

LEMMA FrameType ==
    ASSUME NEW frame \in FeatureFrame
    PROVE  /\ frame.number \in Nat
           /\ frame.level \in 0..Top
  <1>1. CASE frame = Silence
    BY <1>1, WakeWordsAssumption DEF Silence
  <1>2. CASE frame \in [number : Nat \ {0}, level : Levels]
    BY <1>2, LoopAssumption
  <1> QED BY <1>1, <1>2 DEF FeatureFrame

LEMMA EndMonotone ==
    ASSUME NEW a \in Int, NEW b \in Int
    PROVE  /\ End(a) \in Int
           /\ a < b => End(a) < End(b)
  <1>1. PICK s \in Nat \ {0} : s = frame_shift
    BY LoopAssumption
  <1>2. PICK l \in Nat \ {0} : l = frame_length
    BY LoopAssumption
  <1>3. (a - 1) * s \in Int /\ (b - 1) * s \in Int
    OBVIOUS
  <1>4. ASSUME a < b PROVE (a - 1) * s < (b - 1) * s
    <2>1. PICK d \in Nat : b - 1 = (a - 1) + (d + 1)
      <3>1. b - a - 1 \in Nat /\ b - 1 = (a - 1) + ((b - a - 1) + 1)
        BY <1>4
      <3> QED BY <3>1
    <2>2. (b - 1) * s = (a - 1) * s + d * s + s /\ d * s \in Nat
      BY <2>1
    <2> QED BY <1>3, <2>2
  <1> QED BY <1>1, <1>2, <1>3, <1>4 DEF End

LEMMA InitInv == Init => IInv
  <1> SUFFICES ASSUME Init PROVE IInv
    OBVIOUS
  <1> USE LoopAssumption DEF Init
  <1>1. W!IInv /\ P!IInv
    BY WindowParts, PostParts
  <1>2. StartedWell /\ FedByWindow
    BY DEF StartedWell, Places, Startups, FedByWindow
  <1>3. stored = <<>> /\ quiet = <<>> /\ n = 0 /\ before = 0
    <2>1. stored = <<>> /\ quiet = <<>>
      BY DEF Window!Init, Post!Init
    <2>2. n = 0
      BY DEF n
    <2> QED BY <2>1, <2>2 DEF before
  <1>4. StoredByNumber
    BY <1>3 DEF StoredByNumber, Startups
  <1>5. JudgedByNumber /\ QuietIsJudged
    BY <1>3 DEF JudgedByNumber, QuietIsJudged, Through
  <1>6. Triggered /\ KeywordTimeIsReal /\ RearmedByQuiet
    BY DEF Triggered, KeywordTimeIsReal, RearmedByQuiet
  <1>7. Timed
    <2>1. End(0 + 1) = frame_length
      BY DEF End
    <2> QED BY <2>1 DEF Timed
  <1> QED BY <1>1, <1>2, <1>4, <1>5, <1>6, <1>7 DEF IInv
-----------------------------------------------------------------------------
(* The steps outside the handling of a block.                              *)

\* What holds by what was done, when only pc changes.
LEMMA IdleStep ==
    ASSUME IInv, pc \in Startups \cup {"read", "notify"},
           pc' \in Startups \cup {"read", "left", "exited"}, StartedWell',
           UNCHANGED <<options, model, absolute, new_features, window_vars, spotter_vars,
                       post_vars, stats_vars, keyword_time, history>>
    PROVE  IInv'
  <1> USE DEF Startups
  <1>1. W!IInv' /\ P!IInv'
    BY WindowKept, PostKept DEF IInv
  <1>2. n' = n /\ before' = before /\ Through = absolute /\ Through' = absolute
    BY DEF n, before, Through
  <1>3. StoredByNumber'
    BY <1>2 DEF IInv, StoredByNumber, window_vars
  <1>4. FedByWindow' /\ Triggered'
    BY DEF FedByWindow, Triggered
  <1>5. JudgedByNumber'
    BY <1>2 DEF IInv, JudgedByNumber, history
  <1>6. Timed' /\ QuietIsJudged'
    <2>1. Timed'
      BY DEF IInv, Timed, stats_vars, End
    <2>2. QuietIsJudged'
      BY DEF IInv, QuietIsJudged, history, post_vars, End
    <2> QED BY <2>1, <2>2
  <1>7. KeywordTimeIsReal' /\ RearmedByQuiet'
    BY DEF KeywordTimeIsReal, RearmedByQuiet
  <1> QED BY <1>1, <1>3, <1>4, <1>5, <1>6, <1>7 DEF IInv

LEMMA StartupStep == ASSUME IInv, Startup PROVE IInv'
  <1> DEFINE kept == UNCHANGED <<options, model, absolute, new_features, window_vars,
                                 spotter_vars, post_vars, stats_vars, keyword_time,
                                 history>>
  <1>1. kept
    BY DEF Startup, Check
  <1>2. pc \in Startups /\ pc' \in Startups \cup {"read", "exited"}
    BY DEF Startup, Check, Goto, Startups
  <1>3. StartedWell'
    <2>1. stride_frames \in Int /\ window_frames \in Nat \ {0}
          /\ stride_frames' = stride_frames
      BY <1>1, LoopAssumption DEF IInv, StartedWell, stride_frames
    <2> HIDE DEF kept
    <2>2. options' \in Options /\ model' \in Models /\ pc' \in Places
      BY <1>1, <1>2 DEF IInv, StartedWell, Places, kept
    <2>3. /\ pc' \in {"threshold", "prompt", "model", "dimension", "stride"} =>
               stride_frames > 0
          /\ pc' \notin Startups \cup {"exited"} \/ pc' = "recorder" =>
               stride_frames \in 1..window_frames
      BY <2>1 DEF IInv, StartedWell, Startups, Startup, Check, Goto, StrideFits
    <2>4. pc' \notin {"options", "threshold", "exited"} => ThresholdFits
      BY DEF IInv, StartedWell, Startup, Check, Goto
    <2>5. ThresholdFits' <=> ThresholdFits
      BY <1>1 DEF ThresholdFits, kept
    <2> QED BY <2>1, <2>2, <2>3, <2>4, <2>5 DEF StartedWell
  <1> QED BY <1>1, <1>2, <1>3, IdleStep

LEMMA LeaveStep == ASSUME IInv, Leave \/ Notify PROVE IInv'
  <1>1. StartedWell'
    BY DEF IInv, StartedWell, Startups, Places, Leave, Notify, Goto, startup_vars,
           stride_frames, ThresholdFits
  <1> QED BY <1>1, IdleStep DEF Leave, Notify, Goto, startup_vars

LEMMA ReadStep == ASSUME IInv, Read PROVE IInv'
  <1>1. pc = "read" /\ pc' = "push"
    BY DEF Read, Goto
  <1>2. PICK s \in 1..window_frames : s = stride_frames
    BY <1>1 DEF IInv, StartedWell, Startups
  <1>3. PICK a \in Nat : a = absolute
    BY DEF IInv, StoredByNumber
  <1>4. PICK levels \in [1..s -> Levels] :
            new_features' = [i \in 1..s |-> [number |-> a + i, level |-> levels[i]]]
    BY <1>2, <1>3 DEF Read
  <1>5. absolute' = a + s /\ s \in Nat
    BY <1>2, <1>3, LoopAssumption DEF Read
  <1>6. n' = s /\ before' = a /\ new_features' \in Seq(FeatureFrame)
    <2>1. \A i \in 1..s : [number |-> a + i, level |-> levels[i]] \in FeatureFrame
      BY <1>5 DEF FeatureFrame
    <2>2. new_features' \in Seq(FeatureFrame) /\ Len(new_features') = s
      BY <1>4, <1>5, <2>1
    <2>3. n' = s
      BY <2>2 DEF n
    <2> QED BY <1>5, <2>2, <2>3 DEF before
  <1>7. /\ UNCHANGED <<startup_vars, window_vars, spotter_vars, post_vars, stats_vars,
                       keyword_time, history>>
        /\ stride_frames' = stride_frames
    BY DEF Read, startup_vars, stride_frames
  <1>8. W!IInv' /\ P!IInv'
    BY <1>7, WindowKept, PostKept DEF IInv
  <1>9. StartedWell'
    BY <1>1, <1>7 DEF IInv, StartedWell, Startups, Places, startup_vars,
                        ThresholdFits
  <1>10. StoredByNumber'
    <2>1. \A i \in 1..s : new_features'[i].number = a + i
      BY <1>4
    <2> QED BY <1>1, <1>2, <1>3, <1>5, <1>6, <1>7, <2>1
            DEF IInv, StoredByNumber, Startups, window_vars
  <1>11. FedByWindow' /\ Triggered' /\ KeywordTimeIsReal' /\ RearmedByQuiet'
    BY <1>1 DEF FedByWindow, Triggered, KeywordTimeIsReal, RearmedByQuiet
  <1>12. JudgedByNumber'
    <2>1. Through = a /\ Through' = a
      BY <1>1, <1>3, <1>6 DEF Through
    <2> QED BY <1>7, <2>1 DEF IInv, JudgedByNumber, history
  <1>13. Timed'
    BY <1>1, <1>3, <1>6, <1>7 DEF IInv, Timed, stats_vars, End
  <1>14. QuietIsJudged'
    BY <1>7 DEF IInv, QuietIsJudged, post_vars, history, End
  <1> QED BY <1>8, <1>9, <1>10, <1>11, <1>12, <1>13, <1>14 DEF IInv
-----------------------------------------------------------------------------
(* One block.                                                              *)

\* Where there is a block, it is a legal one.
LEMMA BlockType ==
    ASSUME IInv, pc \in {"push", "reset", "forward", "judge", "record", "report", "notify"}
    PROVE  /\ window_frames \in Nat \ {0}
           /\ n \in 1..window_frames /\ before \in Nat
           /\ absolute \in Nat /\ absolute = before + n
           /\ new_features \in Seq(FeatureFrame) /\ Len(new_features) = n
           /\ \A i \in 1..n : new_features[i].number = before + i
  <1>1. n = stride_frames /\ stride_frames \in 1..window_frames
    BY DEF IInv, StartedWell, StoredByNumber, Startups
  <1>2. absolute \in Nat /\ before \in Nat /\ new_features \in Seq(FeatureFrame)
        /\ \A i \in 1..n : new_features[i].number = before + i
    BY DEF IInv, StoredByNumber
  <1>3. absolute = before + n
    BY <1>1, <1>2, LoopAssumption DEF before
  <1> QED BY <1>1, <1>2, <1>3, LoopAssumption DEF n
LEMMA PushStep == ASSUME IInv, Push PROVE IInv'
  <1>1. pc = "push" /\ Window!Push(new_features)
        /\ pc' = IF pushed' THEN "reset" ELSE "failed"
    BY DEF Push, Goto
  <1>2. /\ window_frames \in Nat \ {0}
        /\ n \in 1..window_frames /\ before \in Nat /\ absolute = before + n
        /\ new_features \in Seq(FeatureFrame) /\ Len(new_features) = n
        /\ \A i \in 1..n : new_features[i].number = before + i
    BY <1>1, BlockType
  <1>3. W!PushBlock(new_features)
    BY <1>1, <1>2, PushPart DEF W!Push, W!PushRejected, W!PushMisfit
  <1>4. W!IInv'
    <2>1. /\ Silence \in FeatureFrame
          /\ {} \cap FeatureFrame = {} /\ {} \subseteq Seq(FeatureFrame \cup {})
      BY DEF FeatureFrame
    <2>2. new_features \in Seq(FeatureFrame \cup {}) /\ W!IInv
      BY <1>2 DEF IInv
    <2> QED BY <1>2, <1>3, <2>1, <2>2, W!BlockStep
  <1>5. /\ UNCHANGED <<startup_vars, absolute, new_features, spotter_vars, post_vars,
                       stats_vars, keyword_time, history>>
        /\ n' = n /\ before' = before /\ stride_frames' = stride_frames
    BY DEF Push, n, before, stride_frames, startup_vars
  <1>6. pc' = "reset"
    BY <1>1, <1>3 DEF W!PushBlock
  <1>7. P!IInv' /\ StartedWell'
    BY <1>1, <1>5, <1>6, PostKept DEF IInv, StartedWell, Startups, Places, startup_vars,
                        ThresholdFits
  <1>8. /\ stored' = stored \o new_features /\ newest_frames' = n
        /\ shown' = absolute /\ Len(stored') = absolute
        /\ stored \in Seq(FeatureFrame) /\ Len(stored) = before
    <2>1. stored' = stored \o new_features /\ newest_frames' = n
          /\ shown' = Len(stored')
      BY <1>2, <1>3 DEF W!PushBlock, W!Store
    <2>2. stored \in Seq(FeatureFrame) /\ Len(stored) = before
      BY <1>1 DEF IInv, W!IInv, StoredByNumber
    <2>3. Len(stored') = before + n
      BY <1>2, <2>1, <2>2, ConcatParts
    <2> QED BY <1>2, <2>1, <2>2, <2>3
  <1>9. /\ \A i \in 1..before : stored'[i] = stored[i]
        /\ \A i \in 1..n : stored'[before + i] = new_features[i]
    <2>1. PICK S : S = FeatureFrame
      OBVIOUS
    <2>2. stored \in Seq(S) /\ new_features \in Seq(S)
      BY <1>2, <1>8, <2>1
    <2>3. /\ \A i \in 1..Len(stored) : (stored \o new_features)[i] = stored[i]
          /\ \A i \in 1..Len(new_features) :
                 (stored \o new_features)[Len(stored) + i] = new_features[i]
      BY <2>2, ConcatParts
    <2> QED BY <1>2, <1>8, <2>3, Zenon
  <1>10. \A i \in 1..absolute : stored'[i].number = i
    <2>1. \A i \in 1..before : stored[i].number = i
      BY <1>8 DEF IInv, StoredByNumber
    <2>2. ASSUME NEW i \in 1..absolute PROVE stored'[i].number = i
      <3>1. CASE i =< before
        BY <1>2, <1>9, <2>1, <3>1
      <3>2. CASE i > before
        <4>1. i - before \in 1..n /\ before + (i - before) = i
          BY <1>2, <3>2
        <4> QED BY <1>2, <1>9, <4>1
      <3> QED BY <1>2, <3>1, <3>2
    <2> QED BY <2>2
  <1>11. ASSUME NEW i \in 1..n
         PROVE  window'[window_frames - n + i - 1] = new_features[i]
    <2>1. window_frames - n + i - 1 \in W!Slots
      BY <1>2 DEF W!Slots
    <2>2. \A f \in W!Slots :
              window'[f] = IF shown' - window_frames + 1 + f \in 1..Len(stored')
                             THEN stored'[shown' - window_frames + 1 + f] ELSE Silence
      BY <1>4 DEF W!IInv, W!WindowIsLatest, W!Stored
    <2>3. shown' - window_frames + 1 + (window_frames - n + i - 1) = before + i
          /\ before + i \in 1..absolute
      BY <1>2, <1>8
    <2>4. window'[window_frames - n + i - 1] = stored'[before + i]
      BY <1>8, <2>1, <2>2, <2>3
    <2> QED BY <1>9, <2>4
  <1>12. StoredByNumber'
    BY <1>1, <1>2, <1>5, <1>6, <1>8, <1>10, <1>11 DEF IInv, StoredByNumber, Startups
  <1>13. FedByWindow' /\ Triggered' /\ KeywordTimeIsReal' /\ RearmedByQuiet'
    BY <1>6 DEF FedByWindow, Triggered, KeywordTimeIsReal, RearmedByQuiet
  <1>14. JudgedByNumber'
    <2>1. Through = before /\ Through' = before
      BY <1>1, <1>5, <1>6 DEF Through
    <2> QED BY <1>5, <2>1 DEF IInv, JudgedByNumber, history
  <1>15. Timed'
    BY <1>1, <1>5, <1>6 DEF IInv, Timed, stats_vars, End
  <1>16. QuietIsJudged'
    BY <1>5 DEF IInv, QuietIsJudged, post_vars, history, End
  <1> QED BY <1>4, <1>7, <1>12, <1>13, <1>14, <1>15, <1>16 DEF IInv

LEMMA ResetStep == ASSUME IInv, Reset PROVE IInv'
  <1>1. pc = "reset" /\ pc' = "forward" /\ cache' = <<>>
    BY DEF Reset, Goto, Spotter!Reset
  <1>2. /\ UNCHANGED <<startup_vars, absolute, new_features, window_vars, post_vars,
                       stats_vars, keyword_time, history>>
        /\ n' = n /\ before' = before /\ stride_frames' = stride_frames
    BY DEF Reset, n, before, stride_frames, startup_vars
  <1>3. W!IInv' /\ P!IInv'
    BY <1>2, WindowKept, PostKept DEF IInv
  <1>4. StartedWell'
    BY <1>1, <1>2 DEF IInv, StartedWell, Startups, Places, startup_vars,
                        ThresholdFits
  <1>5. StoredByNumber'
    BY <1>1, <1>2 DEF IInv, StoredByNumber, Startups, window_vars
  <1>6. FedByWindow' /\ Triggered' /\ KeywordTimeIsReal' /\ RearmedByQuiet'
    BY <1>1 DEF FedByWindow, Triggered, KeywordTimeIsReal, RearmedByQuiet
  <1>7. JudgedByNumber'
    <2>1. Through = before /\ Through' = before
      BY <1>1, <1>2 DEF Through
    <2> QED BY <1>2, <2>1 DEF IInv, JudgedByNumber, history
  <1>8. Timed'
    BY <1>1, <1>2 DEF IInv, Timed, stats_vars, End
  <1>9. QuietIsJudged'
    BY <1>2 DEF IInv, QuietIsJudged, post_vars, history, End
  <1> QED BY <1>3, <1>4, <1>5, <1>6, <1>7, <1>8, <1>9 DEF IInv
LEMMA MinLeft ==
    ASSUME NEW a \in Int, NEW b \in Int, a =< b
    PROVE  Min({a, b}) = a /\ Spotter!Min({a, b}) = a
  <1>1. a \in {a, b} /\ \A y \in {a, b} : a =< y
    OBVIOUS
  <1>2. \A x \in {a, b} : (\A y \in {a, b} : x =< y) => x = a
    OBVIOUS
  <1> QED BY <1>1, <1>2 DEF Min, Spotter!Min

\* What the network answers when it answers: the model has its full input, and
\* gives for each frame of it what it says of that frame.
LEMMA ForwardGives ==
    ASSUME IInv, pc = "forward", Spotter!Forward(GetFeatures)
    PROVE  \/ prob' = <<>>
           \/ /\ cache' = GetFeatures
              /\ prob' = [i \in 1..window_frames |-> <<window[i - 1].level>>]
  <1>1. PICK w \in Nat \ {0} : w = window_frames
    BY LoopAssumption
  <1>2. GetFeatures \in Seq(FeatureFrame) /\ Len(GetFeatures) = w
        /\ \A i \in 1..w : GetFeatures[i] = window[i - 1]
    <2>1. \A i \in 1..w : window[i - 1] \in FeatureFrame
      BY <1>1 DEF IInv, W!IInv, W!TypeOK, W!Slots
    <2> QED BY <1>1, <2>1 DEF GetFeatures
  <1>3. Spotter!fixed_frames = w /\ Spotter!output_tensor = 1
        /\ (Spotter!output_frames >= w)
    BY <1>1, ModelAssumption
       DEF IInv, StartedWell, Spotter!fixed_frames, Spotter!output_tensor,
           Spotter!output_frames, Spotter!HasShape
  <1>4. CASE Spotter!Infer(GetFeatures)
    <2>1. cache = <<>>
      BY DEF IInv, FedByWindow
    <2>2. Spotter!Input(GetFeatures) = GetFeatures
      <3>1. Spotter!Input(GetFeatures) = [i \in 1..w |-> GetFeatures[i]]
        BY <1>2, <1>3 DEF Spotter!Input
      <3> QED BY <1>2, <3>1
    <2>3. cache' = GetFeatures
      BY <1>2, <1>4, <2>1, <2>2 DEF Spotter!Infer
    <2>4. Spotter!Min({Len(GetFeatures), Spotter!output_frames}) = w
      <3>1. Spotter!output_frames \in Int
        BY <1>1, ModelAssumption
           DEF IInv, StartedWell, Spotter!output_tensor, Spotter!output_frames,
               Spotter!HasShape
      <3>2. PICK m \in Int : m = Spotter!output_frames /\ w =< m
        BY <1>3, <3>1
      <3>3. Spotter!Min({w, m}) = w
        BY <3>2, MinLeft
      <3> QED BY <1>2, <3>2, <3>3, Zenon
    <2>5. \A i \in 1..w : Last(cache \o SubSeq(GetFeatures, 1, i)) = window[i - 1]
      <3>1. ASSUME NEW i \in 1..w
            PROVE  Last(cache \o SubSeq(GetFeatures, 1, i)) = window[i - 1]
        <4> DEFINE part == SubSeq(GetFeatures, 1, i)
        <4>1. part \in Seq(FeatureFrame) /\ Len(part) = i /\ part[i] = GetFeatures[i]
          BY <1>2
        <4> HIDE DEF part
        <4>2. cache \o part = part
          BY <2>1, <4>1
        <4> QED BY <1>2, <4>1, <4>2 DEF Last, part
      <3> QED BY <3>1
    <2>6. prob' = [i \in 1..w |-> <<Last(cache \o SubSeq(GetFeatures, 1, i)).level>>]
      BY <1>4, <2>2, <2>4 DEF Spotter!Infer, Spotter!Output, Judgement
    <2> QED BY <1>1, <2>3, <2>5, <2>6
  <1>5. CASE Spotter!InferNothing(GetFeatures)
    BY <1>5 DEF Spotter!InferNothing
  <1> QED BY <1>4, <1>5 DEF Spotter!Forward

LEMMA ForwardStep == ASSUME IInv, Forward PROVE IInv'
  <1>1. pc = "forward" /\ pc' = "judge"
    BY DEF Forward, Goto
  <1>2. /\ UNCHANGED <<startup_vars, absolute, new_features, window_vars, post_vars,
                       stats_vars, keyword_time, history>>
        /\ n' = n /\ before' = before /\ stride_frames' = stride_frames
    BY DEF Forward, n, before, stride_frames, startup_vars
  <1>3. W!IInv' /\ P!IInv'
    BY <1>2, WindowKept, PostKept DEF IInv
  <1>4. StartedWell'
    BY <1>1, <1>2 DEF IInv, StartedWell, Startups, Places, startup_vars,
                        ThresholdFits
  <1>5. StoredByNumber'
    BY <1>1, <1>2 DEF IInv, StoredByNumber, Startups, window_vars
  <1>6. FedByWindow'
    <2>1. \/ prob' = <<>>
          \/ /\ cache' = GetFeatures
             /\ prob' = [i \in 1..window_frames |-> <<window[i - 1].level>>]
      BY <1>1, ForwardGives DEF Forward
    <2>2. window' = window /\ GetFeatures' = GetFeatures
      BY <1>2 DEF GetFeatures, window_vars
    <2> QED BY <1>1, <2>1, <2>2 DEF FedByWindow
  <1>7. Triggered' /\ KeywordTimeIsReal' /\ RearmedByQuiet'
    BY <1>1 DEF Triggered, KeywordTimeIsReal, RearmedByQuiet
  <1>8. JudgedByNumber'
    <2>1. Through = before /\ Through' = before
      BY <1>1, <1>2 DEF Through
    <2> QED BY <1>2, <2>1 DEF IInv, JudgedByNumber, history
  <1>9. Timed'
    BY <1>1, <1>2 DEF IInv, Timed, stats_vars, End
  <1>10. QuietIsJudged'
    BY <1>2 DEF IInv, QuietIsJudged, post_vars, history, End
  <1> QED BY <1>3, <1>4, <1>5, <1>6, <1>7, <1>8, <1>9, <1>10 DEF IInv
\* The new frames that Judge looks at: all of them, or none.
Fresh == IF prob = <<>> THEN <<>> ELSE new_features

LEMMA JudgeReads ==
    ASSUME IInv, pc = "judge"
    PROVE  /\ prob \in Seq(P!OutputFrame)
           /\ output_begin = window_frames - n /\ output_begin \in Nat
           /\ output_end = IF prob = <<>> THEN 0 ELSE window_frames
           /\ Len(prob) = output_end
           /\ SubSeq(GetFeatures, output_begin + 1, output_end) = Fresh
           /\ P!Checked(prob, output_begin, output_end)
                = [i \in 1..Len(Fresh) |-> <<Fresh[i].level>>]
  <1>1. PICK w \in Nat \ {0} : w = window_frames
    BY LoopAssumption
  <1>2. PICK b \in 0..(w - 1) : b = w - n /\ n = w - b
    BY <1>1, BlockType
  <1>3. output_begin = b
    BY <1>1, <1>2 DEF IInv, StoredByNumber, output_begin, Window!newest_start
  <1>4. P!Max({0, b}) = b
    BY <1>2, P!MaxOfTwo, WakeWordsAssumption
  <1>5. CASE prob = <<>>
    <2>1. Len(prob) = 0 /\ 0 =< w
      BY <1>1, <1>5
    <2>2. output_end = 0
      <3>1. {window_frames, Len(prob)} = {0, w}
        BY <1>1, <2>1
      <3>2. Min({0, w}) = 0
        BY <2>1, MinLeft
      <3> QED BY <3>1, <3>2 DEF output_end
    <2>3. P!Min({0, 0}) = 0
      BY P!MinOfTwo, WakeWordsAssumption
    <2>4. Fresh = <<>>
      BY <1>5 DEF Fresh
    <2>5. SubSeq(GetFeatures, b + 1, 0) = <<>>
      BY <1>2
    <2>6. SubSeq(prob, b + 1, 0) = <<>>
      BY <1>2
    <2>7. P!Checked(prob, b, 0) = <<>>
      BY <1>4, <2>1, <2>3, <2>6 DEF P!Checked
    <2>8. [i \in 1..Len(<<>>) |-> <<(<<>>)[i].level>>] = <<>>
      OBVIOUS
    <2>9. prob \in Seq(P!OutputFrame)
      BY <1>5
    <2> QED BY <1>1, <1>2, <1>3, <1>5, <2>1, <2>2, <2>4, <2>5, <2>7, <2>8, <2>9
  <1>6. CASE prob # <<>>
    <2>1. prob = [i \in 1..w |-> <<window[i - 1].level>>]
      BY <1>1, <1>6 DEF IInv, FedByWindow
    <2>2. Len(prob) = w
      BY <2>1
    <2>3. output_end = w /\ P!Min({w, w}) = w
      BY <1>1, <2>2, MinLeft, P!MinOfTwo, WakeWordsAssumption DEF output_end
    <2>4. Fresh = new_features /\ Len(Fresh) = n /\ new_features \in Seq(FeatureFrame)
      BY <1>6, BlockType DEF Fresh
    <2>5. \A i \in 1..n : window[b + i - 1] = new_features[i]
      BY <1>1, <1>2 DEF IInv, StoredByNumber
    <2>6. \A i \in 1..w : window[i - 1] \in FeatureFrame
      BY <1>1 DEF IInv, W!IInv, W!TypeOK, W!Slots
    <2>7. prob \in Seq(P!OutputFrame)
      <3>1. \A i \in 1..w : <<window[i - 1].level>> \in P!OutputFrame
        BY <2>6, FrameType DEF P!OutputFrame
      <3> QED BY <2>1, <3>1
    <2>8. SubSeq(GetFeatures, b + 1, w) = new_features
      <3>1. GetFeatures = [i \in 1..w |-> window[i - 1]]
        BY <1>1 DEF GetFeatures
      <3>2. GetFeatures \in Seq(FeatureFrame) /\ Len(GetFeatures) = w
        BY <2>6, <3>1
      <3>3. SubSeq(GetFeatures, b + 1, w) = [i \in 1..n |-> GetFeatures[b + i]]
        BY <1>2, <3>2
      <3>4. \A i \in 1..n : GetFeatures[b + i] = new_features[i]
        BY <1>2, <2>5, <3>1
      <3>5. new_features = [i \in 1..n |-> new_features[i]]
        BY <2>4
      <3> QED BY <3>3, <3>4, <3>5
    <2>9. SubSeq(prob, b + 1, w) = [i \in 1..n |-> <<new_features[i].level>>]
      <3>1. SubSeq(prob, b + 1, w) = [i \in 1..n |-> prob[b + i]]
        BY <1>2, <2>2, <2>7
      <3>2. \A i \in 1..n : prob[b + i] = <<new_features[i].level>>
        BY <1>2, <2>1, <2>5
      <3> QED BY <3>1, <3>2
    <2>10. P!Checked(prob, b, w) = SubSeq(prob, b + 1, w)
      BY <1>4, <2>2, <2>3 DEF P!Checked
    <2>11. P!Checked(prob, output_begin, output_end)
             = [i \in 1..Len(Fresh) |-> <<Fresh[i].level>>]
      <3>1. P!Checked(prob, output_begin, output_end) = P!Checked(prob, b, w)
        BY <1>3, <2>3
      <3> QED BY <2>4, <2>9, <2>10, <3>1, Zenon
    <2>12. SubSeq(GetFeatures, output_begin + 1, output_end) = Fresh
      BY <1>3, <2>3, <2>4, <2>8, Zenon
    <2> QED BY <1>1, <1>2, <1>3, <1>6, <2>2, <2>3, <2>7, <2>11, <2>12
  <1> QED BY <1>5, <1>6
LEMMA FreshFrames ==
    ASSUME IInv, Judge
    PROVE  /\ judged' = judged \o Fresh /\ Fresh \in Seq(FeatureFrame)
           /\ Len(Fresh) \in 0..n /\ lost' = lost + n - Len(Fresh)
           /\ \A i \in 1..Len(Fresh) : Fresh[i].number = before + i
  <1>1. pc = "judge"
    BY DEF Judge, Goto
  <1>2. /\ n \in Nat /\ new_features \in Seq(FeatureFrame) /\ Len(new_features) = n
        /\ \A i \in 1..n : new_features[i].number = before + i
    BY <1>1, BlockType
  <1>3. judged' = judged \o Fresh
    BY <1>1, JudgeReads DEF Judge
  <1>4. lost \in Nat /\ lost' = lost + IF prob = <<>> THEN Len(new_features) ELSE 0
    BY DEF IInv, JudgedByNumber, Judge
  <1>5. /\ Fresh \in Seq(FeatureFrame)
        /\ Len(Fresh) = IF prob = <<>> THEN 0 ELSE n
    BY <1>2 DEF Fresh
  <1>6. Len(Fresh) \in 0..n /\ lost' = lost + n - Len(Fresh)
    BY <1>2, <1>4, <1>5
  <1>7. \A i \in 1..Len(Fresh) : Fresh[i].number = before + i
    <2>1. CASE prob = <<>>
      <3>1. 1..Len(Fresh) = {}
        BY <1>5, <2>1
      <3> QED BY <3>1
    <2>2. CASE prob # <<>>
      BY <1>2, <2>2 DEF Fresh
    <2> QED BY <2>1, <2>2
  <1> QED BY <1>3, <1>5, <1>6, <1>7, Zenon

LEMMA JudgeNumbers ==
    ASSUME IInv, Judge
    PROVE  JudgedByNumber'
  <1>1. pc = "judge" /\ pc' = "record" /\ UNCHANGED <<absolute, new_features>>
    BY DEF Judge, Goto
  <1>2. PICK m \in 0..n : m = Len(Fresh)
    BY FreshFrames
  <1>3. /\ before \in Nat /\ n \in Nat /\ absolute = before + n
    BY <1>1, BlockType
  <1>4. Through = before /\ Through' = before + n
    BY <1>1, <1>3 DEF Through
  <1>5. PICK J \in Nat : J = Len(judged)
    BY DEF IInv, JudgedByNumber
  <1>6. /\ judged \in Seq(FeatureFrame) /\ lost \in Nat
        /\ \A i \in 1..J : judged[i].number \in 1..before
        /\ \A i, j \in 1..J : i < j => judged[i].number < judged[j].number
        /\ J + lost = before
    BY <1>4, <1>5 DEF IInv, JudgedByNumber
  <1>7. /\ judged' \in Seq(FeatureFrame) /\ Len(judged') = J + m
        /\ \A i \in 1..J : judged'[i] = judged[i]
        /\ \A i \in 1..m : judged'[J + i] = Fresh[i]
    <2>1. Fresh \in Seq(FeatureFrame) /\ judged' = judged \o Fresh
      BY FreshFrames
    <2>2. /\ judged \o Fresh \in Seq(FeatureFrame)
          /\ Len(judged \o Fresh) = Len(judged) + Len(Fresh)
          /\ \A i \in 1..Len(judged) : (judged \o Fresh)[i] = judged[i]
          /\ \A i \in 1..Len(Fresh) : (judged \o Fresh)[Len(judged) + i] = Fresh[i]
      BY <1>6, <2>1, ConcatParts
    <2> QED BY <1>2, <1>5, <2>1, <2>2
  <1>8. \A i \in (J + 1)..(J + m) : judged'[i].number = before + (i - J)
    <2>1. ASSUME NEW i \in (J + 1)..(J + m)
          PROVE  judged'[i].number = before + (i - J)
      <3>1. i - J \in 1..m /\ J + (i - J) = i
        BY <1>2
      <3> QED BY <1>2, <1>7, <3>1, FreshFrames
    <2> QED BY <2>1
  <1>9. \A i \in 1..(J + m) : judged'[i].number \in 1..(before + n)
    <2>1. ASSUME NEW i \in 1..(J + m) PROVE judged'[i].number \in 1..(before + n)
      <3>1. CASE i =< J
        <4>1. judged'[i].number \in 1..before
          BY <1>6, <1>7, <3>1
        <4> QED BY <1>3, <4>1
      <3>2. CASE i > J
        <4>1. judged'[i].number = before + (i - J) /\ i - J \in 1..m
          BY <1>2, <1>8, <3>2
        <4> QED BY <1>2, <1>3, <4>1
      <3> QED BY <1>2, <3>1, <3>2
    <2> QED BY <2>1
  <1>10. \A i, j \in 1..(J + m) : i < j => judged'[i].number < judged'[j].number
    <2>1. ASSUME NEW i \in 1..(J + m), NEW j \in 1..(J + m), i < j
          PROVE  judged'[i].number < judged'[j].number
      <3>1. CASE j =< J
        BY <1>2, <1>6, <1>7, <2>1, <3>1
      <3>2. CASE i =< J /\ j > J
        <4>1. judged'[i].number \in 1..before
          BY <1>6, <1>7, <3>2
        <4>2. judged'[j].number = before + (j - J) /\ j - J \in 1..m
          BY <1>2, <1>8, <3>2
        <4> QED BY <1>2, <1>3, <4>1, <4>2
      <3>3. CASE i > J
        <4>1. judged'[i].number = before + (i - J) /\ judged'[j].number = before + (j - J)
          BY <1>2, <1>8, <2>1, <3>3
        <4> QED BY <1>2, <1>3, <2>1, <4>1
      <3> QED BY <1>2, <2>1, <3>1, <3>2, <3>3
    <2> QED BY <2>1
  <1>11. lost' \in Nat /\ J + m + lost' = before + n
    <2>1. lost' = lost + n - m
      BY <1>2, FreshFrames
    <2> QED BY <1>2, <1>3, <1>6, <2>1
  <1> QED BY <1>4, <1>7, <1>9, <1>10, <1>11 DEF JudgedByNumber

\* The quiet time with the new frames is the last of what was judged.
LEMMA JudgeHeard ==
    ASSUME IInv, Judge,
           NEW frames, frames = quiet \o P!Checked(prob, output_begin, output_end)
    PROVE  /\ Len(frames) \in 0..Len(judged')
           /\ \A i \in 1..Len(frames) :
                  LET frame == judged'[Len(judged') - Len(frames) + i]
                  IN  /\ frames[i] = <<frame.level>> /\ frame \in FeatureFrame
                      /\ keyword_time < End(frame.number)
  <1>1. pc = "judge"
    BY DEF Judge, Goto
  <1>2. PICK m \in 0..n : m = Len(Fresh)
    BY FreshFrames
  <1>3. PICK J \in Nat : J = Len(judged)
    BY DEF IInv, JudgedByNumber
  <1>4. PICK q \in 0..J : q = Len(quiet)
    BY <1>3 DEF IInv, QuietIsJudged, P!IInv
  <1>5. /\ n \in Nat /\ before \in Nat
        /\ judged \in Seq(FeatureFrame) /\ judged' \in Seq(FeatureFrame)
        /\ Len(judged') = J + m
        /\ \A i \in 1..J : judged'[i] = judged[i]
        /\ \A i \in 1..m : judged'[J + i] = Fresh[i]
    <2>1. judged \in Seq(FeatureFrame) /\ n \in Nat /\ before \in Nat
      BY <1>1, BlockType DEF IInv, JudgedByNumber
    <2>2. Fresh \in Seq(FeatureFrame) /\ judged' = judged \o Fresh
      BY FreshFrames
    <2>3. /\ judged \o Fresh \in Seq(FeatureFrame)
          /\ Len(judged \o Fresh) = Len(judged) + Len(Fresh)
          /\ \A i \in 1..Len(judged) : (judged \o Fresh)[i] = judged[i]
          /\ \A i \in 1..Len(Fresh) : (judged \o Fresh)[Len(judged) + i] = Fresh[i]
      BY <2>1, <2>2, ConcatParts
    <2> QED BY <1>2, <1>3, <2>1, <2>2, <2>3
  <1> DEFINE new == P!Checked(prob, output_begin, output_end)
  <1>6. /\ new \in Seq(P!OutputFrame) /\ Len(new) = m
        /\ \A i \in 1..m : new[i] = <<Fresh[i].level>>
    <2>1. new = [i \in 1..m |-> <<Fresh[i].level>>]
      BY <1>1, <1>2, JudgeReads
    <2>2. \A i \in 1..m : <<Fresh[i].level>> \in P!OutputFrame
      BY <1>2, FreshFrames, FrameType DEF P!OutputFrame
    <2> HIDE DEF new
    <2> QED BY <1>2, <1>5, <2>1, <2>2
  <1> HIDE DEF new
  <1>7. /\ Len(frames) = q + m
        /\ \A i \in 1..q : frames[i] = quiet[i]
        /\ \A i \in 1..m : frames[q + i] = new[i]
    <2>1. quiet \in Seq(P!OutputFrame) /\ frames = quiet \o new
      BY DEF IInv, P!IInv, new
    <2>2. /\ Len(quiet \o new) = Len(quiet) + Len(new)
          /\ \A i \in 1..Len(quiet) : (quiet \o new)[i] = quiet[i]
          /\ \A i \in 1..Len(new) : (quiet \o new)[Len(quiet) + i] = new[i]
      <3>1. PICK S : S = P!OutputFrame
        OBVIOUS
      <3>2. quiet \in Seq(S) /\ new \in Seq(S)
        BY <1>6, <2>1, <3>1
      <3> QED BY <3>2, ConcatParts
    <2> QED BY <1>4, <1>6, <2>1, <2>2
  <1>8. ASSUME NEW i \in 1..(q + m)
        PROVE  LET frame == judged'[(J + m) - (q + m) + i]
               IN  /\ frames[i] = <<frame.level>> /\ frame \in FeatureFrame
                   /\ keyword_time < End(frame.number)
    <2> SUFFICES /\ frames[i] = <<judged'[J - q + i].level>>
                 /\ judged'[J - q + i] \in FeatureFrame
                 /\ keyword_time < End(judged'[J - q + i].number)
      <3>1. (J + m) - (q + m) + i = J - q + i
        BY <1>2, <1>5
      <3> QED BY <3>1
    <2> m \in Nat
      BY <1>2, <1>5
    <2>1. (J + m) - (q + m) + i = J - q + i /\ J - q + i \in 1..(J + m)
      OBVIOUS
    <2>2. judged'[J - q + i] \in FeatureFrame
      BY <1>5, <2>1
    <2>3. CASE i =< q
      <3>1. J - q + i \in 1..J /\ i \in 1..q
        BY <2>1, <2>3
      <3>2. /\ quiet[i] = <<judged[J - q + i].level>>
            /\ keyword_time < End(judged[J - q + i].number)
        BY <1>3, <1>4, <3>1 DEF IInv, QuietIsJudged
      <3>3. frames[i] = quiet[i] /\ judged'[J - q + i] = judged[J - q + i]
        BY <1>5, <1>7, <3>1
      <3> QED BY <2>2, <3>2, <3>3
    <2>4. CASE i > q
      <3>1. PICK j \in 1..m : j = i - q /\ q + j = i /\ J + j = J - q + i
        <4>1. i - q \in 1..m /\ q + (i - q) = i /\ J + (i - q) = J - q + i
          BY <2>4
        <4> QED BY <4>1
      <3>2. frames[i] = <<Fresh[j].level>> /\ judged'[J - q + i] = Fresh[j]
        BY <1>5, <1>6, <1>7, <3>1
      <3>3. Fresh[j].number = before + j
        BY <1>2, <3>1, FreshFrames
      <3>4. keyword_time \in Int /\ keyword_time < End(before + 1)
        BY <1>1 DEF IInv, Timed
      <3>5. keyword_time < End(before + j)
        <4>1. before + 1 \in Int /\ before + j \in Int
              /\ (before + j = before + 1 \/ before + 1 < before + j)
          BY <1>2, <1>5
        <4>2. /\ End(before + 1) \in Int /\ End(before + j) \in Int
              /\ before + 1 < before + j => End(before + 1) < End(before + j)
          BY <4>1, EndMonotone
        <4>3. CASE before + j = before + 1
          BY <3>4, <4>3
        <4>4. CASE before + 1 < before + j
          BY <3>4, <4>2, <4>4
        <4> QED BY <4>1, <4>3, <4>4
      <3>6. frames[i] = <<judged'[J - q + i].level>>
        BY <3>2
      <3>7. keyword_time < End(judged'[J - q + i].number)
        BY <3>2, <3>3, <3>5, Zenon
      <3> QED BY <2>2, <3>6, <3>7, Zenon
    <2>5. i =< q \/ i > q
      BY <1>2
    <2> QED BY <2>3, <2>4, <2>5, Zenon
  <1>9. Len(judged') = J + m /\ Len(frames) = q + m /\ Len(frames) \in 0..Len(judged')
    BY <1>2, <1>4, <1>5, <1>7
  <1> QED BY <1>8, <1>9, Zenon

\* What the postprocessor takes from the new frames.
LEMMA JudgeQuiet ==
    ASSUME IInv, Judge
    PROVE  /\ P!IInv' /\ QuietIsJudged' /\ RearmedByQuiet'
           /\ result'.triggered # 0 => quiet' = <<>>
  <1>1. /\ pc = "judge" /\ pc' = "record" /\ keyword_time' = keyword_time
        /\ options' = options
    BY DEF Judge, Goto, startup_vars
  <1>2. P!IInv /\ P!Process(prob, output_begin, output_end)
        /\ prob \in Seq(P!OutputFrame) /\ output_begin \in Int /\ output_end \in Int
    <2>1. P!Process(prob, output_begin, output_end)
      BY ProcessPart DEF Judge
    <2>2. prob \in Seq(P!OutputFrame) /\ output_begin \in Nat /\ Len(prob) = output_end
      BY <1>1, JudgeReads
    <2> QED BY <2>1, <2>2 DEF IInv
  <1>3. PICK frames : frames = quiet \o P!Checked(prob, output_begin, output_end)
    OBVIOUS
  <1>4. /\ P!IInv' /\ quiet' \in {<<>>, frames}
        /\ result'.triggered # 0 => quiet' = <<>>
        /\ result'.rearmed =>
             /\ Len(frames) >= ReleaseLow
             /\ \A i \in (Len(frames) - ReleaseLow + 1)..Len(frames) : P!IsLow(frames[i])
    BY <1>2, <1>3, WakeWordsAssumption, P!QuietStep
  <1>5. PICK J \in Nat : J = Len(judged')
    BY JudgeNumbers DEF JudgedByNumber
  <1>6. PICK q \in 0..J : q = Len(frames)
    BY <1>3, <1>5, JudgeHeard
  <1>7. \A i \in 1..q : /\ frames[i] = <<judged'[J - q + i].level>>
                        /\ judged'[J - q + i] \in FeatureFrame
                        /\ keyword_time < End(judged'[J - q + i].number)
    BY <1>3, <1>5, <1>6, JudgeHeard
  <1>8. QuietIsJudged'
    <2>1. CASE quiet' = <<>>
      BY <1>5, <2>1 DEF QuietIsJudged
    <2>2. CASE quiet' = frames
      <3>1. Len(quiet') = q
        BY <1>6, <2>2
      <3>2. \A i \in 1..q :
                /\ quiet'[i] = <<judged'[J - q + i].level>>
                /\ keyword_time' < End(judged'[J - q + i].number)
        BY <1>1, <1>7, <2>2
      <3>3. Len(quiet') =< Len(judged')
        BY <1>5, <1>6, <3>1
      <3>4. \A i \in 1..Len(quiet') :
                /\ quiet'[i] = <<judged'[Len(judged') - Len(quiet') + i].level>>
                /\ keyword_time' < End(judged'[Len(judged') - Len(quiet') + i].number)
        BY <1>5, <3>1, <3>2, Zenon
      <3> QED BY <3>3, <3>4, Zenon DEF QuietIsJudged, End
    <2> QED BY <1>4, <2>1, <2>2
  <1>9. RearmedByQuiet'
    <2> SUFFICES ASSUME result'.rearmed
                 PROVE  /\ J >= ReleaseLow
                        /\ \A i \in (J - ReleaseLow + 1)..J :
                               /\ judged'[i].level < Release
                               /\ judged'[i].level < options.threshold
                               /\ keyword_time < End(judged'[i].number)
      BY <1>1, <1>5 DEF RearmedByQuiet, End
    <2>1. q >= ReleaseLow /\ ReleaseLow \in Nat
      BY <1>4, <1>6, WakeWordsAssumption
    <2>2. ASSUME NEW i \in (J - ReleaseLow + 1)..J
          PROVE  /\ judged'[i].level < Release
                 /\ keyword_time < End(judged'[i].number)
      <3>1. PICK j \in (q - ReleaseLow + 1)..q : j = i - J + q
        <4>1. i - J + q \in (q - ReleaseLow + 1)..q
          BY <1>6, <2>1
        <4> QED BY <4>1
      <3>2. j \in 1..q /\ J - q + j = i
        BY <1>6, <2>1, <3>1
      <3>3. P!IsLow(<<judged'[i].level>>)
        BY <1>4, <1>6, <1>7, <3>1, <3>2
      <3>4. 1 \in P!Keywords
        BY WakeWordsAssumption DEF P!Keywords
      <3>5. judged'[i].level < Release
        BY <3>3, <3>4 DEF P!IsLow
      <3> QED BY <1>7, <3>2, <3>5
    <2>3. ASSUME NEW level \in Nat, level < Release PROVE level < options.threshold
      <3>1. ThresholdFits /\ options \in Options
        BY <1>1 DEF IInv, StartedWell
      <3>2. options.threshold \in Nat /\ Release \in Nat
        BY <3>1, LoopAssumption, WakeWordsAssumption
      <3> QED BY <2>3, <3>1, <3>2 DEF ThresholdFits
    <2>4. ASSUME NEW i \in (J - ReleaseLow + 1)..J
          PROVE  judged'[i].level < options.threshold
      <3>1. i \in 1..J /\ i = J - q + (i - J + q) /\ i - J + q \in 1..q
        BY <1>6, <2>1
      <3>2. judged'[i] \in FeatureFrame
        BY <1>7, <3>1
      <3>3. judged'[i].level \in Nat
        BY <3>2, FrameType, WakeWordsAssumption
      <3> QED BY <2>2, <2>3, <3>3
    <2> QED BY <1>6, <2>1, <2>2, <2>4
  <1> QED BY <1>4, <1>8, <1>9

\* A wake word that the postprocessor finds is in one of the new frames.
LEMMA JudgeTriggers ==
    ASSUME IInv, Judge
    PROVE  Triggered'
  <1>1. /\ pc = "judge" /\ pc' = "record"
        /\ UNCHANGED <<absolute, new_features, window_vars>>
        /\ n' = n
    BY DEF Judge, Goto, n
  <1>2. newest_frames' = n
    BY <1>1 DEF IInv, StoredByNumber, window_vars
  <1> SUFFICES ASSUME result'.triggered # 0
               PROVE  \E i \in 1..n :
                 /\ result'.frames[result'.triggered] = window_frames - n + i - 1
                 /\ new_features[i].level = result'.scores[result'.triggered]
                 /\ \A j \in 1..(i - 1) :
                        new_features[j].level < result'.scores[result'.triggered]
    BY <1>1, <1>2, JudgeQuiet DEF Triggered
  <1>3. PICK k : k = result'.triggered
    OBVIOUS
  <1>4. PICK block : block = P!Checked(prob, output_begin, output_end)
    OBVIOUS
  <1>5. /\ window_frames \in Nat \ {0} /\ n \in 1..window_frames
        /\ new_features \in Seq(FeatureFrame) /\ Len(new_features) = n
    BY <1>1, BlockType
  <1>6. PICK b \in Nat : b = output_begin /\ b = window_frames - n
    BY <1>1, JudgeReads
  <1>7. block = [i \in 1..Len(Fresh) |-> <<Fresh[i].level>>]
    BY <1>1, <1>4, JudgeReads
  <1>8. block \in Seq(P!OutputFrame) /\ Len(block) = Len(Fresh)
    <2>1. Fresh \in Seq(FeatureFrame) /\ Len(Fresh) \in Nat
      BY FreshFrames
    <2>2. \A i \in 1..Len(Fresh) : <<Fresh[i].level>> \in P!OutputFrame
      BY <2>1, FrameType DEF P!OutputFrame
    <2> QED BY <1>7, <2>1, <2>2
  <1>9. /\ k \in P!Keywords /\ P!BestScore(block, k) > 0
        /\ result'.scores[k] = P!BestScore(block, k)
        /\ result'.frames[k] = P!BestFrame(block, b, k)
    <2>1. P!IInv /\ P!Process(prob, output_begin, output_end)
      BY ProcessPart DEF IInv, Judge
    <2>2. prob \in Seq(P!OutputFrame) /\ output_begin \in Int /\ output_end \in Int
      <3>1. prob \in Seq(P!OutputFrame) /\ output_begin \in Nat
            /\ Len(prob) = output_end
        BY <1>1, JudgeReads
      <3> QED BY <3>1
    <2>3. LET seen == P!Checked(prob, output_begin, output_end)
              word == result'.triggered
          IN  /\ word \in P!Keywords /\ P!BestScore(seen, word) > 0
              /\ result'.scores[word] = P!BestScore(seen, word)
              /\ result'.frames[word] = P!BestFrame(seen, output_begin, word)
      BY <2>1, <2>2, WakeWordsAssumption, P!TriggerStep
    <2> QED BY <1>3, <1>4, <1>6, <2>3
  <1>10. PICK i \in 1..Len(block) :
             /\ \A begin \in Int :
                    P!BestFrame(block, begin, k) = P!Max({0, begin}) - 1 + i
             /\ P!Score(block[i], k) = P!BestScore(block, k)
             /\ \A j \in 1..(i - 1) : P!Score(block[j], k) < P!BestScore(block, k)
    BY <1>8, <1>9, WakeWordsAssumption, P!BestFrameBounds
  <1>11. Fresh = new_features /\ Len(block) = n
    <2>1. prob # <<>>
      <3>1. SUFFICES ASSUME prob = <<>> PROVE FALSE
        OBVIOUS
      <3>2. Fresh = <<>>
        BY <3>1 DEF Fresh
      <3> QED BY <1>8, <1>10, <3>2
    <2> QED BY <1>5, <1>8, <2>1 DEF Fresh
  <1>12. \A j \in 1..n : block[j] = <<new_features[j].level>>
    BY <1>7, <1>11
  <1>13. k = 1
    <2>1. P!Score(block[i], k) > 0 /\ k \in Nat \ {0}
      BY <1>9, <1>10, WakeWordsAssumption DEF P!Keywords
    <2>2. Len(block[i]) = 1
      <3>1. block[i] = <<new_features[i].level>>
        BY <1>10, <1>11, <1>12
      <3> QED BY <3>1
    <2> QED BY <2>1, <2>2 DEF P!Score
  <1>14. \A j \in 1..n : P!Score(block[j], k) = new_features[j].level
    BY <1>12, <1>13 DEF P!Score
  <1>15. P!Max({0, b}) = b
    BY <1>6, P!MaxOfTwo, WakeWordsAssumption
  <1>16. result'.frames[k] = window_frames - n + i - 1
    BY <1>6, <1>9, <1>10, <1>15
  <1>17. new_features[i].level = result'.scores[k]
    BY <1>9, <1>10, <1>11, <1>14
  <1>18. \A j \in 1..(i - 1) : new_features[j].level < result'.scores[k]
    <2>1. \A j \in 1..(i - 1) : j \in 1..n
      BY <1>5, <1>10, <1>11
    <2> QED BY <1>9, <1>10, <1>14, <2>1
  <1> QED BY <1>3, <1>10, <1>11, <1>16, <1>17, <1>18, Zenon

LEMMA JudgeStep == ASSUME IInv, Judge PROVE IInv'
  <1>1. pc = "judge" /\ pc' = "record"
    BY DEF Judge, Goto
  <1>2. /\ UNCHANGED <<startup_vars, absolute, new_features, window_vars, spotter_vars,
                       stats_vars, keyword_time>>
        /\ n' = n /\ before' = before /\ stride_frames' = stride_frames
    BY DEF Judge, n, before, stride_frames, startup_vars
  <1>3. W!IInv'
    BY <1>2, WindowKept DEF IInv
  <1>4. P!IInv' /\ QuietIsJudged' /\ RearmedByQuiet'
    BY JudgeQuiet
  <1>5. StartedWell'
    BY <1>1, <1>2 DEF IInv, StartedWell, Startups, Places, startup_vars,
                        ThresholdFits
  <1>6. StoredByNumber'
    BY <1>1, <1>2 DEF IInv, StoredByNumber, Startups, window_vars
  <1>7. FedByWindow' /\ KeywordTimeIsReal'
    BY <1>1 DEF FedByWindow, KeywordTimeIsReal
  <1>8. Timed'
    BY <1>1, <1>2 DEF IInv, Timed, stats_vars, End
  <1> QED BY <1>3, <1>4, <1>5, <1>6, <1>7, <1>8, JudgeNumbers, JudgeTriggers DEF IInv
-----------------------------------------------------------------------------
(* After a block.                                                          *)

LEMMA RecordStep == ASSUME IInv, Record PROVE IInv'
  <1>1. /\ pc = "record" /\ pc' \in {"report", "read"}
        /\ pc' = "report" => result.triggered # 0
    BY DEF Record, Goto
  <1>2. /\ UNCHANGED <<startup_vars, absolute, new_features, window_vars, spotter_vars,
                       post_vars, keyword_time, history>>
        /\ n' = n /\ before' = before /\ stride_frames' = stride_frames
    BY DEF Record, n, before, stride_frames, startup_vars
  <1>3. n \in Nat /\ before \in Nat /\ absolute = before + n /\ Len(new_features) = n
    BY <1>1, BlockType
  <1>4. W!IInv' /\ P!IInv'
    BY <1>2, WindowKept, PostKept DEF IInv
  <1>5. StartedWell'
    BY <1>1, <1>2 DEF IInv, StartedWell, Startups, Places, startup_vars,
                        ThresholdFits
  <1>6. StoredByNumber'
    BY <1>1, <1>2 DEF IInv, StoredByNumber, Startups, window_vars
  <1>7. FedByWindow' /\ KeywordTimeIsReal' /\ RearmedByQuiet'
    BY <1>1 DEF FedByWindow, KeywordTimeIsReal, RearmedByQuiet
  <1>8. JudgedByNumber'
    <2>1. Through = absolute /\ Through' = absolute
      BY <1>1, <1>2 DEF Through
    <2> QED BY <1>2, <2>1 DEF IInv, JudgedByNumber, history
  <1>9. Triggered'
    BY <1>1, <1>2 DEF IInv, Triggered, window_vars, post_vars
  <1>10. Timed'
    <2>1. processed_frames = before /\ keyword_time \in Int
          /\ keyword_time < End(before + 1)
      BY <1>1 DEF IInv, Timed
    <2>2. processed_frames' = absolute /\ first_new_absolute_frame' = before
      BY <1>3, <2>1 DEF Record, FirstNew
    <2>3. keyword_time < End(absolute + 1)
      <3>1. before + 1 \in Int /\ absolute + 1 \in Int
            /\ (absolute = before \/ before + 1 < absolute + 1)
        BY <1>3
      <3>2. /\ End(before + 1) \in Int /\ End(absolute + 1) \in Int
            /\ before + 1 < absolute + 1 => End(before + 1) < End(absolute + 1)
        BY <3>1, EndMonotone
      <3>3. CASE absolute = before
        BY <2>1, <3>3
      <3>4. CASE before + 1 < absolute + 1
        BY <2>1, <3>2, <3>4
      <3> QED BY <3>1, <3>3, <3>4
    <2>4. End(processed_frames' + 1) = End(absolute + 1)
      BY <2>2
    <2>5. keyword_time' < End(processed_frames' + 1) /\ keyword_time' \in Int
      BY <1>2, <2>1, <2>3, <2>4
    <2> QED BY <1>1, <1>2, <2>2, <2>5 DEF Timed, End
  <1>11. QuietIsJudged'
    BY <1>2 DEF IInv, QuietIsJudged, post_vars, history, End
  <1> QED BY <1>4, <1>5, <1>6, <1>7, <1>8, <1>9, <1>10, <1>11 DEF IInv

LEMMA ReportStep == ASSUME IInv, Report PROVE IInv'
  <1>1. pc = "report" /\ pc' = "notify"
    BY DEF Report, Goto
  <1>2. /\ UNCHANGED <<startup_vars, absolute, new_features, window_vars, spotter_vars,
                       post_vars, stats_vars, history>>
        /\ n' = n /\ before' = before /\ stride_frames' = stride_frames
    BY DEF Report, n, before, stride_frames, startup_vars
  <1>3. PICK w \in Nat \ {0} : w = window_frames
    BY LoopAssumption
  <1>4. /\ n \in 1..w /\ before \in Nat /\ absolute = before + n
        /\ Len(new_features) = n
        /\ \A i \in 1..n : new_features[i].number = before + i
    BY <1>1, <1>3, BlockType
  <1>5. PICK k : k = result.triggered
    OBVIOUS
  <1>6. result.triggered # 0 /\ quiet = <<>>
    BY <1>1 DEF IInv, Triggered
  <1>7. PICK i \in 1..n :
            /\ result.frames[k] = w - n + i - 1
            /\ newest_frames = n
            /\ new_features[i].level = result.scores[k]
            /\ \A j \in 1..(i - 1) : new_features[j].level < result.scores[k]
    BY <1>1, <1>3, <1>5, <1>6 DEF IInv, Triggered
  <1>8. keyword_time' = End(before + i)
    <2>1. output_begin = w - n
      BY <1>3, <1>7 DEF output_begin, Window!newest_start
    <2>2. first_new_absolute_frame = before
      BY <1>1 DEF IInv, Timed
    <2>3. keyword_time' = FrameAudio(w - n + i - 1, w - n)
      BY <1>5, <1>7, <2>1 DEF Report
    <2>4. ~(w - n + i - 1 < w - n)
          /\ before + (w - n + i - 1) - (w - n) = before + i - 1
      BY <1>4
    <2>5. FrameAudio(w - n + i - 1, w - n)
            = frame_length + (before + i - 1) * frame_shift
      BY <2>2, <2>4 DEF FrameAudio
    <2>6. End(before + i) = frame_length + (before + i - 1) * frame_shift
      <3>1. (before + i) - 1 = before + i - 1
        BY <1>4
      <3> QED BY <3>1 DEF End
    <2> QED BY <1>3, <2>3, <2>5, <2>6
  <1>9. keyword_time' \in Int /\ keyword_time' < End(absolute + 1)
    <2>1. before + i \in Int /\ absolute + 1 \in Int /\ before + i < absolute + 1
      BY <1>4
    <2> QED BY <1>8, <2>1, EndMonotone
  <1>10. W!IInv' /\ P!IInv'
    BY <1>2, WindowKept, PostKept DEF IInv
  <1>11. StartedWell'
    BY <1>1, <1>2 DEF IInv, StartedWell, Startups, Places, startup_vars,
                        ThresholdFits
  <1>12. StoredByNumber'
    BY <1>1, <1>2 DEF IInv, StoredByNumber, Startups, window_vars
  <1>13. FedByWindow' /\ RearmedByQuiet'
    BY <1>1 DEF FedByWindow, RearmedByQuiet
  <1>14. JudgedByNumber'
    <2>1. Through = absolute /\ Through' = absolute
      BY <1>1, <1>2 DEF Through
    <2> QED BY <1>2, <2>1 DEF IInv, JudgedByNumber, history
  <1>15. Triggered'
    BY <1>1, <1>2 DEF IInv, Triggered, window_vars, post_vars
  <1>16. Timed'
    <2>1. processed_frames = absolute
      BY <1>1 DEF IInv, Timed
    <2> QED BY <1>1, <1>2, <1>9, <2>1 DEF Timed, stats_vars, End
  <1>17. QuietIsJudged'
    <2>1. quiet' = <<>> /\ Len(judged') \in Nat
      BY <1>2, <1>6 DEF IInv, JudgedByNumber, post_vars, history
    <2> QED BY <2>1 DEF QuietIsJudged
  <1>18. KeywordTimeIsReal'
    <2>1. /\ keyword_time' = frame_length + (new_features[i].number - 1) * frame_shift
          /\ new_features[i].level = result.scores[k]
          /\ \A j \in 1..(i - 1) : new_features[j].level < result.scores[k]
      BY <1>4, <1>7, <1>8 DEF End
    <2>2. result' = result /\ new_features' = new_features
      BY <1>2 DEF post_vars
    <2> QED BY <1>4, <1>5, <2>1, <2>2, Zenon DEF KeywordTimeIsReal
  <1> QED BY <1>10, <1>11, <1>12, <1>13, <1>14, <1>15, <1>16, <1>17, <1>18 DEF IInv

LEMMA NextInv == IInv /\ [Next]_vars => IInv'
  <1> SUFFICES ASSUME IInv, [Next]_vars PROVE IInv'
    OBVIOUS
  <1>1. CASE UNCHANGED vars
    <2>1. /\ UNCHANGED <<pc, startup_vars, absolute, new_features, window_vars,
                         spotter_vars, post_vars, stats_vars, keyword_time, history>>
          /\ n' = n /\ before' = before /\ Through' = Through
          /\ stride_frames' = stride_frames
      BY <1>1 DEF vars, n, before, Through, stride_frames, startup_vars
    <2>2. W!IInv' /\ P!IInv'
      BY <2>1, WindowKept, PostKept DEF IInv
    <2>3. StartedWell' /\ FedByWindow' /\ JudgedByNumber'
      BY <2>1 DEF IInv, StartedWell, FedByWindow, JudgedByNumber, Startups, Places,
                  GetFeatures, startup_vars, window_vars, spotter_vars, history,
                  ThresholdFits
    <2>4. StoredByNumber' /\ Triggered'
      BY <2>1 DEF IInv, StoredByNumber, Triggered, Startups, window_vars, post_vars
    <2>5. Timed' /\ QuietIsJudged'
      BY <2>1 DEF IInv, Timed, QuietIsJudged, End, stats_vars, post_vars, history
    <2>6. KeywordTimeIsReal' /\ RearmedByQuiet'
      BY <2>1 DEF IInv, KeywordTimeIsReal, RearmedByQuiet, post_vars, startup_vars, history
    <2> QED BY <2>2, <2>3, <2>4, <2>5, <2>6 DEF IInv
  <1> QED BY <1>1, StartupStep, ReadStep, LeaveStep, PushStep, ResetStep, ForwardStep,
             JudgeStep, RecordStep, ReportStep DEF Next

\* The window, the postprocessor and the statistics agree, in every state, on
\* where the frames of the last block are in the stream.
THEOREM Invariance == Spec => []IInv
  BY InitInv, NextInv, PTL DEF Spec
-----------------------------------------------------------------------------
(* What the runs check.                                                    *)

\* No stride that the startup checks accept, and no block that Read() gives,
\* makes the sliding window refuse it: that branch of main() is dead.
THEOREM PushSucceeds == Spec => []PushNeverFails
  <1>1. IInv => PushNeverFails
    BY DEF IInv, StartedWell, Places, Startups, PushNeverFails
  <1> QED BY <1>1, Invariance, PTL

\* The network answers from the window alone, for every overlap of the blocks.
THEOREM HistoryFedOnce == Spec => []HistoryIsWindow
  <1>1. IInv => HistoryIsWindow
    BY DEF IInv, FedByWindow, HistoryIsWindow
  <1> QED BY <1>1, Invariance, PTL

\* main() passes to Process() every frame of the stream exactly once and in
\* order, except the blocks for which the network gave nothing.
THEOREM EachFrameJudged == Spec => []JudgedOnce
  <1>1. IInv => JudgedOnce
    <2> SUFFICES ASSUME IInv PROVE JudgedOnce
      OBVIOUS
    <2>1. absolute \in Nat /\ before \in Nat /\ Len(judged) \in Nat
      BY DEF IInv, StoredByNumber, JudgedByNumber
    <2>2. before =< absolute
      <3>1. n \in Nat
        BY DEF IInv, StoredByNumber, n
      <3> QED BY <2>1, <3>1 DEF before
    <2>3. Through \in Nat /\ Through =< absolute
      BY <2>1, <2>2 DEF Through
    <2>4. \A i \in 1..Len(judged) : judged[i].number \in 1..absolute
      BY <2>1, <2>3 DEF IInv, JudgedByNumber
    <2>5. ASSUME NEW i \in 2..Len(judged)
          PROVE  judged[i - 1].number < judged[i].number
      <3>1. i - 1 \in 1..Len(judged) /\ i \in 1..Len(judged) /\ i - 1 < i
        BY <2>1
      <3> QED BY <3>1 DEF IInv, JudgedByNumber
    <2>6. pc = "read" => Len(judged) + lost = absolute
      BY DEF IInv, JudgedByNumber, Through
    <2> QED BY <2>4, <2>5, <2>6 DEF JudgedOnce
  <1> QED BY <1>1, Invariance, PTL

\* The time that is printed with a wake word, which the code computes from the
\* frame's place in the window and the statistics' count, is the end of that
\* frame in the stream.
THEOREM TimeIsReal == Spec => []KeywordTimeIsReal
  <1>1. IInv => KeywordTimeIsReal
    BY DEF IInv
  <1> QED BY <1>1, Invariance, PTL

\* The loop listens again only when the frames that it judged last, as many as
\* re-arming needs, are low and younger than the wake word.
THEOREM QuietRearms == Spec => []RearmedByQuiet
  <1>1. IInv => RearmedByQuiet
    BY DEF IInv
  <1> QED BY <1>1, Invariance, PTL
=============================================================================
