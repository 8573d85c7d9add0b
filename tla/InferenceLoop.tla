---------------------------- MODULE InferenceLoop ----------------------------
(***************************************************************************)
(* stream_kws_main on its main thread.  The options, the prompt and the    *)
(* model are checked and the recorder is opened; then each block of new    *)
(* frames goes through the sliding window, the network and the             *)
(* postprocessor, and the statistics turn the frame that triggered into a  *)
(* time.  Each component counts frames in its own way: from the start of   *)
(* the window, of the block, of the ring, of the stream.                   *)
(***************************************************************************)
EXTENDS WakeWords, SequencesExt

CONSTANTS
    Models,                       \* see KeywordSpotting
    Options,                      \* legal: what ParseOptions checks besides;
                                  \* threshold, which is High if it is not
                                  \* refused; feature_dim, stride_frames
    window_frames,                \* fixed_frames of all the models
    frame_length, frame_shift,    \* samples
    Levels                        \* probabilities that a frame may get

ASSUME LoopAssumption ==
    /\ window_frames \in Nat \ {0}
    /\ \A given \in Options :
           /\ given.threshold = High \/ given.threshold \in 0..Release
           /\ given.stride_frames \in Int
    /\ frame_length \in Nat \ {0} /\ frame_shift \in 1..frame_length
    /\ Levels \subseteq 0..Top

\* The embedded model takes 256 frames, and its first output has two numbers
\* for each of them.
ASSUME ModelAssumption ==
    \A given \in Models :
        LET in == given.input.dims  out == given.outputs[1].dims
        IN  /\ Len(in) >= 3 /\ in[2] = window_frames
            /\ Len(out) >= 3 /\ out[3] = 2
            /\ out[2] \in Nat /\ out[2] >= window_frames

\* A frame is its number in the stream, from 1, and the level that the network
\* will give it; silence is frame 0.
Silence == [number |-> 0, level |-> 0]
FeatureFrame == {Silence} \cup [number : Nat \ {0}, level : Levels]
Judgement(role, history) == <<Last(history).level>>
LevelOf(frame) == frame.level

VARIABLES
    pc,                                        \* where main() is
    options,                                   \* options
    exit_code,                                 \* what main() returned
    absolute,                                  \* frames the pipeline has given
    new_features,                              \* new_features
    ring, window, write_index, newest_frames,
    pushed, stored, shown,                     \* see SlidingFeatureWindow
    model, cache, input, prob,                 \* see KeywordSpotting
    armed, medium_hit_streak,
    consecutive_release_low_frames, result,
    heard, quiet, cause,                       \* see WakeupPostprocessor
    processed_frames,                          \* InferenceStats
    first_new_absolute_frame,                  \* InferenceMetrics
    keyword_time,                              \* keyword_time, in samples
    judged,   \* history: the frames Process() looked at
    lost      \* history: frames of blocks that the network failed on

window_vars  == <<ring, window, write_index, newest_frames, pushed, stored, shown>>
startup_vars == <<options, model, exit_code>>
spotter_vars == <<cache, input, prob>>
post_vars    == <<armed, medium_hit_streak, consecutive_release_low_frames, result,
                  heard, quiet, cause>>
stats_vars   == <<processed_frames, first_new_absolute_frame>>
history      == <<judged, lost>>
vars == <<pc, startup_vars, absolute, new_features, window_vars, spotter_vars,
          post_vars, stats_vars, keyword_time, history>>

stride_frames == options.stride_frames

Window == INSTANCE SlidingFeatureWindow WITH
    Frames <- FeatureFrame, Misfits <- {},
    Zero <- Silence, Blocks <- {}

Spotter == INSTANCE KeywordSpotting WITH
    Padding <- Silence, Value <- LevelOf, Net <- Judgement

Post == INSTANCE WakeupPostprocessor WITH Outputs <- {}, Ranges <- {}

Init ==
    /\ pc = "options"
    /\ options \in Options /\ model \in Models
    /\ exit_code = -1
    /\ absolute = 0 /\ new_features = <<>>
    /\ Window!Init /\ Spotter!Init /\ Post!Init
    /\ processed_frames = 0 /\ first_new_absolute_frame = 0
    /\ keyword_time = -1
    /\ judged = <<>> /\ lost = 0

-----------------------------------------------------------------------------
Goto(from, to) == pc = from /\ pc' = to

\* mutant: any stride will do
AnyStride == TRUE

\* A stride of more than a window is refused.
StrideFits == stride_frames <= window_frames

\* mutant: any threshold will do
AnyThreshold == TRUE

\* A threshold that frames below the release threshold may reach is refused.
ThresholdFits == options.threshold > Release

Check(from, holds, to, code) ==
    /\ Goto(from, IF holds THEN to ELSE "exited")
    /\ exit_code' = IF holds THEN exit_code ELSE code
    /\ UNCHANGED <<options, model, absolute, new_features, window_vars, spotter_vars,
                   post_vars, stats_vars, keyword_time, history>>

\* The prompt may be missing and the recorder fail to open.
Startup ==
    \/ Check("options", options.legal /\ stride_frames > 0, "threshold", 2)
    \/ Check("threshold", ThresholdFits, "prompt", 2)
    \/ \E found \in BOOLEAN : Check("prompt", found, "model", 2)
    \/ Check("model", Spotter!Loads, "dimension", 1)
    \/ Check("dimension", options.feature_dim = Spotter!feature_dim, "stride", 2)
    \/ Check("stride", StrideFits, "recorder", 2)
    \/ \E opened \in BOOLEAN : Check("recorder", opened, "read", 1)

\* Read() gives the next stride_frames frames ...
Read ==
    /\ Goto("read", "push")
    /\ \E levels \in [1..stride_frames -> Levels] :
           new_features' = [i \in 1..stride_frames |->
                               [number |-> absolute + i, level |-> levels[i]]]
    /\ absolute' = absolute + stride_frames
    /\ UNCHANGED <<startup_vars, window_vars, spotter_vars, post_vars, stats_vars,
                   keyword_time, history>>

\* ... or fails, or the program was told to exit; StreamKws says how.
Leave ==
    /\ Goto("read", "left")
    /\ UNCHANGED <<startup_vars, absolute, new_features, window_vars, spotter_vars,
                   post_vars, stats_vars, keyword_time, history>>

Push ==
    /\ Window!Push(new_features)
    /\ Goto("push", IF pushed' THEN "reset" ELSE "failed")
    /\ UNCHANGED <<startup_vars, absolute, new_features, spotter_vars, post_vars,
                   stats_vars, keyword_time, history>>

\* The overlap is in the window already: the network starts without a past.
Reset ==
    /\ Goto("reset", "forward")
    /\ Spotter!Reset
    /\ UNCHANGED <<startup_vars, absolute, new_features, window_vars, post_vars,
                   stats_vars, keyword_time, history>>

GetFeatures == [i \in 1..window_frames |-> window[i - 1]]

Forward ==
    /\ Goto("forward", "judge")
    /\ Spotter!Forward(GetFeatures)
    /\ UNCHANGED <<startup_vars, absolute, new_features, window_vars, post_vars,
                   stats_vars, keyword_time, history>>

\* mutant: the whole window is judged
WindowBegin == 0

output_begin == Window!newest_start
output_end   == Min({window_frames, Len(prob)})

Judge ==
    /\ Goto("judge", "record")
    /\ Post!Process(prob, output_begin, output_end)
    /\ judged' = judged \o SubSeq(GetFeatures, output_begin + 1, output_end)
    /\ lost' = lost + IF prob = <<>> THEN Len(new_features) ELSE 0
    /\ UNCHANGED <<startup_vars, absolute, new_features, window_vars, spotter_vars,
                   stats_vars, keyword_time>>

FirstNew(processed, new_frames) == processed - new_frames

\* stats.Record(): processed_frames_, and where this block began.
Record ==
    /\ Goto("record", IF result.triggered # 0 THEN "report" ELSE "read")
    /\ processed_frames' = processed_frames + Len(new_features)
    /\ first_new_absolute_frame' = FirstNew(processed_frames', Len(new_features))
    /\ UNCHANGED <<startup_vars, absolute, new_features, window_vars, spotter_vars,
                   post_vars, keyword_time, history>>

\* mutant: the frame is taken for one counted from the start of the block
FrameOfWindow(window_frame, newest_start) ==
    frame_length + (first_new_absolute_frame + window_frame) * frame_shift

\* The samples up to the end of a frame, -1 if it is not a new one.
FrameAudio(window_frame, newest_start) ==
    IF window_frame < newest_start THEN -1
    ELSE frame_length
         + (first_new_absolute_frame + window_frame - newest_start) * frame_shift

\* The event is printed and the notifier called.
Report ==
    /\ Goto("report", "notify")
    /\ keyword_time' = FrameAudio(result.frames[result.triggered], output_begin)
    /\ UNCHANGED <<startup_vars, absolute, new_features, window_vars, spotter_vars,
                   post_vars, stats_vars, history>>

Notify ==
    /\ Goto("notify", "read")
    /\ UNCHANGED <<startup_vars, absolute, new_features, window_vars, spotter_vars,
                   post_vars, stats_vars, keyword_time, history>>

Next ==
    \/ Startup \/ Read \/ Leave \/ Push \/ Reset \/ Forward \/ Judge \/ Record
    \/ Report \/ Notify

Spec == Init /\ [][Next]_vars

-----------------------------------------------------------------------------
\* The branch "Invalid feature block for sliding window" is dead: what the
\* startup checks and what Read() gives is always a legal block.
PushNeverFails == pc # "failed"

\* When the network has answered, its cache has seen the window and nothing
\* before: the overlapping history was not fed twice.
HistoryIsWindow ==
    (pc = "judge" /\ prob # <<>>) => cache = GetFeatures

\* Every frame of the stream is judged once and in order, the silence before
\* the stream never, and a frame is left out only with all of the block for
\* which the network failed.
JudgedOnce ==
    /\ \A i \in 1..Len(judged) : judged[i].number \in 1..absolute
    /\ \A i \in 2..Len(judged) : judged[i - 1].number < judged[i].number
    /\ pc = "read" => Len(judged) + lost = absolute

\* The time printed for a wake word is the end, in the stream, of a frame that
\* came with this block and has the printed score, the first that has it.
KeywordTimeIsReal ==
    pc = "notify" =>
        \E i \in 1..Len(new_features) :
            LET score == result.scores[result.triggered]
            IN  /\ keyword_time
                     = frame_length + (new_features[i].number - 1) * frame_shift
                /\ new_features[i].level = score
                /\ \A j \in 1..(i - 1) : new_features[j].level < score

\* "re-armed: newest frames are below": of the frames that were judged, the
\* last ones are low, too low for the threshold given to take for a wake word,
\* and all of them came after the last one.
RearmedByQuiet ==
    (pc = "record" /\ result.rearmed) =>
        /\ Len(judged) >= ReleaseLow
        /\ \A i \in (Len(judged) - ReleaseLow + 1)..Len(judged) :
               /\ judged[i].level < Release /\ judged[i].level < options.threshold
               /\ keyword_time < frame_length + (judged[i].number - 1) * frame_shift
=============================================================================
