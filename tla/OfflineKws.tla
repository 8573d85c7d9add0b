------------------------------ MODULE OfflineKws ------------------------------
(***************************************************************************)
(* kws_main: arguments and model are checked, the whole file is read       *)
(* (WavReader), cut into frames (Framing) and the input finished; then     *)
(* batches of frames go through the model, with its cache                  *)
(* (KeywordSpotting), and each output is printed with the number of its    *)
(* frame.                                                                  *)
(***************************************************************************)
EXTENDS Integers, Sequences, SequencesExt, FiniteSetsExt

CONSTANTS Models, Value(_),         \* see KeywordSpotting
          Files, MaxGarbage,        \* see WavReader
          FrameLength, FrameShift,  \* see Framing
          FeatureDims, BatchSizes,  \* arguments given
          SizeModulus               \* 2^(width of size_t)

ASSUME OfflineAssumption ==
    /\ FeatureDims \subseteq Nat /\ SizeModulus \in Nat \ {0}
    /\ BatchSizes \subseteq (1 - SizeModulus)..(SizeModulus - 1)
    /\ FrameLength \in Nat \ {0} /\ FrameShift \in 1..FrameLength
    /\ MaxGarbage \in Nat

VARIABLES
    well_formed, feature_dim, batch_size,   \* the arguments
    file, reader, position, header, data,   \* see WavReader
    model, cache, input, prob,              \* see KeywordSpotting
    read,        \* frames read so far
    feats,       \* feats
    ok,          \* what the last Read() returned
    offset,      \* offset
    printed,     \* the lines printed: frame and output
    pc,          \* where main() is
    failed       \* history: some Forward() gave nothing

given        == <<well_formed, feature_dim, batch_size, file, model>>
wav_vars     == <<reader, position, header, data>>
spotter_vars == <<cache, input, prob>>
vars == <<given, wav_vars, spotter_vars, read, feats, ok, offset, printed, pc, failed>>

\* The output of the network is told apart by all that it depends on, and its
\* cache by nothing.
Context(role, history) == IF role = "probabilities" THEN history ELSE <<>>

\* A frame is the places of its samples in the file, a padded one has none.
Spotter == INSTANCE KeywordSpotting WITH Padding <- <<>>, Net <- Context
Wav     == INSTANCE WavReader
Frames  == INSTANCE Framing

\* One output of a model holds the probabilities of its frames, of which there
\* are no more than it takes, and Init() finds that one.
ASSUME ModelAssumption ==
    /\ Models \subseteq Spotter!Model
    /\ \A embedded \in Models :
           LET first  == embedded.outputs[1].dims
               chosen == IF Len(first) >= 3 /\ first[3] = 2 THEN 1 ELSE 2
           IN  /\ chosen <= Len(embedded.outputs)
               /\ embedded.outputs[chosen].role = "probabilities"
               /\ Len(embedded.outputs[chosen].dims) >= 2
               /\ embedded.outputs[chosen].dims[2] <=
                      IF Len(embedded.input.dims) >= 3 THEN embedded.input.dims[2] ELSE 256

ASSUME FileAssumption ==
    /\ Files \subseteq Wav!File
    /\ \A sound \in Files : Wav!Chained(sound)

Init ==
    /\ well_formed \in BOOLEAN /\ feature_dim \in FeatureDims
    /\ batch_size \in BatchSizes
    /\ file \in Files /\ model \in Models
    /\ Wav!Init /\ Spotter!Init
    /\ read = 0 /\ feats = <<>> /\ ok = TRUE
    /\ offset = 0
    /\ printed = <<>>
    /\ pc = "arguments"
    /\ failed = FALSE

-----------------------------------------------------------------------------
Check(from, holds, to, otherwise) ==
    /\ pc = from /\ pc' = IF holds THEN to ELSE otherwise
    /\ UNCHANGED <<given, wav_vars, spotter_vars, read, feats, ok, offset, printed,
                   failed>>

\* Most failures are LOG(FATAL) or an exception, which abort the program.
Startup ==
    \/ Check("arguments", well_formed, "model", "aborted")
    \/ Check("model", Spotter!Loads, "dimension", "aborted")
    \/ Check("dimension", feature_dim = Spotter!feature_dim, "wav", "exited")

ReadWav ==
    /\ pc = "wav"
    /\ Wav!Open
    /\ pc' = CASE reader' = "done"    -> "read"
             [] reader' = "crashed" -> "aborted"
             [] reader' = "exited"  -> "exited"
             [] OTHER               -> "wav"
    /\ UNCHANGED <<well_formed, feature_dim, batch_size, model, spotter_vars, read,
                   feats, ok, offset, printed, failed>>

\* An empty batch is the end of the file, unless none was asked for.
NextAfterRead(count, all) ==
    IF count > 0 THEN "forward" ELSE IF all THEN "read" ELSE "done"

\* mutant: the size is compared as an int, and no frame is asked for
AsInt(n) == IF n < 0 THEN 0 ELSE n

\* Read() compares the size_t feats->size() with its int num_frames: a negative
\* batch size asks for more frames than there are.
AsSizeT(n) == n % SizeModulus
num_frames == AsSizeT(batch_size)

\* Read() on a finished input: what there is, and whether it was all.
Read ==
    LET frames == Frames!Compute(data)
        count  == Min({num_frames, Len(frames) - read})
    IN  /\ pc = "read"
        /\ feats' = SubSeq(frames, read + 1, read + count)
        /\ ok' = (count = num_frames)
        /\ read' = read + count
        /\ pc' = NextAfterRead(count, ok')
        /\ UNCHANGED <<given, wav_vars, spotter_vars, offset, printed, failed>>

Forward ==
    /\ pc = "forward" /\ pc' = "print"
    /\ Spotter!Forward(feats)
    /\ failed' = (failed \/ prob' = <<>>)
    /\ UNCHANGED <<given, wav_vars, read, feats, ok, offset, printed>>

\* mutant: the outputs are counted, not the frames
Printed == offset + Len(prob)

\* Frames without an output are counted as well.
NextOffset == offset + Len(feats)

\* Frame numbers are printed from 0.
PrintLines ==
    /\ pc = "print" /\ pc' = IF ok THEN "read" ELSE "done"
    /\ printed' = printed \o [i \in 1..Len(prob) |->
                                 [frame |-> offset + i - 1, output |-> prob[i]]]
    /\ offset' = NextOffset
    /\ UNCHANGED <<given, wav_vars, spotter_vars, read, feats, ok, failed>>

Ended == pc \in {"done", "exited", "aborted"}

Next == Startup \/ ReadWav \/ Read \/ Forward \/ PrintLines \/ (Ended /\ UNCHANGED vars)

Spec == Init /\ [][Next]_vars /\ WF_vars(Next)

-----------------------------------------------------------------------------
\* The k-th frame of the samples in the file.
FrameInFile(k) ==
    [j \in 1..FrameLength |-> Wav!SampleInFile(FrameShift * (k - 1) + j)]

\* A line is printed for the frame of the file that its output judges, for
\* every sound file, whatever chunks it has, every batch size and whatever
\* Forward() failed on, and no frame is printed twice.
LinesAreTheirFrames ==
    Wav!Sound =>
        /\ \A i \in 1..Len(printed) :
               Last(printed[i].output) = FrameInFile(printed[i].frame + 1)
        /\ \A i \in 2..Len(printed) : printed[i - 1].frame < printed[i].frame

\* With the batch size the model was made for, batches and cache together do
\* what one pass would: every frame is judged after all the frames that have a
\* line before it and nothing else, so that a batch on which Forward() failed
\* leaves no trace in the cache; and without a failure all of the file is.
AsOnePass ==
    (Wav!Sound /\ num_frames = Spotter!fixed_frames
               /\ Spotter!output_frames = Spotter!fixed_frames) =>
        /\ \A i \in 1..Len(printed) :
               printed[i].output = [j \in 1..i |-> FrameInFile(printed[j].frame + 1)]
        /\ ~failed =>
               /\ \A i \in 1..Len(printed) : printed[i].frame = i - 1
               /\ pc = "done" => Len(printed) = Frames!NumFrames(Wav!SamplesInFile)

Distance(a, b) == IF a < b THEN b - a ELSE a - b

\* What the network is given for a number of a frame, or of the padding, is it,
\* or the nearest number that the tensor can hold.  A uint8 tensor does not get
\* that: its numbers are stored as if it were int8.
TensorIsFeatures ==
    (pc = "print" /\ prob # <<>>) =>
        \A i \in 1..Spotter!fixed_frames :
            LET wanted == IF i <= Len(feats) THEN Value(feats[i]) ELSE 0
                Holds(q) == (q - model.input.zero) * model.input.scale
            IN  /\ model.input.type = "float32" => input[i] = wanted
                /\ model.input.type = "int8" =>
                       /\ input[i] \in -128..127
                       /\ \A q \in -128..127 : Distance(Holds(input[i]), wanted)
                                              <= Distance(Holds(q), wanted)

\* The program comes to an end on every file that it can open and that has
\* samples, except that it asks for empty batches for ever when that is what it
\* was told to do, and finds no samples behind a chunk of odd size.
Ends ==
    (batch_size # 0 /\ (file.exists => Wav!DataChunks # {} /\ Wav!Aligned)) => <>Ended
=============================================================================
