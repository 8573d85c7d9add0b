--------------------------- MODULE KeywordSpotting ---------------------------
(***************************************************************************)
(* KeywordSpotting: shapes and conversions read from the embedded model,   *)
(* and a network with a fixed number of input frames and a streaming cache *)
(* that carries its context from one call to the next.  The arithmetic of  *)
(* the network is not modelled: the cache is the frames fed since the last *)
(* reset, and an output of the network a function of those up to the frame *)
(* it judges.                                                              *)
(***************************************************************************)
EXTENDS Integers, Sequences, FiniteSetsExt

CONSTANTS Padding,    \* the frame of zeroes
          Value(_),   \* a number of a frame's feature, in some small unit
          Net(_, _)   \* external: what an output of the given role holds after
                      \* the frames given

VARIABLES
    model,  \* version_ok; fits: AllocateTensors() succeeds; input(0), and the
            \* two outputs, of which one is the cache to be passed on
    cache,  \* cache_: the frames it stands for
    input,  \* data of input(0): a stored number of each frame
    prob    \* what the last Forward put in *prob

Types == {"float32", "int8", "uint8"}
Roles == {"probabilities", "cache"}

\* scale is in the unit of Value(_); dims are <<1, frames, numbers>>, or fewer.
Tensor == [type : Types, dims : Seq(Nat), scale : Nat \ {0}, zero : -128..255]
Model  == [version_ok : BOOLEAN, fits : BOOLEAN, input : Tensor,
           outputs : Seq([role : Roles, dims : Seq(Nat)])]

-----------------------------------------------------------------------------
(* Init(): the model is loaded, and what it says of itself.                *)

Loads == model.version_ok /\ model.fits

HasShape(tensor) == Len(tensor.dims) >= 3

fixed_frames == IF HasShape(model.input) THEN model.input.dims[2] ELSE 256
feature_dim  == IF HasShape(model.input) THEN model.input.dims[3] ELSE 40

\* The output with two numbers a frame is the probabilities; if the first one
\* is not like that, it is the second one, whatever that is.
output_tensor ==
    IF HasShape(model.outputs[1]) /\ model.outputs[1].dims[3] = 2 THEN 1 ELSE 2

output_frames == model.outputs[output_tensor].dims[2]

\* The object made, and Init() done: the cache is the one Reset() makes.
Init == cache = <<>> /\ prob = <<>> /\ input = <<>>

\* mutant: the cache is kept
ResetNothing == UNCHANGED <<cache, prob, input>>

\* Every byte is 0, or the zero point of a quantised cache: a cache of zeroes.
Reset == cache' = <<>> /\ UNCHANGED <<prob, input>>

-----------------------------------------------------------------------------
(* Forward().                                                              *)

\* Too few frames are padded, too many are cut off.
Input(feats) ==
    [i \in 1..fixed_frames |-> IF i <= Len(feats) THEN feats[i] ELSE Padding]

\* std::round(n / d): to the nearest integer, halves away from zero.
Rounded(n, d) ==
    IF n >= 0 THEN (2 * n + d) \div (2 * d) ELSE -((d - 2 * n) \div (2 * d))

\* mutant: the fraction is cut off
QuantisedDown(v) ==
    Max({-128, Min({127, v \div model.input.scale + model.input.zero})})

\* The number for v in an int8 tensor: the largest or smallest one if there is
\* none for it.
Quantised(v) ==
    Max({-128, Min({127, Rounded(v, model.input.scale) + model.input.zero})})

\* What is not float32 is stored as int8.
Stored(v) == IF model.input.type = "float32" THEN v ELSE Quantised(v)

Filled(feats) == [i \in 1..fixed_frames |-> Stored(Value(Input(feats)[i]))]

\* mutant: the context is dropped
OutputWithoutContext(feats) ==
    [i \in 1..Min({Len(feats), output_frames}) |->
        Net(model.outputs[output_tensor].role, SubSeq(Input(feats), 1, i))]

\* One output for each frame given that has one; none for the padding.
Output(feats) ==
    [i \in 1..Min({Len(feats), output_frames}) |->
        Net(model.outputs[output_tensor].role, cache \o SubSeq(Input(feats), 1, i))]

Infer(feats) ==
    /\ feats # <<>>
    /\ input' = Filled(feats)
    /\ prob' = Output(feats)
    /\ cache' = cache \o Input(feats)

\* mutant: the cache is copied before the status is looked at
InferNothingButCache(feats) ==
    /\ prob' = <<>>
    /\ input' \in {input} \cup (IF feats = <<>> THEN {} ELSE {Filled(feats)})
    /\ cache' = cache \o Input(feats)

\* No frames, a tensor without data, or an Invoke() that fails: no output, and
\* the cache does not move.  The input tensor may have been filled already.
InferNothing(feats) ==
    /\ prob' = <<>>
    /\ input' \in {input} \cup (IF feats = <<>> THEN {} ELSE {Filled(feats)})
    /\ UNCHANGED cache

Forward(feats) == Infer(feats) \/ InferNothing(feats)
=============================================================================
