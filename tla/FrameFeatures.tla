---------------------------- MODULE FrameFeatures ----------------------------
(***************************************************************************)
(* Fbank and Mfcc: the constructor makes the tables and the mel filters,   *)
(* Compute() turns each frame of a waveform into a vector of features.     *)
(* The buffers of the transform are made once per call and used again for  *)
(* every frame, in place.  Numbers are those of Fft; a filter's weights    *)
(* are given without their common denominator.  Dither is off, as in the   *)
(* program, and so is not modelled.                                        *)
(***************************************************************************)
EXTENDS Fft, Sequences, FiniteSetsExt

CONSTANTS
    FrameLengths, frame_shift,  \* samples
    NumBins,                    \* numbers of mel filters
    sample_rate, low_freq,      \* high_freq is half the rate
    MelScale(_),                \* mels of a frequency
    Coeff,                      \* of the pre-emphasis
    Window(_, _),               \* window_ or povey_window_: length and place
    Epsilon, LogOf(_),          \* the least energy, and logf
    Lifter(_),                  \* dct_scale * lifter
    Waves(_)                    \* bound of the model: waveforms, by frame length

VARIABLES
    kind,           \* "fbank" or "mfcc"
    frame_length, num_bins, wave,
    fft_points,     \* fft_points_
    bins,           \* bins_: for each filter its first index, size and weights
    bitrev, sintbl,
    frame,          \* i, the frame that Compute() is at
    data,           \* its samples, or what has become of them
    fft_real, fft_img,
    k,              \* of the transform: the distance of the butterflies
    feat,           \* the features so far
    pc

given   == <<kind, frame_length, num_bins, wave, fft_points>>
tables  == <<bins, bitrev, sintbl>>
buffers == <<fft_real, fft_img>>
vars    == <<given, tables, frame, data, buffers, k, feat, pc>>

\* No odd number divides a power of two, but 1.
IsPowerOfTwo(m) == \A d \in 2..m : m % d = 0 => d % 2 = 0
UpperPowerOfTwo(n) == CHOOSE m \in n..(2 * n - 1) : IsPowerOfTwo(m)

\* The circle of Fft is fine enough for the transforms of these frames.
ASSUME FeaturesAssumption ==
    /\ \A length \in FrameLengths :
           /\ length \in 3..(P - 1)
           /\ (P - 1) % (2 * UpperPowerOfTwo(length)) = 0
           /\ \A j \in 0..(length - 1) : Window(length, j) \in Int
           /\ \A w \in Waves(length) : w \in Seq(Int)
    /\ frame_shift \in Nat \ {0} /\ NumBins \subseteq Nat \ {0}
    /\ sample_rate \in Nat /\ low_freq \in 0..(sample_rate \div 2)
    /\ \A f \in 0..(sample_rate \div 2) : MelScale(f) \in Int
    /\ Coeff \in Int

Places  == 0..(fft_points - 1)
Samples == 0..(frame_length - 1)

Init ==
    /\ kind \in {"fbank", "mfcc"}
    /\ frame_length \in FrameLengths
    /\ num_bins \in NumBins
    /\ wave \in Waves(frame_length)
    /\ fft_points = UpperPowerOfTwo(frame_length)
    /\ bins = <<>> /\ bitrev = <<>> /\ sintbl = <<>>
    /\ frame = 0 /\ data = <<>> /\ fft_real = <<>> /\ fft_img = <<>>
    /\ k = 0 /\ feat = <<>>
    /\ pc = "construct"

-----------------------------------------------------------------------------
(* The mel filters: triangles that begin at the centre of the filter       *)
(* before and end at that of the next.  Mels are times num_bins + 1.       *)

Mel(i) == MelScale((sample_rate \div fft_points) * i) * (num_bins + 1)
Corner(j) == MelScale(low_freq) * (num_bins + 1)
             + j * (MelScale(sample_rate \div 2) - MelScale(low_freq))
SpectrumBins == 0..(fft_points \div 2 - 1)

Weight(bin, i) ==
    IF Mel(i) <= Corner(bin + 1) THEN Mel(i) - Corner(bin) ELSE Corner(bin + 2) - Mel(i)

Inside(bin) == {i \in SpectrumBins : Corner(bin) < Mel(i) /\ Mel(i) < Corner(bin + 2)}

\* From the first to the last index inside; between them this_bin is a weight
\* or 0.
Filter(bin) ==
    LET first == Min(Inside(bin))
        size  == Max(Inside(bin)) + 1 - first
    IN  [first |-> first, size |-> size,
         second |-> [n \in 0..(size - 1) |->
                        IF first + n \in Inside(bin) THEN Weight(bin, first + n) ELSE 0]]

\* The CHECK ends the program on a filter without a bin.
Construct ==
    /\ pc = "construct"
    /\ bitrev' = make_bitrev(fft_points)
    /\ sintbl' = make_sintbl(fft_points)
    /\ IF \E bin \in 0..(num_bins - 1) : Inside(bin) = {}
         THEN pc' = "aborted" /\ UNCHANGED bins
         ELSE pc' = "compute" /\ bins' = [bin \in 0..(num_bins - 1) |-> Filter(bin)]
    /\ UNCHANGED <<given, frame, data, buffers, k, feat>>

-----------------------------------------------------------------------------
num_frames == IF Len(wave) < frame_length THEN 0
              ELSE 1 + (Len(wave) - frame_length) \div frame_shift

Compute ==
    /\ pc = "compute" /\ pc' = IF num_frames = 0 THEN "done" ELSE "frame"
    /\ fft_real' = [i \in Places |-> 0] /\ fft_img' = [i \in Places |-> 0]
    /\ UNCHANGED <<given, tables, frame, data, k, feat>>

Slice(i) == [j \in Samples |-> wave[i * frame_shift + j + 1]]

RemoveDcOffset(x) ==
    LET mean == Total(x, frame_length) * Reciprocal(frame_length)
    IN  [j \in Samples |-> (x[j] - mean) % P]

\* In place from the end, so that every sample meets the one before as it was;
\* the first meets itself.
PreEmphasis(x) ==
    [j \in Samples |-> (x[j] - Coeff * x[IF j = 0 THEN 0 ELSE j - 1]) % P]

ApplyWindow(x) == [j \in Samples |-> (x[j] * Window(frame_length, j)) % P]

Conditioned(i) == ApplyWindow(PreEmphasis(RemoveDcOffset(Slice(i))))

Condition ==
    /\ pc = "frame" /\ pc' = "fill"
    /\ data' = Conditioned(frame)
    /\ UNCHANGED <<given, tables, frame, buffers, k, feat>>

\* mutant: the imaginary part of the frame before stays
FillReal ==
    /\ pc = "fill" /\ pc' = "reverse"
    /\ fft_real' = [i \in Places |-> IF i \in Samples THEN data[i] ELSE 0]
    /\ UNCHANGED <<given, tables, frame, data, fft_img, k, feat>>

\* memset of fft_img and of the tail of fft_real, memcpy of the frame.
Fill ==
    /\ pc = "fill" /\ pc' = "reverse"
    /\ fft_img' = [i \in Places |-> 0]
    /\ fft_real' = [i \in Places |-> IF i \in Samples THEN data[i] ELSE 0]
    /\ UNCHANGED <<given, tables, frame, data, k, feat>>

ReverseBits ==
    /\ pc = "reverse" /\ pc' = "transform"
    /\ fft_real' = BitReversed(fft_points, bitrev, fft_real)
    /\ fft_img' = BitReversed(fft_points, bitrev, fft_img)
    /\ k' = 1
    /\ UNCHANGED <<given, tables, frame, data, feat>>

Transform ==
    /\ pc = "transform" /\ k < fft_points
    /\ LET after == Butterflies(fft_points, sintbl, fft_real, fft_img, k)
       IN  fft_real' = after.x /\ fft_img' = after.y
    /\ k' = 2 * k
    /\ UNCHANGED <<given, tables, frame, data, feat, pc>>

Energy(power, bin) ==
    LET share == [n \in 0..(bins[bin].size - 1) |->
                     bins[bin].second[n] * power[bins[bin].first + n]]
    IN  Total(share, bins[bin].size)

LogEnergy(energy) == LogOf(IF energy < Epsilon THEN Epsilon ELSE energy)

\* Row ceps of dct_matrix_ is a cosine in the middles of the filters.
Dct(energies, ceps) ==
    LET part == [j \in 0..(num_bins - 1) |->
                    energies[j] * Cosine(4 * num_bins, ceps * (2 * j + 1))]
    IN  (Total(part, num_bins) * Lifter(ceps)) % P

Features(energies) ==
    IF kind = "fbank" THEN energies
    ELSE [ceps \in 0..(num_bins - 1) |-> Dct(energies, ceps)]

Squared(i) == fft_real[i] * fft_real[i] + fft_img[i] * fft_img[i]

Finish ==
    /\ pc = "transform" /\ k = fft_points
    /\ LET power == [i \in SpectrumBins |-> Squared(i) % P]
       IN  feat' = Append(feat, Features([bin \in 0..(num_bins - 1) |->
                                              LogEnergy(Energy(power, bin))]))
    /\ frame' = frame + 1
    /\ pc' = IF frame' = num_frames THEN "done" ELSE "frame"
    /\ UNCHANGED <<given, tables, data, buffers, k>>

Next ==
    \/ Construct \/ Compute \/ Condition \/ Fill \/ ReverseBits \/ Transform \/ Finish

Spec == Init /\ [][Next]_vars

-----------------------------------------------------------------------------
\* Both tables are what their names say: the sine of every angle up to a turn
\* and a quarter, where the transform looks for cosines too, and the numbers
\* with their digits reversed, so that each pair is swapped back and forth.
Digit(i, d) == (i \div d) % 2

TablesAreTrue ==
    pc # "construct" =>
        /\ \A i \in 0..(fft_points + fft_points \div 4 - 1) :
               sintbl[i] = Sine(fft_points, i)
        /\ \A i \in Places, d \in Places :
               d > 0 /\ fft_points % (2 * d) = 0
                   => Digit(bitrev[i], d) = Digit(i, fft_points \div (2 * d))

\* Frame i after conditioning, padded with zeroes.
Padded(i) == LET x == Conditioned(i)
             IN  [j \in Places |-> IF j \in Samples THEN x[j] ELSE 0]

\* Between the stages of the transform every block of k places holds the
\* Fourier transform, by definition, of the samples of this frame that are
\* fft_points / k apart, from the one on that the bit reversal put first: of
\* nothing in the buffers before, and at the end of the whole frame.
BlocksAreDfts ==
    pc = "transform" =>
        LET x == Padded(frame)
            apart == fft_points \div k
        IN  \A b \in 0..(apart - 1) : \A f \in 0..(k - 1) :
                LET re == [j \in 0..(k - 1) |->
                              x[bitrev[b * k] + j * apart] * Cosine(k, f * j)]
                    im == [j \in 0..(k - 1) |->
                              x[bitrev[b * k] + j * apart] * (0 - Sine(k, f * j))]
                IN  /\ fft_real[b * k + f] = Total(re, k)
                    /\ fft_img[b * k + f] = Total(im, k)

\* What each frame's features should be, from that frame alone: its spectrum
\* by definition, weighed by the whole triangles.
Spectrum(i) ==
    LET x == Padded(i)
    IN  [f \in SpectrumBins |->
            LET re == Total([j \in Places |-> x[j] * Cosine(fft_points, f * j)], fft_points)
                im == Total([j \in Places |-> x[j] * Sine(fft_points, f * j)], fft_points)
            IN  (re * re + im * im) % P]

Triangle(bin, i) ==
    Max({0, Min({Mel(i) - Corner(bin), Corner(bin + 2) - Mel(i)})})

FeaturesOf(i) ==
    LET power == Spectrum(i)
        energy(bin) == Total([f \in SpectrumBins |-> Triangle(bin, f) * power[f]],
                             fft_points \div 2)
    IN  Features([bin \in 0..(num_bins - 1) |-> LogEnergy(energy(bin))])

\* The features of a frame depend on that frame and on nothing else, neither
\* on the frames before it nor on what they left in the buffers: the ground
\* on which Framing and FeaturePipeline take a feature for its samples.
FeatureIsItsFrame ==
    /\ \A i \in 1..Len(feat) : feat[i] = FeaturesOf(i - 1)
    /\ pc = "done" => Len(feat) = num_frames
=============================================================================
