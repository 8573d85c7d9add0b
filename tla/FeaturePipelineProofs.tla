------------------------ MODULE FeaturePipelineProofs ------------------------
(***************************************************************************)
(* Safety of FeaturePipeline for every frame length and shift, every       *)
(* chunking and every interleaving of the two threads.                     *)
(***************************************************************************)
EXTENDS FeaturePipeline, SequenceTheorems, TLAPS

(* Arithmetic of Framing, for every frame length and shift.                 *)

\* The quotient and remainder that \div stands for.
LEMMA DivBounds ==
    ASSUME NEW a \in Nat, NEW b \in Nat \ {0}
    PROVE  /\ a \div b \in Nat
           /\ b * (a \div b) =< a
           /\ a < b * (a \div b) + b
  BY Z3

LEMMA NumFramesBounds ==
    ASSUME NEW n \in Nat
    PROVE  /\ NumFrames(n) \in Nat
           /\ n < FrameLength => NumFrames(n) = 0
           /\ n >= FrameLength =>
                /\ NumFrames(n) >= 1
                /\ FrameShift * NumFrames(n) + FrameLength =< n + FrameShift
           /\ n < FrameShift * NumFrames(n) + FrameLength
  <1> USE FramingAssumption
  <1>1. CASE n < FrameLength
    BY <1>1 DEF NumFrames
  <1>2. CASE n >= FrameLength
    <2> DEFINE q == (n - FrameLength) \div FrameShift
    <2>1. /\ q \in Nat
          /\ FrameShift * q =< n - FrameLength
          /\ n - FrameLength < FrameShift * q + FrameShift
      BY <1>2, DivBounds
    <2>2. NumFrames(n) = 1 + q
      BY <1>2 DEF NumFrames
    <2> HIDE DEF q
    <2>3. FrameShift * (1 + q) = FrameShift * q + FrameShift
      BY <2>1
    <2> QED BY <1>2, <2>1, <2>2, <2>3
  <1> QED BY <1>1, <1>2

LEMMA MulMonotone ==
    ASSUME NEW a \in Nat, NEW b \in Nat, NEW c \in Nat, a =< b
    PROVE  c * a \in Nat /\ c * b \in Nat /\ c * a =< c * b
  <1>1. PICK d \in Nat : b = a + d
    BY b - a \in Nat
  <1>2. c * b = c * a + c * d /\ c * d \in Nat /\ c * a \in Nat
    BY <1>1
  <1> QED BY <1>2

\* Only one number of frames leaves a residual that is shorter than a frame
\* and takes no more samples than there are.
LEMMA NumFramesUnique ==
    ASSUME NEW n \in Nat, NEW k \in Nat,
           n < FrameShift * k + FrameLength,
           k > 0 => FrameShift * k + FrameLength =< n + FrameShift
    PROVE  NumFrames(n) = k
  <1> USE FramingAssumption
  <1> DEFINE N == NumFrames(n)
  <1>1. /\ N \in Nat
        /\ n < FrameShift * N + FrameLength
        /\ N > 0 => FrameShift * N + FrameLength =< n + FrameShift
    BY NumFramesBounds
  <1> HIDE DEF N
  <1>2. FrameShift * (k + 1) = FrameShift * k + FrameShift
    OBVIOUS
  <1>3. FrameShift * (N + 1) = FrameShift * N + FrameShift
    BY <1>1
  <1>4. ~(k < N)
    <2> SUFFICES ASSUME k < N PROVE FALSE
      OBVIOUS
    <2>1. FrameShift * (k + 1) =< FrameShift * N
      BY <1>1, MulMonotone
    <2> QED BY <1>1, <1>2, <2>1
  <1>5. ~(N < k)
    <2> SUFFICES ASSUME N < k PROVE FALSE
      OBVIOUS
    <2>1. FrameShift * (N + 1) =< FrameShift * k
      BY <1>1, MulMonotone
    <2> QED BY <1>1, <1>3, <2>1
  <1> QED BY <1>1, <1>4, <1>5 DEF N

\* The frames of a stream never take more samples than it has.
LEMMA FramesFit ==
    ASSUME NEW n \in Nat
    PROVE  /\ FrameShift * NumFrames(n) \in Nat
           /\ FrameShift * NumFrames(n) =< n
           /\ n - FrameShift * NumFrames(n) < FrameLength
  <1> USE FramingAssumption
  <1> DEFINE N == NumFrames(n)
  <1>1. /\ N \in Nat
        /\ n < FrameLength => N = 0
        /\ n >= FrameLength => FrameShift * N + FrameLength =< n + FrameShift
        /\ n < FrameShift * N + FrameLength
    BY NumFramesBounds
  <1> HIDE DEF N
  <1>2. FrameShift * N \in Nat
    BY <1>1
  <1>3. CASE n < FrameLength
    <2>1. FrameShift * N = 0
      BY <1>1, <1>3
    <2> QED BY <1>3, <2>1 DEF N
  <1>4. CASE n >= FrameLength
    <2>1. FrameShift * N =< n
      BY <1>1, <1>2, <1>4
    <2> QED BY <1>1, <1>2, <2>1 DEF N
  <1> QED BY <1>3, <1>4

\* Counting frames chunk by chunk: the frames of n + k samples are those of
\* the first n and those of the residual with k more samples.
LEMMA NumFramesSplit ==
    ASSUME NEW n \in Nat, NEW k \in Nat
    PROVE  NumFrames(n + k)
             = NumFrames(n) + NumFrames(n - FrameShift * NumFrames(n) + k)
  <1> USE FramingAssumption
  <1> DEFINE N == NumFrames(n)
             m == n - FrameShift * N + k
             M == NumFrames(m)
  <1>1. N \in Nat /\ FrameShift * N \in Nat /\ FrameShift * N =< n
        /\ (N > 0 => FrameShift * N + FrameLength =< n + FrameShift)
    BY FramesFit, NumFramesBounds
  <1>2. m \in Nat /\ n + k = FrameShift * N + m
    BY <1>1
  <1>3. M \in Nat
        /\ m < FrameShift * M + FrameLength
        /\ (M > 0 => FrameShift * M + FrameLength =< m + FrameShift)
    BY <1>2, NumFramesBounds
  <1> HIDE DEF N, M
  <1>4. FrameShift * (N + M) = FrameShift * N + FrameShift * M
    BY <1>1, <1>3
  <1>5. n + k < FrameShift * (N + M) + FrameLength
    BY <1>1, <1>2, <1>3, <1>4
  <1>6. N + M > 0 =>
            FrameShift * (N + M) + FrameLength =< n + k + FrameShift
    <2>1. CASE M > 0
      BY <1>1, <1>2, <1>3, <1>4, <2>1
    <2>2. CASE M = 0
      BY <1>1, <1>3, <2>2
    <2> QED BY <1>3, <2>1, <2>2
  <1>7. NumFrames(n + k) = N + M
    BY <1>1, <1>3, <1>5, <1>6, NumFramesUnique
  <1> QED BY <1>7 DEF N, M

-----------------------------------------------------------------------------
(* A stream of samples cut and joined.                                     *)

LEMMA SamplesType ==
    ASSUME NEW a \in Nat, NEW b \in Nat, a =< b + 1
    PROVE  /\ Samples(a, b) \in Seq(Nat)
           /\ Len(Samples(a, b)) = b - a + 1
           /\ \A i \in 1..(b - a + 1) : Samples(a, b)[i] = a + i - 1
  <1>1. b - a + 1 \in Nat
    OBVIOUS
  <1>2. Samples(a, b) \in [1..(b - a + 1) -> Nat]
    BY DEF Samples
  <1> QED BY <1>1, <1>2 DEF Samples

LEMMA SamplesJoin ==
    ASSUME NEW a \in Nat, NEW b \in Nat, NEW c \in Nat,
           a =< b + 1, b =< c
    PROVE  Samples(a, b) \o Samples(b + 1, c) = Samples(a, c)
  <1> DEFINE s == Samples(a, b)
             t == Samples(b + 1, c)
             u == Samples(a, c)
  <1>1. /\ s \in Seq(Nat) /\ Len(s) = b - a + 1
        /\ \A i \in 1..(b - a + 1) : s[i] = a + i - 1
    BY SamplesType
  <1>2. /\ t \in Seq(Nat) /\ Len(t) = c - b
        /\ \A i \in 1..(c - b) : t[i] = b + 1 + i - 1
    <2>1. b + 1 \in Nat /\ b + 1 =< c + 1 /\ c - (b + 1) + 1 = c - b
      OBVIOUS
    <2> QED BY <2>1, SamplesType
  <1>3. /\ u \in Seq(Nat) /\ Len(u) = c - a + 1
        /\ \A i \in 1..(c - a + 1) : u[i] = a + i - 1
    <2>1. a =< c + 1
      OBVIOUS
    <2> QED BY <2>1, SamplesType
  <1> HIDE DEF s, t, u
  <1>4. s \o t \in Seq(Nat) /\ Len(s \o t) = c - a + 1
    <2>1. s \o t \in Seq(Nat) /\ Len(s \o t) = Len(s) + Len(t)
      BY <1>1, <1>2, ConcatProperties, Zenon
    <2> QED BY <1>1, <1>2, <2>1
  <1>5. \A i \in 1..Len(s \o t) : (s \o t)[i] = u[i]
    <2> TAKE i \in 1..Len(s \o t)
    <2>1. i \in 1..(c - a + 1)
      BY <1>4
    <2>2. CASE i =< b - a + 1
      <3>1. (s \o t)[i] = s[i]
        BY <1>1, <1>2, <2>1, <2>2
      <3> QED BY <1>1, <1>3, <2>1, <2>2, <3>1
    <2>3. CASE i > b - a + 1
      <3>1. (s \o t)[i] = t[i - (b - a + 1)]
        BY <1>1, <1>2, <2>1, <2>3
      <3>2. i - (b - a + 1) \in 1..(c - b)
        BY <2>1, <2>3
      <3> QED BY <1>2, <1>3, <2>1, <3>1, <3>2
    <2> QED BY <2>1, <2>2, <2>3
  <1>6. s \o t = u
    BY <1>3, <1>4, <1>5, SeqEqual
  <1> QED BY <1>6 DEF s, t, u

LEMMA FrameAtType ==
    ASSUME NEW k \in Nat \ {0}
    PROVE  FrameAt(k) \in Frame
  <1> USE FramingAssumption
  <1>1. FrameShift * (k - 1) \in Nat
    OBVIOUS
  <1> QED BY <1>1 DEF FrameAt, Samples, Frame

\* One AcceptWaveform call on a residual and a new chunk: with the first k
\* frames behind it, it computes the next ones of the stream.
LEMMA ComputeFrames ==
    ASSUME NEW k \in Nat, NEW n \in Nat, FrameShift * k =< n
    PROVE  LET piece == Samples(FrameShift * k + 1, n)
               M == NumFrames(n - FrameShift * k)
           IN  /\ piece \in Seq(Nat)
               /\ Len(piece) = n - FrameShift * k
               /\ Compute(piece) \in Seq(Frame)
               /\ Len(Compute(piece)) = M
               /\ \A i \in 1..M : Compute(piece)[i] = FrameAt(k + i)
               /\ Residual(piece) = Samples(FrameShift * (k + M) + 1, n)
  <1> USE FramingAssumption
  <1> DEFINE piece == Samples(FrameShift * k + 1, n)
             m == n - FrameShift * k
             M == NumFrames(m)
  <1>1. FrameShift * k \in Nat /\ m \in Nat
    OBVIOUS
  <1>2. /\ piece \in Seq(Nat) /\ Len(piece) = m
        /\ \A x \in 1..m : piece[x] = FrameShift * k + 1 + x - 1
    <2> DEFINE a == FrameShift * k + 1
    <2>1. a \in Nat /\ a =< n + 1 /\ n - a + 1 = m
      BY <1>1
    <2> HIDE DEF a, m
    <2>2. /\ Samples(a, n) \in Seq(Nat) /\ Len(Samples(a, n)) = n - a + 1
          /\ \A x \in 1..(n - a + 1) : Samples(a, n)[x] = a + x - 1
      BY <2>1, SamplesType
    <2> QED BY <2>1, <2>2 DEF a
  <1>3. /\ M \in Nat
        /\ M > 0 => FrameShift * M + FrameLength =< m + FrameShift
        /\ FrameShift * M \in Nat
        /\ FrameShift * M =< m
    BY <1>1, NumFramesBounds, FramesFit
  <1>4. Compute(piece) = [i \in 1..M |->
            SubSeq(piece, FrameShift * (i - 1) + 1,
                          FrameShift * (i - 1) + FrameLength)]
    BY <1>2 DEF Compute
  <1>5. Residual(piece) = SubSeq(piece, FrameShift * M + 1, m)
    BY <1>2 DEF Residual
  <1> HIDE DEF M
  <1>6. ASSUME NEW i \in 1..M
        PROVE  SubSeq(piece, FrameShift * (i - 1) + 1,
                             FrameShift * (i - 1) + FrameLength)
                 = FrameAt(k + i)
    <2> DEFINE j == FrameShift * (i - 1)
    <2>1. i - 1 \in Nat /\ M - 1 \in Nat /\ i - 1 =< M - 1
      BY <1>3
    <2>2. j \in Nat /\ j =< FrameShift * (M - 1)
      BY <2>1, MulMonotone
    <2>3. FrameShift * (M - 1) = FrameShift * M - FrameShift
      BY <1>3
    <2>4. FrameShift * (k + i - 1) = FrameShift * k + j
      BY <2>1
    <2> HIDE DEF j
    <2>5. j + FrameLength =< m
      BY <1>1, <1>3, <2>2, <2>3
    <2>6. PICK a \in Nat : a = FrameShift * k + 1
      BY <1>1
    <2>7. \A x \in 1..m : piece[x] = a + x - 1
      BY <1>2, <2>6
    <2>8. FrameAt(k + i) = Samples(a + j, a + j + FrameLength - 1)
      BY <1>1, <2>2, <2>4, <2>6 DEF FrameAt
    <2> HIDE DEF piece, m
    <2>9. ASSUME NEW q \in Nat, q = j + FrameLength
          PROVE  SubSeq(piece, j + 1, q)
                   = [x \in 1..FrameLength |-> a + j + x - 1]
      <3>1. SubSeq(piece, j + 1, q)
              = [x \in 1..(q - (j + 1) + 1) |-> piece[j + 1 + x - 1]]
        BY <1>2, <2>2
      <3>2. q - (j + 1) + 1 = FrameLength
        BY <2>2, <2>9
      <3>3. \A x \in 1..FrameLength : piece[j + 1 + x - 1] = a + j + x - 1
        BY <1>1, <2>2, <2>5, <2>7
      <3> QED BY <3>1, <3>2, <3>3
    <2>10. Samples(a + j, a + j + FrameLength - 1)
             = [x \in 1..FrameLength |-> a + j + x - 1]
      BY <2>2, <2>6 DEF Samples
    <2>11. j + FrameLength \in Nat
      BY <2>2
    <2>12. SubSeq(piece, j + 1, j + FrameLength)
             = [x \in 1..FrameLength |-> a + j + x - 1]
      BY <2>9, <2>11, Zenon
    <2> QED BY <2>8, <2>10, <2>12 DEF j
  <1>7. /\ Compute(piece) \in Seq(Frame)
        /\ Len(Compute(piece)) = M
        /\ \A i \in 1..M : Compute(piece)[i] = FrameAt(k + i)
    <2>1. Compute(piece) = [i \in 1..M |-> FrameAt(k + i)]
      BY <1>4, <1>6
    <2>2. \A i \in 1..M : FrameAt(k + i) \in Frame
      BY <1>3, FrameAtType
    <2> HIDE DEF piece
    <2>3. Compute(piece) \in [1..M -> Frame]
      BY <2>1, <2>2
    <2>4. Compute(piece) \in Seq(Frame) /\ Len(Compute(piece)) = M
      BY <1>3, <2>3
    <2> QED BY <2>1, <2>4
  <1>8. Residual(piece) = Samples(FrameShift * (k + M) + 1, n)
    <2>1. PICK a, j \in Nat : a = FrameShift * k + 1 /\ j = FrameShift * M
      BY <1>1, <1>3
    <2>2. \A x \in 1..m : piece[x] = a + x - 1
      BY <1>2, <2>1
    <2>3. FrameShift * (k + M) + 1 = a + j
      BY <1>3, <2>1
    <2>4. m \in Nat /\ j =< m /\ n = a + m - 1
      BY <1>1, <1>3, <2>1
    <2> HIDE DEF piece, m
    <2>5. SubSeq(piece, j + 1, m) = [x \in 1..(m - j) |-> a + j + x - 1]
      <3>1. SubSeq(piece, j + 1, m)
              = [x \in 1..(m - (j + 1) + 1) |-> piece[j + 1 + x - 1]]
        BY <1>2, <2>4
      <3>2. m - (j + 1) + 1 = m - j
        BY <2>4
      <3>3. \A x \in 1..(m - j) : piece[j + 1 + x - 1] = a + j + x - 1
        BY <2>2, <2>4
      <3> QED BY <3>1, <3>2, <3>3
    <2>6. Samples(a + j, n) = [x \in 1..(m - j) |-> a + j + x - 1]
      BY <2>1, <2>4 DEF Samples
    <2> QED BY <1>5, <2>1, <2>3, <2>5, <2>6
  <1> QED BY <1>2, <1>7, <1>8 DEF M

-----------------------------------------------------------------------------
(* The pipeline.                                                           *)

\* What thread A knows between its steps: where it is in the stream.
WriterInv ==
    /\ wpc # "push" =>
         /\ feats = <<>>
         /\ remained_wav = Samples(FrameShift * num_frames + 1, sampled)
    /\ wpc = "push" =>
         /\ waves = Samples(FrameShift * num_frames + 1, sampled)
         /\ NumFrames(sampled) = num_frames + NumFrames(Len(waves))
    /\ FrameShift * num_frames =< sampled
    /\ input_finished => wpc \in {"idle", "finish"}

\* What thread B knows: only it takes frames out, and only the finished
\* input leads it to the double check.
ReaderInv ==
    /\ PopNeverBlocks
    /\ rpc = "final" => input_finished
    /\ result = "pending" => Len(out) < asked

IInv == TypeOK /\ StreamIntegrity /\ WriterInv /\ ReaderInv

-----------------------------------------------------------------------------
LEMMA InitIInv == Init => IInv
  <1> SUFFICES ASSUME Init PROVE IInv
    OBVIOUS
  <1> USE FramingAssumption, PipelineAssumption DEF Init
  <1>1. TypeOK
    <2>1. asked \in 0..(SizeModulus - 1) /\ <<>> \in Seq(Frame)
      OBVIOUS
    <2>2. (rpc = "idle") <=> (result # "pending")
      OBVIOUS
    <2>3. /\ input_finished \in BOOLEAN
          /\ wpc \in WriterPcs /\ rpc \in ReaderPcs
          /\ result \in {"true", "false", "pending"}
      BY DEF WriterPcs, ReaderPcs
    <2>4. <<>> \in Seq(Nat)
      OBVIOUS
    <2> QED BY <2>1, <2>2, <2>3, <2>4 DEF TypeOK
  <1>2. NumFrames(0) = 0
    BY NumFramesBounds
  <1>3. StreamIntegrity
    BY <1>2 DEF StreamIntegrity
  <1>4. Samples(FrameShift * 0 + 1, 0) = <<>>
    BY DEF Samples
  <1>5. WriterInv
    <2>1. FrameShift * 0 = 0
      OBVIOUS
    <2> QED BY <1>4, <2>1 DEF WriterInv
  <1>6. ReaderInv
    BY DEF ReaderInv, PopNeverBlocks
  <1> QED BY <1>1, <1>3, <1>5, <1>6 DEF IInv

\* The samples of a new chunk go on where remained_wav_ ends, so one call
\* computes the next frames of the stream and pushes none of them yet.
LEMMA AcceptIInv ==
    ASSUME IInv, NEW k \in ChunkSizes, AcceptWaveform(k)
    PROVE  IInv'
  <1> USE FramingAssumption, PipelineAssumption
  <1> DEFINE first == FrameShift * num_frames + 1
             M == NumFrames(sampled + k - FrameShift * num_frames)
  <1>1. /\ wpc = "idle" /\ ~input_finished /\ feats = <<>>
        /\ waves' = remained_wav \o Samples(sampled + 1, sampled + k)
        /\ feats' = Compute(waves')
        /\ sampled' = sampled + k
        /\ wpc' = "push"
        /\ UNCHANGED <<members, reader, consumed>>
    BY DEF AcceptWaveform, IInv, WriterInv
  <1>2. /\ k \in Nat /\ sampled \in Nat /\ num_frames \in Nat
        /\ FrameShift * num_frames \in Nat
        /\ FrameShift * num_frames =< sampled
        /\ remained_wav = Samples(first, sampled)
        /\ num_frames = NumFrames(sampled)
    BY <1>1 DEF IInv, TypeOK, WriterInv, StreamIntegrity
  <1>3. waves' = Samples(first, sampled + k)
    <2>1. first \in Nat /\ sampled + k \in Nat
          /\ first =< sampled + 1 /\ sampled =< sampled + k
      BY <1>2
    <2> HIDE DEF first
    <2> QED BY <1>1, <1>2, <2>1, SamplesJoin
  <1>4. /\ waves' \in Seq(Nat)
        /\ Len(waves') = sampled + k - FrameShift * num_frames
        /\ feats' \in Seq(Frame)
        /\ Len(feats') = M
        /\ \A i \in 1..M : feats'[i] = FrameAt(num_frames + i)
    <2>1. sampled + k \in Nat /\ FrameShift * num_frames =< sampled + k
      BY <1>2
    <2>2. PICK n \in Nat : n = sampled + k
      BY <2>1
    <2>3. /\ Samples(first, n) \in Seq(Nat)
          /\ Len(Samples(first, n)) = n - FrameShift * num_frames
          /\ Compute(Samples(first, n)) \in Seq(Frame)
          /\ Len(Compute(Samples(first, n)))
               = NumFrames(n - FrameShift * num_frames)
          /\ \A i \in 1..NumFrames(n - FrameShift * num_frames) :
                 Compute(Samples(first, n))[i] = FrameAt(num_frames + i)
      BY <1>2, <2>1, <2>2, ComputeFrames
    <2>4. waves' = Samples(first, n) /\ feats' = Compute(Samples(first, n))
      BY <1>1, <1>3, <2>2, Zenon
    <2>5. M = NumFrames(n - FrameShift * num_frames)
      BY <1>2, <2>2
    <2> HIDE DEF first, M
    <2>6. /\ waves' \in Seq(Nat)
          /\ Len(waves') = n - FrameShift * num_frames
          /\ feats' \in Seq(Frame)
          /\ Len(feats') = M
          /\ \A i \in 1..M : feats'[i] = FrameAt(num_frames + i)
      BY <2>3, <2>4, <2>5, Zenon
    <2> QED BY <1>2, <2>2, <2>6
  <1>5. NumFrames(sampled + k) = num_frames + M
    <2>1. NumFrames(sampled + k)
            = NumFrames(sampled)
              + NumFrames(sampled - FrameShift * NumFrames(sampled) + k)
      BY <1>2, NumFramesSplit
    <2>2. sampled - FrameShift * num_frames + k
            = sampled + k - FrameShift * num_frames
      BY <1>2
    <2> QED BY <1>2, <2>1, <2>2
  <1> HIDE DEF M, first
  <1>6. TypeOK'
    BY <1>1, <1>2, <1>4
       DEF IInv, TypeOK, members, reader, WriterPcs, ReaderPcs
  <1>7. StreamIntegrity'
    <2>1. consumed + Len(feature_queue) = num_frames
      BY <1>1, <1>2 DEF IInv, TypeOK, StreamIntegrity
    <2>2. (consumed + Len(feature_queue) + Len(feats))' = num_frames + M
      BY <1>1, <1>4, <2>1 DEF members
    <2>3. ASSUME NEW i \in 1..Len(feats')
          PROVE  feats'[i] = FrameAt(consumed' + Len(feature_queue') + i)
      BY <1>1, <1>4, <2>1 DEF members
    <2> QED BY <1>1, <1>5, <2>2, <2>3
         DEF IInv, StreamIntegrity, members, reader
  <1>8. WriterInv'
    <2>1. num_frames' = num_frames /\ input_finished' = input_finished
      BY <1>1 DEF members
    <2>2. waves' = Samples(FrameShift * num_frames + 1, sampled + k)
      BY <1>3 DEF first
    <2>3. NumFrames(sampled + k) = num_frames + NumFrames(Len(waves'))
      BY <1>4, <1>5 DEF M
    <2>4. FrameShift * num_frames =< sampled + k
      BY <1>2
    <2> QED BY <1>1, <2>1, <2>2, <2>3, <2>4 DEF WriterInv
  <1>9. ReaderInv'
    BY <1>1 DEF IInv, ReaderInv, PopNeverBlocks, members, reader
  <1> QED BY <1>6, <1>7, <1>8, <1>9 DEF IInv

\* Frame i of the joined queue keeps its number when a feature moves over.
LEMMA PushIInv == IInv /\ Push => IInv'
  <1> SUFFICES ASSUME IInv, Push PROVE IInv'
    OBVIOUS
  <1> USE FramingAssumption, PipelineAssumption
  <1>1. /\ wpc = "push" /\ feats # <<>>
        /\ feature_queue' = Append(feature_queue, Head(feats))
        /\ feats' = Tail(feats)
        /\ UNCHANGED <<num_frames, input_finished, remained_wav, wpc, waves,
                       reader, history>>
    BY DEF Push
  <1>2. feature_queue \in Seq(Frame) /\ feats \in Seq(Frame) /\ consumed \in Nat
    BY DEF IInv, TypeOK
  <1>3. /\ feature_queue' \in Seq(Frame) /\ feats' \in Seq(Frame)
        /\ Len(feature_queue') = Len(feature_queue) + 1
        /\ Len(feats') = Len(feats) - 1
        /\ Len(feats) > 0
        /\ \A i \in 1..Len(feature_queue) :
               feature_queue'[i] = feature_queue[i]
        /\ feature_queue'[Len(feature_queue) + 1] = feats[1]
        /\ \A i \in 1..(Len(feats) - 1) : feats'[i] = feats[i + 1]
    BY <1>1, <1>2
  <1>4. TypeOK'
    BY <1>1, <1>3 DEF IInv, TypeOK, reader, history
  <1>5. StreamIntegrity'
    <2>1. ASSUME NEW i \in 1..Len(feature_queue')
          PROVE  feature_queue'[i] = FrameAt(consumed + i)
      <3>1. CASE i \in 1..Len(feature_queue)
        BY <1>3, <3>1 DEF IInv, StreamIntegrity
      <3>2. CASE i = Len(feature_queue) + 1
        <4>1. feats[1] = FrameAt(consumed + Len(feature_queue) + 1)
          BY <1>2, <1>3 DEF IInv, StreamIntegrity
        <4>2. consumed + Len(feature_queue) + 1 = consumed + i
          BY <1>2, <3>2
        <4> QED BY <1>3, <3>2, <4>1, <4>2
      <3> QED BY <1>2, <1>3, <3>1, <3>2
    <2>2. ASSUME NEW i \in 1..Len(feats')
          PROVE  feats'[i] = FrameAt(consumed + Len(feature_queue') + i)
      <3>1. i + 1 \in 1..Len(feats) /\ feats'[i] = feats[i + 1]
        BY <1>2, <1>3
      <3>2. feats[i + 1] = FrameAt(consumed + Len(feature_queue) + (i + 1))
        BY <3>1 DEF IInv, StreamIntegrity
      <3>3. consumed + Len(feature_queue) + (i + 1)
              = consumed + Len(feature_queue') + i
        BY <1>2, <1>3
      <3> QED BY <3>1, <3>2, <3>3
    <2>3. consumed + Len(feature_queue') + Len(feats')
            = consumed + Len(feature_queue) + Len(feats)
      BY <1>2, <1>3
    <2> QED BY <1>1, <2>1, <2>2, <2>3
         DEF IInv, StreamIntegrity, reader, history
  <1>6. WriterInv'
    BY <1>1 DEF IInv, WriterInv, history
  <1>7. ReaderInv'
    BY <1>1, <1>2, <1>3 DEF IInv, ReaderInv, PopNeverBlocks, reader
  <1> QED BY <1>4, <1>5, <1>6, <1>7 DEF IInv

\* remained_wav_ is cut where the next frame of the stream starts.
LEMMA KeepResidualIInv == IInv /\ KeepResidual => IInv'
  <1> SUFFICES ASSUME IInv, KeepResidual PROVE IInv'
    OBVIOUS
  <1> USE FramingAssumption, PipelineAssumption
  <1> DEFINE M == NumFrames(sampled - FrameShift * num_frames)
  <1>1. /\ wpc = "push" /\ feats = <<>>
        /\ num_frames' = num_frames + NumFrames(Len(waves))
        /\ remained_wav' = Residual(waves)
        /\ waves' = <<>> /\ wpc' = "notify"
        /\ UNCHANGED <<feature_queue, input_finished, feats, reader, history>>
    BY DEF KeepResidual
  <1>2. /\ sampled \in Nat /\ num_frames \in Nat
        /\ FrameShift * num_frames =< sampled
        /\ waves = Samples(FrameShift * num_frames + 1, sampled)
        /\ NumFrames(sampled) = num_frames + NumFrames(Len(waves))
    BY <1>1 DEF IInv, TypeOK, WriterInv
  <1>3. /\ Len(waves) = sampled - FrameShift * num_frames
        /\ Residual(waves)
             = Samples(FrameShift * (num_frames + M) + 1, sampled)
    BY <1>2, ComputeFrames
  <1>4. num_frames' = NumFrames(sampled) /\ num_frames' = num_frames + M
    BY <1>1, <1>2, <1>3
  <1> HIDE DEF M
  <1>5. /\ num_frames' \in Nat
        /\ FrameShift * num_frames' \in Nat
        /\ FrameShift * num_frames' =< sampled
    BY <1>2, <1>4, NumFramesBounds, FramesFit
  <1>6. remained_wav' = Samples(FrameShift * num_frames' + 1, sampled)
    BY <1>1, <1>3, <1>4, Zenon
  <1>7. remained_wav' \in Seq(Nat)
    <2>1. PICK x \in Nat : x = FrameShift * num_frames'
      BY <1>5
    <2>2. x + 1 \in Nat /\ x + 1 =< sampled + 1
      <3>1. x =< sampled
        BY <1>5, <2>1, Zenon
      <3>2. sampled \in Nat
        BY <1>2
      <3> QED BY <3>1, <3>2
    <2>3. Samples(x + 1, sampled) \in Seq(Nat)
      BY <1>2, <2>2, SamplesType
    <2> QED BY <1>6, <2>1, <2>3
  <1>8. TypeOK'
    BY <1>1, <1>5, <1>7 DEF IInv, TypeOK, WriterPcs, reader, history
  <1>9. StreamIntegrity'
    BY <1>1, <1>4 DEF IInv, StreamIntegrity, reader, history
  <1>10. WriterInv'
    <2>1. ~input_finished
      BY <1>1 DEF IInv, WriterInv
    <2> QED BY <1>1, <1>5, <1>6, <2>1 DEF WriterInv, history
  <1>11. ReaderInv'
    BY <1>1 DEF IInv, ReaderInv, PopNeverBlocks, reader
  <1> QED BY <1>8, <1>9, <1>10, <1>11 DEF IInv

LEMMA FinishIInv == IInv /\ SetInputFinished => IInv'
  <1> SUFFICES ASSUME IInv, SetInputFinished PROVE IInv'
    OBVIOUS
  <1>1. TypeOK'
    BY DEF IInv, TypeOK, SetInputFinished, WriterPcs, reader, history
  <1>2. StreamIntegrity'
    BY DEF IInv, StreamIntegrity, SetInputFinished, reader, history
  <1>3. WriterInv'
    BY DEF IInv, WriterInv, SetInputFinished, history
  <1>4. ReaderInv'
    BY DEF IInv, ReaderInv, PopNeverBlocks, SetInputFinished, reader
  <1> QED BY <1>1, <1>2, <1>3, <1>4 DEF IInv

LEMMA NotifyIInv == IInv /\ Notify => IInv'
  <1> SUFFICES ASSUME IInv, Notify PROVE IInv'
    OBVIOUS
  <1> USE DEF Notify, NotifyOne, members, history
  <1>1. TypeOK'
    BY DEF IInv, TypeOK, WriterPcs, ReaderPcs
  <1>2. StreamIntegrity'
    BY DEF IInv, StreamIntegrity
  <1>3. WriterInv'
    BY DEF IInv, WriterInv
  <1>4. ReaderInv'
    BY DEF IInv, ReaderInv, PopNeverBlocks
  <1> QED BY <1>1, <1>2, <1>3, <1>4 DEF IInv

LEMMA ReadIInv ==
    ASSUME IInv, NEW n \in ReadCounts, Read(n)
    PROVE  IInv'
  <1> USE PipelineAssumption
  <1>1. /\ asked' = n % SizeModulus /\ out' = <<>>
        /\ rpc' = IF asked' = 0 THEN "idle" ELSE "empty"
        /\ result' = IF asked' = 0 THEN "true" ELSE "pending"
        /\ UNCHANGED <<members, writer, history>>
    BY DEF Read, AsSizeT
  <1>2. asked' \in 0..(SizeModulus - 1)
    BY <1>1
  <1>3. TypeOK'
    BY <1>1, <1>2 DEF IInv, TypeOK, ReaderPcs, members, writer, history
  <1>4. StreamIntegrity'
    BY <1>1 DEF IInv, StreamIntegrity, members, writer, history
  <1>5. WriterInv'
    BY <1>1 DEF IInv, WriterInv, members, writer, history
  <1>6. ReaderInv'
    BY <1>1, <1>2 DEF IInv, ReaderInv, PopNeverBlocks, members
  <1> QED BY <1>3, <1>4, <1>5, <1>6 DEF IInv

\* The feature at the head is the next one the reader is owed.
LEMMA PopIInv == IInv /\ Pop => IInv'
  <1> SUFFICES ASSUME IInv, Pop PROVE IInv'
    OBVIOUS
  <1>1. /\ rpc \in {"pop", "popLocked"} /\ feature_queue # <<>>
        /\ out' = Append(out, Head(feature_queue))
        /\ feature_queue' = Tail(feature_queue)
        /\ consumed' = consumed + 1
        /\ rpc' = IF Len(out') < asked THEN "empty" ELSE "idle"
        /\ result' = IF Len(out') < asked THEN "pending" ELSE "true"
        /\ UNCHANGED <<num_frames, input_finished, remained_wav, writer,
                       asked, sampled>>
    BY DEF Pop
  <1>2. /\ feature_queue \in Seq(Frame) /\ out \in Seq(Frame)
        /\ feats \in Seq(Frame)
        /\ consumed \in Nat /\ result = "pending"
    BY <1>1 DEF IInv, TypeOK
  <1>3. /\ feature_queue' \in Seq(Frame) /\ out' \in Seq(Frame)
        /\ Len(feature_queue') = Len(feature_queue) - 1
        /\ Len(feature_queue) > 0
        /\ Len(out') = Len(out) + 1
        /\ \A i \in 1..(Len(feature_queue) - 1) :
               feature_queue'[i] = feature_queue[i + 1]
        /\ \A i \in 1..Len(out) : out'[i] = out[i]
        /\ out'[Len(out) + 1] = feature_queue[1]
    BY <1>1, <1>2
  <1>4. TypeOK'
    BY <1>1, <1>2, <1>3 DEF IInv, TypeOK, ReaderPcs, writer
  <1>5. StreamIntegrity'
    <2>1. feats' = feats /\ wpc' = wpc
      BY <1>1 DEF writer
    <2>2. consumed' + Len(feature_queue') + Len(feats)
            = consumed + Len(feature_queue) + Len(feats)
      BY <1>1, <1>2, <1>3
    <2>3. ASSUME NEW i \in 1..Len(feature_queue')
          PROVE  feature_queue'[i] = FrameAt(consumed' + i)
      <3>1. i + 1 \in 1..Len(feature_queue)
            /\ feature_queue'[i] = feature_queue[i + 1]
        BY <1>2, <1>3
      <3>2. feature_queue[i + 1] = FrameAt(consumed + (i + 1))
        BY <3>1 DEF IInv, StreamIntegrity
      <3>3. consumed + (i + 1) = consumed' + i
        BY <1>1, <1>2
      <3> QED BY <3>1, <3>2, <3>3
    <2>4. ASSUME NEW i \in 1..Len(feats)
          PROVE  feats[i] = FrameAt(consumed' + Len(feature_queue') + i)
      <3>1. feats[i] = FrameAt(consumed + Len(feature_queue) + i)
        BY DEF IInv, StreamIntegrity
      <3>2. consumed + Len(feature_queue) + i
              = consumed' + Len(feature_queue') + i
        BY <1>1, <1>2, <1>3
      <3> QED BY <3>1, <3>2
    <2>5. ASSUME NEW i \in 1..Len(out')
          PROVE  out'[i] = FrameAt(consumed' - Len(out') + i)
      <3>1. consumed' - Len(out') + i = consumed - Len(out) + i
        BY <1>1, <1>2, <1>3
      <3>2. CASE i \in 1..Len(out)
        <4>1. out[i] = FrameAt(consumed - Len(out) + i)
          BY <1>2, <3>2 DEF IInv, StreamIntegrity
        <4> QED BY <1>3, <3>1, <3>2, <4>1
      <3>3. CASE i = Len(out) + 1
        <4>1. feature_queue[1] = FrameAt(consumed + 1)
          BY <1>2, <1>3 DEF IInv, StreamIntegrity
        <4>2. consumed - Len(out) + i = consumed + 1
          BY <1>2, <3>3
        <4> QED BY <1>3, <3>1, <3>3, <4>1, <4>2
      <3> QED BY <1>2, <1>3, <3>2, <3>3
    <2>6. /\ wpc # "push" => num_frames = NumFrames(sampled)
          /\ consumed + Len(feature_queue) + Len(feats)
               = IF wpc = "push" THEN NumFrames(sampled) ELSE num_frames
      BY DEF IInv, StreamIntegrity
    <2> QED BY <1>1, <2>1, <2>2, <2>3, <2>4, <2>5, <2>6 DEF StreamIntegrity
  <1>6. WriterInv'
    BY <1>1 DEF IInv, WriterInv, writer
  <1>7. ReaderInv'
    BY <1>1, <1>2, <1>3 DEF IInv, ReaderInv, PopNeverBlocks
  <1> QED BY <1>4, <1>5, <1>6, <1>7 DEF IInv

\* Steps of thread B that only test or block.
LEMMA ReaderLocalIInv ==
    ASSUME IInv,
           TestEmpty \/ Lock \/ While \/ Wait \/ SpuriousWakeup \/ Recheck
             \/ DoubleCheck
    PROVE  IInv'
  <1>1. /\ UNCHANGED <<members, writer, asked, out, history>>
        /\ rpc # "idle"
        /\ rpc' \in ReaderPcs
    BY DEF TestEmpty, Lock, While, Wait, SpuriousWakeup, Recheck, DoubleCheck,
           ReaderPcs
  <1>2. \/ rpc' # "idle" /\ result' = result
        \/ rpc' = "idle" /\ result' = "false"
    BY DEF TestEmpty, Lock, While, Wait, SpuriousWakeup, Recheck, DoubleCheck
  <1>3. /\ rpc' \in {"pop", "popLocked"} => feature_queue # <<>>
        /\ rpc' = "final" => input_finished
    BY <1>1 DEF TestEmpty, Lock, While, Wait, SpuriousWakeup, Recheck,
                DoubleCheck
  <1>4. TypeOK'
    BY <1>1, <1>2 DEF IInv, TypeOK, members, writer, history
  <1>5. StreamIntegrity'
    BY <1>1, <1>2 DEF IInv, StreamIntegrity, TypeOK, members, writer, history
  <1>6. WriterInv'
    BY <1>1 DEF IInv, WriterInv, members, writer, history
  <1>7. ReaderInv'
    BY <1>1, <1>2, <1>3
       DEF IInv, ReaderInv, PopNeverBlocks, TypeOK, members
  <1> QED BY <1>4, <1>5, <1>6, <1>7 DEF IInv

LEMMA ResetIInv == IInv /\ Reset => IInv'
  <1> SUFFICES ASSUME IInv, Reset PROVE IInv'
    OBVIOUS
  <1> USE FramingAssumption
  <1>1. /\ wpc = "idle" /\ rpc = "idle" /\ feats = <<>>
        /\ result # "pending"
        /\ feature_queue' = <<>> /\ num_frames' = 0
        /\ input_finished' = FALSE /\ remained_wav' = <<>>
        /\ sampled' = 0 /\ consumed' = 0
        /\ UNCHANGED <<writer, reader>>
    BY DEF Reset, IInv, WriterInv, TypeOK
  <1>2. TypeOK'
    <2>1. <<>> \in Seq(Frame) /\ <<>> \in Seq(Nat)
      OBVIOUS
    <2>2. (input_finished \in BOOLEAN)'
      BY <1>1
    <2> QED BY <1>1, <2>1, <2>2 DEF IInv, TypeOK, writer, reader
  <1>3. StreamIntegrity'
    <2>1. NumFrames(0) = 0
      BY NumFramesBounds
    <2> QED BY <1>1, <2>1 DEF StreamIntegrity, writer, reader
  <1>4. WriterInv'
    <2>1. FrameShift * 0 = 0
      OBVIOUS
    <2>2. Samples(1, 0) = <<>>
      BY DEF Samples
    <2> QED BY <1>1, <2>1, <2>2 DEF WriterInv, writer
  <1>5. ReaderInv'
    BY <1>1 DEF ReaderInv, PopNeverBlocks, reader
  <1> QED BY <1>2, <1>3, <1>4, <1>5 DEF IInv

LEMMA StutterIInv == IInv /\ UNCHANGED vars => IInv'
  <1> SUFFICES ASSUME IInv, UNCHANGED vars PROVE IInv'
    OBVIOUS
  <1> USE DEF vars, members, writer, reader, history
  <1>1. TypeOK'
    BY DEF IInv, TypeOK
  <1>2. StreamIntegrity'
    BY DEF IInv, StreamIntegrity
  <1>3. WriterInv'
    BY DEF IInv, WriterInv
  <1>4. ReaderInv'
    BY DEF IInv, ReaderInv, PopNeverBlocks
  <1> QED BY <1>1, <1>2, <1>3, <1>4 DEF IInv

LEMMA NextIInv == IInv /\ [Next]_vars => IInv'
  <1> SUFFICES ASSUME IInv, [Next]_vars PROVE IInv'
    OBVIOUS
  <1>1. CASE \E k \in ChunkSizes : AcceptWaveform(k)
    BY <1>1, AcceptIInv
  <1>2. CASE SetInputFinished
    BY <1>2, FinishIInv
  <1>3. CASE Push
    BY <1>3, PushIInv
  <1>4. CASE KeepResidual
    BY <1>4, KeepResidualIInv
  <1>5. CASE Notify
    BY <1>5, NotifyIInv
  <1>6. CASE \E n \in ReadCounts : Read(n)
    BY <1>6, ReadIInv
  <1>7. CASE Pop
    BY <1>7, PopIInv
  <1>8. CASE TestEmpty \/ Lock \/ While \/ Wait \/ SpuriousWakeup \/ Recheck
             \/ DoubleCheck
    BY <1>8, ReaderLocalIInv
  <1>9. CASE Reset
    BY <1>9, ResetIInv
  <1>10. CASE UNCHANGED vars
    BY <1>10, StutterIInv
  <1> QED BY <1>1, <1>2, <1>3, <1>4, <1>5, <1>6, <1>7, <1>8, <1>9, <1>10
       DEF Next, WriterStep, ReaderStep

\* The inductive invariant holds in every reachable state.
THEOREM Invariance == Spec => []IInv
  BY InitIInv, NextIInv, PTL DEF Spec

-----------------------------------------------------------------------------
\* The class keeps its types: in particular remained_wav_.resize() never gets
\* a negative size, since the residual is a sequence of samples.
THEOREM TypeCorrect == Spec => []TypeOK
  <1>1. IInv => TypeOK
    BY DEF IInv
  <1> QED BY <1>1, Invariance, PTL

\* The reader gets the frames of the uninterrupted stream, whatever the
\* chunks and the interleaving.
THEOREM Integrity == Spec => []StreamIntegrity
  <1>1. IInv => StreamIntegrity
    BY DEF IInv
  <1> QED BY <1>1, Invariance, PTL

\* BlockingQueue::Pop never waits: the unlocked Empty() of one reader is
\* still right when it pops.
THEOREM NoBlockingPop == Spec => []PopNeverBlocks
  <1>1. IInv => PopNeverBlocks
    BY DEF IInv, ReaderInv
  <1> QED BY <1>1, Invariance, PTL

\* Less than a frame of samples is carried over between calls.
THEOREM ShortResidual == Spec => []ResidualIsShort
  <1>1. IInv => ResidualIsShort
    <2> SUFFICES ASSUME IInv, wpc # "push"
                 PROVE  /\ remained_wav
                             = Samples(FrameShift * num_frames + 1, sampled)
                        /\ Len(remained_wav) < FrameLength
      BY DEF ResidualIsShort
    <2> USE FramingAssumption
    <2>1. /\ sampled \in Nat /\ num_frames \in Nat
          /\ num_frames = NumFrames(sampled)
          /\ remained_wav = Samples(FrameShift * num_frames + 1, sampled)
          /\ FrameShift * num_frames =< sampled
      BY DEF IInv, TypeOK, StreamIntegrity, WriterInv
    <2>2. sampled - FrameShift * num_frames < FrameLength
      BY <2>1, FramesFit
    <2>3. Len(remained_wav) = sampled - FrameShift * num_frames
      BY <2>1, ComputeFrames
    <2> QED BY <2>1, <2>2, <2>3
  <1> QED BY <1>1, Invariance, PTL

\* Read gives up only when all whole frames of the finished input were read.
THEOREM NoEarlyFalse == Spec => FalseOnlyAtEnd
  <1> DEFINE GivesUp == (result = "pending" /\ result' = "false") =>
                            /\ input_finished
                            /\ consumed = NumFrames(sampled)
                            /\ Len(out) < asked
  <1>1. IInv /\ [Next]_vars => [GivesUp]_vars
    <2> SUFFICES ASSUME IInv, Next, result = "pending", result' = "false"
                 PROVE  /\ input_finished
                        /\ consumed = NumFrames(sampled)
                        /\ Len(out) < asked
      OBVIOUS
    <2>1. DoubleCheck /\ feature_queue = <<>> /\ rpc = "final"
      BY DEF Next, AcceptWaveform, SetInputFinished, WriterStep, Push,
             KeepResidual, Notify, Read, ReaderStep, TestEmpty, Pop, Lock,
             While, Wait, Recheck, DoubleCheck, SpuriousWakeup, Reset, reader
    <2>2. input_finished /\ wpc # "push" /\ feats = <<>>
      BY <2>1 DEF IInv, ReaderInv, WriterInv
    <2>3. consumed = NumFrames(sampled)
      BY <2>1, <2>2 DEF IInv, StreamIntegrity, TypeOK
    <2> QED BY <2>2, <2>3 DEF IInv, ReaderInv
  <1> QED BY <1>1, Invariance, PTL DEF Spec, FalseOnlyAtEnd

-----------------------------------------------------------------------------
(* The safety part of ImplementsChannel; its fairness stays with TLC.      *)

LEMMA ChannelPublish == IInv /\ Push => Channel!Publish
  <1> SUFFICES ASSUME IInv, Push PROVE Channel!Publish
    OBVIOUS
  <1>1. /\ feature_queue \in Seq(Frame) /\ feats \in Seq(Frame)
        /\ consumed \in Nat
        /\ feature_queue' = Append(feature_queue, Head(feats))
        /\ feats # <<>> /\ wpc = "push"
        /\ UNCHANGED <<input_finished, reader, history>>
    BY DEF IInv, TypeOK, Push
  <1>2. consumed + Len(feature_queue) < NumFrames(sampled)
    BY <1>1 DEF IInv, StreamIntegrity
  <1>3. (consumed + Len(feature_queue))' = consumed + Len(feature_queue) + 1
    BY <1>1 DEF history
  <1> QED BY <1>1, <1>2, <1>3 DEF Channel!Publish, Channel!NumFrames,
                                  NumFrames, reader, history

LEMMA ChannelClose == IInv /\ SetInputFinished => Channel!Close
  <1> SUFFICES ASSUME IInv, SetInputFinished PROVE Channel!Close
    OBVIOUS
  <1>1. consumed + Len(feature_queue) = NumFrames(sampled)
    BY DEF IInv, TypeOK, StreamIntegrity, WriterInv, SetInputFinished
  <1> QED BY <1>1 DEF Channel!Close, Channel!NumFrames, NumFrames,
                      SetInputFinished, reader, history

LEMMA ChannelTake == IInv /\ Pop => Channel!Take
  <1> SUFFICES ASSUME IInv, Pop PROVE Channel!Take
    OBVIOUS
  <1>1. /\ feature_queue \in Seq(Frame) /\ out \in Seq(Frame)
        /\ consumed \in Nat /\ asked \in Nat
        /\ result = "pending" /\ Len(out) < asked
        /\ feature_queue # <<>>
    BY PipelineAssumption DEF Pop, IInv, TypeOK, ReaderInv
  <1>2. /\ Len(feature_queue) > 0
        /\ feature_queue[1] = FrameAt(consumed + 1)
    BY <1>1 DEF IInv, StreamIntegrity
  <1>3. /\ out' = Append(out, FrameAt(consumed + 1))
        /\ Len(out') = Len(out) + 1
    BY <1>1, <1>2 DEF Pop
  <1>4. (consumed + Len(feature_queue))' = consumed + Len(feature_queue)
    BY <1>1 DEF Pop
  <1>5. result' = IF Len(out') = asked THEN "true" ELSE "pending"
    BY <1>1, <1>3 DEF Pop
  <1>6. consumed < consumed + Len(feature_queue)
    BY <1>1, <1>2
  <1> QED BY <1>1, <1>3, <1>4, <1>5, <1>6
       DEF Channel!Take, Channel!FrameAt, Channel!Samples, FrameAt, Samples,
           Pop, writer

LEMMA ChannelAsk ==
    ASSUME IInv, NEW n \in ReadCounts, Read(n)
    PROVE  Channel!Ask(AsSizeT(n))
  BY DEF Read, IInv, TypeOK, Channel!Ask, members, history

LEMMA ChannelGiveUp ==
    ASSUME IInv, DoubleCheck
    PROVE  Channel!GiveUp \/ UNCHANGED Channel!vars
  <1>1. CASE feature_queue # <<>>
    BY <1>1 DEF DoubleCheck, Channel!vars, members, history
  <1>2. CASE feature_queue = <<>>
    <2>1. consumed = consumed + Len(feature_queue)
      BY <1>2 DEF IInv, TypeOK
    <2> QED BY <1>2, <2>1 DEF DoubleCheck, IInv, TypeOK, ReaderInv,
                              Channel!GiveUp, members, writer, history
  <1> QED BY <1>1, <1>2

LEMMA ChannelRestart == IInv /\ Reset => Channel!Restart
  <1> SUFFICES ASSUME IInv, Reset PROVE Channel!Restart
    OBVIOUS
  <1>1. consumed + Len(feature_queue) = NumFrames(sampled)
    BY DEF IInv, TypeOK, StreamIntegrity, WriterInv, Reset
  <1>2. (consumed + Len(feature_queue))' = 0
    BY DEF Reset
  <1> QED BY <1>1, <1>2 DEF Channel!Restart, Channel!NumFrames, NumFrames,
                            Reset, IInv, TypeOK, reader

\* Every step of the two threads is a step of the channel or changes nothing
\* a user of the class can see.
THEOREM ImplementsChannelSafely ==
    Spec => Channel!Init /\ [][Channel!Next]_Channel!vars
  <1>1. Init => Channel!Init
    BY DEF Init, Channel!Init
  <1>2. IInv /\ [Next]_vars => [Channel!Next]_Channel!vars
    <2> SUFFICES ASSUME IInv, [Next]_vars
                 PROVE  Channel!Next \/ UNCHANGED Channel!vars
      OBVIOUS
    <2>1. CASE \E k \in ChunkSizes : AcceptWaveform(k)
      BY <2>1 DEF AcceptWaveform, Channel!Next, Channel!Feed, members, reader
    <2>2. CASE SetInputFinished
      BY <2>2, ChannelClose DEF Channel!Next
    <2>3. CASE Push
      BY <2>3, ChannelPublish DEF Channel!Next
    <2>4. CASE KeepResidual \/ Notify \/ TestEmpty \/ Lock \/ While \/ Wait
               \/ SpuriousWakeup \/ Recheck
      BY <2>4 DEF KeepResidual, Notify, TestEmpty, Lock, While, Wait,
                  SpuriousWakeup, Recheck, Channel!vars, members, reader,
                  history
    <2>5. CASE \E n \in ReadCounts : Read(n)
      BY <2>5, ChannelAsk DEF Channel!Next
    <2>6. CASE Pop
      BY <2>6, ChannelTake DEF Channel!Next
    <2>7. CASE DoubleCheck
      BY <2>7, ChannelGiveUp DEF Channel!Next
    <2>8. CASE Reset
      BY <2>8, ChannelRestart DEF Channel!Next
    <2>9. CASE UNCHANGED vars
      BY <2>9 DEF Channel!vars, vars, members, reader, history
    <2> QED BY <2>1, <2>2, <2>3, <2>4, <2>5, <2>6, <2>7, <2>8, <2>9
         DEF Next, WriterStep, ReaderStep
  <1> QED BY <1>1, <1>2, Invariance, PTL DEF Spec
=============================================================================
