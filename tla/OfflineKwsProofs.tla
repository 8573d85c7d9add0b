-------------------------- MODULE OfflineKwsProofs --------------------------
(***************************************************************************)
(* kws_main prints one line for each frame of the file that was judged,    *)
(* under its number, for every file, batch size and model.                 *)
(***************************************************************************)
EXTENDS OfflineKws, SequenceTheorems, WellFoundedInduction, TLAPS

T == Wav!TheChunk

Ids == {"unread", "data", "fact", "list", "other"}

\* Where Open() is in the file, and what it takes from a sound one.
WavInv ==
    /\ reader \in {"open", "search", "refused", "done", "crashed", "exited"}
    /\ header \in [id : Ids, size : Nat]
    /\ position \in Nat /\ data \in Seq(Nat)
    /\ reader = "open" => header.id = "unread"
    /\ Wav!Sound =>
         /\ reader # "refused"
         /\ reader = "search" /\ header.id = "data" =>
              /\ header = file.chunks[T]
              /\ position = Wav!Start(T) + 8
         /\ reader = "done" =>
              data = [i \in 1..Wav!SamplesInFile |-> Wav!SampleInFile(i)]

\* The frames of what was read, and the first of them.
TheFrames == Frames!Compute(data)
Prefix(k) == SubSeq(TheFrames, 1, k)

Feature == Seq(Nat)
Running == {"read", "forward", "print", "done"}

Started ==
    /\ pc \in {"arguments", "model", "dimension", "wav", "exited", "aborted"} \cup Running
    /\ num_frames \in Nat /\ file \in Files /\ model \in Models
    /\ WavInv
    /\ pc \in Running => reader = "done"
    /\ pc \notin Running =>
         read = 0 /\ offset = 0 /\ cache = <<>> /\ feats = <<>> /\ printed = <<>>

\* A batch is the frames after those printed, and a short one is the last.
Batched ==
    /\ read \in 0..Len(TheFrames) /\ offset \in Nat /\ feats \in Seq(Feature)
    /\ pc \in {"forward", "print"} =>
         /\ feats = SubSeq(TheFrames, offset + 1, read)
         /\ offset + Len(feats) = read
         /\ Len(feats) \in 1..num_frames
         /\ ok = (Len(feats) = num_frames)
         /\ ~ok => read = Len(TheFrames)
    /\ pc \notin {"forward", "print"} => read = offset
    /\ pc = "done" => read = Len(TheFrames)

\* An output has heard its own frame last.
Judged ==
    /\ cache \in Seq(Feature)
    /\ pc = "print" =>
         /\ prob \in Seq(Seq(Feature)) /\ Len(prob) <= Len(feats)
         /\ \A i \in 1..Len(prob) : Last(prob[i]) = feats[i]

Lines ==
    /\ printed \in Seq([frame : Nat, output : Seq(Feature)])
    /\ \A i \in 1..Len(printed) :
           /\ printed[i].frame < offset
           /\ Last(printed[i].output) = TheFrames[printed[i].frame + 1]
    /\ \A i, j \in 1..Len(printed) : i < j => printed[i].frame < printed[j].frame

Matched == num_frames = Spotter!fixed_frames /\ Spotter!output_frames = Spotter!fixed_frames

\* The cache and an output stand for all frames up to the last one.
OnePass ==
    ~failed /\ Matched =>
        /\ Len(printed) = offset
        /\ \A i \in 1..offset : printed[i] = [frame |-> i - 1, output |-> Prefix(i)]
        /\ pc \in {"read", "forward"} => cache = Prefix(offset)
        /\ pc = "print" =>
             /\ Len(prob) = Len(feats)
             /\ \A i \in 1..Len(feats) : prob[i] = Prefix(offset + i)
             /\ ok => cache = Prefix(read)

\* What was printed has been heard, and nothing else: a failed batch left the
\* cache as it was.
Heard(i) == [j \in 1..i |-> TheFrames[printed[j].frame + 1]]

Remembered ==
    Matched =>
        /\ \A i \in 1..Len(printed) : printed[i].output = Heard(i)
        /\ pc \in {"read", "forward"} => cache = Heard(Len(printed))
        /\ pc = "print" =>
             /\ \A i \in 1..Len(prob) :
                    prob[i] = Heard(Len(printed)) \o SubSeq(feats, 1, i)
             /\ ok => cache = Heard(Len(printed)) \o SubSeq(feats, 1, Len(prob))

TensorFilled == pc = "print" /\ prob # <<>> => input = Spotter!Filled(feats)

IInv == Started /\ Batched /\ Judged /\ Lines /\ OnePass /\ Remembered /\ TensorFilled

-----------------------------------------------------------------------------
(* The file.                                                               *)

LEMMA LeastNatural ==
    ASSUME NEW S \in SUBSET Nat, S # {}
    PROVE  \E x \in S : \A y \in S : x =< y
  <1> DEFINE less == {ss \in Nat \X Nat : ss[1] < ss[2]}
  <1>1. IsWellFoundedOn(less, Nat)
    BY NatLessThanWellFounded DEF OpToRel
  <1>2. \A y, x \in Nat : y < x => <<y, x>> \in less
    OBVIOUS
  <1> HIDE DEF less
  <1>3. PICK x \in S : \A y \in S : ~(<<y, x>> \in less)
    BY <1>1, WFMin
  <1>4. \A y \in S : ~(y < x)
    BY <1>2, <1>3
  <1> QED BY <1>4

LEMMA FileParts ==
    ASSUME file \in Files
    PROVE  /\ file.exists \in BOOLEAN /\ file.fmt_size \in Nat
           /\ file.channels \in Nat \ {0} /\ file.bits \in {8, 16, 24, 32}
           /\ file.length \in Nat
           /\ file.chunks \in Seq([id : {"data", "fact", "list"}, size : Nat])
           /\ Len(file.chunks) \in Nat
           /\ \A n \in 1..(Len(file.chunks) + 1) : Wav!Start(n) \in Nat
           /\ \A n \in 1..Len(file.chunks) :
                  /\ file.chunks[n] \in [id : {"data", "fact", "list"}, size : Nat]
                  /\ Wav!Start(n) + 8 + file.chunks[n].size <= Wav!Start(n + 1)
           /\ Wav!width \in {1, 2, 3, 4}
           /\ file.bits # 24 => Wav!width \in {1, 2, 4}
  <1>1. file \in Wav!File /\ Wav!Chained(file)
    BY FileAssumption
  <1>2. file.chunks \in Seq([id : {"data", "fact", "list"}, size : Nat])
        /\ file.starts \in Seq(Nat) /\ file.bits \in {8, 16, 24, 32}
        /\ Len(file.starts) = Len(file.chunks) + 1
    BY <1>1 DEF Wav!File, Wav!Chained
  <1>3. \A n \in 1..(Len(file.chunks) + 1) : Wav!Start(n) \in Nat
    BY <1>2 DEF Wav!Start
  <1>4. ASSUME NEW n \in 1..Len(file.chunks)
        PROVE  /\ file.chunks[n] \in [id : {"data", "fact", "list"}, size : Nat]
               /\ Wav!Start(n) + 8 + file.chunks[n].size <= Wav!Start(n + 1)
    <2>1. file.chunks[n] \in [id : {"data", "fact", "list"}, size : Nat]
      BY <1>2, ElementOfSeq
    <2>2. PICK s \in Nat : s = file.chunks[n].size
      BY <2>1
    <2>3. Wav!Start(n + 1) = Wav!Start(n) + 8 + s + (s % 2)
      BY <1>1, <2>2 DEF Wav!Chained, Wav!Start
    <2>4. s % 2 \in 0..1 /\ Wav!Start(n) \in Nat
      BY <1>2, <1>3
    <2>5. Wav!Start(n) + 8 + s <= Wav!Start(n + 1)
      BY <2>3, <2>4
    <2> QED BY <2>1, <2>2, <2>5
  <1>5. Wav!width \in {1, 2, 3, 4} /\ (file.bits # 24 => Wav!width \in {1, 2, 4})
    <2>1. 8 \div 8 = 1 /\ 16 \div 8 = 2 /\ 24 \div 8 = 3 /\ 32 \div 8 = 4
      OBVIOUS
    <2> QED BY <1>2, <2>1 DEF Wav!width
  <1> QED BY <1>1, <1>2, <1>3, <1>4, <1>5 DEF Wav!File

\* No chunk reaches beyond the end of the last one.
LEMMA ChunkFits ==
    ASSUME file \in Files, NEW n \in 1..Len(file.chunks)
    PROVE  Wav!Start(n) + 8 + file.chunks[n].size <= Wav!Start(Len(file.chunks) + 1)
  <1> DEFINE N == Len(file.chunks)
             late == {k \in 1..(N + 1) : n < k /\
                         ~(Wav!Start(n) + 8 + file.chunks[n].size <= Wav!Start(k))}
  <1>1. /\ N \in Nat /\ n \in 1..N
        /\ \A k \in 1..(N + 1) : Wav!Start(k) \in Nat
        /\ \A k \in 1..N : file.chunks[k].size \in Nat
        /\ \A k \in 1..N : Wav!Start(k) + 8 + file.chunks[k].size <= Wav!Start(k + 1)
    BY FileParts
  <1> HIDE DEF N
  <1>2. late = {}
    <2> SUFFICES ASSUME late # {} PROVE FALSE
      OBVIOUS
    <2>1. PICK k \in late : \A other \in late : k =< other
      <3>1. late \subseteq Nat
        BY <1>1
      <3> HIDE DEF late
      <3> QED BY <3>1, LeastNatural
    <2>2. k \in 2..(N + 1) /\ k - 1 \in n..N /\ (k - 1) + 1 = k
      BY <1>1, <2>1
    <2>3. k - 1 \notin late
      BY <1>1, <2>1, <2>2
    <2>4. CASE k - 1 = n
      BY <1>1, <2>1, <2>2, <2>4
    <2>5. CASE k - 1 # n
      <3> DEFINE end == Wav!Start(n) + 8 + file.chunks[n].size
      <3>1. end <= Wav!Start(k - 1)
        BY <1>1, <2>2, <2>3, <2>5
      <3>2. Wav!Start(k - 1) + 8 + file.chunks[k - 1].size <= Wav!Start(k)
        BY <1>1, <2>2
      <3>3. ~(end <= Wav!Start(k))
        BY <2>1
      <3>4. /\ k - 1 \in 1..N /\ k - 1 \in 1..(N + 1)
            /\ k \in 1..(N + 1) /\ n \in 1..(N + 1)
        BY <1>1, <2>2
      <3>5. Wav!Start(n) \in Nat /\ file.chunks[n].size \in Nat
        BY <1>1, <3>4
      <3>6. Wav!Start(k - 1) \in Nat /\ Wav!Start(k) \in Nat
            /\ file.chunks[k - 1].size \in Nat /\ end \in Nat
        <4>1. Wav!Start(k - 1) \in Nat /\ Wav!Start(k) \in Nat
          BY <1>1, <3>4
        <4>2. file.chunks[k - 1].size \in Nat
          BY <1>1, <3>4
        <4>3. end \in Nat
          BY <3>5
        <4> HIDE DEF end
        <4> QED BY <4>1, <4>2, <4>3
      <3>7. ASSUME NEW e \in Nat, NEW f \in Nat, NEW g \in Nat, NEW size \in Nat,
                   e <= f, f + 8 + size <= g
            PROVE  e <= g
        BY <3>7
      <3>8. end <= Wav!Start(k)
        <4> HIDE DEF end
        <4> QED BY <3>1, <3>2, <3>6, <3>7
      <3> QED BY <3>3, <3>8
    <2> QED BY <2>4, <2>5
  <1>3. N + 1 \in 1..(N + 1) /\ n < N + 1
    BY <1>1
  <1>4. N + 1 \notin late
    BY <1>2
  <1> QED BY <1>3, <1>4 DEF N

LEMMA SoundParts ==
    ASSUME file \in Files, Wav!Sound
    PROVE  /\ T \in 1..Len(file.chunks) /\ file.chunks[T].id = "data"
           /\ \A n \in 1..Len(file.chunks) : file.chunks[n].id = "data" => n = T
           /\ file.channels = 1 /\ file.bits # 24
           /\ file.exists /\ file.fmt_size >= 16
           /\ file.length = Wav!Start(Len(file.chunks) + 1)
  <1>1. PICK n \in 1..Len(file.chunks) : Wav!DataChunks = {n}
    BY DEF Wav!Sound
  <1>2. n <= n /\ n \in Nat
    BY FileParts
  <1>3. T = n
    BY <1>1, <1>2 DEF T, Wav!TheChunk
  <1> QED BY <1>1, <1>3 DEF Wav!Sound, Wav!DataChunks

LEMMA SameFile ==
    ASSUME file' = file
    PROVE  /\ Wav!Sound' = Wav!Sound /\ T' = T
           /\ \A n : Wav!Start(n)' = Wav!Start(n)
           /\ Wav!SamplesInFile' = Wav!SamplesInFile
           /\ \A i : Wav!SampleInFile(i)' = Wav!SampleInFile(i)
  BY DEF Wav!Sound, Wav!DataChunks, Wav!Start, T, Wav!TheChunk, Wav!SamplesInFile,
         Wav!SampleInFile, Wav!width

-----------------------------------------------------------------------------
(* WavReader::Open.                                                        *)

LEMMA HeaderRead ==
    ASSUME file \in Files, WavInv, NEW p \in Nat,
           header.id # "data", header' \in Wav!HeadersAt(p)
    PROVE  /\ header' \in [id : Ids, size : Nat]
           /\ Wav!Sound /\ header'.id = "data" =>
                /\ header' = file.chunks[T]
                /\ p = Wav!Start(T)
                /\ p + 8 <= file.length
  <1>1. CASE p >= file.length
    BY <1>1 DEF Wav!HeadersAt, WavInv
  <1>2. CASE ~(p >= file.length) /\ Wav!ChunksAt(p) # {}
    <2>1. PICK n \in Wav!ChunksAt(p) : header' = file.chunks[n]
      BY <1>2 DEF Wav!HeadersAt
    <2>2. n \in 1..Len(file.chunks) /\ Wav!Start(n) = p
      BY <2>1 DEF Wav!ChunksAt
    <2>3. header' \in [id : {"data", "fact", "list"}, size : Nat]
      BY <2>1, <2>2, FileParts
    <2>4. ASSUME Wav!Sound, header'.id = "data"
          PROVE  header' = file.chunks[T] /\ p = Wav!Start(T) /\ p + 8 <= file.length
      <3>1. n = T /\ file.length = Wav!Start(Len(file.chunks) + 1)
        BY <2>1, <2>2, <2>4, SoundParts
      <3>2. Wav!Start(n) + 8 + file.chunks[n].size <= file.length
        BY <2>2, <3>1, ChunkFits
      <3>3. file.chunks[n].size \in Nat /\ file.length \in Nat
        BY <2>2, FileParts
      <3>4. p + 8 <= file.length
        BY <2>2, <3>2, <3>3
      <3> QED BY <2>1, <2>2, <3>1, <3>4
    <2>5. header' \in [id : Ids, size : Nat]
      BY <2>3 DEF Ids
    <2> QED BY <2>4, <2>5
  <1>3. CASE ~(p >= file.length) /\ Wav!ChunksAt(p) = {}
    BY <1>3, FileParts DEF Wav!HeadersAt, Ids
  <1> QED BY <1>1, <1>2, <1>3

LEMMA DivMul ==
    ASSUME NEW s \in Nat, NEW w \in {1, 2, 3, 4}
    PROVE  /\ s \div w \in Nat
           /\ \A i \in 1..(s \div w) : (i - 1) * w \in Nat /\ (i - 1) * w + w <= s
  <1>1. CASE w = 1
    BY <1>1
  <1>2. CASE w = 2
    BY <1>2
  <1>3. CASE w = 3
    BY <1>3
  <1>4. CASE w = 4
    BY <1>4
  <1> QED BY <1>1, <1>2, <1>3, <1>4

LEMMA SamplesRead ==
    ASSUME file \in Files, WavInv, Wav!ReadSamples
    PROVE  /\ data' \in Seq(Nat)
           /\ Wav!Sound =>
                data' = [i \in 1..Wav!SamplesInFile |-> Wav!SampleInFile(i)]
  <1> DEFINE num_data == header.size \div Wav!width
             PlaceOf(i) == position + (i - 1) * Wav!width
             Taken(i) == IF PlaceOf(i) + Wav!width <= file.length THEN PlaceOf(i) ELSE Wav!Garbage
  <1>1. /\ Wav!width \in {1, 2, 3, 4} /\ position \in Nat /\ header.size \in Nat
        /\ file.length \in Nat /\ file.channels \in Nat \ {0}
    BY FileParts DEF WavInv
  <1>2. data' = [i \in 1..(num_data \div file.channels) |-> Taken(i)]
    BY DEF Wav!ReadSamples
  <1>3. num_data \in Nat /\ \A i \in 1..num_data :
            (i - 1) * Wav!width \in Nat /\ (i - 1) * Wav!width + Wav!width <= header.size
    BY <1>1, DivMul
  <1>4. num_data \div file.channels \in Nat
    BY <1>1, <1>3
  <1>5. \A i \in 1..(num_data \div file.channels) : Taken(i) \in Nat
    <2> TAKE i \in 1..(num_data \div file.channels)
    <2>1. i - 1 \in Nat /\ Wav!width \in Nat
      BY <1>1, <1>4
    <2>2. (i - 1) * Wav!width \in Nat
      BY <2>1
    <2> QED BY <1>1, <2>2 DEF Wav!Garbage
  <1>6. data' \in Seq(Nat)
    <2> HIDE DEF num_data, Taken
    <2> QED BY <1>2, <1>4, <1>5
  <1>7. ASSUME Wav!Sound
        PROVE  data' = [i \in 1..Wav!SamplesInFile |-> Wav!SampleInFile(i)]
    <2>1. /\ T \in 1..Len(file.chunks) /\ file.channels = 1
          /\ file.length = Wav!Start(Len(file.chunks) + 1)
      BY <1>7, SoundParts
    <2>2. header = file.chunks[T] /\ position = Wav!Start(T) + 8
      BY <1>7 DEF WavInv, Wav!ReadSamples, Wav!Goto
    <2>3. position + header.size <= file.length
      <3>1. Wav!Start(T) + 8 + header.size <= file.length
        BY <2>1, <2>2, ChunkFits
      <3> QED BY <2>2, <3>1
    <2>4. num_data \div file.channels = num_data /\ num_data = Wav!SamplesInFile
      BY <1>3, <2>1, <2>2 DEF Wav!SamplesInFile, T
    <2>5. \A i \in 1..num_data : Taken(i) = Wav!SampleInFile(i)
      <3> TAKE i \in 1..num_data
      <3>1. PICK at \in Nat : at = (i - 1) * Wav!width
        BY <1>3
      <3>2. at + Wav!width <= header.size
        BY <1>3, <3>1
      <3>3. position + at + Wav!width <= file.length
        BY <1>1, <2>3, <3>1, <3>2
      <3>4. Taken(i) = position + at
        BY <3>1, <3>3
      <3>5. Wav!SampleInFile(i) = position + at
        BY <2>2, <3>1 DEF Wav!SampleInFile, T
      <3> QED BY <3>4, <3>5
    <2> HIDE DEF num_data, Taken
    <2> QED BY <1>2, <2>4, <2>5
  <1> QED BY <1>6, <1>7

LEMMA WavStep ==
    ASSUME file \in Files, WavInv, Wav!Open
    PROVE  WavInv' /\ file' = file
  <1>1. CASE Wav!Refuse
    <2>1. /\ file' = file /\ UNCHANGED <<position, header, data>>
          /\ reader' = "refused" /\ ~Wav!Sound
      <3>1. file.fmt_size \in Nat
        BY FileParts
      <3> QED BY <1>1, <3>1 DEF Wav!Refuse, Wav!Goto, Wav!Sound
    <2>2. ~Wav!Sound'
      <3>1. file.fmt_size \in Nat
        BY FileParts
      <3> QED BY <1>1, <3>1 DEF Wav!Refuse, Wav!Sound
    <2> QED BY <2>1, <2>2 DEF WavInv
  <1>2. CASE Wav!ReadUnset
    <2>1. /\ file' = file /\ UNCHANGED <<position, header>>
          /\ reader' \in {"crashed", "done"} /\ reader = "refused"
      BY <1>2 DEF Wav!ReadUnset, Wav!Goto
    <2>2. ~Wav!Sound
      BY <2>1 DEF WavInv
    <2>3. ~Wav!Sound'
      BY <2>1, <2>2, SameFile
    <2>4. data' \in Seq(Nat)
      <3>1. PICK m \in 0..MaxGarbage : data' = [i \in 1..m |-> 0]
        BY <1>2 DEF Wav!ReadUnset, Wav!Garbage
      <3>2. m \in Nat
        BY OfflineAssumption
      <3> QED BY <3>1, <3>2
    <2> QED BY <2>1, <2>3, <2>4 DEF WavInv
  <1>3. CASE Wav!ReadHeader
    <2> DEFINE p == 20 + file.fmt_size
    <2>1. /\ file' = file /\ data' = data /\ reader = "open" /\ reader' = "search"
          /\ header' \in Wav!HeadersAt(p) /\ position' = 28 + file.fmt_size
      BY <1>3 DEF Wav!ReadHeader, Wav!Goto
    <2>2. file.fmt_size \in Nat /\ p \in Nat
      BY FileParts
    <2>3. /\ header' \in [id : Ids, size : Nat]
          /\ Wav!Sound /\ header'.id = "data" =>
               header' = file.chunks[T] /\ p = Wav!Start(T)
      BY <2>1, <2>2, HeaderRead DEF WavInv
    <2>4. position' = p + 8 /\ position' \in Nat
      BY <2>1, <2>2
    <2> HIDE DEF p
    <2> QED BY <2>1, <2>3, <2>4, SameFile DEF WavInv
  <1>4. CASE Wav!SkipChunk
    <2> DEFINE p == position + header.size
    <2>1. /\ file' = file /\ data' = data /\ reader = "search" /\ reader' = "search"
          /\ header' \in Wav!HeadersAt(p) /\ position' = Wav!AtMost(p + 8)
          /\ header.id # "data"
      BY <1>4 DEF Wav!SkipChunk, Wav!Goto
    <2>2. p \in Nat /\ file.length \in Nat
      BY FileParts DEF WavInv
    <2>3. /\ header' \in [id : Ids, size : Nat]
          /\ Wav!Sound /\ header'.id = "data" =>
               header' = file.chunks[T] /\ p = Wav!Start(T) /\ p + 8 <= file.length
      BY <2>1, <2>2, HeaderRead
    <2> HIDE DEF p
    <2>4. position' \in Nat /\ (p + 8 <= file.length => position' = p + 8)
      BY <2>1, <2>2 DEF Wav!AtMost
    <2> QED BY <2>1, <2>3, <2>4, SameFile DEF WavInv
  <1>5. CASE Wav!ReadSamples
    <2>1. /\ file' = file /\ UNCHANGED <<position, header>>
          /\ reader = "search" /\ reader' \in {"exited", "done"}
      BY <1>5 DEF Wav!ReadSamples, Wav!Goto
    <2>2. /\ data' \in Seq(Nat)
          /\ Wav!Sound =>
               data' = [i \in 1..Wav!SamplesInFile |-> Wav!SampleInFile(i)]
      BY <1>5, SamplesRead
    <2> QED BY <2>1, <2>2, SameFile DEF WavInv
  <1> QED BY <1>1, <1>2, <1>3, <1>4, <1>5 DEF Wav!Open

-----------------------------------------------------------------------------
(* Sequences and frames.                                                   *)

LEMMA SeqEq ==
    ASSUME NEW S, NEW s \in Seq(S), NEW t \in Seq(S), Len(s) = Len(t),
           \A i \in 1..Len(s) : s[i] = t[i]
    PROVE  s = t
  BY SeqEqual

LEMMA SubSeqParts ==
    ASSUME NEW S, NEW s \in Seq(S), NEW a \in Nat, NEW b \in Nat, a <= b, b <= Len(s)
    PROVE  /\ SubSeq(s, a + 1, b) \in Seq(S)
           /\ Len(SubSeq(s, a + 1, b)) = b - a
           /\ \A i \in 1..(b - a) : SubSeq(s, a + 1, b)[i] = s[a + i]
  OBVIOUS

LEMMA HeadParts ==
    ASSUME NEW S, NEW s \in Seq(S), NEW b \in Nat, b <= Len(s)
    PROVE  /\ SubSeq(s, 1, b) \in Seq(S) /\ Len(SubSeq(s, 1, b)) = b
           /\ \A i \in 1..b : SubSeq(s, 1, b)[i] = s[i]
  OBVIOUS

LEMMA ConcatParts ==
    ASSUME NEW S, NEW s \in Seq(S), NEW t \in Seq(S)
    PROVE  /\ s \o t \in Seq(S) /\ Len(s \o t) = Len(s) + Len(t)
           /\ \A i \in 1..Len(s) : (s \o t)[i] = s[i]
           /\ \A i \in 1..Len(t) : (s \o t)[Len(s) + i] = t[i]
  OBVIOUS

\* The first a elements and the b after them are the first a + b.
LEMMA PrefixGrows ==
    ASSUME NEW S, NEW s \in Seq(S), NEW t \in Seq(S), NEW a \in Nat,
           a + Len(t) <= Len(s), \A i \in 1..Len(t) : t[i] = s[a + i]
    PROVE  SubSeq(s, 1, a) \o t = SubSeq(s, 1, a + Len(t))
  <1> DEFINE head == SubSeq(s, 1, a)
             all == SubSeq(s, 1, a + Len(t))
  <1>0. Len(t) \in Nat /\ Len(s) \in Nat
    OBVIOUS
  <1>1. /\ head \in Seq(S) /\ Len(head) = a
        /\ \A i \in 1..a : head[i] = s[i]
    BY <1>0, HeadParts
  <1>2. /\ all \in Seq(S) /\ Len(all) = a + Len(t)
        /\ \A i \in 1..(a + Len(t)) : all[i] = s[i]
    BY <1>0, HeadParts
  <1> HIDE DEF head, all
  <1>3. /\ head \o t \in Seq(S) /\ Len(head \o t) = a + Len(t)
        /\ \A i \in 1..a : (head \o t)[i] = head[i]
        /\ \A i \in 1..Len(t) : (head \o t)[a + i] = t[i]
    <2>1. /\ head \o t \in Seq(S) /\ Len(head \o t) = Len(head) + Len(t)
          /\ \A i \in 1..Len(head) : (head \o t)[i] = head[i]
          /\ \A i \in 1..Len(t) : (head \o t)[Len(head) + i] = t[i]
      <3>1. head \in Seq(S) /\ t \in Seq(S)
        BY <1>1
      <3> QED BY <3>1
    <2>2. Len(head) = a
      BY <1>1
    <2> QED BY <2>1, <2>2
  <1>4. ASSUME NEW i \in 1..(a + Len(t)) PROVE (head \o t)[i] = all[i]
    <2>1. CASE i \in 1..a
      BY <1>1, <1>2, <1>3, <2>1
    <2>2. CASE i \notin 1..a
      <3>1. PICK k \in 1..Len(t) : i = a + k
        <4>1. i - a \in 1..Len(t) /\ i = a + (i - a)
          BY <1>0, <2>2
        <4> QED BY <4>1
      <3>2. (head \o t)[a + k] = s[a + k]
        BY <1>3
      <3> QED BY <1>2, <3>1, <3>2
    <2> QED BY <2>1, <2>2
  <1>5. head \o t = all
    BY <1>2, <1>3, <1>4, SeqEq
  <1> QED BY <1>5 DEF head, all

LEMMA Min2 ==
    ASSUME NEW a \in Int, NEW b \in Int
    PROVE  Min({a, b}) = IF a =< b THEN a ELSE b
  <1>1. CASE a =< b
    <2>1. \A c \in {a, b} : (\A d \in {a, b} : c =< d) <=> c = a
      BY <1>1
    <2> QED BY <1>1, <2>1 DEF Min
  <1>2. CASE ~(a =< b)
    <2>1. \A c \in {a, b} : (\A d \in {a, b} : c =< d) <=> c = b
      BY <1>2
    <2> QED BY <1>2, <2>1 DEF Min
  <1> QED BY <1>1, <1>2

LEMMA DivBounds ==
    ASSUME NEW m \in Nat, NEW d \in Nat \ {0}
    PROVE  m \div d \in Nat /\ d * (m \div d) \in Nat /\ d * (m \div d) =< m
  OBVIOUS

LEMMA MulMonotone ==
    ASSUME NEW a \in Nat, NEW b \in Nat, NEW c \in Nat, a =< b
    PROVE  c * a \in Nat /\ c * b \in Nat /\ c * a =< c * b
  <1>1. PICK d \in Nat : b = a + d
    BY b - a \in Nat
  <1>2. c * b = c * a + c * d /\ c * d \in Nat /\ c * a \in Nat
    BY <1>1
  <1> QED BY <1>2

\* A frame lies within the samples.
LEMMA FrameFits ==
    ASSUME NEW m \in Nat
    PROVE  /\ Frames!NumFrames(m) \in Nat
           /\ \A k \in 1..Frames!NumFrames(m) :
                  /\ FrameShift * (k - 1) \in Nat
                  /\ FrameShift * (k - 1) + FrameLength <= m
  <1>1. FrameLength \in Nat \ {0} /\ FrameShift \in Nat \ {0}
    BY OfflineAssumption
  <1>2. CASE m < FrameLength
    BY <1>2 DEF Frames!NumFrames
  <1>3. CASE ~(m < FrameLength)
    <2> DEFINE q == (m - FrameLength) \div FrameShift
    <2>1. m - FrameLength \in Nat
      BY <1>1, <1>3
    <2>2. q \in Nat /\ FrameShift * q \in Nat /\ FrameShift * q =< m - FrameLength
      BY <1>1, <2>1, DivBounds
    <2>3. Frames!NumFrames(m) = 1 + q
      BY <1>3 DEF Frames!NumFrames
    <2> HIDE DEF q
    <2>4. ASSUME NEW k \in 1..(1 + q)
          PROVE  FrameShift * (k - 1) \in Nat /\ FrameShift * (k - 1) + FrameLength <= m
      <3>1. k - 1 \in Nat /\ k - 1 =< q
        BY <2>2
      <3>2. FrameShift * (k - 1) \in Nat /\ FrameShift * (k - 1) =< FrameShift * q
        BY <1>1, <2>2, <3>1, MulMonotone
      <3> QED BY <1>1, <2>2, <3>2
    <2> QED BY <2>2, <2>3, <2>4
  <1> QED BY <1>2, <1>3

LEMMA FramesParts ==
    ASSUME NEW d \in Seq(Nat)
    PROVE  /\ Frames!Compute(d) \in Seq(Feature)
           /\ Len(Frames!Compute(d)) \in Nat
           /\ Len(Frames!Compute(d)) = Frames!NumFrames(Len(d))
           /\ \A k \in 1..Len(Frames!Compute(d)) :
                  /\ Frames!Compute(d)[k] =
                         [j \in 1..FrameLength |-> d[FrameShift * (k - 1) + j]]
                  /\ FrameShift * (k - 1) \in Nat
                  /\ FrameShift * (k - 1) + FrameLength <= Len(d)
  <1> DEFINE N == Frames!NumFrames(Len(d))
             Cut(k) == SubSeq(d, FrameShift * (k - 1) + 1, FrameShift * (k - 1) + FrameLength)
  <1>0. FrameLength \in Nat /\ Len(d) \in Nat
    BY OfflineAssumption
  <1>1. N \in Nat /\ \A k \in 1..N : /\ FrameShift * (k - 1) \in Nat
                                     /\ FrameShift * (k - 1) + FrameLength <= Len(d)
    BY <1>0, FrameFits
  <1>2. Frames!Compute(d) = [k \in 1..N |-> Cut(k)]
    BY DEF Frames!Compute
  <1>3. ASSUME NEW k \in 1..N
        PROVE  Cut(k) \in Feature
               /\ Cut(k) = [j \in 1..FrameLength |-> d[FrameShift * (k - 1) + j]]
    <2>1. PICK at \in Nat : at = FrameShift * (k - 1)
      BY <1>1
    <2>2. at + FrameLength <= Len(d)
      BY <1>1, <2>1
    <2>3. /\ SubSeq(d, at + 1, at + FrameLength) \in Seq(Nat)
          /\ Len(SubSeq(d, at + 1, at + FrameLength)) = FrameLength
          /\ \A i \in 1..FrameLength : SubSeq(d, at + 1, at + FrameLength)[i] = d[at + i]
      <3>1. at + FrameLength \in Nat /\ at <= at + FrameLength /\ (at + FrameLength) - at = FrameLength
        BY <1>0
      <3>2. /\ SubSeq(d, at + 1, at + FrameLength) \in Seq(Nat)
            /\ Len(SubSeq(d, at + 1, at + FrameLength)) = (at + FrameLength) - at
            /\ \A i \in 1..((at + FrameLength) - at) :
                   SubSeq(d, at + 1, at + FrameLength)[i] = d[at + i]
        BY <2>2, <3>1, SubSeqParts, Zenon
      <3> QED BY <3>1, <3>2
    <2>4. [j \in 1..FrameLength |-> d[at + j]] \in Seq(Nat)
      <3>1. \A j \in 1..FrameLength : d[at + j] \in Nat
        BY <1>0, <2>2
      <3> QED BY <1>0, <3>1
    <2>5. SubSeq(d, at + 1, at + FrameLength) = [j \in 1..FrameLength |-> d[at + j]]
      BY <1>0, <2>3, <2>4, SeqEq
    <2> QED BY <2>1, <2>3, <2>5 DEF Feature
  <1> HIDE DEF N, Cut
  <1>4. Frames!Compute(d) \in Seq(Feature) /\ Len(Frames!Compute(d)) = N
    BY <1>1, <1>2, <1>3
  <1>5. \A k \in 1..N : Frames!Compute(d)[k] = Cut(k)
    BY <1>2
  <1> QED BY <1>1, <1>3, <1>4, <1>5 DEF N

\* What was read from a sound file is cut into its frames.
LEMMA FramesOfFile ==
    ASSUME WavInv, Wav!Sound, reader = "done", file \in Files
    PROVE  /\ Len(TheFrames) = Frames!NumFrames(Wav!SamplesInFile)
           /\ \A k \in 1..Len(TheFrames) : TheFrames[k] = FrameInFile(k)
  <1>1. data \in Seq(Nat)
        /\ data = [i \in 1..Wav!SamplesInFile |-> Wav!SampleInFile(i)]
    BY DEF WavInv
  <1>2. Wav!SamplesInFile \in Nat
    <2>1. T \in 1..Len(file.chunks)
      BY SoundParts
    <2>2. file.chunks[T].size \in Nat /\ Wav!width \in {1, 2, 3, 4}
      BY <2>1, FileParts
    <2> QED BY <2>2, DivMul DEF Wav!SamplesInFile, T
  <1>3. Len(data) = Wav!SamplesInFile
    BY <1>1, <1>2
  <1>4. ASSUME NEW k \in 1..Len(TheFrames) PROVE TheFrames[k] = FrameInFile(k)
    <2>1. PICK at \in Nat : at = FrameShift * (k - 1)
      BY <1>1, FramesParts DEF TheFrames
    <2>2. /\ TheFrames[k] = [j \in 1..FrameLength |-> data[at + j]]
          /\ at + FrameLength <= Wav!SamplesInFile
      <3>1. /\ TheFrames[k] = [j \in 1..FrameLength |-> data[FrameShift * (k - 1) + j]]
            /\ FrameShift * (k - 1) + FrameLength <= Len(data)
        BY <1>1, FramesParts DEF TheFrames
      <3> QED BY <1>3, <2>1, <3>1
    <2>3. \A j \in 1..FrameLength : data[at + j] = Wav!SampleInFile(at + j)
      <3> TAKE j \in 1..FrameLength
      <3>1. at + j \in 1..Wav!SamplesInFile
        BY <1>2, <2>2, OfflineAssumption
      <3> QED BY <1>1, <3>1
    <2>4. FrameInFile(k) = [j \in 1..FrameLength |-> Wav!SampleInFile(at + j)]
      BY <2>1 DEF FrameInFile
    <2> QED BY <2>2, <2>3, <2>4
  <1>5. Len(TheFrames) = Frames!NumFrames(Len(data))
    BY <1>1, FramesParts DEF TheFrames
  <1> QED BY <1>3, <1>4, <1>5

LEMMA ModelParts ==
    ASSUME model \in Models
    PROVE  /\ Spotter!fixed_frames \in Nat /\ Spotter!output_frames \in Nat
           /\ Spotter!output_frames <= Spotter!fixed_frames
           /\ model.outputs[Spotter!output_tensor].role = "probabilities"
           /\ model.input.type \in {"float32", "int8", "uint8"}
           /\ model.input.scale \in Nat \ {0} /\ model.input.zero \in -128..255
  <1>1. model \in Spotter!Model
    BY ModelAssumption
  <1>2. /\ model.input.dims \in Seq(Nat)
        /\ model.input.type \in {"float32", "int8", "uint8"}
        /\ model.input.scale \in Nat \ {0} /\ model.input.zero \in -128..255
    BY <1>1 DEF Spotter!Model, Spotter!Tensor, Spotter!Types
  <1>3. Spotter!fixed_frames \in Nat
    <2>1. Len(model.input.dims) >= 3 => model.input.dims[2] \in Nat
      <3>1. PICK dims \in Seq(Nat) : dims = model.input.dims
        BY <1>2
      <3>2. Len(dims) >= 3 => 2 \in 1..Len(dims)
        OBVIOUS
      <3> QED BY <3>1, <3>2, ElementOfSeq
    <2> QED BY <2>1 DEF Spotter!fixed_frames, Spotter!HasShape
  <1>4. Spotter!output_tensor \in {1, 2}
    BY DEF Spotter!output_tensor
  <1>5. /\ Spotter!output_tensor <= Len(model.outputs)
        /\ model.outputs[Spotter!output_tensor].role = "probabilities"
        /\ Len(model.outputs[Spotter!output_tensor].dims) >= 2
        /\ model.outputs[Spotter!output_tensor].dims[2] <= Spotter!fixed_frames
    BY ModelAssumption DEF Spotter!output_tensor, Spotter!HasShape, Spotter!fixed_frames
  <1>6. Spotter!output_frames \in Nat
    <2>1. model.outputs \in Seq([role : Spotter!Roles, dims : Seq(Nat)])
      BY <1>1 DEF Spotter!Model
    <2>2. Spotter!output_tensor \in 1..Len(model.outputs)
      BY <1>4, <1>5, <2>1
    <2>3. model.outputs[Spotter!output_tensor] \in [role : Spotter!Roles, dims : Seq(Nat)]
      BY <2>1, <2>2, ElementOfSeq
    <2>4. model.outputs[Spotter!output_tensor].dims \in Seq(Nat)
      BY <2>3
    <2>5. model.outputs[Spotter!output_tensor].dims[2] \in Nat
      <3>1. PICK dims \in Seq(Nat) : dims = model.outputs[Spotter!output_tensor].dims
        BY <2>4
      <3>2. Len(dims) >= 2 => 2 \in 1..Len(dims)
        OBVIOUS
      <3> QED BY <1>5, <3>1, <3>2, ElementOfSeq
    <2> QED BY <2>5 DEF Spotter!output_frames
  <1> QED BY <1>2, <1>3, <1>5, <1>6 DEF Spotter!output_frames

LEMMA TheFramesType ==
    ASSUME WavInv
    PROVE  TheFrames \in Seq(Feature) /\ Len(TheFrames) \in Nat
  <1>1. data \in Seq(Nat)
    BY DEF WavInv
  <1> QED BY <1>1, FramesParts DEF TheFrames

LEMMA SameFrames ==
    ASSUME data' = data
    PROVE  TheFrames' = TheFrames /\ \A k : Prefix(k)' = Prefix(k)
  BY DEF TheFrames, Prefix

LEMMA SameModel ==
    ASSUME model' = model, batch_size' = batch_size
    PROVE  /\ Matched' = Matched /\ num_frames' = num_frames
           /\ Spotter!fixed_frames' = Spotter!fixed_frames
           /\ Spotter!output_frames' = Spotter!output_frames
           /\ \A f : Spotter!Filled(f)' = Spotter!Filled(f)
  BY DEF Matched, num_frames, AsSizeT, Spotter!fixed_frames, Spotter!output_frames, Spotter!output_tensor,
         Spotter!HasShape, Spotter!Filled, Spotter!Stored, Spotter!Quantised,
         Spotter!Input

LEMMA SameHeard ==
    ASSUME data' = data, printed' = printed
    PROVE  \A i : Heard(i)' = Heard(i)
  BY DEF TheFrames, Heard

LEMMA NothingHeard == Heard(0) = <<>>
  BY DEF Heard

\* The lines there are refer to frames there are.
LEMMA HeardParts ==
    ASSUME IInv
    PROVE  /\ Len(printed) \in Nat
           /\ \A i \in 1..Len(printed) :
                  /\ printed[i].frame \in Nat
                  /\ printed[i].frame + 1 \in 1..Len(TheFrames)
           /\ Heard(Len(printed)) \in Seq(Feature)
           /\ Len(Heard(Len(printed))) = Len(printed)
           /\ \A j \in 1..Len(printed) :
                  Heard(Len(printed))[j] = TheFrames[printed[j].frame + 1]
  <1>1. PICK P \in Nat : P = Len(printed)
    BY DEF IInv, Lines
  <1>2. TheFrames \in Seq(Feature) /\ Len(TheFrames) \in Nat
    BY TheFramesType DEF IInv, Started
  <1>3. offset \in Nat /\ offset <= Len(TheFrames)
    <2>1. offset <= read /\ offset \in Nat /\ read \in 0..Len(TheFrames)
      BY <1>2 DEF IInv, Batched
    <2> QED BY <1>2, <2>1
  <1>4. ASSUME NEW i \in 1..P
        PROVE  printed[i].frame \in Nat /\ printed[i].frame + 1 \in 1..Len(TheFrames)
    <2>1. printed \in Seq([frame : Nat, output : Seq(Feature)])
      BY DEF IInv, Lines
    <2>2. printed[i] \in [frame : Nat, output : Seq(Feature)]
      BY <1>1, <2>1, ElementOfSeq
    <2>3. printed[i].frame < offset
      BY <1>1 DEF IInv, Lines
    <2> QED BY <1>2, <1>3, <2>2, <2>3
  <1>5. \A i \in 1..P : TheFrames[printed[i].frame + 1] \in Feature
    BY <1>2, <1>4, ElementOfSeq
  <1>6. /\ Heard(P) \in Seq(Feature) /\ Len(Heard(P)) = P
        /\ \A j \in 1..P : Heard(P)[j] = TheFrames[printed[j].frame + 1]
    BY <1>5 DEF Heard
  <1> QED BY <1>1, <1>4, <1>6

LEMMA NoPrefix == ASSUME NEW s PROVE SubSeq(s, 1, 0) = <<>>
  OBVIOUS

-----------------------------------------------------------------------------
(* Every step keeps the invariant.                                         *)

LEMMA InitInv == Init => IInv
  <1> SUFFICES ASSUME Init PROVE IInv
    OBVIOUS
  <1> USE DEF Init
  <1>1. Started
    <2>1. WavInv
      BY DEF Wav!Init, WavInv, Ids
    <2>2. num_frames \in Nat
      BY OfflineAssumption DEF num_frames, AsSizeT
    <2> QED BY <2>1, <2>2 DEF Started, Running, Spotter!Init
  <1>2. Batched
    <2>1. Len(TheFrames) \in Nat
      BY <1>1, TheFramesType DEF Started
    <2> QED BY <2>1 DEF Batched
  <1>3. Judged /\ Lines /\ OnePass /\ Remembered /\ TensorFilled
    BY DEF Judged, Lines, OnePass, Remembered, TensorFilled, Spotter!Init
  <1> QED BY <1>1, <1>2, <1>3 DEF IInv

\* A step that only moves main() on, outside the batches.
LEMMA StartupStep == ASSUME IInv, Startup PROVE IInv'
  <1>1. /\ pc \in {"arguments", "model", "dimension"}
        /\ pc' \in {"model", "dimension", "wav", "aborted", "exited"}
        /\ UNCHANGED <<given, wav_vars, spotter_vars, read, feats, ok, offset, printed,
                       failed>>
    BY DEF Startup, Check
  <1> USE <1>1 DEF given, wav_vars, spotter_vars
  <1>2. TheFrames' = TheFrames /\ num_frames' = num_frames
    BY SameFrames, SameModel
  <1>3. WavInv'
    BY SameFile DEF IInv, Started, WavInv
  <1>4. Started' /\ Batched' /\ Judged' /\ Lines'
    BY <1>2, <1>3 DEF IInv, Started, Batched, Judged, Lines, Running
  <1>5. printed = <<>> /\ offset = 0
    BY DEF IInv, Started, Running
  <1>6. OnePass' /\ Remembered' /\ TensorFilled'
    BY <1>5 DEF OnePass, Remembered, TensorFilled
  <1> QED BY <1>4, <1>6 DEF IInv

LEMMA ReadWavStep == ASSUME IInv, ReadWav PROVE IInv'
  <1>1. /\ pc = "wav" /\ pc' \in {"read", "aborted", "exited", "wav"}
        /\ pc' = "read" => reader' = "done"
        /\ UNCHANGED <<batch_size, model, cache, input, prob, read, feats, ok, offset,
                       printed, failed>>
        /\ Wav!Open
    BY DEF ReadWav, spotter_vars
  <1>2. /\ file \in Files /\ model \in Models /\ num_frames \in Nat /\ WavInv
        /\ read = 0 /\ offset = 0 /\ cache = <<>> /\ feats = <<>> /\ printed = <<>>
    BY <1>1 DEF IInv, Started, Running
  <1>3. WavInv' /\ file' = file
    BY <1>1, <1>2, WavStep
  <1>4. Started'
    <2>1. num_frames' = num_frames
      BY <1>1, SameModel
    <2> QED BY <1>1, <1>2, <1>3, <2>1 DEF Started, Running
  <1>5. TheFrames' \in Seq(Feature) /\ Len(TheFrames') \in Nat
    <2>1. data' \in Seq(Nat)
      BY <1>3 DEF WavInv
    <2> QED BY <2>1, FramesParts DEF TheFrames
  <1>6. Batched'
    BY <1>1, <1>2, <1>5 DEF Batched
  <1>7. Judged' /\ Lines' /\ TensorFilled'
    BY <1>1, <1>2 DEF Judged, Lines, TensorFilled
  <1>8. OnePass'
    <2>1. Prefix(0)' = <<>>
      BY NoPrefix DEF Prefix
    <2> QED BY <1>1, <1>2, <2>1 DEF OnePass
  <1>9. Remembered'
    <2>1. Heard(0)' = <<>>
      BY DEF Heard
    <2> QED BY <1>1, <1>2, <2>1 DEF Remembered
  <1> QED BY <1>4, <1>6, <1>7, <1>8, <1>9 DEF IInv

LEMMA ReadStep == ASSUME IInv, Read PROVE IInv'
  <1> DEFINE N == Len(TheFrames)
             count == Min({num_frames, N - read})
  <1>1. /\ pc = "read"
        /\ feats' = SubSeq(TheFrames, read + 1, read + count)
        /\ ok' = (count = num_frames) /\ read' = read + count
        /\ pc' = NextAfterRead(count, ok')
        /\ UNCHANGED <<given, wav_vars, spotter_vars, offset, printed, failed>>
    BY DEF Read, TheFrames
  <1>2. /\ file \in Files /\ model \in Models /\ num_frames \in Nat /\ WavInv
        /\ reader = "done" /\ read \in 0..N /\ offset = read
    BY <1>1 DEF IInv, Started, Batched, Running
  <1>3. TheFrames \in Seq(Feature) /\ N \in Nat
    BY <1>2, TheFramesType
  <1>4. /\ count \in 0..num_frames /\ read + count \in 0..N
        /\ count # num_frames => read + count = N
    <2>1. count = IF num_frames =< N - read THEN num_frames ELSE N - read
      BY <1>2, <1>3, Min2
    <2> QED BY <1>2, <1>3, <2>1
  <1>5. feats' \in Seq(Feature) /\ Len(feats') = count
    <2>1. read \in Nat /\ read + count \in Nat /\ read <= read + count
          /\ read + count <= Len(TheFrames) /\ (read + count) - read = count
      BY <1>2, <1>3, <1>4
    <2>2. /\ SubSeq(TheFrames, read + 1, read + count) \in Seq(Feature)
          /\ Len(SubSeq(TheFrames, read + 1, read + count)) = (read + count) - read
      BY <1>3, <2>1, SubSeqParts
    <2> QED BY <1>1, <2>1, <2>2
  <1>6. pc' = IF count > 0 THEN "forward" ELSE IF count = num_frames THEN "read" ELSE "done"
    BY <1>1 DEF NextAfterRead
  <1>7. /\ TheFrames' = TheFrames /\ \A k : Prefix(k)' = Prefix(k)
        /\ Matched' = Matched /\ num_frames' = num_frames
    BY <1>1, SameFrames, SameModel DEF wav_vars, given
  <1>8. WavInv'
    BY <1>1, <1>2, SameFile DEF WavInv, wav_vars, given
  <1> HIDE DEF count
  <1>9. Started'
    BY <1>1, <1>2, <1>6, <1>7, <1>8 DEF Started, Running, given, wav_vars
  <1>10. Batched'
    <2>1. /\ read' \in 0..N /\ Len(TheFrames') = N /\ offset' \in Nat
          /\ feats' \in Seq(Feature) /\ num_frames' = num_frames
      BY <1>1, <1>2, <1>4, <1>5, <1>7
    <2>2. CASE count > 0
      <3>1. pc' = "forward"
        BY <1>6, <2>2
      <3>2. feats' = SubSeq(TheFrames', offset' + 1, read') /\ offset' + Len(feats') = read'
        BY <1>1, <1>2, <1>5, <1>7
      <3>3. Len(feats') \in 1..num_frames /\ ok' = (Len(feats') = num_frames)
            /\ (~ok' => read' = N)
        <4>1. Len(feats') = count /\ count \in 1..num_frames
          BY <1>2, <1>4, <1>5, <2>2
        <4>2. ok' = (Len(feats') = num_frames)
          BY <1>1, <4>1
        <4>3. count # num_frames => read' = N
          BY <1>1, <1>4
        <4> QED BY <4>1, <4>2, <4>3
      <3> QED BY <2>1, <3>1, <3>2, <3>3 DEF Batched
    <2>3. CASE ~(count > 0)
      <3>1. count = 0
        BY <1>2, <1>4, <2>3
      <3>2. /\ pc' \in {"read", "done"} /\ read' = offset'
            /\ pc' = "done" => read' = N
        BY <1>1, <1>2, <1>4, <1>6, <3>1
      <3> QED BY <2>1, <3>2 DEF Batched
    <2> QED BY <2>2, <2>3
  <1>11. Judged' /\ TensorFilled'
    BY <1>1, <1>6 DEF IInv, Judged, TensorFilled, spotter_vars
  <1>12. Lines'
    BY <1>1, <1>7 DEF IInv, Lines
  <1>13. OnePass'
    BY <1>1, <1>6, <1>7 DEF IInv, OnePass, spotter_vars
  <1>14. Remembered'
    <2>1. \A i : Heard(i)' = Heard(i)
      BY <1>1, SameHeard DEF wav_vars
    <2>2. pc' # "print"
      BY <1>6
    <2> QED BY <1>1, <1>7, <2>1, <2>2 DEF IInv, Remembered, spotter_vars
  <1> QED BY <1>9, <1>10, <1>11, <1>12, <1>13, <1>14 DEF IInv

LEMMA InferParts ==
    ASSUME model \in Models, feats \in Seq(Feature), cache \in Seq(Feature),
           Spotter!Infer(feats)
    PROVE  /\ cache' \in Seq(Feature) /\ prob' \in Seq(Seq(Feature))
           /\ Len(prob') = IF Len(feats) =< Spotter!output_frames THEN Len(feats)
                           ELSE Spotter!output_frames
           /\ \A i \in 1..Len(prob') : prob'[i] = cache \o SubSeq(feats, 1, i)
           /\ Len(feats) = Spotter!fixed_frames => cache' = cache \o feats
           /\ input' = Spotter!Filled(feats)
  <1> DEFINE F == Spotter!fixed_frames
             given_input == Spotter!Input(feats)
             m == Min({Len(feats), Spotter!output_frames})
             Out(i) == cache \o SubSeq(given_input, 1, i)
  <1>1. /\ F \in Nat /\ Spotter!output_frames \in Nat /\ Spotter!output_frames <= F
        /\ model.outputs[Spotter!output_tensor].role = "probabilities"
    BY ModelParts
  <1>2. given_input = [i \in 1..F |-> IF i <= Len(feats) THEN feats[i] ELSE <<>>]
    BY DEF Spotter!Input
  <1>3. Len(feats) \in Nat /\ <<>> \in Feature /\ \A i \in 1..Len(feats) : feats[i] \in Feature
    BY DEF Feature
  <1>4. given_input \in Seq(Feature) /\ Len(given_input) = F
        /\ \A i \in 1..F : i <= Len(feats) => given_input[i] = feats[i]
    <2>1. \A i \in 1..F : (IF i <= Len(feats) THEN feats[i] ELSE <<>>) \in Feature
      BY <1>1, <1>3
    <2> HIDE DEF F, given_input
    <2> QED BY <1>1, <1>2, <2>1
  <1>5. m = (IF Len(feats) =< Spotter!output_frames THEN Len(feats) ELSE Spotter!output_frames)
    <2>1. Len(feats) \in Int /\ Spotter!output_frames \in Int
      BY <1>1, <1>3
    <2>2. Min({Len(feats), Spotter!output_frames})
            = IF Len(feats) =< Spotter!output_frames THEN Len(feats) ELSE Spotter!output_frames
      BY <2>1, Min2
    <2> QED BY <2>2
  <1>6. m \in Nat /\ m <= F /\ m <= Len(feats)
    BY <1>1, <1>3, <1>5
  <1>7. prob' = [i \in 1..m |-> Out(i)]
    BY <1>1 DEF Spotter!Infer, Spotter!Output, Context, Min, Spotter!Min
  <1> HIDE DEF F, given_input, m
  <1>8. ASSUME NEW i \in 1..m
        PROVE  Out(i) \in Seq(Feature) /\ Out(i) = cache \o SubSeq(feats, 1, i)
    <2>1. i \in Nat /\ i <= F /\ i <= Len(feats)
      BY <1>1, <1>3, <1>6
    <2>2. /\ SubSeq(given_input, 1, i) \in Seq(Feature)
          /\ Len(SubSeq(given_input, 1, i)) = i
          /\ \A k \in 1..i : SubSeq(given_input, 1, i)[k] = given_input[k]
      BY <1>4, <2>1, HeadParts
    <2>3. /\ SubSeq(feats, 1, i) \in Seq(Feature)
          /\ Len(SubSeq(feats, 1, i)) = i
          /\ \A k \in 1..i : SubSeq(feats, 1, i)[k] = feats[k]
      BY <2>1, HeadParts
    <2>4. \A k \in 1..i : given_input[k] = feats[k]
      BY <1>1, <1>3, <1>4, <2>1
    <2>5. SubSeq(given_input, 1, i) = SubSeq(feats, 1, i)
      BY <2>2, <2>3, <2>4, SeqEq
    <2>6. cache \o SubSeq(feats, 1, i) \in Seq(Feature)
      BY <2>3, ConcatParts
    <2> QED BY <2>5, <2>6
  <1>9. /\ prob' \in Seq(Seq(Feature)) /\ Len(prob') = m
        /\ \A i \in 1..m : prob'[i] = cache \o SubSeq(feats, 1, i)
    <2> HIDE DEF Out
    <2>1. \A i \in 1..m : Out(i) \in Seq(Feature) /\ Out(i) = cache \o SubSeq(feats, 1, i)
      BY <1>8
    <2> QED BY <1>6, <1>7, <2>1
  <1>10. cache' = cache \o given_input /\ input' = Spotter!Filled(feats)
    BY DEF Spotter!Infer, given_input
  <1>11. cache' \in Seq(Feature)
    BY <1>4, <1>10, ConcatParts
  <1>12. Len(feats) = F => given_input = feats
    BY <1>1, <1>3, <1>4, SeqEq
  <1> QED BY <1>5, <1>9, <1>10, <1>11, <1>12 DEF F

LEMMA ForwardStep == ASSUME IInv, Forward PROVE IInv'
  <1>1. /\ pc = "forward" /\ pc' = "print"
        /\ Spotter!Infer(feats) \/ Spotter!InferNothing(feats)
        /\ failed' = (failed \/ prob' = <<>>)
        /\ UNCHANGED <<given, wav_vars, read, feats, ok, offset, printed>>
    BY DEF Forward, Spotter!Forward
  <1>2. /\ file \in Files /\ model \in Models /\ num_frames \in Nat /\ WavInv
        /\ reader = "done" /\ read \in 0..Len(TheFrames) /\ offset \in Nat
        /\ feats \in Seq(Feature) /\ feats = SubSeq(TheFrames, offset + 1, read)
        /\ offset + Len(feats) = read
        /\ Len(feats) \in 1..num_frames /\ ok = (Len(feats) = num_frames)
        /\ cache \in Seq(Feature)
    BY <1>1 DEF IInv, Started, Batched, Running, Judged
  <1>3. TheFrames \in Seq(Feature) /\ Len(TheFrames) \in Nat
    BY <1>2, TheFramesType
  <1>4. /\ TheFrames' = TheFrames /\ \A k : Prefix(k)' = Prefix(k)
        /\ Matched' = Matched /\ \A f : Spotter!Filled(f)' = Spotter!Filled(f)
        /\ num_frames' = num_frames /\ \A i : Heard(i)' = Heard(i)
    BY <1>1, SameFrames, SameModel, SameHeard DEF wav_vars, given
  <1>5. WavInv'
    BY <1>1, <1>2, SameFile DEF WavInv, wav_vars, given
  <1>6. Started'
    BY <1>1, <1>2, <1>4, <1>5 DEF Started, Running, given, wav_vars
  <1>7. Batched'
    BY <1>1, <1>4 DEF IInv, Batched, given
  <1>8. Lines'
    BY <1>1, <1>4 DEF IInv, Lines
  <1>9. CASE Spotter!InferNothing(feats)
    <2>1. prob' = <<>> /\ cache' = cache
      BY <1>9 DEF Spotter!InferNothing
    <2>2. Judged' /\ TensorFilled'
      BY <1>1, <1>2, <2>1 DEF Judged, TensorFilled
    <2>3. OnePass'
      BY <1>1, <2>1 DEF OnePass
    <2>4. Remembered'
      <3>1. PICK h \in Seq(Feature) : h = Heard(Len(printed))
        BY HeardParts
      <3>2. h \o SubSeq(feats, 1, 0) = h
        <4>1. SubSeq(feats, 1, 0) = <<>>
          BY NoPrefix
        <4> QED BY <3>1, <4>1
      <3>3. Len(prob') = 0
        BY <2>1
      <3> QED BY <1>1, <1>4, <2>1, <3>1, <3>2, <3>3 DEF IInv, Remembered
    <2> QED BY <1>6, <1>7, <1>8, <2>2, <2>3, <2>4 DEF IInv
  <1>10. CASE Spotter!Infer(feats)
    <2>1. /\ cache' \in Seq(Feature) /\ prob' \in Seq(Seq(Feature))
          /\ Len(prob') = IF Len(feats) =< Spotter!output_frames THEN Len(feats)
                          ELSE Spotter!output_frames
          /\ \A i \in 1..Len(prob') : prob'[i] = cache \o SubSeq(feats, 1, i)
          /\ Len(feats) = Spotter!fixed_frames => cache' = cache \o feats
          /\ input' = Spotter!Filled(feats)
      BY <1>2, <1>10, InferParts
    <2>2. Len(feats) \in Nat /\ Len(prob') \in Nat /\ Len(prob') <= Len(feats)
      <3>1. Spotter!output_frames \in Nat /\ Len(feats) \in Nat
        BY <1>2, ModelParts
      <3>2. Len(prob') = IF Len(feats) =< Spotter!output_frames THEN Len(feats)
                         ELSE Spotter!output_frames
        BY <2>1
      <3> QED BY <3>1, <3>2
    <2>3. \A i \in 1..Len(feats) :
              /\ SubSeq(feats, 1, i) \in Seq(Feature) /\ Len(SubSeq(feats, 1, i)) = i
              /\ \A k \in 1..i : SubSeq(feats, 1, i)[k] = feats[k]
      <3> TAKE i \in 1..Len(feats)
      <3>1. i \in Nat /\ i <= Len(feats)
        BY <2>2
      <3> QED BY <1>2, <3>1, HeadParts
    <2>4. ASSUME NEW i \in 1..Len(prob') PROVE Last(prob'[i]) = feats[i]
      <3>1. i \in 1..Len(feats) /\ i \in 1..i
        BY <2>2
      <3>2. PICK s \in Seq(Feature) : s = SubSeq(feats, 1, i)
        BY <2>3, <3>1
      <3>3. Len(s) = i /\ s[i] = feats[i]
        BY <2>3, <3>1, <3>2
      <3>4. Len(cache \o s) = Len(cache) + i /\ (cache \o s)[Len(cache) + i] = s[i]
        <4>1. /\ Len(cache \o s) = Len(cache) + Len(s)
              /\ \A k \in 1..Len(s) : (cache \o s)[Len(cache) + k] = s[k]
          BY <1>2, ConcatParts
        <4> QED BY <3>1, <3>3, <4>1
      <3>5. prob'[i] = cache \o s
        BY <2>1, <3>2
      <3> QED BY <3>3, <3>4, <3>5 DEF Last
    <2>5. Judged'
      BY <1>1, <2>1, <2>2, <2>4 DEF Judged
    <2>6. TensorFilled'
      BY <1>1, <1>4, <2>1 DEF TensorFilled
    <2>7. ASSUME ~failed', Matched
          PROVE  /\ Len(prob') = Len(feats)
                 /\ \A i \in 1..Len(feats) : prob'[i] = Prefix(offset + i)
                 /\ ok => cache' = Prefix(read)
      <3>1. /\ ~failed /\ cache = Prefix(offset)
            /\ num_frames = Spotter!fixed_frames
            /\ Spotter!output_frames = Spotter!fixed_frames
        BY <1>1, <2>7 DEF IInv, OnePass, Matched
      <3>2. Len(prob') = Len(feats)
        BY <1>2, <2>1, <2>2, <3>1
      <3>3. \A i \in 1..Len(feats) : feats[i] = TheFrames[offset + i]
        <4>1. offset \in Nat /\ read \in Nat /\ offset <= read /\ read <= Len(TheFrames)
              /\ read - offset = Len(feats)
          BY <1>2, <1>3, <2>2
        <4>2. \A i \in 1..(read - offset) :
                  SubSeq(TheFrames, offset + 1, read)[i] = TheFrames[offset + i]
          BY <1>3, <4>1, SubSeqParts
        <4> QED BY <1>2, <4>1, <4>2
      <3>4. ASSUME NEW t \in Seq(Feature), Len(t) <= Len(feats),
                   \A i \in 1..Len(t) : t[i] = feats[i]
            PROVE  cache \o t = Prefix(offset + Len(t))
        <4>1. Len(t) \in Nat /\ offset + Len(t) <= Len(TheFrames)
          BY <1>2, <1>3, <2>2, <3>4
        <4>2. \A i \in 1..Len(t) : t[i] = TheFrames[offset + i]
          BY <2>2, <3>3, <3>4, <4>1
        <4>3. SubSeq(TheFrames, 1, offset) \o t = SubSeq(TheFrames, 1, offset + Len(t))
          BY <1>2, <1>3, <4>1, <4>2, PrefixGrows
        <4> QED BY <3>1, <4>3 DEF Prefix
      <3>5. ASSUME NEW i \in 1..Len(feats) PROVE prob'[i] = Prefix(offset + i)
        <4>1. PICK s \in Seq(Feature) : s = SubSeq(feats, 1, i)
          BY <2>3, <3>5
        <4>2. Len(s) = i /\ i <= Len(feats) /\ \A k \in 1..Len(s) : s[k] = feats[k]
          BY <2>2, <2>3, <3>5, <4>1
        <4>3. cache \o s = Prefix(offset + i)
          BY <3>4, <4>2
        <4> QED BY <2>1, <3>2, <4>1, <4>3
      <3>6. ASSUME ok PROVE cache' = Prefix(read)
        <4>1. cache' = cache \o feats
          BY <1>2, <2>1, <3>1, <3>6
        <4>2. cache \o feats = Prefix(offset + Len(feats))
          <5>1. Len(feats) <= Len(feats) /\ \A i \in 1..Len(feats) : feats[i] = feats[i]
            BY <2>2
          <5> QED BY <1>2, <3>4, <5>1
        <4> QED BY <1>2, <4>1, <4>2
      <3> QED BY <3>2, <3>5, <3>6
    <2>8. OnePass'
      <3>1. ~failed' => ~failed
        BY <1>1
      <3> QED BY <1>1, <1>4, <2>7, <3>1 DEF IInv, OnePass
    <2>9. Remembered'
      <3>1. PICK h \in Seq(Feature) : h = Heard(Len(printed))
        BY HeardParts
      <3>2. Matched => cache = h
        BY <1>1, <3>1 DEF IInv, Remembered
      <3>3. ASSUME Matched, ok PROVE cache' = h \o SubSeq(feats, 1, Len(prob'))
        <4>1. Len(feats) = Spotter!fixed_frames /\ Spotter!output_frames = Len(feats)
          BY <1>2, <3>3 DEF Matched
        <4>2. Len(prob') = Len(feats) /\ cache' = cache \o feats
          BY <2>1, <2>2, <4>1
        <4>3. SubSeq(feats, 1, Len(feats)) = feats
          BY <1>2
        <4> QED BY <3>2, <3>3, <4>2, <4>3
      <3> QED BY <1>1, <1>4, <2>1, <3>1, <3>2, <3>3 DEF IInv, Remembered
    <2> QED BY <1>6, <1>7, <1>8, <2>5, <2>6, <2>8, <2>9 DEF IInv
  <1> QED BY <1>1, <1>9, <1>10

LEMMA PrintStep == ASSUME IInv, PrintLines PROVE IInv'
  <1> DEFINE Line == [frame : Nat, output : Seq(Feature)]
             new == [i \in 1..Len(prob) |-> [frame |-> offset + i - 1, output |-> prob[i]]]
             P == Len(printed)
  <1>1. /\ pc = "print" /\ pc' = IF ok THEN "read" ELSE "done"
        /\ printed' = printed \o new
        /\ offset' = offset + Len(feats)
        /\ UNCHANGED <<given, wav_vars, spotter_vars, read, feats, ok, failed>>
    BY DEF PrintLines, NextOffset
  <1>2. /\ file \in Files /\ model \in Models /\ num_frames \in Nat /\ WavInv
        /\ reader = "done" /\ read \in 0..Len(TheFrames) /\ offset \in Nat
        /\ feats \in Seq(Feature) /\ feats = SubSeq(TheFrames, offset + 1, read)
        /\ offset + Len(feats) = read
        /\ ~ok => read = Len(TheFrames)
        /\ cache \in Seq(Feature)
        /\ prob \in Seq(Seq(Feature)) /\ Len(prob) <= Len(feats)
        /\ \A i \in 1..Len(prob) : Last(prob[i]) = feats[i]
    BY <1>1 DEF IInv, Started, Batched, Running, Judged
  <1>3. TheFrames \in Seq(Feature) /\ Len(TheFrames) \in Nat
        /\ Len(feats) \in Nat /\ Len(prob) \in Nat
    BY <1>2, TheFramesType
  <1>4. /\ TheFrames' = TheFrames /\ \A k : Prefix(k)' = Prefix(k)
        /\ Matched' = Matched /\ num_frames' = num_frames
    BY <1>1, SameFrames, SameModel DEF wav_vars, given
  <1>5. WavInv'
    BY <1>1, <1>2, SameFile DEF WavInv, wav_vars, given
  <1>6. Started'
    BY <1>1, <1>2, <1>4, <1>5 DEF Started, Running, given, wav_vars
  <1>7. Batched'
    <2>1. read' = offset' /\ offset' \in Nat /\ pc' \in {"read", "done"}
          /\ (pc' = "done" => read' = Len(TheFrames)) /\ read' \in 0..Len(TheFrames)
      BY <1>1, <1>2, <1>3
    <2> QED BY <1>1, <1>2, <1>4, <2>1 DEF Batched
  <1>8. Judged' /\ TensorFilled'
    BY <1>1, <1>2 DEF Judged, TensorFilled, spotter_vars
  <1>9. /\ new \in Seq(Line) /\ Len(new) = Len(prob)
        /\ \A k \in 1..Len(prob) : /\ new[k].frame = offset + k - 1
                                   /\ new[k] = [frame |-> offset + k - 1, output |-> prob[k]]
                                   /\ new[k].output = prob[k]
    <2>1. \A k \in 1..Len(prob) : offset + k - 1 \in Nat /\ prob[k] \in Seq(Feature)
      BY <1>2, <1>3
    <2> QED BY <1>3, <2>1
  <1>10. /\ printed \in Seq(Line) /\ P \in Nat
         /\ \A i \in 1..P : printed[i].frame < offset /\ printed[i].frame \in Nat
    <2>1. printed \in Seq(Line)
      BY DEF IInv, Lines
    <2>2. ASSUME NEW i \in 1..P PROVE printed[i].frame < offset /\ printed[i].frame \in Nat
      <3>1. printed[i] \in Line
        BY <2>1, ElementOfSeq
      <3>2. printed[i].frame < offset
        BY DEF IInv, Lines
      <3> QED BY <3>1, <3>2
    <2>3. P \in Nat
      BY <2>1
    <2> HIDE DEF P, Line
    <2> QED BY <2>1, <2>2, <2>3
  <1> HIDE DEF new, Line
  <1>11. /\ printed' \in Seq(Line) /\ Len(printed') = P + Len(prob)
         /\ \A i \in 1..P : printed'[i] = printed[i]
         /\ \A k \in 1..Len(prob) : printed'[P + k] = new[k]
    <2>1. /\ printed \o new \in Seq(Line) /\ Len(printed \o new) = Len(printed) + Len(new)
          /\ \A i \in 1..Len(printed) : (printed \o new)[i] = printed[i]
          /\ \A i \in 1..Len(new) : (printed \o new)[Len(printed) + i] = new[i]
      <3>1. printed \in Seq(Line) /\ new \in Seq(Line)
        BY <1>9, <1>10
      <3> QED BY <3>1
    <2> QED BY <1>1, <1>9, <2>1
  <1> HIDE DEF P
  <1>12. ASSUME NEW i \in 1..(P + Len(prob)), i \notin 1..P
         PROVE  i - P \in 1..Len(prob) /\ i = P + (i - P)
    BY <1>3, <1>10, <1>12
  <1>13. \A k \in 1..Len(prob) : feats[k] = TheFrames[offset + k]
    <2>1. offset \in Nat /\ read \in Nat /\ offset <= read /\ read <= Len(TheFrames)
          /\ read - offset = Len(feats)
      BY <1>2, <1>3
    <2>2. \A i \in 1..(read - offset) :
              SubSeq(TheFrames, offset + 1, read)[i] = TheFrames[offset + i]
      BY <1>3, <2>1, SubSeqParts
    <2> TAKE k \in 1..Len(prob)
    <2>3. k \in 1..(read - offset)
      BY <1>2, <1>3, <2>1
    <2> QED BY <1>2, <2>2, <2>3
  <1>14. Lines'
    <2>1. ASSUME NEW i \in 1..(P + Len(prob))
          PROVE  /\ printed'[i].frame < offset' /\ printed'[i].frame \in Nat
                 /\ i \notin 1..P => printed'[i].frame = offset + (i - P) - 1
                 /\ Last(printed'[i].output) = TheFrames[printed'[i].frame + 1]
      <3>1. CASE i \in 1..P
        <4>1. printed'[i] = printed[i] /\ Last(printed[i].output) = TheFrames[printed[i].frame + 1]
          BY <1>11, <3>1 DEF IInv, Lines, P
        <4>2. printed[i].frame < offset' /\ printed[i].frame \in Nat
          <5>1. printed[i].frame < offset /\ printed[i].frame \in Nat
            BY <1>10, <3>1
          <5> QED BY <1>1, <1>2, <1>3, <5>1
        <4> QED BY <3>1, <4>1, <4>2
      <3>2. CASE i \notin 1..P
        <4>1. PICK k \in 1..Len(prob) : i = P + k /\ k = i - P
          BY <1>12, <3>2
        <4>2. /\ printed'[i].frame = offset + k - 1 /\ printed'[i].output = prob[k]
          BY <1>9, <1>11, <4>1
        <4>3. offset + k - 1 \in Nat /\ offset + k - 1 < offset' /\ (offset + k - 1) + 1 = offset + k
          BY <1>1, <1>2, <1>3
        <4>4. Last(prob[k]) = TheFrames[offset + k]
          BY <1>2, <1>13
        <4> QED BY <4>1, <4>2, <4>3, <4>4
      <3> QED BY <3>1, <3>2
    <2>2. ASSUME NEW i \in 1..(P + Len(prob)), NEW j \in 1..(P + Len(prob)), i < j
          PROVE  printed'[i].frame < printed'[j].frame
      <3>1. CASE j \in 1..P
        <4>1. i \in 1..P
          BY <1>10, <2>2, <3>1
        <4>2. printed[i].frame < printed[j].frame
          BY <2>2, <3>1, <4>1 DEF IInv, Lines, P
        <4> QED BY <1>11, <3>1, <4>1, <4>2
      <3>2. CASE j \notin 1..P
        <4>1. printed'[j].frame = offset + (j - P) - 1 /\ j - P \in 1..Len(prob)
          BY <1>12, <2>1, <3>2
        <4>2. CASE i \in 1..P
          <5>1. printed'[i].frame < offset /\ printed'[i].frame \in Nat
            BY <1>10, <1>11, <4>2
          <5>2. PICK k \in 1..Len(prob) : k = j - P
            BY <4>1
          <5>3. printed'[j].frame = offset + k - 1 /\ offset \in Nat /\ k \in Nat /\ k >= 1
            BY <1>2, <1>3, <4>1, <5>2
          <5> QED BY <5>1, <5>3
        <4>3. CASE i \notin 1..P
          <5>1. printed'[i].frame = offset + (i - P) - 1 /\ i - P \in 1..Len(prob)
            BY <1>12, <2>1, <4>3
          <5>2. i - P < j - P
            BY <1>3, <1>10, <2>2
          <5> QED BY <1>2, <4>1, <5>1, <5>2
        <4> QED BY <4>2, <4>3
      <3> QED BY <3>1, <3>2
    <2> QED BY <1>4, <1>11, <2>1, <2>2 DEF Lines, Line
  <1>15. OnePass'
    <2> SUFFICES ASSUME ~failed', Matched'
                 PROVE  /\ Len(printed') = offset'
                        /\ \A i \in 1..offset' :
                               printed'[i] = [frame |-> i - 1, output |-> Prefix(i)]
                        /\ pc' = "read" => cache' = Prefix(offset')
      BY <1>1, <1>4 DEF OnePass
    <2>1. /\ P = offset
          /\ \A i \in 1..offset : printed[i] = [frame |-> i - 1, output |-> Prefix(i)]
          /\ Len(prob) = Len(feats)
          /\ \A i \in 1..Len(feats) : prob[i] = Prefix(offset + i)
          /\ ok => cache = Prefix(read)
      BY <1>1, <1>4 DEF IInv, OnePass, P
    <2>2. Len(printed') = offset'
      BY <1>1, <1>11, <2>1
    <2>3. ASSUME NEW i \in 1..offset'
          PROVE  printed'[i] = [frame |-> i - 1, output |-> Prefix(i)]
      <3>1. CASE i \in 1..P
        BY <1>11, <2>1, <3>1
      <3>2. CASE i \notin 1..P
        <4>1. i \in 1..(P + Len(prob))
          BY <1>1, <2>1
        <4>2. PICK k \in 1..Len(prob) : i = P + k
          BY <1>12, <3>2, <4>1
        <4>3. printed'[i] = [frame |-> offset + k - 1, output |-> prob[k]]
          BY <1>9, <1>11, <4>2
        <4>4. prob[k] = Prefix(offset + k) /\ offset + k = i /\ offset + k - 1 = i - 1
          <5>1. k \in 1..Len(feats)
            BY <2>1
          <5>2. offset + k = i /\ offset + k - 1 = i - 1
            BY <1>2, <1>3, <2>1, <4>2
          <5> QED BY <2>1, <5>1, <5>2
        <4> QED BY <4>3, <4>4
      <3> QED BY <3>1, <3>2
    <2>4. ASSUME pc' = "read" PROVE cache' = Prefix(offset')
      BY <1>1, <1>2, <2>1, <2>4 DEF spotter_vars
    <2> QED BY <2>2, <2>3, <2>4
  <1>16. Remembered'
    <2> DEFINE G(j) == TheFrames'[printed'[j].frame + 1]
               Now(i) == [j \in 1..i |-> G(j)]
    <2> SUFFICES ASSUME Matched
                 PROVE  /\ \A i \in 1..(P + Len(prob)) : printed'[i].output = Now(i)
                        /\ ok => cache' = Now(P + Len(prob))
      <3>1. pc' \in {"read", "done"} /\ (pc' = "read" => ok)
        BY <1>1
      <3> QED BY <1>4, <1>11, <3>1 DEF Remembered, Heard
    <2>1. PICK h \in Seq(Feature) : h = Heard(P)
      BY HeardParts DEF P
    <2>2. /\ Len(h) = P
          /\ \A j \in 1..P : h[j] = TheFrames[printed[j].frame + 1]
      BY <2>1, HeardParts DEF P
    <2>3. /\ \A i \in 1..P : printed[i].output = Heard(i)
          /\ \A i \in 1..Len(prob) : prob[i] = h \o SubSeq(feats, 1, i)
          /\ ok => cache = h \o SubSeq(feats, 1, Len(prob))
      BY <1>1, <2>1 DEF IInv, Remembered, P
    <2>4. \A j \in 1..P : G(j) = TheFrames[printed[j].frame + 1] /\ G(j) = h[j]
      BY <1>4, <1>11, <2>2
    <2>5. ASSUME NEW k \in 1..Len(prob) PROVE G(P + k) = feats[k]
      <3>1. printed'[P + k].frame = offset + k - 1
        BY <1>9, <1>11
      <3>2. (offset + k - 1) + 1 = offset + k
        BY <1>2, <1>3
      <3> QED BY <1>4, <1>13, <3>1, <3>2
    <2> HIDE DEF G
    <2>7. ASSUME NEW i \in 1..P PROVE printed'[i].output = Now(i)
      <3>1. printed'[i].output = Heard(i)
        BY <1>11, <2>3
      <3>2. Heard(i) = [j \in 1..i |-> TheFrames[printed[j].frame + 1]]
        BY DEF Heard
      <3>3. \A j \in 1..i : G(j) = TheFrames[printed[j].frame + 1]
        BY <1>10, <2>4
      <3> QED BY <3>1, <3>2, <3>3
    <2>8. ASSUME NEW k \in 0..Len(prob)
          PROVE  Now(P + k) = h \o SubSeq(feats, 1, k)
      <3>1. PICK t \in Seq(Feature) : t = SubSeq(feats, 1, k) /\ Len(t) = k
                                      /\ \A i \in 1..k : t[i] = feats[i]
        <4>1. k \in Nat /\ k <= Len(feats)
          BY <1>2, <1>3
        <4>2. /\ SubSeq(feats, 1, k) \in Seq(Feature) /\ Len(SubSeq(feats, 1, k)) = k
              /\ \A i \in 1..k : SubSeq(feats, 1, k)[i] = feats[i]
          BY <1>2, <4>1, HeadParts
        <4> QED BY <4>2
      <3>2. /\ h \o t \in Seq(Feature) /\ Len(h \o t) = P + k
            /\ \A i \in 1..P : (h \o t)[i] = h[i]
            /\ \A i \in 1..k : (h \o t)[P + i] = t[i]
        <4>1. /\ h \o t \in Seq(Feature) /\ Len(h \o t) = Len(h) + Len(t)
              /\ \A i \in 1..Len(h) : (h \o t)[i] = h[i]
              /\ \A i \in 1..Len(t) : (h \o t)[Len(h) + i] = t[i]
          BY ConcatParts
        <4> QED BY <2>2, <3>1, <4>1
      <3>3. ASSUME NEW i \in 1..(P + k) PROVE (h \o t)[i] = G(i)
        <4>1. CASE i \in 1..P
          BY <2>4, <3>2, <4>1
        <4>2. CASE i \notin 1..P
          <5>1. PICK m \in 1..k : i = P + m
            <6>1. i - P \in 1..k /\ i = P + (i - P)
              BY <1>3, <1>10, <3>3, <4>2
            <6> QED BY <6>1
          <5>2. m \in 1..Len(prob)
            BY <1>3
          <5> QED BY <2>5, <3>1, <3>2, <5>1, <5>2
        <4> QED BY <4>1, <4>2
      <3>4. h \o t = [i \in 1..(P + k) |-> (h \o t)[i]]
        <4>1. PICK s \in Seq(Feature), m \in Nat : s = h \o t /\ m = P + k /\ Len(s) = m
          <5>1. P + k \in Nat
            BY <1>3, <1>10
          <5> QED BY <3>2, <5>1
        <4>2. s = [i \in 1..Len(s) |-> s[i]]
          BY ONLY s \in Seq(Feature)
        <4> QED BY <4>1, <4>2
      <3> QED BY <3>1, <3>3, <3>4
    <2>9. ASSUME NEW i \in 1..(P + Len(prob)) PROVE printed'[i].output = Now(i)
      <3>1. CASE i \notin 1..P
        <4>1. PICK k \in 1..Len(prob) : i = P + k
          BY <1>12, <3>1
        <4>2. printed'[i].output = h \o SubSeq(feats, 1, k)
          BY <1>9, <1>11, <2>3, <4>1
        <4>3. k \in 0..Len(prob)
          BY <1>3
        <4>4. Now(P + k) = h \o SubSeq(feats, 1, k)
          BY <2>8, <4>3
        <4> QED BY <4>1, <4>2, <4>4
      <3> QED BY <2>7, <3>1
    <2>10. ASSUME ok PROVE cache' = Now(P + Len(prob))
      <3>1. Len(prob) \in 0..Len(prob)
        BY <1>3
      <3>2. cache' = h \o SubSeq(feats, 1, Len(prob))
        BY <1>1, <2>3, <2>10 DEF spotter_vars
      <3> QED BY <2>8, <3>1, <3>2
    <2> QED BY <2>9, <2>10
  <1> QED BY <1>6, <1>7, <1>8, <1>14, <1>15, <1>16 DEF IInv

LEMMA NextInv == ASSUME IInv, [Next]_vars PROVE IInv'
  <1>1. CASE Startup
    BY <1>1, StartupStep
  <1>2. CASE ReadWav
    BY <1>2, ReadWavStep
  <1>3. CASE Read
    BY <1>3, ReadStep
  <1>4. CASE Forward
    BY <1>4, ForwardStep
  <1>5. CASE PrintLines
    BY <1>5, PrintStep
  <1>6. CASE UNCHANGED vars
    <2>1. /\ UNCHANGED <<pc, read, feats, ok, offset, printed, failed, input, prob, cache>>
          /\ UNCHANGED <<batch_size, model, file, reader, position, header, data>>
      BY <1>6 DEF vars, given, wav_vars, spotter_vars
    <2>2. /\ TheFrames' = TheFrames /\ \A k : Prefix(k)' = Prefix(k)
          /\ Matched' = Matched /\ \A f : Spotter!Filled(f)' = Spotter!Filled(f)
          /\ num_frames' = num_frames /\ \A i : Heard(i)' = Heard(i)
      BY <2>1, SameFrames, SameModel, SameHeard
    <2>3. WavInv'
      BY <2>1, SameFile DEF IInv, Started, WavInv
    <2>4. Started' /\ Batched' /\ Judged'
      BY <2>1, <2>2, <2>3 DEF IInv, Started, Batched, Judged
    <2>5. Lines' /\ OnePass' /\ Remembered' /\ TensorFilled'
      BY <2>1, <2>2 DEF IInv, Lines, OnePass, Remembered, TensorFilled
    <2> QED BY <2>4, <2>5 DEF IInv
  <1> QED BY <1>1, <1>2, <1>3, <1>4, <1>5, <1>6 DEF Next

\* What main() has read, judged and printed fits together at every place of it.
THEOREM Invariance == Spec => []IInv
  BY InitInv, NextInv, PTL DEF Spec

-----------------------------------------------------------------------------
(* What follows from it.                                                   *)

LEMMA InvImpliesLines == ASSUME IInv PROVE LinesAreTheirFrames
  <1> SUFFICES ASSUME Wav!Sound
               PROVE  /\ \A i \in 1..Len(printed) :
                             Last(printed[i].output) = FrameInFile(printed[i].frame + 1)
                      /\ \A i \in 2..Len(printed) : printed[i - 1].frame < printed[i].frame
    BY DEF LinesAreTheirFrames
  <1>1. Len(printed) \in Nat
    BY DEF IInv, Lines
  <1>2. ASSUME NEW i \in 1..Len(printed)
        PROVE  Last(printed[i].output) = FrameInFile(printed[i].frame + 1)
    <2>1. printed # <<>>
      BY <1>1
    <2>2. pc \in Running /\ file \in Files /\ WavInv /\ reader = "done"
      BY <2>1 DEF IInv, Started
    <2>3. /\ Last(printed[i].output) = TheFrames[printed[i].frame + 1]
          /\ printed[i].frame \in Nat /\ printed[i].frame < offset
      <3>1. printed \in Seq([frame : Nat, output : Seq(Feature)])
        BY DEF IInv, Lines
      <3>2. printed[i] \in [frame : Nat, output : Seq(Feature)]
        BY <3>1, ElementOfSeq
      <3> QED BY <3>2 DEF IInv, Lines
    <2>4. offset \in Nat /\ offset <= Len(TheFrames) /\ Len(TheFrames) \in Nat
      <3>1. Len(TheFrames) \in Nat
        BY <2>2, TheFramesType
      <3>2. offset <= read /\ offset \in Nat /\ read \in 0..Len(TheFrames)
        BY <3>1 DEF IInv, Batched
      <3> QED BY <3>1, <3>2
    <2>5. printed[i].frame + 1 \in 1..Len(TheFrames)
      BY <2>3, <2>4
    <2> QED BY <2>2, <2>3, <2>5, FramesOfFile
  <1>3. ASSUME NEW i \in 2..Len(printed) PROVE printed[i - 1].frame < printed[i].frame
    <2>1. i - 1 \in 1..Len(printed) /\ i \in 1..Len(printed) /\ i - 1 < i
      BY <1>1
    <2> QED BY <2>1 DEF IInv, Lines
  <1> QED BY <1>2, <1>3

\* A line is printed for the frame of the file that its output judges, and no
\* frame twice, for every file, batch size and failure of the model.
THEOREM LinesCorrect == Spec => []LinesAreTheirFrames
  BY Invariance, InvImpliesLines, PTL

LEMMA InvImpliesOnePass == ASSUME IInv PROVE AsOnePass
  <1> SUFFICES ASSUME Wav!Sound, Matched
               PROVE  /\ \A i \in 1..Len(printed) :
                             printed[i].output
                               = [j \in 1..i |-> FrameInFile(printed[j].frame + 1)]
                      /\ ~failed =>
                           /\ \A i \in 1..Len(printed) : printed[i].frame = i - 1
                           /\ pc = "done" =>
                                Len(printed) = Frames!NumFrames(Wav!SamplesInFile)
    BY DEF AsOnePass, Matched
  <1>1. ~failed => /\ Len(printed) = offset
                   /\ \A i \in 1..offset : printed[i].frame = i - 1
    BY DEF IInv, OnePass
  <1>2. CASE pc \notin Running
    BY <1>2 DEF IInv, Started, Running
  <1>3. CASE pc \in Running
    <2>1. file \in Files /\ WavInv /\ reader = "done"
      BY <1>3 DEF IInv, Started
    <2>2. /\ Len(TheFrames) = Frames!NumFrames(Wav!SamplesInFile)
          /\ \A k \in 1..Len(TheFrames) : TheFrames[k] = FrameInFile(k)
          /\ TheFrames \in Seq(Feature) /\ Len(TheFrames) \in Nat
      BY <2>1, FramesOfFile, TheFramesType
    <2>3. pc = "done" => offset = Len(TheFrames)
      BY DEF IInv, Batched
    <2>4. ASSUME NEW i \in 1..Len(printed)
          PROVE  printed[i].output = [j \in 1..i |-> FrameInFile(printed[j].frame + 1)]
      <3>1. \A j \in 1..Len(printed) : printed[j].frame + 1 \in 1..Len(TheFrames)
        BY HeardParts
      <3>2. ASSUME NEW j \in 1..i
            PROVE  TheFrames[printed[j].frame + 1] = FrameInFile(printed[j].frame + 1)
        <4>1. j \in 1..Len(printed)
          BY HeardParts
        <4> QED BY <2>2, <3>1, <4>1
      <3>3. printed[i].output = Heard(i)
        BY DEF IInv, Remembered
      <3> QED BY <3>2, <3>3 DEF Heard
    <2> QED BY <1>1, <2>2, <2>3, <2>4
  <1> QED BY <1>2, <1>3

\* With the batch size of the model, batches and cache judge each frame of the
\* file after the frames printed before it and nothing else, whatever batches
\* the model failed on; without a failure, that is all of the file, in order.
THEOREM OnePassCorrect == Spec => []AsOnePass
  BY Invariance, InvImpliesOnePass, PTL

\* The integer nearest to n / d: a half of d is the most that it misses.
LEMMA RoundedIsNear ==
    ASSUME NEW v \in Int, NEW d \in Nat \ {0}
    PROVE  /\ Spotter!Rounded(v, d) \in Int
           /\ 2 * (Spotter!Rounded(v, d) * d) <= 2 * v + d
           /\ 2 * v - d <= 2 * (Spotter!Rounded(v, d) * d)
  <1>1. \A m \in Nat : \A q \in Int : q = m \div (2 * d) =>
            /\ 2 * (q * d) <= m /\ m < 2 * (q * d) + 2 * d
    <2> TAKE m \in Nat
    <2> TAKE q \in Int
    <2>1. PICK e \in Nat \ {0} : e = 2 * d
      OBVIOUS
    <2>2. e * (m \div e) <= m /\ m < e * (m \div e) + e /\ m \div e \in Int
      OBVIOUS
    <2>3. e * q = 2 * (q * d)
      BY <2>1
    <2> QED BY <2>1, <2>2, <2>3
  <1>2. CASE v >= 0
    <2> DEFINE q == (2 * v + d) \div (2 * d)
    <2>1. 2 * v + d \in Nat /\ q \in Int
      BY <1>2
    <2>2. 2 * (q * d) <= 2 * v + d /\ 2 * v + d < 2 * (q * d) + 2 * d
      BY <1>1, <2>1
    <2>3. Spotter!Rounded(v, d) = q
      BY <1>2 DEF Spotter!Rounded
    <2> HIDE DEF q
    <2>4. PICK at \in Int : at = q * d
      BY <2>1
    <2> QED BY <2>1, <2>2, <2>3, <2>4
  <1>3. CASE ~(v >= 0)
    <2> DEFINE q == (d - (2 * v)) \div (2 * d)
    <2>1. d - (2 * v) \in Nat /\ q \in Int
      BY <1>3
    <2>2. 2 * (q * d) <= d - (2 * v) /\ d - (2 * v) < 2 * (q * d) + 2 * d
      BY <1>1, <2>1
    <2>3. Spotter!Rounded(v, d) = -q
      BY <1>3 DEF Spotter!Rounded
    <2> HIDE DEF q
    <2>4. PICK at \in Int : at = q * d /\ (-q) * d = -at
      BY <2>1
    <2> QED BY <2>1, <2>2, <2>3, <2>4
  <1> QED BY <1>2, <1>3

LEMMA MulOrder ==
    ASSUME NEW a \in Int, NEW b \in Int, NEW d \in Nat \ {0}
    PROVE  /\ a * d \in Int /\ b * d \in Int
           /\ a <= b => a * d <= b * d
           /\ a < b => a * d + d <= b * d
  <1>1. ASSUME NEW x \in Int, NEW y \in Int, x <= y PROVE x * d <= y * d
    <2>1. PICK k \in Nat : y = x + k
      <3>1. y - x \in Nat /\ y = x + (y - x)
        BY <1>1
      <3> QED BY <3>1
    <2>2. y * d = x * d + k * d /\ k * d \in Nat /\ x * d \in Int
      BY <2>1
    <2> QED BY <2>2
  <1>2. ASSUME a < b PROVE a * d + d <= b * d
    <2>1. a + 1 \in Int /\ a + 1 <= b
      BY <1>2
    <2>2. (a + 1) * d <= b * d
      BY <1>1, <2>1
    <2>3. (a + 1) * d = a * d + d
      OBVIOUS
    <2> QED BY <2>2, <2>3
  <1>3. a * d \in Int /\ b * d \in Int
    OBVIOUS
  <1> QED BY <1>1, <1>2, <1>3

LEMMA Max2 ==
    ASSUME NEW a \in Int, NEW b \in Int
    PROVE  Max({a, b}) = IF a =< b THEN b ELSE a
  <1>1. CASE a =< b
    <2>1. \A c \in {a, b} : (\A e \in {a, b} : c >= e) <=> c = b
      BY <1>1
    <2> QED BY <1>1, <2>1 DEF Max
  <1>2. CASE ~(a =< b)
    <2>1. \A c \in {a, b} : (\A e \in {a, b} : c >= e) <=> c = a
      BY <1>2
    <2> QED BY <1>2, <2>1 DEF Max
  <1> QED BY <1>1, <1>2

\* What an int8 tensor is given for v is as near to it as int8 allows.
LEMMA QuantisedIsNearest ==
    ASSUME model \in Models, NEW v \in Int, NEW q \in -128..127
    PROVE  LET zero  == model.input.zero
               scale == model.input.scale
               s     == Spotter!Quantised(v)
           IN  /\ s \in -128..127
               /\ Distance((s - zero) * scale, v) <= Distance((q - zero) * scale, v)
  <1>1. PICK d \in Nat \ {0}, z \in Int : d = model.input.scale /\ z = model.input.zero
    <2>1. model.input.scale \in Nat \ {0} /\ model.input.zero \in -128..255
      BY ModelParts
    <2>2. model.input.zero \in Int
      BY <2>1
    <2> QED BY <2>1, <2>2
  <1>2. PICK r \in Int : /\ r = Spotter!Rounded(v, d)
                         /\ 2 * (r * d) <= 2 * v + d /\ 2 * v - d <= 2 * (r * d)
    BY RoundedIsNear
  <1>3. PICK s \in -128..127 :
            /\ s = Spotter!Quantised(v)
            /\ s = IF r + z > 127 THEN 127 ELSE IF r + z < -128 THEN -128 ELSE r + z
    <2>1. Min({127, r + z}) = IF 127 =< r + z THEN 127 ELSE r + z
      BY Min2
    <2>2. PICK low \in Int : low = Min({127, r + z}) /\ low = IF 127 =< r + z THEN 127 ELSE r + z
      BY <2>1
    <2>3. Max({-128, low}) = IF -128 =< low THEN low ELSE -128
      BY Max2
    <2>4. Spotter!Quantised(v) = Max({-128, low})
      BY <1>1, <1>2, <2>2 DEF Spotter!Quantised, Spotter!Max, Spotter!Min, Max, Min
    <2>5. Max({-128, low}) = (IF r + z > 127 THEN 127 ELSE IF r + z < -128 THEN -128 ELSE r + z)
      BY <2>2, <2>3
    <2>6. Max({-128, low}) \in -128..127
      BY <2>5
    <2> QED BY <2>4, <2>5, <2>6
  <1>4. PICK a \in Int : a = s - z
    OBVIOUS
  <1>5. PICK b \in Int : b = q - z
    OBVIOUS
  <1>6. PICK A \in Int, B \in Int, R \in Int :
            A = a * d /\ B = b * d /\ R = r * d
    OBVIOUS
  <1>7. /\ a < b => A + d <= B
        /\ b < a => B + d <= A
        /\ a < r => A + d <= R
        /\ r < a => R + d <= A
        /\ a = r => A = R
        /\ a = b => A = B
    BY <1>6, MulOrder
  <1>8. 2 * R <= 2 * v + d /\ 2 * v - d <= 2 * R
    BY <1>2, <1>6
  <1>9. /\ a < r => b <= a
        /\ r < a => a <= b
    BY <1>3, <1>4, <1>5
  <1>10. Distance(A, v) <= Distance(B, v)
    <2>1. CASE a = b
      BY <1>7, <2>1 DEF Distance
    <2>2. CASE a < b
      <3>1. ~(a < r) /\ A + d <= B
        BY <1>7, <1>9, <2>2
      <3>2. 2 * A >= 2 * v - d
        BY <1>7, <1>8, <3>1
      <3>3. CASE A >= v
        BY <3>1, <3>3 DEF Distance
      <3>4. CASE A < v
        <4>1. 2 * (v - A) <= d
          BY <3>2
        <4>2. B - v >= d - (v - A)
          BY <3>1
        <4>3. B >= v /\ v - A <= B - v
          BY <4>1, <4>2
        <4> QED BY <3>4, <4>3 DEF Distance
      <3> QED BY <3>3, <3>4
    <2>3. CASE b < a
      <3>1. ~(r < a) /\ B + d <= A
        BY <1>7, <1>9, <2>3
      <3>2. 2 * A <= 2 * v + d
        BY <1>7, <1>8, <3>1
      <3>3. CASE A <= v
        BY <3>1, <3>3 DEF Distance
      <3>4. CASE A > v
        <4>1. 2 * (A - v) <= d
          BY <3>2
        <4>2. v - B >= d - (A - v)
          BY <3>1
        <4>3. B <= v /\ A - v <= v - B
          BY <4>1, <4>2
        <4> QED BY <3>4, <4>3 DEF Distance
      <3> QED BY <3>3, <3>4
    <2> QED BY <2>1, <2>2, <2>3
  <1>11. s \in -128..127 /\ Distance((s - z) * d, v) <= Distance((q - z) * d, v)
    BY <1>4, <1>5, <1>6, <1>10
  <1> QED BY <1>1, <1>3, <1>11

LEMMA InvImpliesTensor ==
    ASSUME IInv, \A f \in Seq(Nat) : Value(f) \in Int, Value(<<>>) = 0
    PROVE  TensorIsFeatures
  <1> DEFINE Wanted(i) == IF i <= Len(feats) THEN Value(feats[i]) ELSE 0
             Held(q) == (q - model.input.zero) * model.input.scale
  <1> SUFFICES ASSUME pc = "print", prob # <<>>, NEW i \in 1..Spotter!fixed_frames
               PROVE  /\ model.input.type = "float32" => input[i] = Wanted(i)
                      /\ model.input.type = "int8" =>
                             /\ input[i] \in -128..127
                             /\ \A q \in -128..127 :
                                    Distance(Held(input[i]), Wanted(i))
                                      <= Distance(Held(q), Wanted(i))
    BY DEF TensorIsFeatures
  <1>1. model \in Models /\ feats \in Seq(Feature) /\ input = Spotter!Filled(feats)
    BY DEF IInv, Started, Batched, TensorFilled
  <1>2. i \in Nat /\ i >= 1
    BY <1>1, ModelParts
  <1>3. Wanted(i) \in Int /\ Wanted(i) = Value(Spotter!Input(feats)[i])
    <2>1. Spotter!Input(feats)[i] = IF i <= Len(feats) THEN feats[i] ELSE <<>>
      BY DEF Spotter!Input
    <2>2. i <= Len(feats) => feats[i] \in Seq(Nat)
      BY <1>1, <1>2 DEF Feature
    <2> QED BY <2>1, <2>2
  <1> HIDE DEF Wanted
  <1>4. input[i] = Spotter!Stored(Wanted(i))
    BY <1>1, <1>3 DEF Spotter!Filled
  <1>5. model.input.type = "float32" => input[i] = Wanted(i)
    BY <1>4 DEF Spotter!Stored
  <1>6. ASSUME model.input.type = "int8"
        PROVE  /\ input[i] \in -128..127
               /\ \A q \in -128..127 :
                      Distance(Held(input[i]), Wanted(i)) <= Distance(Held(q), Wanted(i))
    <2>1. input[i] = Spotter!Quantised(Wanted(i))
      BY <1>4, <1>6 DEF Spotter!Stored
    <2>2. ASSUME NEW q \in -128..127
          PROVE  /\ Spotter!Quantised(Wanted(i)) \in -128..127
                 /\ Distance(Held(Spotter!Quantised(Wanted(i))), Wanted(i))
                      <= Distance(Held(q), Wanted(i))
      BY <1>1, <1>3, QuantisedIsNearest
    <2>3. Spotter!Quantised(Wanted(i)) \in -128..127
      <3>1. 0 \in -128..127
        BY SMT
      <3> QED BY <2>2, <3>1
    <2> HIDE DEF Held
    <2> QED BY <2>1, <2>2, <2>3, Zenon
  <1> QED BY <1>5, <1>6

\* A float32 tensor holds the features themselves, and an int8 one the nearest
\* numbers that it can, for every model, scale and zero point, if features are
\* numbers and that of the padding is 0.
THEOREM TensorCorrect ==
    ASSUME \A f \in Seq(Nat) : Value(f) \in Int, Value(<<>>) = 0
    PROVE  Spec => []TensorIsFeatures
  BY Invariance, InvImpliesTensor, PTL
=============================================================================
