------------------------------ MODULE WavReader ------------------------------
(***************************************************************************)
(* WavReader::Open: the header of a WAV file, the search for its "data"    *)
(* chunk, and the samples.  A file is its chunks and where they begin; a   *)
(* sample is the place in the file that it was read from.                  *)
(***************************************************************************)
EXTENDS Integers, Sequences

CONSTANT MaxGarbage  \* bound of the model: samples of a reader never set

VARIABLES
    file,      \* the file, which does not change
    reader,    \* where Open() is; "refused": it returned false
    position,  \* of the FILE; one at its end stands for all beyond
    header,    \* header.data and header.data_size
    data       \* data_[0..num_samples_), as kws_main takes it

wav_vars == <<reader, position, header, data>>

\* fmt_size is even and at least 16 in a sound file; length falls short of the
\* chunks if samples were cut off at the end.
File == [exists : BOOLEAN, fmt_size : Nat, channels : Nat \ {0},
         bits : {8, 16, 24, 32}, length : Nat,
         chunks : Seq([id : {"data", "fact", "list"}, size : Nat]),
         starts : Seq(Nat)]

\* starts are the places of the headers of the chunks after "fmt ", and of the
\* end.  A chunk of odd size is followed by a byte that its size does not count.
Chained(given) ==
    /\ Len(given.starts) = Len(given.chunks) + 1
    /\ given.starts[1] = 20 + given.fmt_size
    /\ \A n \in 1..Len(given.chunks) :
           LET size == given.chunks[n].size
           IN  given.starts[n + 1] = given.starts[n] + 8 + size + (size % 2)

Start(n) == file.starts[n]

\* The sample of which some byte is beyond the end: whatever was in memory.
Garbage == 0

width == file.bits \div 8

Init ==
    /\ reader = "open"
    /\ position = 0
    /\ header = [id |-> "unread", size |-> 0]
    /\ data = <<>>

-----------------------------------------------------------------------------
Goto(from, to) == reader = from /\ reader' = to

ChunksAt(p) == {n \in 1..Len(file.chunks) : Start(n) = p}

\* What fread(header.data, 8, ...) leaves in the header: that of a chunk, the
\* old one at the end of the file, else bytes that are no header.
HeadersAt(p) ==
    IF p >= file.length THEN {header}
    ELSE IF ChunksAt(p) # {} THEN {file.chunks[n] : n \in ChunksAt(p)}
    ELSE {[id |-> "other", size |-> n] : n \in {1, file.length}}

\* fopen() fails, or the format chunk is too short: Open() returns false.
Refuse ==
    /\ ~file.exists \/ file.fmt_size < 16
    /\ Goto("open", "refused")
    /\ UNCHANGED <<file, position, header, data>>

\* The constructor ignores that: num_samples_ and data_ were never set, and
\* taking the samples from there may end the program.
ReadUnset ==
    /\ \E n \in 0..MaxGarbage : data' = [i \in 1..n |-> Garbage]
    /\ Goto("refused", "crashed") \/ Goto("refused", "done")
    /\ UNCHANGED <<file, position, header>>

\* The first chunk after "fmt " is read with it or, if "fmt " is longer than 16
\* bytes, by itself.
ReadHeader ==
    /\ file.exists /\ file.fmt_size >= 16
    /\ header' \in HeadersAt(20 + file.fmt_size)
    /\ position' = 28 + file.fmt_size
    /\ Goto("open", "search")
    /\ UNCHANGED <<file, data>>

AtMost(p) == IF p > file.length THEN file.length ELSE p

\* mutant: the header of the chunk is skipped a second time
SkipChunkTwice ==
    LET next == position + 8 + header.size
    IN  /\ header.id # "data"
        /\ header' \in HeadersAt(next)
        /\ position' = AtMost(next + 8)
        /\ Goto("search", "search")
        /\ UNCHANGED <<file, data>>

SkipChunk ==
    LET next == position + header.size
    IN  /\ header.id # "data"
        /\ header' \in HeadersAt(next)
        /\ position' = AtMost(next + 8)
        /\ Goto("search", "search")
        /\ UNCHANGED <<file, data>>

\* The numbers of all channels are read one by one, and counted by channel.
ReadSamples ==
    LET num_data == header.size \div width
        PlaceOf(i) == position + (i - 1) * width
    IN  /\ header.id = "data"
        /\ Goto("search", IF file.bits = 24 /\ num_data > 0 THEN "exited" ELSE "done")
        /\ data' = [i \in 1..(num_data \div file.channels) |->
                       IF PlaceOf(i) + width <= file.length THEN PlaceOf(i)
                       ELSE Garbage]
        /\ UNCHANGED <<file, position, header>>

Open == Refuse \/ ReadUnset \/ ReadHeader \/ SkipChunk \/ ReadSamples

-----------------------------------------------------------------------------
(* The reference: what the format says of a file.                          *)

DataChunks == {n \in 1..Len(file.chunks) : file.chunks[n].id = "data"}

\* A PCM file of one channel, complete, with its one chunk of samples.
Sound ==
    /\ file.exists /\ file.fmt_size >= 16 /\ file.channels = 1 /\ file.bits # 24
    /\ \E n \in 1..Len(file.chunks) : DataChunks = {n}
    /\ file.length = Start(Len(file.chunks) + 1)

TheChunk == CHOOSE n \in DataChunks : \A m \in DataChunks : n <= m

\* No chunk before the samples has to be filled up with a byte.
Aligned == \A n \in 1..(TheChunk - 1) : file.chunks[n].size % 2 = 0

SamplesInFile == file.chunks[TheChunk].size \div width

\* The place of the i-th sample.
SampleInFile(i) == Start(TheChunk) + 8 + (i - 1) * width
=============================================================================
