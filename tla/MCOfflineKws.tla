---------------------------- MODULE MCOfflineKws ----------------------------
(* Files, models and features for OfflineKws.                              *)
EXTENDS OfflineKws

\* None, fewer than the model takes, as many, more, and a negative size.
MCBatchSizes == -1..4

Chunk(id, size) == [id |-> id, size |-> size]

\* A file that lacks its last bytes.
Cut(fmt_size, channels, bits, chunks, missing) ==
    LET AddChunk(sum, chunk) == sum + 8 + chunk.size + (chunk.size % 2)
        StartOf(n) == FoldLeft(AddChunk, 20 + fmt_size, SubSeq(chunks, 1, n - 1))
    IN  [exists |-> TRUE, fmt_size |-> fmt_size, channels |-> channels, bits |-> bits,
         chunks |-> chunks, starts |-> [n \in 1..(Len(chunks) + 1) |-> StartOf(n)],
         length |-> StartOf(Len(chunks) + 1) - missing]

Whole(fmt_size, channels, bits, chunks) == Cut(fmt_size, channels, bits, chunks, 0)

\* What may stand before the samples.
Preludes == {<<>>, <<Chunk("fact", 4)>>, <<Chunk("list", 2), Chunk("fact", 4)>>}

MCFiles ==
       {Whole(16, 1, 8, <<Chunk("data", n)>>) : n \in 0..8}
  \cup {Whole(fmt, 1, 16, prelude \o <<Chunk("data", 12), Chunk("list", 3)>>) :
            fmt \in {16, 18}, prelude \in Preludes}
  \cup {Whole(16, 1, 32, <<Chunk("data", 20)>>), Whole(16, 1, 24, <<Chunk("data", 6)>>),
        Whole(16, 2, 16, <<Chunk("data", 16)>>),
        Whole(16, 1, 8, <<Chunk("list", 3), Chunk("data", 5)>>),
        Whole(18, 1, 8, <<Chunk("fact", 4)>>), Cut(16, 1, 16, <<Chunk("data", 12)>>, 5)}
  \cup {[Whole(16, 1, 8, <<>>) EXCEPT !.exists = FALSE], Whole(14, 1, 8, <<Chunk("data", 5)>>)}

Input(type, scale, zero) ==
    [type |-> type, dims |-> <<1, 3, 2>>, scale |-> scale, zero |-> zero]

Probabilities == [role |-> "probabilities", dims |-> <<1, 3, 2>>]
Cache         == [role |-> "cache", dims |-> <<1, 4, 5>>]

Embedded ==
    [version_ok |-> TRUE, fits |-> TRUE, input |-> Input("float32", 1, 0),
     outputs |-> <<Probabilities, Cache>>]

MCModels ==
    {Embedded,
     [Embedded EXCEPT !.input = Input("int8", 3, 1), !.outputs = <<Cache, Probabilities>>],
     [Embedded EXCEPT !.input = Input("int8", 1, 120)],
     [Embedded EXCEPT !.input = Input("uint8", 3, 128)],
     [Embedded EXCEPT !.input.dims = <<1, 3>>],
     [Embedded EXCEPT !.version_ok = FALSE], [Embedded EXCEPT !.fits = FALSE]}

\* Numbers from -20 to 20, in no order.
MCValue(frame) == IF frame = <<>> THEN 0 ELSE ((7 * frame[1]) % 41) - 20
=============================================================================
