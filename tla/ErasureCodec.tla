--------------------------- MODULE ErasureCodec ----------------------------
(***************************************************************************)
(* How a file is laid out in shards, and the three ways back: EncodeFile   *)
(* and ReconstructFile (erasure/erasure.go), the segments of RunV2         *)
(* (retrieval/orchestrator_v2.go) and RepairShards (erasure/repair.go).    *)
(*                                                                         *)
(* EncodeFile reads stripes of DataShards * BlockSize bytes; a shorter     *)
(* last stripe is cut into equal parts padded with zeros.  Each reader     *)
(* works out for itself where a stripe ends in the shards and how many of  *)
(* the decoded bytes belong to the file.                                   *)
(*                                                                         *)
(* A byte of a data shard is <<p>> if it is byte p of the file, Pad if it  *)
(* is padding; a byte of parity shard j is j and the bytes that the data   *)
(* shards have at its place.  Any DataShards right bytes at one place give *)
(* all others: that is the Reed-Solomon library.                           *)
(***************************************************************************)
EXTENDS Integers, Sequences, FiniteSets, Manifest

CONSTANTS
    Size,      \* bound: sizes of files
    K, M,      \* bound: numbers of data and parity shards
    BlockSizes \* bound: block sizes

\* Any int of Go; Validate turns down what is no size and no number of shards.
ASSUME CodecAssumption ==
    Size \subseteq Int /\ K \subseteq Int /\ M \subseteq Int /\ BlockSizes \subseteq Int

VARIABLES
    mf,     \* the manifest: sizes and counts
    job,    \* what is running, or how it ended
    pos,    \* EncodeFile: bytes read so far
    buflen, \* EncodeFile: len(buf)
    shard,  \* the shard files
    present,\* the shards there are for a way back
    wanted, \* the shards to repair
    at,     \* the next stripe or segment
    out     \* the bytes of the output file, or of the repaired shards

codecVars == <<mf, job, pos, buflen, shard, present, wanted, at, out>>

Job == {"encode", "encoded", "V1", "V2", "repair", "decoded", "repaired", "failed"}

k == mf.DataShards
bs == mf.BlockSize
All == 0 .. mf.DataShards + mf.ParityShards - 1
Data == 0 .. k - 1
Byte == Seq(Int)

CodecTypeOK ==
    /\ Validate(mf)
    /\ job \in Job
    /\ pos \in 0 .. mf.FileSize
    /\ buflen \in 0 .. k * bs
    /\ \A i \in All : shard[i] \in Seq(Byte) /\ Len(shard[i]) = Len(shard[0])
    /\ present \in SUBSET All /\ wanted \in SUBSET (All \ present)
    /\ at \in Nat
    /\ \A i \in DOMAIN out : out[i] \in Seq(Byte)

----------------------------------------------------------------------------
(* Bytes and chunks                                                         *)

Pad == <<-1>>

Smaller(a, b) == IF a < b THEN a ELSE b
CeilDiv(a, b) == (a + b - 1) \div b

\* Split and Encode: n bytes of the file from `from` on, in one chunk per shard.
DataChunk(i, from, n) ==
    LET c == CeilDiv(n, k)
    IN  [b \in 1 .. c |-> IF i * c + b <= n THEN <<from + i * c + b - 1>> ELSE Pad]

ParityByte(j, column) == [x \in 1 .. k + 1 |-> IF x = 1 THEN j ELSE column[x - 2][1]]

Chunk(i, from, n) ==
    IF i \in Data THEN DataChunk(i, from, n)
    ELSE [b \in 1 .. CeilDiv(n, k) |->
             ParityByte(i, [d \in Data |-> DataChunk(d, from, n)[b]])]

\* io.ReadFull from a place in a shard file: less than n bytes at its end.
ReadChunk(i, from, n) == SubSeq(shard[i], from + 1, Smaller(from + n, Len(shard[i])))

\* Reconstruct: all chunks have the same length, and there are enough.
CanDecode(chunks) ==
    /\ Cardinality({i \in DOMAIN chunks : chunks[i] # <<>>}) >= k
    /\ \A i, j \in DOMAIN chunks : Len(chunks[i]) = Len(chunks[j])

DataByte(chunks, i, b) ==
    IF i \in DOMAIN chunks THEN chunks[i][b]
    ELSE LET j == CHOOSE j \in DOMAIN chunks : j \notin Data
         IN  IF chunks[j][b] = Pad THEN Pad ELSE <<chunks[j][b][i + 2]>>

AnyByte(chunks, i, b) ==
    IF i \in Data THEN DataByte(chunks, i, b)
    ELSE ParityByte(i, [d \in Data |-> DataByte(chunks, d, b)])

\* The length of the chunks.
Length(chunks) == Len(chunks[CHOOSE i \in DOMAIN chunks : TRUE])

\* Join: the first n bytes of the data chunks one after the other.
Join(chunks, n) ==
    [x \in 1 .. n |->
        DataByte(chunks, (x - 1) \div Length(chunks), ((x - 1) % Length(chunks)) + 1)]

CanJoin(chunks, n) == CanDecode(chunks) /\ n <= k * Length(chunks)

----------------------------------------------------------------------------
(* EncodeFile                                                               *)

CodecInit ==
    /\ \E size \in Size, d \in K, p \in M, b \in BlockSizes :
          mf = NewManifest(size, d, p, b, "sum", "sums")
    /\ Validate(mf)
    /\ job = "encode"
    /\ pos = 0 /\ buflen = k * bs
    /\ shard = [i \in All |-> <<>>]
    /\ present = {} /\ wanted = {} /\ at = 0 /\ out = [i \in All |-> <<>>]

BytesRead == Smaller(buflen, mf.FileSize - pos)

\* Variant: the whole buffer is taken for read, also at the end of the file.
EncodeStripeStale ==
    /\ job = "encode" /\ BytesRead > 0
    /\ shard' = [i \in All |-> shard[i] \o Chunk(i, pos, buflen)]
    /\ pos' = pos + buflen
    /\ UNCHANGED <<mf, job, buflen, present, wanted, at, out>>

\* A short stripe shortens the buffer, so the loop goes on to meet the end of
\* the file once more.
EncodeStripe ==
    /\ job = "encode" /\ BytesRead > 0
    /\ shard' = [i \in All |-> shard[i] \o Chunk(i, pos, BytesRead)]
    /\ pos' = pos + BytesRead
    /\ buflen' = BytesRead
    /\ UNCHANGED <<mf, job, present, wanted, at, out>>

EncodeEnds ==
    /\ job = "encode" /\ BytesRead = 0
    /\ job' = "encoded"
    /\ UNCHANGED <<mf, pos, buflen, shard, present, wanted, at, out>>

\* One of the ways back, from some of the shards.  ReconstructFromManifest and
\* the barrier of a segment refuse fewer than MinShards of them.
Begin ==
    /\ job = "encoded"
    /\ \E p \in SUBSET All, w \in SUBSET All :
          /\ w \cap p = {}
          /\ present' = p /\ wanted' = w
          /\ \/ w = {} /\ job' \in IF Cardinality(p) < mf.MinShards
                                     THEN {"failed"} ELSE {"V1", "V2"}
             \/ w # {} /\ job' = "repair"
    /\ UNCHANGED <<mf, pos, buflen, shard, at, out>>

Emit(bytes) == out' = [out EXCEPT ![0] = @ \o bytes]

\* The next stripe or segment, or the end with an error.
Continue(ok) ==
    /\ IF ok THEN at' = at + 1 /\ UNCHANGED job ELSE job' = "failed" /\ UNCHANGED <<at, out>>
    /\ UNCHANGED <<mf, pos, buflen, shard, present, wanted>>

WayEnds(result) ==
    /\ job' = result
    /\ UNCHANGED <<mf, pos, buflen, shard, present, wanted, at, out>>

\* `remaining` before stripe `at`.
Remaining == mf.FileSize - at * k * bs
StripeLen == Smaller(k * bs, Remaining)

----------------------------------------------------------------------------
(* ReconstructFile                                                          *)

\* Variant: the last stripe is not cut at the size of the file.
V1StripeWhole ==
    /\ job = "V1" /\ Remaining > 0
    /\ LET chunks == [i \in present |-> ReadChunk(i, at * bs, bs)]
       IN  /\ Continue(CanDecode(chunks))
           /\ CanDecode(chunks) => Emit(Join(chunks, k * Length(chunks)))

V1Stripe ==
    /\ job = "V1" /\ Remaining > 0
    /\ LET chunks == [i \in present |-> ReadChunk(i, at * bs, bs)]
       IN  /\ Continue(CanJoin(chunks, StripeLen))
           /\ CanJoin(chunks, StripeLen) => Emit(Join(chunks, StripeLen))

V1Ends == job = "V1" /\ Remaining <= 0 /\ WayEnds("decoded")

----------------------------------------------------------------------------
(* The segments of RunV2                                                    *)

shardSize == CeilDiv(mf.FileSize, k)
totalSegments == CeilDiv(shardSize, bs)

SegmentLength(seg) == Smaller(bs, shardSize - seg * bs)

\* A provider does not answer a request that reaches past its shard.
V2Segment ==
    /\ job = "V2" /\ at < totalSegments
    /\ LET length == SegmentLength(at)
           chunks == [i \in present |-> ReadChunk(i, at * bs, length)]
           stripeLen == Smaller(length * k, mf.FileSize - at * bs * k)
           served == \A i \in present : at * bs + length <= Len(shard[i])
       IN  /\ Continue(served /\ CanJoin(chunks, stripeLen))
           /\ (served /\ CanJoin(chunks, stripeLen)) => Emit(Join(chunks, stripeLen))

V2Ends == job = "V2" /\ at >= totalSegments /\ WayEnds("decoded")

----------------------------------------------------------------------------
(* RepairShards                                                             *)

\* Variant: every stripe has whole blocks.
ReadSizeWhole == bs

ReadSize == IF Remaining < k * bs THEN CeilDiv(Remaining, k) ELSE bs

\* What is short is filled up with zeros.
Padded(chunk, n) == [b \in 1 .. n |-> IF b <= Len(chunk) THEN chunk[b] ELSE Pad]

RepairStripe ==
    /\ job = "repair" /\ Remaining > 0
    /\ LET chunks == [i \in present |-> Padded(ReadChunk(i, at * bs, ReadSize), ReadSize)]
       IN  /\ Continue(CanDecode(chunks))
           /\ CanDecode(chunks) =>
                 out' = [i \in All |->
                    IF i \notin wanted THEN out[i]
                    ELSE out[i] \o [b \in 1 .. ReadSize |-> AnyByte(chunks, i, b)]]

\* The hashes of the manifest decide.
RepairEnds ==
    /\ job = "repair" /\ Remaining <= 0
    /\ WayEnds(IF \A i \in wanted : out[i] = shard[i] THEN "repaired" ELSE "failed")

CodecNext ==
    \/ EncodeStripe \/ EncodeEnds \/ Begin
    \/ V1Stripe \/ V1Ends \/ V2Segment \/ V2Ends \/ RepairStripe \/ RepairEnds

CodecSpec == CodecInit /\ [][CodecNext]_codecVars

----------------------------------------------------------------------------
(* Properties                                                               *)

Original == [x \in 1 .. mf.FileSize |-> <<x - 1>>]

\* Whatever DataShards or more of the shards are left, both ways of decoding
\* give back the file, byte for byte and no byte more, for sizes around every
\* boundary of stripe, segment and shard.
DecodesToOriginal == job = "decoded" => out[0] = Original

\* Neither decoding nor repair fails when there are enough shards: no reader
\* reaches past a shard, decodes chunks of different lengths, or rebuilds a
\* last stripe that is not the one EncodeFile wrote.
\* (A file of no bytes is "repaired" from anything.)
FailsOnlyWhenTooFew == job = "failed" => Cardinality(present) < k

\* The size of a shard that RunV2 derives from the size of the file is the
\* one EncodeFile has made.
ShardSizesAgree == pos >= mf.FileSize => \A i \in All : Len(shard[i]) = shardSize
============================================================================
