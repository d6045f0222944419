-------------------------- MODULE Segment_proofs ---------------------------
(***************************************************************************)
(* Proofs about the segments of a file: how its bytes are laid out in      *)
(* shards, and how RunV2 gets the chunks of one segment.                   *)
(*                                                                         *)
(* The codec, for every size of file, numbers of shards and size of        *)
(* blocks:                                                                 *)
(*   - the shards are always of one length (CodecTypeCorrect), which is    *)
(*     the one that RunV2 computes (ShardSizes);                           *)
(*   - any DataShards of the shards give the file back (DecodesBack);      *)
(*   - decoding and repair fail only with fewer (FailsForAReason).         *)
(* The arithmetic comes first: From, Bytes and Rows say where a stripe is  *)
(* in the file and in the shards, and Right which byte belongs where.      *)
(*                                                                         *)
(* The fetch of one segment, for every code, any providers and whatever    *)
(* they hold:                                                              *)
(*   - the variables keep their types (TypeCorrect);                       *)
(*   - no task is lost or doubled (NoTaskLost), so that no goroutine ever  *)
(*     blocks on a full channel (ChannelHasRoom);                          *)
(*   - a segment that ends short of chunks has seen more failures than the *)
(*     code has parity for (ShortExplained);                               *)
(*   - every step is one that SegmentOutcome allows, or none               *)
(*     (KeepsContract).                                                    *)
(***************************************************************************)
EXTENDS ErasureCodec, SegmentFetch, FiniteSetTheorems, SequenceTheorems, TLAPS

----------------------------------------------------------------------------
(* Products and quotients                                                   *)

LEMMA Product ==
    ASSUME NEW a \in Nat, NEW b \in Nat
    PROVE  a * b \in Nat
  OBVIOUS

LEMMA ProductGrows ==
    ASSUME NEW a \in Nat, NEW b \in Nat, NEW s \in Nat, a < b
    PROVE  a * s + s <= b * s
<1>1. PICK d \in Nat : b = a + 1 + d
  <2>1. b - (a + 1) \in Nat /\ b = a + 1 + (b - (a + 1))
    OBVIOUS
  <2>2. QED
    BY <2>1
<1>2. d * s \in Nat
  BY Product
<1>3. b * s = a * s + s + d * s
  BY <1>1
<1>4. a * s \in Nat
  BY Product
<1>5. QED
  BY <1>2, <1>3, <1>4

LEMMA Division ==
    ASSUME NEW x \in Nat, NEW s \in Nat, s > 0
    PROVE  /\ x \div s \in Nat /\ x % s \in 0 .. s - 1
           /\ x = s * (x \div s) + (x % s)
  OBVIOUS

\* CeilDiv is the number of rows of b that a needs.
LEMMA CeilDivRows ==
    ASSUME NEW a \in Nat, NEW b \in Nat, b > 0
    PROVE  /\ CeilDiv(a, b) \in Nat
           /\ a <= CeilDiv(a, b) * b /\ CeilDiv(a, b) * b < a + b
<1>1. PICK x \in Nat : x = a + b - 1
  OBVIOUS
<1>2. x \div b \in Nat /\ x % b \in 0 .. b - 1 /\ x = b * (x \div b) + (x % b)
  BY <1>1, Division
<1>3. QED
  BY <1>1, <1>2 DEF CeilDiv

LEMMA CeilDivUnique ==
    ASSUME NEW a \in Nat, NEW b \in Nat, b > 0, NEW c \in Nat, a <= c * b, c * b < a + b
    PROVE  CeilDiv(a, b) = c
<1>1. PICK d \in Nat : d = CeilDiv(a, b) /\ a <= d * b /\ d * b < a + b
  BY CeilDivRows
<1>2. c * b \in Nat /\ d * b \in Nat
  BY Product
<1>3. CASE c < d
  <2>1. c * b + b <= d * b
    BY <1>3, ProductGrows
  <2>2. QED
    BY <1>1, <1>2, <2>1
<1>4. CASE d < c
  <2>1. d * b + b <= c * b
    BY <1>4, ProductGrows
  <2>2. QED
    BY <1>1, <1>2, <2>1
<1>5. QED
  BY <1>1, <1>3, <1>4

----------------------------------------------------------------------------
(* Stripes                                                                  *)

\* What Validate promises of the numbers in the manifest.
Sized ==
    /\ mf.FileSize \in Nat
    /\ mf.DataShards \in Nat /\ mf.DataShards > 0
    /\ mf.ParityShards \in Nat /\ mf.ParityShards > 0
    /\ mf.BlockSize \in Nat /\ mf.BlockSize > 0
    /\ mf.MinShards = mf.DataShards
    /\ Validate(mf)

\* Stripe q begins at byte From(q) of the file and has Bytes(q) of its bytes, in
\* chunks of Rows(q) bytes that begin at byte q * bs of the shards.
From(q)  == q * k * bs
Bytes(q) == Smaller(k * bs, mf.FileSize - q * k * bs)
Rows(q)  == CeilDiv(Bytes(q), k)

LEMMA Counts ==
    ASSUME Sized
    PROVE  /\ k \in Nat /\ k > 0 /\ bs \in Nat /\ bs > 0
           /\ k * bs \in Nat /\ k * bs > 0
           /\ All = 0 .. k + mf.ParityShards - 1 /\ Data = 0 .. k - 1 /\ Data \subseteq All /\ 0 \in Data
           /\ mf.FileSize \in Nat
<1>1. k \in Nat /\ k > 0 /\ bs \in Nat /\ bs > 0 /\ mf.FileSize \in Nat
      /\ mf.ParityShards \in Nat
  BY DEF Sized, k, bs
<1>2. k * bs \in Nat
  BY <1>1, Product
<1>3. 0 * bs + bs <= k * bs
  BY <1>1, ProductGrows
<1>4. k * bs > 0
  BY <1>1, <1>2, <1>3
<1>5. All = 0 .. k + mf.ParityShards - 1 /\ Data = 0 .. k - 1
  BY DEF All, Data, k
<1>6. QED
  BY <1>1, <1>2, <1>4, <1>5

LEMMA FromIsProduct ==
    ASSUME Sized, NEW q \in Nat
    PROVE  From(q) = q * (k * bs) /\ From(q) \in Nat /\ From(q + 1) = From(q) + k * bs
<1>1. k \in Nat /\ bs \in Nat /\ k * bs \in Nat
  BY Counts
<1>2. From(q) = q * (k * bs) /\ From(q + 1) = (q + 1) * (k * bs)
  BY <1>1 DEF From
<1>3. PICK s \in Nat : s = k * bs
  BY <1>1
<1>4. (q + 1) * s = q * s + s /\ q * s \in Nat
  BY Product
<1>5. QED
  BY <1>2, <1>3, <1>4

LEMMA FromGrows ==
    ASSUME Sized, NEW q \in Nat, NEW r \in Nat, q < r
    PROVE  From(q + 1) <= From(r)
<1>1. k * bs \in Nat
  BY Counts
<1>2. q * (k * bs) + k * bs <= r * (k * bs)
  BY <1>1, ProductGrows
<1>3. QED
  BY <1>1, <1>2, FromIsProduct

LEMMA StripeBounds ==
    ASSUME Sized, NEW q \in Nat, From(q) < mf.FileSize
    PROVE  /\ Bytes(q) \in Nat /\ 0 < Bytes(q) /\ Bytes(q) <= k * bs
           /\ From(q) + Bytes(q) <= mf.FileSize
           /\ Rows(q) \in Nat /\ 0 < Rows(q) /\ Rows(q) <= bs /\ Bytes(q) <= Rows(q) * k
           /\ From(q + 1) <= mf.FileSize => Bytes(q) = k * bs /\ Rows(q) = bs
           /\ mf.FileSize <= From(q + 1) => From(q) + Bytes(q) = mf.FileSize
<1>1. /\ k \in Nat /\ k > 0 /\ bs \in Nat /\ k * bs \in Nat /\ k * bs > 0 /\ mf.FileSize \in Nat
  BY Counts
<1>2. From(q) \in Nat /\ From(q + 1) = From(q) + k * bs
  BY FromIsProduct
<1>3. Bytes(q) = IF k * bs < mf.FileSize - From(q) THEN k * bs ELSE mf.FileSize - From(q)
  BY DEF Bytes, Smaller, From
<1>4. PICK s \in Nat : s = k * bs
  BY <1>1
<1>5. /\ Bytes(q) \in Nat /\ 0 < Bytes(q) /\ Bytes(q) <= k * bs
      /\ From(q) + Bytes(q) <= mf.FileSize
      /\ From(q + 1) <= mf.FileSize => Bytes(q) = k * bs
      /\ mf.FileSize <= From(q + 1) => From(q) + Bytes(q) = mf.FileSize
  BY <1>1, <1>2, <1>3, <1>4
<1>6. Rows(q) \in Nat /\ Bytes(q) <= Rows(q) * k /\ Rows(q) * k < Bytes(q) + k
  BY <1>1, <1>5, CeilDivRows DEF Rows
<1>7. Rows(q) * k \in Nat /\ bs * k \in Nat /\ bs * k = k * bs
  BY <1>1, <1>6, Product
<1>8. Rows(q) <= bs
  <2>1. SUFFICES ASSUME bs < Rows(q) PROVE FALSE
    BY <1>1, <1>6
  <2>2. bs * k + k <= Rows(q) * k
    BY <1>1, <1>6, <2>1, ProductGrows
  <2>3. QED
    BY <1>1, <1>5, <1>6, <1>7, <2>2
<1>9. 0 < Rows(q)
  <2>1. SUFFICES ASSUME Rows(q) = 0 PROVE FALSE
    BY <1>6
  <2>2. Rows(q) * k = 0
    BY <1>1, <2>1
  <2>3. QED
    BY <1>5, <1>6, <2>2
<1>10. Bytes(q) = k * bs => Rows(q) = bs
  <2>1. SUFFICES ASSUME Bytes(q) = k * bs, Rows(q) < bs PROVE FALSE
    BY <1>1, <1>6, <1>8
  <2>2. Rows(q) * k + k <= bs * k
    BY <1>1, <1>6, <2>1, ProductGrows
  <2>3. QED
    BY <1>1, <1>6, <1>7, <2>1, <2>2
<1>11. QED
  BY <1>5, <1>6, <1>8, <1>9, <1>10

\* The stripe that the end of the file is in.
LEMMA LastStripe ==
    ASSUME Sized, mf.FileSize > 0
    PROVE  \E q \in Nat : From(q) < mf.FileSize /\ mf.FileSize <= From(q + 1)
<1>1. PICK s \in Nat : s = k * bs /\ s > 0
  BY Counts
<1>2. PICK x \in Nat : x = mf.FileSize - 1
  BY DEF Sized
<1>3. x \div s \in Nat /\ x % s \in 0 .. s - 1 /\ x = s * (x \div s) + (x % s)
  BY <1>1, <1>2, Division
<1>4. PICK q \in Nat, y \in 0 .. s - 1 : x = s * q + y
  BY <1>3, Zenon
<1>5. From(q) = q * s /\ From(q) \in Nat /\ From(q + 1) = From(q) + s
  BY <1>1, FromIsProduct
<1>6. x = From(q) + y
  <2>1. s * q = q * s
    OBVIOUS
  <2>2. QED
    BY <1>4, <1>5, <2>1
<1>7. From(q) < mf.FileSize /\ mf.FileSize <= From(q + 1)
  <2>1. mf.FileSize \in Nat
    BY Counts
  <2>2. mf.FileSize = From(q) + y + 1
    BY <1>2, <1>5, <1>6, <2>1
  <2>3. From(q + 1) = From(q) + s
    BY <1>5
  <2>4. PICK f \in Nat : f = From(q)
    BY <1>5
  <2>5. QED
    BY <1>1, <2>1, <2>2, <2>3, <2>4
<1>8. QED
  BY <1>7

\* shardSize counts the rows of all stripes.
LEMMA ShardSize ==
    ASSUME Sized
    PROVE  /\ shardSize \in Nat
           /\ mf.FileSize = 0 => shardSize = 0
           /\ \A q \in Nat : From(q) < mf.FileSize /\ mf.FileSize <= From(q + 1)
                             => shardSize = q * bs + Rows(q)
           /\ \A q \in Nat : From(q) < mf.FileSize <=> q * bs < shardSize
           /\ \A q \in Nat : From(q) < mf.FileSize /\ From(q + 1) <= mf.FileSize
                             => q * bs + bs <= shardSize
<1>1. /\ k \in Nat /\ k > 0 /\ bs \in Nat /\ bs > 0 /\ mf.FileSize \in Nat
      /\ k * bs \in Nat
  BY Counts
<1>2. /\ shardSize \in Nat /\ mf.FileSize <= shardSize * k
      /\ shardSize * k < mf.FileSize + k /\ shardSize = CeilDiv(mf.FileSize, k)
  BY <1>1, CeilDivRows DEF shardSize
<1>3. shardSize * k \in Nat
  BY <1>1, <1>2, Product
<1>4. mf.FileSize = 0 => shardSize = 0
  <2>1. SUFFICES ASSUME mf.FileSize = 0 PROVE CeilDiv(mf.FileSize, k) = 0
    BY <1>2
  <2>2. 0 * k = 0
    BY <1>1
  <2>3. QED
    BY <1>1, <2>1, <2>2, CeilDivUnique
<1>5. ASSUME NEW q \in Nat
      PROVE  /\ q * bs \in Nat /\ (q * bs) * k = From(q)
             /\ (q * bs + bs) * k = From(q + 1)
  <2>1. q * bs \in Nat
    BY <1>1, Product
  <2>2. (q * bs) * k = q * (k * bs) /\ (q * bs + bs) * k = q * (k * bs) + k * bs
    BY <1>1
  <2>3. QED
    BY <2>1, <2>2, FromIsProduct
<1>6. ASSUME NEW q \in Nat, From(q) < mf.FileSize, mf.FileSize <= From(q + 1)
      PROVE  shardSize = q * bs + Rows(q)
  <2>1. /\ Rows(q) \in Nat /\ Bytes(q) \in Nat /\ From(q) + Bytes(q) = mf.FileSize
    BY <1>6, StripeBounds
  <2>2. Bytes(q) <= Rows(q) * k /\ Rows(q) * k < Bytes(q) + k
    BY <1>1, <2>1, CeilDivRows DEF Rows
  <2>3. PICK c \in Nat, d \in Nat : c = q * bs /\ d = Rows(q)
    BY <1>5, <2>1
  <2>4. (c + d) * k = c * k + d * k /\ c * k \in Nat /\ d * k \in Nat
    BY <1>1, Product
  <2>5. From(q) = c * k /\ Bytes(q) <= d * k /\ d * k < Bytes(q) + k
    BY <1>5, <2>2, <2>3
  <2> PICK x \in Nat, y \in Nat : x = c * k /\ y = d * k
    BY <2>4
  <2>8. (c + d) * k = x + y
    BY <2>4
  <2>9. mf.FileSize <= x + y /\ x + y < mf.FileSize + k
    BY <1>1, <2>1, <2>5
  <2>6. CeilDiv(mf.FileSize, k) = c + d
    BY <1>1, <2>8, <2>9, CeilDivUnique
  <2>7. QED
    BY <1>2, <2>3, <2>6
<1>7. ASSUME NEW q \in Nat
      PROVE  From(q) < mf.FileSize <=> q * bs < shardSize
  <2>1. From(q) \in Nat
    BY FromIsProduct
  <2>2. CASE q * bs < shardSize
    <3>1. (q * bs) * k + k <= shardSize * k
      BY <1>1, <1>2, <1>5, <2>2, ProductGrows
    <3>2. QED
      BY <1>1, <1>2, <1>3, <1>5, <2>1, <2>2, <3>1
  <2>3. CASE shardSize < q * bs
    <3>1. shardSize * k + k <= (q * bs) * k
      BY <1>1, <1>2, <1>5, <2>3, ProductGrows
    <3>2. QED
      BY <1>1, <1>2, <1>3, <1>5, <2>1, <2>3, <3>1
  <2>4. CASE shardSize = q * bs
    BY <1>1, <1>2, <1>5, <2>1, <2>4
  <2>5. QED
    BY <1>2, <1>5, <2>2, <2>3, <2>4
<1>8. ASSUME NEW q \in Nat, From(q + 1) <= mf.FileSize
      PROVE  q * bs + bs <= shardSize
  <2>1. SUFFICES ASSUME shardSize < q * bs + bs PROVE FALSE
    BY <1>1, <1>2, <1>5
  <2>2. shardSize * k + k <= (q * bs + bs) * k
    <3>1. PICK c \in Nat : c = q * bs + bs
      BY <1>1, <1>5
    <3>2. shardSize * k + k <= c * k
      BY <1>1, <1>2, <2>1, <3>1, ProductGrows
    <3>3. QED
      BY <3>1, <3>2
  <2>3. From(q + 1) \in Nat
    BY FromIsProduct
  <2>4. QED
    BY <1>1, <1>2, <1>3, <1>5, <1>8, <2>2, <2>3
<1>9. QED
  BY <1>2, <1>4, <1>6, <1>7, <1>8

----------------------------------------------------------------------------
(* The bytes of a stripe                                                    *)

\* Byte b of shard i in a stripe of n bytes from `from` on, for d data shards.
DataByteOf(d, i, from, n, b) ==
    IF i * CeilDiv(n, d) + b <= n THEN <<from + i * CeilDiv(n, d) + b - 1>> ELSE Pad
ByteOf(d, i, from, n, b) ==
    IF i \in 0 .. d - 1 THEN DataByteOf(d, i, from, n, b)
    ELSE [x \in 1 .. d + 1 |-> IF x = 1 THEN i ELSE DataByteOf(d, x - 2, from, n, b)[1]]

Right(i, q, b) == ByteOf(k, i, From(q), Bytes(q), b)

LEMMA FunctionIsSeq ==
    ASSUME NEW S, NEW n \in Nat, NEW g, g = [b \in 1 .. n |-> g[b]], \A b \in 1 .. n : g[b] \in S
    PROVE  g \in Seq(S) /\ Len(g) = n /\ DOMAIN g = 1 .. n
<1>1. g \in [1 .. n -> S]
  OBVIOUS
<1>2. QED
  BY <1>1

\* A byte of a data shard has one part.
Single(y) == y = <<y[1]>>

LEMMA DataByteType ==
    ASSUME NEW d \in Nat, d > 0, NEW i \in Nat, NEW from \in Nat, NEW n \in Nat, NEW b \in Nat
    PROVE  /\ DataByteOf(d, i, from, n, b) \in Byte /\ DataByteOf(d, i, from, n, b)[1] \in Int
           /\ Single(DataByteOf(d, i, from, n, b))
<1> DEFINE y == DataByteOf(d, i, from, n, b)
<1>1. CeilDiv(n, d) \in Nat
  BY CeilDivRows
<1>2. i * CeilDiv(n, d) \in Nat
  BY <1>1, Product
<1>3. PICK p \in Int : y = <<p>>
  BY <1>2 DEF DataByteOf, Pad
<1>4. y = <<y[1]>> /\ y[1] \in Int
  BY <1>3
<1>5. QED
  BY <1>3, <1>4 DEF Byte, Single

LEMMA ByteType ==
    ASSUME NEW d \in Nat, d > 0, NEW i \in Nat, NEW from \in Nat, NEW n \in Nat, NEW b \in Nat
    PROVE  ByteOf(d, i, from, n, b) \in Byte
<1> DEFINE g == ByteOf(d, i, from, n, b)
<1>1. CASE i \in 0 .. d - 1
  BY <1>1, DataByteType DEF ByteOf
<1>2. CASE i \notin 0 .. d - 1
  <2>1. g = [x \in 1 .. d + 1 |-> IF x = 1 THEN i ELSE DataByteOf(d, x - 2, from, n, b)[1]]
    BY <1>2 DEF ByteOf
  <2>2. ASSUME NEW x \in 1 .. d + 1 PROVE g[x] \in Int
    <3>1. CASE x = 1
      BY <2>1, <3>1
    <3>2. CASE x # 1
      <4>1. x - 2 \in Nat
        BY <3>2
      <4>2. DataByteOf(d, x - 2, from, n, b)[1] \in Int
        BY <4>1, DataByteType
      <4>3. QED
        BY <2>1, <3>2, <4>2
    <3>3. QED
      BY <3>1, <3>2
  <2>3. g = [x \in 1 .. d + 1 |-> g[x]]
    BY <2>1
  <2> HIDE DEF g
  <2>4. d + 1 \in Nat
    OBVIOUS
  <2>5. g \in Seq(Int)
    BY <2>2, <2>3, <2>4, FunctionIsSeq
  <2>6. QED
    BY <2>5 DEF Byte, g
<1>3. QED
  BY <1>1, <1>2

\* What EncodeFile makes of a stripe.
LEMMA ChunkBytes ==
    ASSUME Sized, NEW i \in All, NEW from \in Nat, NEW n \in Nat
    PROVE  /\ Chunk(i, from, n) \in Seq(Byte) /\ Len(Chunk(i, from, n)) = CeilDiv(n, k)
           /\ \A b \in 1 .. CeilDiv(n, k) : Chunk(i, from, n)[b] = ByteOf(k, i, from, n, b)
<1> DEFINE c == CeilDiv(n, k)
           g == Chunk(i, from, n)
<1>1. k \in Nat /\ k > 0 /\ Data = 0 .. k - 1 /\ c \in Nat /\ i \in Nat
  <2>1. k \in Nat /\ k > 0 /\ Data = 0 .. k - 1
    BY Counts
  <2>2. c \in Nat
    BY <2>1, CeilDivRows
  <2>3. i \in Nat
    BY Counts, SMT DEF All
  <2>4. QED
    BY <2>1, <2>2, <2>3
<1>2. ASSUME NEW d \in Data
      PROVE  DataChunk(d, from, n) = [b \in 1 .. c |-> DataByteOf(k, d, from, n, b)]
  BY DEF DataChunk, DataByteOf
<1>3. g = [b \in 1 .. c |-> ByteOf(k, i, from, n, b)]
  <2>1. CASE i \in Data
    BY <1>1, <1>2, <2>1 DEF Chunk, ByteOf
  <2>2. CASE i \notin Data
    <3>1. g = [b \in 1 .. c |-> ParityByte(i, [d \in Data |-> DataChunk(d, from, n)[b]])]
      BY <2>2 DEF Chunk
    <3>2. ASSUME NEW b \in 1 .. c
          PROVE  ParityByte(i, [d \in Data |-> DataChunk(d, from, n)[b]]) = ByteOf(k, i, from, n, b)
      <4> DEFINE col == [d \in Data |-> DataChunk(d, from, n)[b]]
      <4>1. ASSUME NEW x \in 1 .. k + 1, x # 1
            PROVE  col[x - 2] = DataByteOf(k, x - 2, from, n, b)
        <5>1. x - 2 \in Data
          BY <1>1, <4>1
        <5>2. QED
          BY <1>2, <5>1
      <4> HIDE DEF col
      <4>2. [x \in 1 .. k + 1 |-> IF x = 1 THEN i ELSE col[x - 2][1]]
            = [x \in 1 .. k + 1 |-> IF x = 1 THEN i ELSE DataByteOf(k, x - 2, from, n, b)[1]]
        BY <4>1
      <4>3. QED
        BY <1>1, <2>2, <4>2 DEF ParityByte, ByteOf, col
    <3>3. QED
      BY <3>1, <3>2
  <2>3. QED
    BY <2>1, <2>2
<1>4. \A b \in 1 .. c : g[b] = ByteOf(k, i, from, n, b) /\ g[b] \in Byte
  BY <1>1, <1>3, ByteType
<1>5. g = [b \in 1 .. c |-> g[b]]
  BY <1>3
<1> HIDE DEF g, c
<1>6. g \in Seq(Byte) /\ Len(g) = c
  BY <1>1, <1>4, <1>5, FunctionIsSeq
<1>7. QED
  BY <1>4, <1>6 DEF g, c

----------------------------------------------------------------------------
(* Decoding a stripe                                                        *)

\* The chunks are those of stripe q.
ChunksOf(chunks, q) ==
    /\ DOMAIN chunks = present
    /\ \A i \in present :
          /\ chunks[i] \in Seq(Byte) /\ Len(chunks[i]) = Rows(q)
          /\ \A b \in 1 .. Rows(q) : chunks[i][b] = Right(i, q, b)

LEMMA AllFinite ==
    ASSUME Sized
    PROVE  /\ IsFiniteSet(All) /\ IsFiniteSet(Data) /\ Cardinality(Data) = k
           /\ \A p \in SUBSET All : IsFiniteSet(p) /\ Cardinality(p) \in Nat
<1>1. k \in Nat /\ k > 0 /\ mf.ParityShards \in Nat
  BY Counts DEF Sized
<1>2. IsFiniteSet(All)
  <2>1. PICK last \in Int : last = k + mf.ParityShards - 1
    BY <1>1
  <2>2. IsFiniteSet(0 .. last)
    BY FS_Interval
  <2>3. All = 0 .. last
    BY <2>1, Counts
  <2>4. QED
    BY <2>2, <2>3
<1>3. IsFiniteSet(Data) /\ Cardinality(Data) = k
  <2>1. PICK last \in Int : last = k - 1
    BY <1>1
  <2>2. /\ IsFiniteSet(0 .. last)
        /\ Cardinality(0 .. last) = IF 0 > last THEN 0 ELSE last - 0 + 1
    BY FS_Interval
  <2>3. Data = 0 .. last /\ ~ 0 > last /\ last - 0 + 1 = k
    BY <1>1, <2>1, Counts
  <2>4. QED
    BY <2>2, <2>3
<1>4. ASSUME NEW p \in SUBSET All PROVE IsFiniteSet(p) /\ Cardinality(p) \in Nat
  <2>1. IsFiniteSet(p)
    BY <1>2, FS_Subset
  <2>2. QED
    BY <2>1, FS_CardinalityType
<1>5. QED
  BY <1>2, <1>3, <1>4

\* Where a data shard is missing there is a parity shard in its place.
LEMMA ParityThere ==
    ASSUME Sized, present \subseteq All, Cardinality(present) >= k,
           NEW i \in Data, i \notin present
    PROVE  \E j \in present : j \notin Data
<1>1. SUFFICES ASSUME present \subseteq Data \ {i} PROVE FALSE
  OBVIOUS
<1>2. k \in Nat /\ IsFiniteSet(Data) /\ Cardinality(Data) = k
  BY AllFinite, Counts
<1>3. IsFiniteSet(Data \ {i}) /\ Cardinality(Data \ {i}) = k - 1
  BY <1>2, FS_RemoveElement
<1>4. Cardinality(present) <= Cardinality(Data \ {i})
  BY <1>1, <1>3, FS_Subset
<1>5. Cardinality(present) \in Nat
  BY AllFinite
<1>6. QED
  BY <1>2, <1>3, <1>4, <1>5

LEMMA SomePresent ==
    ASSUME Sized, present \subseteq All, Cardinality(present) >= k
    PROVE  present # {}
<1>1. k \in Nat /\ k > 0
  BY Counts
<1>2. Cardinality({}) = 0
  BY FS_EmptySet
<1>3. QED
  BY <1>1, <1>2

\* The Reed-Solomon library gives every byte of the data shards.
LEMMA DecodedByte ==
    ASSUME Sized, present \subseteq All, Cardinality(present) >= k,
           NEW q \in Nat, From(q) < mf.FileSize, NEW chunks, ChunksOf(chunks, q),
           NEW i \in Data, NEW b \in 1 .. Rows(q)
    PROVE  DataByte(chunks, i, b) = Right(i, q, b)
<1>1. CASE i \in present
  BY <1>1 DEF DataByte, ChunksOf
<1>2. CASE i \notin present
  <2>1. PICK j : j = CHOOSE x \in present : x \notin Data
    OBVIOUS
  <2>2. j \in present /\ j \notin Data
    BY <1>2, <2>1, ParityThere
  <2>3. DataByte(chunks, i, b) = IF chunks[j][b] = Pad THEN Pad ELSE <<chunks[j][b][i + 2]>>
    BY <1>2, <2>1 DEF DataByte, ChunksOf
  <2>4. k \in Nat /\ k > 0 /\ Data = 0 .. k - 1 /\ i \in Nat /\ From(q) \in Nat
        /\ Bytes(q) \in Nat /\ b \in Nat
    <3>1. k \in Nat /\ k > 0 /\ Data = 0 .. k - 1
      BY Counts
    <3>2. From(q) \in Nat
      BY FromIsProduct
    <3>3. Bytes(q) \in Nat
      BY StripeBounds
    <3>4. i \in Nat /\ b \in Nat
      BY <3>1
    <3>5. QED
      BY <3>1, <3>2, <3>3, <3>4
  <2>5. chunks[j][b] = [x \in 1 .. k + 1 |->
                          IF x = 1 THEN j ELSE DataByteOf(k, x - 2, From(q), Bytes(q), b)[1]]
    BY <2>2, <2>4 DEF ChunksOf, Right, ByteOf
  <2>6. chunks[j][b] # Pad
    <3>1. 2 \in DOMAIN chunks[j][b]
      BY <2>4, <2>5
    <3>2. 2 \notin DOMAIN Pad
      BY DEF Pad
    <3>3. QED
      BY <3>1, <3>2
  <2>7. i + 2 \in 1 .. k + 1 /\ i + 2 # 1 /\ (i + 2) - 2 = i
    BY <2>4
  <2>8. chunks[j][b][i + 2] = DataByteOf(k, i, From(q), Bytes(q), b)[1]
    BY <2>5, <2>7
  <2>9. Right(i, q, b) = DataByteOf(k, i, From(q), Bytes(q), b)
    BY <2>4 DEF Right, ByteOf
  <2>10. Right(i, q, b) = <<Right(i, q, b)[1]>>
    <3> DEFINE y == DataByteOf(k, i, From(q), Bytes(q), b)
    <3>1. Single(y)
      BY <2>4, DataByteType
    <3>2. QED
      BY <2>9, <3>1, Zenon DEF Single
  <2>11. QED
    BY <2>3, <2>6, <2>8, <2>9, <2>10
<1>3. QED
  BY <1>1, <1>2

\* And every byte of the parity shards.
LEMMA RebuiltByte ==
    ASSUME Sized, present \subseteq All, Cardinality(present) >= k,
           NEW q \in Nat, From(q) < mf.FileSize, NEW chunks, ChunksOf(chunks, q),
           NEW i \in All, NEW b \in 1 .. Rows(q)
    PROVE  AnyByte(chunks, i, b) = Right(i, q, b)
<1>1. CASE i \in Data
  BY <1>1, DecodedByte DEF AnyByte
<1>2. CASE i \notin Data
  <2>1. k \in Nat /\ Data = 0 .. k - 1
    BY Counts
  <2> DEFINE col == [d \in Data |-> DataByte(chunks, d, b)]
  <2>2. ASSUME NEW x \in 1 .. k + 1, x # 1
        PROVE  col[x - 2] = DataByteOf(k, x - 2, From(q), Bytes(q), b)
    <3>1. x - 2 \in Data
      BY <2>1, <2>2
    <3>2. DataByte(chunks, x - 2, b) = Right(x - 2, q, b)
      BY <3>1, DecodedByte
    <3>3. Right(x - 2, q, b) = DataByteOf(k, x - 2, From(q), Bytes(q), b)
      BY <2>1, <3>1 DEF Right, ByteOf
    <3>4. QED
      BY <3>1, <3>2, <3>3
  <2> HIDE DEF col
  <2>3. [x \in 1 .. k + 1 |-> IF x = 1 THEN i ELSE col[x - 2][1]]
        = [x \in 1 .. k + 1 |-> IF x = 1 THEN i ELSE DataByteOf(k, x - 2, From(q), Bytes(q), b)[1]]
    BY <2>2
  <2>4. AnyByte(chunks, i, b) = ParityByte(i, col)
    BY <1>2 DEF AnyByte, col
  <2>5. QED
    BY <1>2, <2>1, <2>3, <2>4 DEF ParityByte, Right, ByteOf
<1>3. QED
  BY <1>1, <1>2

\* The chunks of a stripe can be decoded when there are enough.
LEMMA StripeDecodes ==
    ASSUME Sized, present \subseteq All, Cardinality(present) >= k,
           NEW q \in Nat, From(q) < mf.FileSize, NEW chunks, ChunksOf(chunks, q)
    PROVE  CanDecode(chunks) /\ Length(chunks) = Rows(q) /\ CanJoin(chunks, Bytes(q))
<1>1. /\ Rows(q) \in Nat /\ 0 < Rows(q) /\ Bytes(q) \in Nat /\ Bytes(q) <= Rows(q) * k
      /\ k \in Nat
  BY StripeBounds, Counts
<1>2. DOMAIN chunks = present /\ present # {}
  BY SomePresent DEF ChunksOf
<1>3. \A i \in present : Len(chunks[i]) = Rows(q) /\ chunks[i] # <<>>
  <2>1. Len(<<>>) = 0
    OBVIOUS
  <2>2. QED
    BY <1>1, <2>1 DEF ChunksOf
<1>4. {i \in DOMAIN chunks : chunks[i] # <<>>} = present
  BY <1>2, <1>3
<1>5. CanDecode(chunks)
  BY <1>2, <1>3, <1>4 DEF CanDecode
<1>6. Length(chunks) = Rows(q)
  <2>1. (CHOOSE i \in DOMAIN chunks : TRUE) \in present
    BY <1>2
  <2>2. QED
    BY <1>3, <2>1 DEF Length
<1>7. Rows(q) * k = k * Rows(q)
  BY <1>1
<1>8. QED
  BY <1>1, <1>5, <1>6, <1>7 DEF CanJoin

----------------------------------------------------------------------------
(* Reading a stripe back                                                    *)

\* Stripe q has been written to shard i.
Filled(i, q) ==
    /\ q * bs + Rows(q) <= Len(shard[i])
    /\ \A b \in 1 .. Rows(q) : shard[i][q * bs + b] = Right(i, q, b)

\* The file has been encoded.
AllWritten ==
    /\ Sized
    /\ \A i \in All :
          /\ shard[i] \in Seq(Byte) /\ Len(shard[i]) = shardSize
          /\ \A q \in Nat : From(q) < mf.FileSize => Filled(i, q)

\* Where the rows of a stripe are in the shards.
LEMMA StripeRows ==
    ASSUME Sized, NEW q \in Nat, From(q) < mf.FileSize
    PROVE  /\ shardSize \in Nat /\ q * bs \in Nat /\ Rows(q) \in Nat
           /\ q * bs + Rows(q) <= shardSize
           /\ Smaller(q * bs + bs, shardSize) = q * bs + Rows(q)
           /\ Smaller(q * bs + Rows(q), shardSize) = q * bs + Rows(q)
           /\ Smaller(bs, shardSize - q * bs) = Rows(q)
<1>1. bs \in Nat /\ shardSize \in Nat /\ mf.FileSize \in Nat /\ Rows(q) \in Nat /\ Rows(q) <= bs
  BY Counts, ShardSize, StripeBounds
<1>2. From(q + 1) \in Nat /\ q * bs \in Nat
  <2>1. q + 1 \in Nat
    OBVIOUS
  <2>2. From(q + 1) \in Nat
    BY <2>1, FromIsProduct
  <2>3. QED
    BY <1>1, <2>2, Product
<1> PICK c \in Nat : c = q * bs
  BY <1>2
<1>3. CASE From(q + 1) <= mf.FileSize
  <2>1. c + bs <= shardSize /\ Rows(q) = bs
    BY <1>3, ShardSize, StripeBounds
  <2>2. QED
    BY <1>1, <2>1 DEF Smaller
<1>4. CASE mf.FileSize <= From(q + 1)
  <2>1. shardSize = c + Rows(q)
    BY <1>4, ShardSize
  <2>2. QED
    BY <1>1, <2>1 DEF Smaller
<1>5. QED
  BY <1>1, <1>2, <1>3, <1>4

\* A reader that asks for a block, or for the rows of the stripe, gets these.
LEMMA ReadsStripe ==
    ASSUME AllWritten, NEW q \in Nat, From(q) < mf.FileSize, NEW i \in All,
           NEW n \in {bs, Rows(q)}
    PROVE  LET c == ReadChunk(i, q * bs, n)
           IN  /\ c \in Seq(Byte) /\ Len(c) = Rows(q)
               /\ \A b \in 1 .. Rows(q) : c[b] = Right(i, q, b)
<1>1. /\ q * bs \in Nat /\ Rows(q) \in Nat /\ shardSize \in Nat
      /\ q * bs + Rows(q) <= shardSize /\ Smaller(q * bs + n, shardSize) = q * bs + Rows(q)
  BY StripeRows DEF AllWritten
<1>2. /\ shard[i] \in Seq(Byte) /\ Len(shard[i]) = shardSize
      /\ \A b \in 1 .. Rows(q) : shard[i][q * bs + b] = Right(i, q, b)
  BY DEF AllWritten, Filled
<1> PICK s : s = shard[i]
  OBVIOUS
<1> PICK f \in Nat, r \in Nat : f = q * bs /\ r = Rows(q)
  BY <1>1
<1>3. ReadChunk(i, q * bs, n) = SubSeq(s, f + 1, f + r)
  BY <1>1, <1>2 DEF ReadChunk
<1>4. s \in Seq(Byte) /\ f + r <= Len(s)
  BY <1>1, <1>2
<1>5. /\ SubSeq(s, f + 1, f + r) \in Seq(Byte)
      /\ Len(SubSeq(s, f + 1, f + r)) = r
      /\ \A b \in 1 .. r : SubSeq(s, f + 1, f + r)[b] = s[f + b]
  <2>1. PICK fr \in Int, to \in Int : fr = f + 1 /\ to = f + r
    OBVIOUS
  <2>2. \A x \in fr .. to : s[x] \in Byte
    <3>1. \A x \in 1 .. Len(s) : s[x] \in Byte
      BY <1>4
    <3>2. fr .. to \subseteq 1 .. Len(s)
      <4>1. PICK size \in Nat : size = Len(s)
        BY <1>4
      <4>2. 1 <= fr /\ to <= size
        BY <1>4, <2>1, <4>1
      <4>3. fr .. to \subseteq 1 .. size
        BY <4>2
      <4>4. QED
        BY <4>1, <4>3
    <3>3. QED
      BY <3>1, <3>2, Zenon
  <2>3. /\ SubSeq(s, fr, to) \in Seq(Byte)
        /\ Len(SubSeq(s, fr, to)) = IF fr <= to THEN to - fr + 1 ELSE 0
        /\ \A b \in 1 .. to - fr + 1 : SubSeq(s, fr, to)[b] = s[fr + b - 1]
    BY <2>2, SubSeqProperties
  <2>4. Len(SubSeq(s, fr, to)) = r /\ \A b \in 1 .. r : SubSeq(s, fr, to)[b] = s[f + b]
    BY <2>1, <2>3
  <2>5. QED
    BY <2>1, <2>3, <2>4
<1>6. QED
  BY <1>2, <1>3, <1>5

\* What ReconstructFile and RunV2 read.
LEMMA ChunksRead ==
    ASSUME AllWritten, present \subseteq All, NEW q \in Nat, From(q) < mf.FileSize,
           NEW n \in {bs, Rows(q)}
    PROVE  ChunksOf([i \in present |-> ReadChunk(i, q * bs, n)], q)
<1>1. ASSUME NEW i \in present
      PROVE  /\ ReadChunk(i, q * bs, n) \in Seq(Byte) /\ Len(ReadChunk(i, q * bs, n)) = Rows(q)
             /\ \A b \in 1 .. Rows(q) : ReadChunk(i, q * bs, n)[b] = Right(i, q, b)
  BY ReadsStripe
<1>2. QED
  BY <1>1 DEF ChunksOf

\* What RepairShards reads: nothing is short, so nothing is filled up.
LEMMA PaddedRead ==
    ASSUME AllWritten, present \subseteq All, NEW q \in Nat, From(q) < mf.FileSize
    PROVE  ChunksOf([i \in present |-> Padded(ReadChunk(i, q * bs, Rows(q)), Rows(q))], q)
<1>1. Rows(q) \in Nat /\ Sized
  BY StripeBounds DEF AllWritten
<1>2. ASSUME NEW i \in present
      PROVE  LET c == Padded(ReadChunk(i, q * bs, Rows(q)), Rows(q))
             IN  /\ c \in Seq(Byte) /\ Len(c) = Rows(q)
                 /\ \A b \in 1 .. Rows(q) : c[b] = Right(i, q, b)
  <2> DEFINE r == ReadChunk(i, q * bs, Rows(q))
             c == Padded(r, Rows(q))
  <2>1. /\ r \in Seq(Byte) /\ Len(r) = Rows(q)
        /\ \A b \in 1 .. Rows(q) : r[b] = Right(i, q, b)
    BY ReadsStripe
  <2> HIDE DEF r
  <2>2. c = [b \in 1 .. Rows(q) |-> c[b]] /\ \A b \in 1 .. Rows(q) : c[b] = r[b]
    BY <1>1, <2>1 DEF Padded
  <2> HIDE DEF c
  <2>3. \A b \in 1 .. Rows(q) : c[b] \in Byte
    BY <1>1, <2>1, <2>2
  <2>4. c \in Seq(Byte) /\ Len(c) = Rows(q)
    BY <1>1, <2>2, <2>3, FunctionIsSeq
  <2>5. QED
    BY <2>1, <2>2, <2>4 DEF c, r
<1>3. QED
  BY <1>2 DEF ChunksOf

\* Where byte x of the decoded stripe is in the chunks.
ChunkOf(x, r) == (x - 1) \div r
RowOf(x, r)   == ((x - 1) % r) + 1

LEMMA PlaceOf ==
    ASSUME NEW n \in Nat, NEW r \in Nat, r > 0, NEW d \in Nat, n <= r * d, NEW x \in 1 .. n
    PROVE  ChunkOf(x, r) \in 0 .. d - 1 /\ RowOf(x, r) \in 1 .. r /\ ChunkOf(x, r) * r + RowOf(x, r) = x
<1>1. PICK y \in Nat : y = x - 1
  <2>1. x - 1 \in Nat
    OBVIOUS
  <2>2. QED
    BY <2>1
<1>2. y \div r \in Nat /\ y % r \in 0 .. r - 1 /\ y = r * (y \div r) + (y % r)
  BY <1>1, Division
<1>3. PICK i \in Nat, m \in 0 .. r - 1 : i = y \div r /\ m = y % r /\ y = r * i + m
  BY <1>2, Zenon
<1>4. i * r \in Nat /\ d * r \in Nat /\ r * i = i * r /\ r * d = d * r
  BY Product
<1> PICK u \in Nat, w \in Nat : u = i * r /\ w = d * r
  BY <1>4
<1>5. y = u + m /\ n <= w /\ y < n /\ x = u + m + 1
  BY <1>1, <1>3, <1>4
<1>6. i < d
  <2>1. SUFFICES ASSUME ~ i < d PROVE FALSE
    OBVIOUS
  <2>2. CASE i = d
    <3>1. u = w
      BY <2>2
    <3>2. QED
      BY <1>5, <3>1
  <2>3. CASE d < i
    <3>1. d * r + r <= i * r
      BY <2>3, ProductGrows
    <3>2. w + r <= u
      BY <3>1
    <3>3. QED
      BY <1>5, <3>2
  <2>4. QED
    BY <2>1, <2>2, <2>3
<1>7. i \in 0 .. d - 1 /\ m + 1 \in 1 .. r /\ i * r + (m + 1) = x
  BY <1>5, <1>6
<1>8. i = ChunkOf(x, r) /\ m + 1 = RowOf(x, r)
  BY <1>1, <1>3 DEF ChunkOf, RowOf
<1>9. QED
  BY <1>7, <1>8, Zenon

\* Join gives the bytes of the file, in their order.
LEMMA JoinedBytes ==
    ASSUME Sized, present \subseteq All, Cardinality(present) >= k,
           NEW q \in Nat, From(q) < mf.FileSize, NEW chunks, ChunksOf(chunks, q)
    PROVE  /\ Join(chunks, Bytes(q)) \in Seq(Byte) /\ Len(Join(chunks, Bytes(q))) = Bytes(q)
           /\ \A x \in 1 .. Bytes(q) : Join(chunks, Bytes(q))[x] = <<From(q) + x - 1>>
<1> DEFINE g == Join(chunks, Bytes(q))
<1>1. /\ Rows(q) \in Nat /\ 0 < Rows(q) /\ Bytes(q) \in Nat /\ Bytes(q) <= Rows(q) * k
      /\ k \in Nat /\ Data = 0 .. k - 1 /\ From(q) \in Nat
  BY StripeBounds, Counts, FromIsProduct
<1>2. g = [x \in 1 .. Bytes(q) |-> DataByte(chunks, (x - 1) \div Rows(q), ((x - 1) % Rows(q)) + 1)]
  BY StripeDecodes DEF Join
<1>3. ASSUME NEW x \in 1 .. Bytes(q)
      PROVE  g[x] = <<From(q) + x - 1>>
  <2>1. PICK i, b : i = ChunkOf(x, Rows(q)) /\ b = RowOf(x, Rows(q))
    OBVIOUS
  <2>2. i \in 0 .. k - 1 /\ b \in 1 .. Rows(q) /\ i * Rows(q) + b = x
    BY <1>1, <2>1, PlaceOf
  <2>5. i \in Data
    BY <1>1, <2>2
  <2>6. g[x] = DataByte(chunks, i, b)
    BY <1>2, <2>1 DEF ChunkOf, RowOf
  <2>7. DataByte(chunks, i, b) = Right(i, q, b)
    BY <2>2, <2>5, DecodedByte
  <2>8. Right(i, q, b) = DataByteOf(k, i, From(q), Bytes(q), b)
    BY <1>1, <2>5 DEF Right, ByteOf
  <2>10. DataByteOf(k, i, From(q), Bytes(q), b)
         = IF i * Rows(q) + b <= Bytes(q) THEN <<From(q) + i * Rows(q) + b - 1>> ELSE Pad
    BY DEF DataByteOf, Rows
  <2>11. From(q) + i * Rows(q) + b - 1 = From(q) + x - 1
    <3>1. i * Rows(q) \in Nat
      BY <1>1, <2>2, Product
    <3>2. PICK u \in Nat, f \in Nat : u = i * Rows(q) /\ f = From(q)
      BY <1>1, <3>1
    <3>3. u + b = x
      BY <2>2, <3>2
    <3>4. f + u + b - 1 = f + x - 1
      BY <2>2, <3>2, <3>3
    <3>5. QED
      BY <3>2, <3>4
  <2>12. QED
    BY <2>2, <2>6, <2>7, <2>8, <2>10, <2>11
<1>4. \A x \in 1 .. Bytes(q) : g[x] \in Byte
  <2>1. ASSUME NEW x \in 1 .. Bytes(q) PROVE <<From(q) + x - 1>> \in Seq(Int)
    BY <1>1
  <2>2. QED
    BY <1>3, <2>1 DEF Byte
<1>5. g = [x \in 1 .. Bytes(q) |-> g[x]]
  BY <1>2
<1> HIDE DEF g
<1>6. g \in Seq(Byte) /\ Len(g) = Bytes(q)
  BY <1>1, <1>4, <1>5, FunctionIsSeq
<1>7. QED
  BY <1>3, <1>6 DEF g

----------------------------------------------------------------------------
(* The inductive invariant                                                  *)

CodecTypes ==
    /\ Sized
    /\ job \in Job
    /\ pos \in 0 .. mf.FileSize
    /\ buflen \in 0 .. k * bs
    /\ \A i \in All : shard[i] \in Seq(Byte)
    /\ present \in SUBSET All /\ wanted \in SUBSET (All \ present)
    /\ at \in Nat
    /\ DOMAIN out = All /\ \A i \in All : out[i] \in Seq(Byte)

\* Between two stripes: whole stripes have been read, with a buffer of full
\* length, or the file has been read to its end.
ReadSoFar ==
    IF job = "encode" THEN pos = mf.FileSize \/ \E n \in Nat : pos = From(n) /\ buflen = k * bs
    ELSE pos = mf.FileSize

\* Every shard has the rows of the stripes that have been read, and no others.
Written(i) ==
    /\ \A n \in Nat : pos = From(n) => Len(shard[i]) = n * bs
    /\ pos = mf.FileSize => Len(shard[i]) = shardSize
    /\ \A q \in Nat : From(q) < pos => Filled(i, q)

\* What a way back has put out so far is the beginning of the right thing.
FileSoFar ==
    /\ Len(out[0]) = Smaller(From(at), mf.FileSize)
    /\ \A x \in 1 .. Len(out[0]) : out[0][x] = <<x - 1>>

ShardSoFar(i) ==
    /\ Len(out[i]) = Smaller(at * bs, shardSize)
    /\ \A b \in 1 .. Len(out[i]) : out[i][b] = shard[i][b]

WayBack ==
    /\ job \in {"encode", "encoded"} => at = 0 /\ \A i \in All : out[i] = <<>>
    /\ job \in {"V1", "V2"} => Cardinality(present) >= k /\ FileSoFar
    /\ job = "decoded" => out[0] = Original
    /\ job = "repair" /\ Cardinality(present) >= k => \A i \in wanted : ShardSoFar(i)
    /\ job = "failed" => Cardinality(present) < k

CodecInv ==
    /\ CodecTypes
    /\ ReadSoFar
    /\ \A i \in All : Written(i)
    /\ WayBack

----------------------------------------------------------------------------
(* The layout never changes                                                 *)

LEMMA SameNumbers ==
    ASSUME mf' = mf
    PROVE  /\ k' = k /\ bs' = bs /\ All' = All /\ Data' = Data /\ shardSize' = shardSize
           /\ Sized' <=> Sized
           /\ mf'.FileSize = mf.FileSize
           /\ Original' = Original
<1>1. k' = k /\ bs' = bs
  BY DEF k, bs
<1>2. All' = All /\ Data' = Data /\ shardSize' = shardSize
  BY <1>1 DEF All, Data, shardSize, CeilDiv
<1>3. Sized' <=> Sized
  BY DEF Sized, Validate, maxShardCount, maxBlockSize, Unset
<1>4. Original' = Original
  BY DEF Original
<1>5. QED
  BY <1>1, <1>2, <1>3, <1>4

LEMMA SameStripes ==
    ASSUME mf' = mf, NEW q
    PROVE  From(q)' = From(q) /\ Bytes(q)' = Bytes(q) /\ Rows(q)' = Rows(q)
<1>1. From(q)' = From(q) /\ Bytes(q)' = Bytes(q)
  BY DEF From, Bytes, k, bs, Smaller
<1>2. Rows(q)' = Rows(q)
  BY <1>1 DEF Rows, CeilDiv, Bytes, k, bs, Smaller
<1>3. QED
  BY <1>1, <1>2

LEMMA SameRight ==
    ASSUME mf' = mf, NEW i, NEW q, NEW b
    PROVE  Right(i, q, b)' = Right(i, q, b)
<1>1. k' = k /\ From(q)' = From(q) /\ Bytes(q)' = Bytes(q)
  BY SameNumbers, SameStripes
<1>2. QED
  BY <1>1 DEF Right, ByteOf, DataByteOf, CeilDiv, Pad

LEMMA SameFilled ==
    ASSUME mf' = mf, NEW i, NEW q, shard'[i] = shard[i]
    PROVE  Filled(i, q)' <=> Filled(i, q)
<1>1. bs' = bs /\ Rows(q)' = Rows(q) /\ \A b \in 1 .. Rows(q) : Right(i, q, b)' = Right(i, q, b)
  BY SameNumbers, SameStripes, SameRight
<1>2. QED
  BY <1>1 DEF Filled

\* A step that leaves the encoder alone.
LEMMA SameWritten ==
    ASSUME mf' = mf, pos' = pos, shard' = shard, NEW i, Written(i)
    PROVE  Written(i)'
<1>1. \A q : From(q)' = From(q) /\ (Filled(i, q)' <=> Filled(i, q))
  BY SameStripes, SameFilled
<1>2. bs' = bs /\ shardSize' = shardSize /\ mf'.FileSize = mf.FileSize
  BY SameNumbers
<1>3. QED
  BY <1>1, <1>2 DEF Written

LEMMA FromOrder ==
    ASSUME Sized, NEW m \in Nat, NEW n \in Nat
    PROVE  /\ From(m) = From(n) => m = n
           /\ From(m) < From(n) => m < n /\ From(m + 1) <= From(n)
<1>1. From(m) \in Nat /\ From(n) \in Nat /\ k * bs \in Nat /\ k * bs > 0
  BY FromIsProduct, Counts
<1>2. From(m + 1) = From(m) + k * bs /\ From(n + 1) = From(n) + k * bs
  BY FromIsProduct
<1>3. m < n => From(m + 1) <= From(n)
  BY FromGrows
<1>4. n < m => From(n + 1) <= From(m)
  BY FromGrows
<1> PICK s \in Nat, f \in Nat, g \in Nat : s = k * bs /\ f = From(m) /\ g = From(n)
  BY <1>1
<1>5. From(m) = From(n) => m = n
  BY <1>1, <1>2, <1>3, <1>4
<1>6. From(m) < From(n) => m < n
  BY <1>1, <1>2, <1>3, <1>4
<1>7. QED
  BY <1>3, <1>5, <1>6

LEMMA CodecBegins ==
    ASSUME CodecAssumption, CodecInit
    PROVE  CodecInv
<1>1. PICK size \in Size, d \in K, p \in M, b \in BlockSizes :
         mf = NewManifest(size, d, p, b, "sum", "sums")
  BY DEF CodecInit
<1>2. size \in Int /\ d \in Int /\ p \in Int /\ b \in Int /\ Validate(mf)
  BY <1>1 DEF CodecInit, CodecAssumption
<1>3. /\ mf.FileSize = size /\ mf.DataShards = d /\ mf.ParityShards = p /\ mf.BlockSize = b
      /\ mf.MinShards = d
  BY <1>1 DEF NewManifest
<1>4. Sized
  <2>1. size >= 0 /\ d > 0 /\ p > 0 /\ b > 0
    BY <1>2, <1>3 DEF Validate
  <2>2. QED
    BY <1>2, <1>3, <2>1 DEF Sized
<1>5. /\ job = "encode" /\ pos = 0 /\ buflen = k * bs /\ shard = [i \in All |-> <<>>]
      /\ present = {} /\ wanted = {} /\ at = 0 /\ out = [i \in All |-> <<>>]
  BY DEF CodecInit
<1>6. k * bs \in Nat /\ mf.FileSize \in Nat
  BY <1>4, Counts
<1>7. CodecTypes
  <2>1. <<>> \in Seq(Byte)
    OBVIOUS
  <2>2. QED
    BY <1>4, <1>5, <1>6, <2>1 DEF CodecTypes, Job
<1>8. From(0) = 0
  BY <1>4, FromIsProduct, Counts
<1>9. ReadSoFar
  BY <1>5, <1>8 DEF ReadSoFar
<1>10. ASSUME NEW i \in All PROVE Written(i)
  <2>1. Len(shard[i]) = 0
    BY <1>5
  <2>2. ASSUME NEW n \in Nat, pos = From(n) PROVE n = 0 /\ n * bs = 0
    <3>1. n = 0
      BY <1>4, <1>5, <1>8, <2>2, FromOrder
    <3>2. QED
      BY <1>4, <3>1, Counts
  <2>3. pos = mf.FileSize => shardSize = 0
    BY <1>4, <1>5, ShardSize
  <2>4. ASSUME NEW q \in Nat PROVE ~ From(q) < pos
    <3>1. From(q) \in Nat
      BY <1>4, FromIsProduct
    <3>2. pos = 0
      BY <1>5
    <3>3. QED
      BY <3>1, <3>2
  <2>5. QED
    BY <2>1, <2>2, <2>3, <2>4 DEF Written
<1>11. WayBack
  BY <1>5 DEF WayBack
<1>12. QED
  BY <1>7, <1>9, <1>10, <1>11 DEF CodecInv

----------------------------------------------------------------------------
(* EncodeFile keeps the invariant                                           *)

LEMMA FilledNow ==
    ASSUME mf' = mf, NEW i, NEW q,
           q * bs + Rows(q) <= Len(shard'[i]),
           \A b \in 1 .. Rows(q) : shard'[i][q * bs + b] = Right(i, q, b)
    PROVE  Filled(i, q)'
<1>1. bs' = bs /\ Rows(q)' = Rows(q) /\ \A b \in 1 .. Rows(q) : Right(i, q, b)' = Right(i, q, b)
  BY SameNumbers, SameStripes, SameRight
<1>2. QED
  BY <1>1 DEF Filled

\* The stripe that is read next, and how far it brings the reader.
LEMMA NextStripe ==
    ASSUME CodecInv, EncodeStripe
    PROVE  \E n \in Nat :
              /\ pos = From(n) /\ From(n) < mf.FileSize /\ BytesRead = Bytes(n)
              /\ pos' = From(n) + Bytes(n) /\ buflen' = Bytes(n)
              /\ shard' = [i \in All |-> shard[i] \o Chunk(i, From(n), Bytes(n))]
<1>1. /\ Sized /\ pos \in 0 .. mf.FileSize /\ buflen \in 0 .. k * bs /\ mf.FileSize \in Nat
      /\ k * bs \in Nat
  BY Counts DEF CodecInv, CodecTypes
<1>2. BytesRead > 0
  BY DEF EncodeStripe
<1>3. BytesRead = IF buflen < mf.FileSize - pos THEN buflen ELSE mf.FileSize - pos
  BY DEF BytesRead, Smaller
<1>4. pos # mf.FileSize
  BY <1>1, <1>2, <1>3
<1>5. PICK n \in Nat : pos = From(n) /\ buflen = k * bs
  BY <1>4 DEF CodecInv, ReadSoFar
<1>6. From(n) < mf.FileSize
  BY <1>1, <1>4, <1>5
<1>7. BytesRead = Bytes(n)
  BY <1>5 DEF BytesRead, Bytes, From
<1>8. QED
  BY <1>5, <1>6, <1>7 DEF EncodeStripe

LEMMA AfterStripe ==
    ASSUME Sized, NEW n \in Nat, From(n) < mf.FileSize
    PROVE  /\ From(n) < From(n) + Bytes(n) /\ From(n) + Bytes(n) <= From(n + 1)
           /\ From(n) + Bytes(n) <= mf.FileSize
           /\ From(n) + Bytes(n) = mf.FileSize \/ (From(n) + Bytes(n) = From(n + 1) /\ Bytes(n) = k * bs)
           /\ \A m \in Nat : From(n) + Bytes(n) = From(m) => n * bs + Rows(n) = m * bs
           /\ From(n) + Bytes(n) = mf.FileSize => n * bs + Rows(n) = shardSize
           /\ \A q \in Nat : From(q) < From(n) + Bytes(n) => q = n \/ From(q) < From(n)
<1>1. /\ k * bs \in Nat /\ mf.FileSize \in Nat /\ From(n) \in Nat /\ n + 1 \in Nat
      /\ From(n + 1) \in Nat /\ From(n + 1) = From(n) + k * bs /\ bs \in Nat
  <2>1. n + 1 \in Nat
    OBVIOUS
  <2>2. From(n + 1) \in Nat
    BY <2>1, FromIsProduct
  <2>3. k * bs \in Nat /\ mf.FileSize \in Nat /\ bs \in Nat
    BY Counts
  <2>4. From(n) \in Nat /\ From(n + 1) = From(n) + k * bs
    BY FromIsProduct
  <2>5. QED
    BY <2>1, <2>2, <2>3, <2>4
<1>2. /\ Bytes(n) \in Nat /\ 0 < Bytes(n) /\ Bytes(n) <= k * bs
      /\ From(n) + Bytes(n) <= mf.FileSize
      /\ From(n + 1) <= mf.FileSize => Bytes(n) = k * bs /\ Rows(n) = bs
      /\ mf.FileSize <= From(n + 1) => From(n) + Bytes(n) = mf.FileSize
  BY StripeBounds
<1>3. /\ From(n) < From(n) + Bytes(n) /\ From(n) + Bytes(n) <= From(n + 1)
      /\ From(n) + Bytes(n) = mf.FileSize \/ (From(n) + Bytes(n) = From(n + 1) /\ Bytes(n) = k * bs)
  <2> PICK s \in Nat, f \in Nat, g \in Nat, e \in Nat :
         s = k * bs /\ f = From(n) /\ g = From(n + 1) /\ e = Bytes(n)
    BY <1>1, <1>2
  <2>1. QED
    BY <1>1, <1>2
<1>4. ASSUME NEW m \in Nat, From(n) + Bytes(n) = From(m)
      PROVE  n * bs + Rows(n) = m * bs
  <2>1. From(m) \in Nat
    BY FromIsProduct
  <2>2. From(n) < From(m)
    BY <1>3, <1>4
  <2>3. From(n + 1) <= From(m)
    BY <2>2, FromOrder
  <2>4. From(m) = From(n + 1) /\ From(n + 1) <= mf.FileSize
    BY <1>1, <1>2, <1>3, <1>4, <2>1, <2>3
  <2>5. m = n + 1
    BY <1>1, <2>4, FromOrder
  <2>6. (n + 1) * bs = n * bs + bs
    BY <1>1
  <2>7. QED
    BY <1>2, <2>4, <2>5, <2>6
<1>5. ASSUME From(n) + Bytes(n) = mf.FileSize PROVE n * bs + Rows(n) = shardSize
  <2>1. mf.FileSize <= From(n + 1)
    BY <1>3, <1>5
  <2>2. QED
    BY <2>1, ShardSize
<1>6. ASSUME NEW q \in Nat, From(q) < From(n) + Bytes(n), q # n PROVE From(q) < From(n)
  <2>1. From(q) \in Nat
    BY FromIsProduct
  <2>2. CASE From(n) < From(q)
    <3>1. From(n + 1) <= From(q)
      BY <2>2, FromOrder
    <3>2. QED
      BY <1>1, <1>2, <1>3, <1>6, <2>1, <3>1
  <2>3. From(q) # From(n)
    BY <1>6, FromOrder
  <2>4. From(n) \in Nat
    BY <1>1
  <2>5. QED
    BY <2>1, <2>2, <2>3, <2>4
<1>7. QED
  BY <1>2, <1>3, <1>4, <1>5, <1>6

LEMMA Appended ==
    ASSUME NEW s \in Seq(Byte), NEW t \in Seq(Byte)
    PROVE  /\ s \o t \in Seq(Byte) /\ Len(s \o t) = Len(s) + Len(t)
           /\ \A x \in 1 .. Len(s) : (s \o t)[x] = s[x]
           /\ \A x \in 1 .. Len(t) : (s \o t)[Len(s) + x] = t[x]
  OBVIOUS

LEMMA EncodeStripeWrites ==
    ASSUME CodecInv, EncodeStripe, NEW i \in All
    PROVE  Written(i)' /\ shard'[i] \in Seq(Byte)
<1>1. PICK n \in Nat :
         /\ pos = From(n) /\ From(n) < mf.FileSize
         /\ pos' = From(n) + Bytes(n)
         /\ shard' = [j \in All |-> shard[j] \o Chunk(j, From(n), Bytes(n))]
  BY NextStripe
<1>2. Sized /\ mf' = mf /\ shard[i] \in Seq(Byte) /\ Written(i)
  BY DEF CodecInv, CodecTypes, EncodeStripe
<1>3. /\ n * bs \in Nat /\ Rows(n) \in Nat /\ Bytes(n) \in Nat /\ From(n) \in Nat /\ bs \in Nat
  BY <1>1, <1>2, StripeRows, StripeBounds, FromIsProduct, Counts
<1> DEFINE s == shard[i]
           t == Chunk(i, From(n), Bytes(n))
<1>4. shard'[i] = s \o t
  BY <1>1
<1>5. Len(s) = n * bs
  BY <1>1, <1>2 DEF Written
<1>6. t \in Seq(Byte) /\ Len(t) = Rows(n) /\ \A b \in 1 .. Rows(n) : t[b] = Right(i, n, b)
  BY <1>2, <1>3, ChunkBytes DEF Rows, Right
<1>7. s \in Seq(Byte)
  BY <1>2
<1> HIDE DEF s, t
<1>8. /\ shard'[i] \in Seq(Byte) /\ Len(shard'[i]) = n * bs + Rows(n)
      /\ \A x \in 1 .. n * bs : shard'[i][x] = s[x]
      /\ \A b \in 1 .. Rows(n) : shard'[i][n * bs + b] = Right(i, n, b)
  <2>1. /\ s \o t \in Seq(Byte) /\ Len(s \o t) = Len(s) + Len(t)
        /\ \A x \in 1 .. Len(s) : (s \o t)[x] = s[x]
        /\ \A x \in 1 .. Len(t) : (s \o t)[Len(s) + x] = t[x]
    BY <1>6, <1>7, Appended
  <2>2. PICK c \in Nat, r \in Nat : c = n * bs /\ r = Rows(n)
    BY <1>3
  <2>3. QED
    BY <1>4, <1>5, <1>6, <2>1, <2>2
<1>9. ASSUME NEW q \in Nat, From(q) < pos' PROVE Filled(i, q)'
  <2>1. CASE q = n
    <3>1. n * bs + Rows(n) <= Len(shard'[i])
      BY <1>3, <1>8
    <3>2. Filled(i, n)'
      BY <1>2, <1>8, <3>1, FilledNow
    <3>3. QED
      BY <2>1, <3>2
  <2>2. CASE From(q) < From(n)
    <3>1. Filled(i, q)
      BY <1>1, <1>2, <2>2 DEF Written
    <3>2. /\ q * bs + Rows(q) <= n * bs
          /\ \A b \in 1 .. Rows(q) : s[q * bs + b] = Right(i, q, b)
      BY <1>5, <3>1 DEF Filled, s
    <3>3. q * bs \in Nat /\ Rows(q) \in Nat
      <4>1. From(q) \in Nat /\ mf.FileSize \in Nat
        BY <1>2, FromIsProduct, Counts
      <4>2. From(q) < mf.FileSize
        BY <1>1, <1>3, <2>2, <4>1
      <4>3. QED
        BY <1>2, <4>2, StripeRows
    <3>4. \A b \in 1 .. Rows(q) : q * bs + b \in 1 .. n * bs
      <4> PICK c \in Nat, d \in Nat : c = q * bs /\ d = n * bs
        BY <1>3, <3>3
      <4>1. QED
        BY <3>2, <3>3
    <3>5. \A b \in 1 .. Rows(q) : shard'[i][q * bs + b] = Right(i, q, b)
      BY <1>8, <3>2, <3>4
    <3>6. q * bs + Rows(q) <= Len(shard'[i])
      <4> PICK c \in Nat, d \in Nat : c = q * bs /\ d = n * bs
        BY <1>3, <3>3
      <4>1. QED
        BY <1>3, <1>8, <3>2, <3>3
    <3>7. QED
      BY <1>2, <3>5, <3>6, FilledNow
  <2>3. QED
    BY <1>1, <1>2, <1>9, <2>1, <2>2, AfterStripe
<1>10. ASSUME NEW m \in Nat, pos' = From(m) PROVE Len(shard'[i]) = m * bs
  BY <1>1, <1>2, <1>8, <1>10, AfterStripe
<1>11. pos' = mf.FileSize => Len(shard'[i]) = shardSize
  BY <1>1, <1>2, <1>8, AfterStripe
<1>12. Written(i)'
  <2>1. \A q : From(q)' = From(q)
    BY <1>2, SameStripes
  <2>2. bs' = bs /\ shardSize' = shardSize /\ mf'.FileSize = mf.FileSize
    BY <1>2, SameNumbers
  <2>3. QED
    BY <1>9, <1>10, <1>11, <2>1, <2>2 DEF Written
<1>13. QED
  BY <1>8, <1>12

LEMMA EncodeStripeKeeps ==
    ASSUME CodecInv, EncodeStripe
    PROVE  CodecInv'
<1>1. PICK n \in Nat :
         /\ From(n) < mf.FileSize
         /\ pos' = From(n) + Bytes(n) /\ buflen' = Bytes(n)
  BY NextStripe
<1>2. /\ Sized /\ mf' = mf /\ job = "encode" /\ job' = job
      /\ UNCHANGED <<present, wanted, at, out>>
  BY DEF CodecInv, CodecTypes, EncodeStripe
<1>3. k' = k /\ bs' = bs /\ All' = All /\ Sized' /\ mf'.FileSize = mf.FileSize
  BY <1>2, SameNumbers
<1>4. /\ From(n) \in Nat /\ Bytes(n) \in Nat /\ Bytes(n) <= k * bs /\ k * bs \in Nat
      /\ From(n) + Bytes(n) <= mf.FileSize /\ mf.FileSize \in Nat
  BY <1>1, <1>2, FromIsProduct, StripeBounds, Counts
<1>5. pos' \in 0 .. mf.FileSize /\ buflen' \in 0 .. k * bs
  BY <1>1, <1>4
<1>6. CodecTypes'
  BY <1>2, <1>3, <1>5, EncodeStripeWrites DEF CodecInv, CodecTypes
<1>7. ReadSoFar'
  <2>1. pos' = mf.FileSize \/ (pos' = From(n + 1) /\ buflen' = k * bs)
    BY <1>1, <1>2, AfterStripe
  <2>2. From(n + 1)' = From(n + 1) /\ n + 1 \in Nat
    BY <1>2, SameStripes
  <2>3. QED
    BY <1>2, <1>3, <2>1, <2>2 DEF ReadSoFar
<1>8. \A i \in All' : Written(i)'
  BY <1>3, EncodeStripeWrites
<1>9. WayBack'
  <2>1. at' = 0 /\ \A i \in All' : out'[i] = <<>>
    BY <1>2, <1>3 DEF CodecInv, WayBack
  <2>2. QED
    BY <1>2, <2>1 DEF WayBack
<1>10. QED
  BY <1>6, <1>7, <1>8, <1>9 DEF CodecInv

----------------------------------------------------------------------------
(* The ways back keep the invariant                                         *)

LEMMA EncodedFile ==
    ASSUME CodecInv, pos = mf.FileSize
    PROVE  AllWritten
  BY DEF CodecInv, CodecTypes, Written, AllWritten

\* A step that leaves the shards alone, once all is encoded.
LEMMA EncoderRests ==
    ASSUME CodecInv, pos = mf.FileSize, UNCHANGED <<mf, pos, buflen, shard>>,
           job' \in Job \ {"encode"},
           present' \in SUBSET All, wanted' \in SUBSET (All \ present'), at' \in Nat,
           DOMAIN out' = All, \A i \in All : out'[i] \in Seq(Byte),
           WayBack'
    PROVE  CodecInv'
<1>1. Sized /\ pos \in 0 .. mf.FileSize /\ buflen \in 0 .. k * bs
      /\ \A i \in All : shard[i] \in Seq(Byte) /\ Written(i)
  BY DEF CodecInv, CodecTypes
<1>2. k' = k /\ bs' = bs /\ All' = All /\ Sized' /\ mf'.FileSize = mf.FileSize
  BY <1>1, SameNumbers
<1>3. CodecTypes'
  BY <1>1, <1>2 DEF CodecTypes
<1>4. ReadSoFar'
  BY <1>2 DEF ReadSoFar
<1>5. \A i \in All' : Written(i)'
  BY <1>1, <1>2, SameWritten
<1>6. QED
  BY <1>3, <1>4, <1>5 DEF CodecInv

LEMMA EncodeEndsKeeps ==
    ASSUME CodecInv, EncodeEnds
    PROVE  CodecInv'
<1>1. /\ job = "encode" /\ BytesRead = 0 /\ job' = "encoded"
      /\ UNCHANGED <<mf, pos, buflen, shard, present, wanted, at, out>>
  BY DEF EncodeEnds
<1>2. /\ Sized /\ pos \in 0 .. mf.FileSize /\ mf.FileSize \in Nat /\ k * bs \in Nat /\ k * bs > 0
  BY Counts DEF CodecInv, CodecTypes
<1>3. pos = mf.FileSize
  <2>1. SUFFICES ASSUME buflen = k * bs PROVE pos = mf.FileSize
    BY <1>1 DEF CodecInv, ReadSoFar
  <2>2. BytesRead = IF k * bs < mf.FileSize - pos THEN k * bs ELSE mf.FileSize - pos
    BY <2>1 DEF BytesRead, Smaller
  <2>3. QED
    BY <1>1, <1>2, <2>2
<1>4. WayBack'
  <2>1. All' = All
    BY <1>1, SameNumbers
  <2>2. QED
    BY <1>1, <2>1 DEF CodecInv, WayBack
<1>5. QED
  BY <1>1, <1>3, <1>4, EncoderRests DEF CodecInv, CodecTypes, Job

LEMMA BeginKeeps ==
    ASSUME CodecInv, Begin
    PROVE  CodecInv'
<1>1. /\ job = "encoded" /\ UNCHANGED <<mf, pos, buflen, shard, at, out>>
      /\ present' \in SUBSET All /\ wanted' \in SUBSET (All \ present')
      /\ \/ job' = "failed" /\ Cardinality(present') < mf.MinShards
         \/ job' \in {"V1", "V2"} /\ ~ Cardinality(present') < mf.MinShards
         \/ job' = "repair"
  BY DEF Begin
<1>2. Sized /\ pos = mf.FileSize /\ mf.MinShards = k
  BY <1>1 DEF CodecInv, CodecTypes, ReadSoFar, Sized, k
<1>3. at = 0 /\ \A i \in All : out[i] = <<>>
  BY <1>1 DEF CodecInv, WayBack
<1>4. Cardinality(present') \in Nat /\ k \in Nat
  BY <1>1, <1>2, AllFinite, Counts
<1>5. mf.FileSize \in Nat /\ shardSize \in Nat /\ bs \in Nat /\ 0 \in All
  BY <1>2, Counts, ShardSize
<1>6. /\ k' = k /\ bs' = bs /\ mf'.FileSize = mf.FileSize /\ shardSize' = shardSize /\ From(0)' = From(0)
  BY <1>1, SameNumbers, SameStripes
<1>7. FileSoFar'
  <2>1. From(0) = 0 /\ Len(out'[0]) = 0
    BY <1>1, <1>2, <1>3, <1>5, FromIsProduct, Counts
  <2>2. at' = 0
    BY <1>1, <1>3
  <2>3. From(at)' = 0
    BY <1>1, <1>3, <1>6, <2>1 DEF From
  <2>4. Smaller(From(at), mf.FileSize)' = 0
    BY <1>5, <1>6, <2>3 DEF Smaller
  <2>5. QED
    BY <2>1, <2>4 DEF FileSoFar
<1>8. ASSUME NEW i \in wanted' PROVE ShardSoFar(i)'
  <2>1. Len(out'[i]) = 0 /\ at' * bs' = 0
    BY <1>1, <1>3, <1>5, <1>6
  <2>2. Smaller(at * bs, shardSize)' = 0
    BY <1>5, <1>6, <2>1 DEF Smaller
  <2>3. QED
    BY <2>1, <2>2 DEF ShardSoFar
<1>9. WayBack'
  BY <1>1, <1>2, <1>4, <1>6, <1>7, <1>8 DEF WayBack
<1>10. job' \in Job \ {"encode"}
  BY <1>1 DEF Job
<1>11. at' \in Nat /\ DOMAIN out' = All /\ \A i \in All : out'[i] \in Seq(Byte)
  BY <1>1 DEF CodecInv, CodecTypes
<1>12. QED
  BY <1>1, <1>2, <1>9, <1>10, <1>11, EncoderRests

\* A stripe of the file is put out.
LEMMA StripePutOut ==
    ASSUME CodecInv, job \in {"V1", "V2"}, From(at) < mf.FileSize,
           NEW chunks, ChunksOf(chunks, at),
           at' = at + 1, UNCHANGED <<mf, job, pos, buflen, shard, present, wanted>>,
           Emit(Join(chunks, Bytes(at)))
    PROVE  CodecInv'
<1> DEFINE J == Join(chunks, Bytes(at))
           s == out[0]
<1>1. /\ Sized /\ at \in Nat /\ present \in SUBSET All /\ wanted \in SUBSET (All \ present)
      /\ DOMAIN out = All /\ \A i \in All : out[i] \in Seq(Byte)
      /\ job # "encode" /\ pos = mf.FileSize /\ job \in Job
  BY DEF CodecInv, CodecTypes, ReadSoFar
<1>2. Cardinality(present) >= k /\ FileSoFar
  BY DEF CodecInv, WayBack
<1>3. 0 \in All /\ mf.FileSize \in Nat
  BY <1>1, Counts
<1>4. /\ J \in Seq(Byte) /\ Len(J) = Bytes(at)
      /\ \A x \in 1 .. Bytes(at) : J[x] = <<From(at) + x - 1>>
  BY <1>1, <1>2, JoinedBytes
<1>5. /\ Bytes(at) \in Nat /\ From(at) \in Nat /\ From(at + 1) \in Nat
  <2>1. at + 1 \in Nat
    BY <1>1
  <2>2. QED
    BY <1>1, <2>1, FromIsProduct, StripeBounds
<1>6. s \in Seq(Byte) /\ Len(s) = From(at) /\ \A x \in 1 .. From(at) : s[x] = <<x - 1>>
  <2>1. Smaller(From(at), mf.FileSize) = From(at)
    BY DEF Smaller
  <2>2. QED
    BY <1>1, <1>2, <1>3, <2>1 DEF FileSoFar
<1>7. out' = [out EXCEPT ![0] = s \o J]
  BY DEF Emit
<1> HIDE DEF J, s
<1>8. /\ s \o J \in Seq(Byte) /\ Len(s \o J) = From(at) + Bytes(at)
      /\ \A x \in 1 .. From(at) : (s \o J)[x] = s[x]
      /\ \A x \in 1 .. Bytes(at) : (s \o J)[From(at) + x] = J[x]
  <2>1. /\ s \o J \in Seq(Byte) /\ Len(s \o J) = Len(s) + Len(J)
        /\ \A x \in 1 .. Len(s) : (s \o J)[x] = s[x]
        /\ \A x \in 1 .. Len(J) : (s \o J)[Len(s) + x] = J[x]
    BY <1>4, <1>6, Appended
  <2>2. QED
    BY <1>4, <1>6, <2>1
<1>9. out'[0] = s \o J /\ DOMAIN out' = All /\ \A i \in All : out'[i] \in Seq(Byte)
  BY <1>1, <1>3, <1>7, <1>8
<1>10. Len(out'[0]) = Smaller(From(at + 1), mf.FileSize)
  <2>1. /\ From(at) + Bytes(at) <= From(at + 1) /\ From(at) + Bytes(at) <= mf.FileSize
        /\ From(at) + Bytes(at) = mf.FileSize \/ From(at) + Bytes(at) = From(at + 1)
    BY <1>1, AfterStripe
  <2>2. QED
    BY <1>3, <1>5, <1>8, <1>9, <2>1 DEF Smaller
<1>11. ASSUME NEW x \in 1 .. Len(out'[0]) PROVE out'[0][x] = <<x - 1>>
  <2>1. CASE x <= From(at)
    BY <1>5, <1>6, <1>8, <1>9, <2>1
  <2>2. CASE From(at) < x
    <3>1. PICK y \in 1 .. Bytes(at) : x = From(at) + y
      <4>1. x - From(at) \in 1 .. Bytes(at) /\ x = From(at) + (x - From(at))
        BY <1>5, <1>8, <1>9, <2>2
      <4>2. QED
        BY <4>1
    <3>2. From(at) + y - 1 = x - 1
      BY <1>5, <3>1
    <3>3. QED
      BY <1>4, <1>8, <1>9, <3>1, <3>2
  <2>3. x <= From(at) \/ From(at) < x
    <3>1. From(at) + Bytes(at) \in Nat /\ Len(out'[0]) = From(at) + Bytes(at)
      BY <1>5, <1>8, <1>9
    <3>2. QED
      BY <1>5, <3>1
  <2>4. QED
    BY <2>1, <2>2, <2>3
<1>12. FileSoFar'
  <2>1. From(at)' = From(at + 1)
    BY SameNumbers DEF From
  <2>2. Smaller(From(at), mf.FileSize)' = Smaller(From(at + 1), mf.FileSize)
    BY <2>1 DEF Smaller
  <2>3. QED
    BY <1>10, <1>11, <2>2 DEF FileSoFar
<1>13. WayBack'
  BY <1>2, <1>12, SameNumbers DEF WayBack
<1>14. at' \in Nat
  BY <1>1
<1>15. QED
  BY <1>1, <1>9, <1>13, <1>14, EncoderRests

LEMMA V1StripeKeeps ==
    ASSUME CodecInv, V1Stripe
    PROVE  CodecInv'
<1> DEFINE chunks == [i \in present |-> ReadChunk(i, at * bs, bs)]
<1>1. /\ Sized /\ at \in Nat /\ present \subseteq All /\ job = "V1" /\ pos = mf.FileSize
      /\ Cardinality(present) >= k
  BY DEF CodecInv, CodecTypes, ReadSoFar, WayBack, V1Stripe
<1>2. From(at) < mf.FileSize /\ StripeLen = Bytes(at)
  <2>1. Remaining = mf.FileSize - From(at) /\ Remaining > 0
    BY DEF Remaining, From, V1Stripe
  <2>2. From(at) \in Nat /\ mf.FileSize \in Nat
    BY <1>1, FromIsProduct, Counts
  <2>3. StripeLen = Bytes(at)
    BY DEF StripeLen, Remaining, Bytes
  <2>4. QED
    BY <2>1, <2>2, <2>3
<1>3. ChunksOf(chunks, at)
  BY <1>1, <1>2, EncodedFile, ChunksRead
<1>4. CanJoin(chunks, StripeLen)
  BY <1>1, <1>2, <1>3, StripeDecodes
<1>5. Continue(TRUE) /\ Emit(Join(chunks, Bytes(at)))
  BY <1>2, <1>4 DEF V1Stripe
<1> HIDE DEF chunks
<1>6. QED
  BY <1>1, <1>2, <1>3, <1>5, StripePutOut DEF Continue

\* The output is complete when nothing is left to read.
LEMMA FileComplete ==
    ASSUME CodecInv, FileSoFar, mf.FileSize <= From(at)
    PROVE  out[0] = Original
<1>1. Sized /\ at \in Nat /\ \A i \in All : out[i] \in Seq(Byte)
  BY DEF CodecInv, CodecTypes
<1>2. 0 \in All /\ mf.FileSize \in Nat /\ From(at) \in Nat
  BY <1>1, Counts, FromIsProduct
<1>3. out[0] \in Seq(Byte) /\ Len(out[0]) = mf.FileSize
  BY <1>1, <1>2 DEF FileSoFar, Smaller
<1>4. \A x \in 1 .. mf.FileSize : out[0][x] = <<x - 1>>
  BY <1>3 DEF FileSoFar
<1>5. out[0] = [x \in 1 .. mf.FileSize |-> out[0][x]]
  BY <1>3
<1>6. QED
  BY <1>4, <1>5 DEF Original

\* A way back is over.
LEMMA EndKeeps ==
    ASSUME CodecInv, pos = mf.FileSize, NEW r \in {"decoded", "repaired", "failed"}, WayEnds(r),
           r = "decoded" => out[0] = Original,
           r = "failed" => Cardinality(present) < k
    PROVE  CodecInv'
<1>1. job' = r /\ UNCHANGED <<mf, pos, buflen, shard, present, wanted, at, out>>
  BY DEF WayEnds
<1>2. k' = k /\ Original' = Original
  BY <1>1, SameNumbers
<1>3. WayBack'
  BY <1>1, <1>2 DEF WayBack
<1>4. job' \in Job \ {"encode"}
  BY <1>1 DEF Job
<1>5. QED
  BY <1>1, <1>3, <1>4, EncoderRests DEF CodecInv, CodecTypes

LEMMA V1EndsKeeps ==
    ASSUME CodecInv, V1Ends
    PROVE  CodecInv'
<1>1. Sized /\ at \in Nat /\ pos = mf.FileSize /\ FileSoFar
  BY DEF CodecInv, CodecTypes, ReadSoFar, WayBack, V1Ends
<1>2. From(at) \in Nat /\ mf.FileSize \in Nat
  BY <1>1, FromIsProduct, Counts
<1>3. mf.FileSize <= From(at)
  <2>1. mf.FileSize - From(at) <= 0
    BY DEF V1Ends, Remaining, From
  <2>2. QED
    BY <1>2, <2>1
<1>4. out[0] = Original
  BY <1>1, <1>3, FileComplete
<1>5. QED
  BY <1>1, <1>4, EndKeeps DEF V1Ends

\* RunV2 counts as many segments as the file has stripes.
LEMMA SegmentsAreStripes ==
    ASSUME Sized, NEW q \in Nat
    PROVE  q < totalSegments <=> From(q) < mf.FileSize
<1>1. shardSize \in Nat /\ bs \in Nat /\ bs > 0
  BY ShardSize, Counts
<1>2. /\ totalSegments \in Nat /\ shardSize <= totalSegments * bs
      /\ totalSegments * bs < shardSize + bs
  BY <1>1, CeilDivRows DEF totalSegments
<1>3. q * bs \in Nat /\ totalSegments * bs \in Nat
  BY <1>1, <1>2, Product
<1> PICK c \in Nat, d \in Nat : c = q * bs /\ d = totalSegments * bs
  BY <1>3
<1>4. CASE q < totalSegments
  <2>1. c + bs <= d
    BY <1>1, <1>2, <1>4, ProductGrows
  <2>2. c < shardSize
    BY <1>1, <1>2, <2>1
  <2>3. QED
    BY <1>4, <2>2, ShardSize
<1>5. CASE ~ q < totalSegments
  <2>1. d <= c
    <3>1. CASE q = totalSegments
      <4>1. c = d
        BY <3>1
      <4>2. QED
        BY <4>1
    <3>2. CASE totalSegments < q
      <4>1. d + bs <= c
        BY <1>1, <1>2, <3>2, ProductGrows
      <4>2. QED
        BY <1>1, <4>1
    <3>3. QED
      BY <1>2, <1>5, <3>1, <3>2
  <2>2. ~ c < shardSize
    BY <1>1, <1>2, <2>1
  <2>3. QED
    BY <1>5, <2>2, ShardSize
<1>6. QED
  BY <1>4, <1>5

\* A segment is a stripe, and as many of its bytes are taken.
LEMMA SegmentIsStripe ==
    ASSUME Sized, NEW q \in Nat, From(q) < mf.FileSize
    PROVE  /\ SegmentLength(q) = Rows(q)
           /\ Smaller(SegmentLength(q) * k, mf.FileSize - q * bs * k) = Bytes(q)
<1>1. SegmentLength(q) = Rows(q)
  BY StripeRows DEF SegmentLength
<1>2. /\ k \in Nat /\ bs \in Nat /\ mf.FileSize \in Nat /\ k * bs \in Nat
      /\ From(q) \in Nat /\ From(q + 1) \in Nat /\ From(q) = q * (k * bs)
  <2>1. k \in Nat /\ bs \in Nat /\ mf.FileSize \in Nat /\ k * bs \in Nat
    BY Counts
  <2>2. q + 1 \in Nat
    OBVIOUS
  <2>3. From(q) \in Nat /\ From(q + 1) \in Nat /\ From(q) = q * (k * bs)
    BY <2>2, FromIsProduct
  <2>4. QED
    BY <2>1, <2>3
<1>3. q * bs * k = From(q)
  BY <1>2
<1>4. /\ Rows(q) \in Nat /\ Bytes(q) \in Nat /\ Bytes(q) <= Rows(q) * k
      /\ From(q) + Bytes(q) <= mf.FileSize
      /\ From(q + 1) <= mf.FileSize => Bytes(q) = k * bs /\ Rows(q) = bs
      /\ mf.FileSize <= From(q + 1) => From(q) + Bytes(q) = mf.FileSize
  BY StripeBounds
<1>5. Rows(q) * k \in Nat /\ bs * k = k * bs
  BY <1>2, <1>4, Product
<1>6. Smaller(Rows(q) * k, mf.FileSize - From(q)) = Bytes(q)
  <2> PICK w \in Nat : w = Rows(q) * k
    BY <1>5
  <2>1. CASE From(q + 1) <= mf.FileSize
    <3>1. w = Bytes(q)
      BY <1>4, <1>5, <2>1
    <3>2. QED
      BY <1>2, <1>4, <3>1 DEF Smaller
  <2>2. CASE mf.FileSize <= From(q + 1)
    BY <1>2, <1>4, <2>2 DEF Smaller
  <2>3. QED
    BY <1>2, <2>1, <2>2
<1>7. QED
  BY <1>1, <1>3, <1>6

LEMMA V2SegmentKeeps ==
    ASSUME CodecInv, V2Segment
    PROVE  CodecInv'
<1> DEFINE n == SegmentLength(at)
           chunks == [i \in present |-> ReadChunk(i, at * bs, n)]
           stripeLen == Smaller(n * k, mf.FileSize - at * bs * k)
           served == \A i \in present : at * bs + n <= Len(shard[i])
<1>1. /\ Sized /\ at \in Nat /\ present \subseteq All /\ job = "V2" /\ pos = mf.FileSize
      /\ Cardinality(present) >= k
  BY DEF CodecInv, CodecTypes, ReadSoFar, WayBack, V2Segment
<1>2. From(at) < mf.FileSize
  BY <1>1, SegmentsAreStripes DEF V2Segment
<1>3. n = Rows(at) /\ stripeLen = Bytes(at)
  BY <1>1, <1>2, SegmentIsStripe
<1>4. AllWritten
  BY <1>1, EncodedFile
<1>5. ChunksOf(chunks, at)
  BY <1>1, <1>2, <1>3, <1>4, ChunksRead
<1>6. CanJoin(chunks, stripeLen)
  BY <1>1, <1>2, <1>3, <1>5, StripeDecodes
<1>7. served
  BY <1>1, <1>2, <1>3, <1>4 DEF AllWritten, Filled
<1>8. /\ Continue(served /\ CanJoin(chunks, stripeLen))
      /\ (served /\ CanJoin(chunks, stripeLen)) => Emit(Join(chunks, stripeLen))
  BY DEF V2Segment
<1> HIDE DEF n, chunks, stripeLen, served
<1>9. Continue(TRUE) /\ Emit(Join(chunks, Bytes(at)))
  BY <1>3, <1>6, <1>7, <1>8 DEF Continue
<1>10. QED
  BY <1>1, <1>2, <1>5, <1>9, StripePutOut DEF Continue

LEMMA V2EndsKeeps ==
    ASSUME CodecInv, V2Ends
    PROVE  CodecInv'
<1>1. Sized /\ at \in Nat /\ pos = mf.FileSize /\ FileSoFar
  BY DEF CodecInv, CodecTypes, ReadSoFar, WayBack, V2Ends
<1>2. From(at) \in Nat /\ mf.FileSize \in Nat
  BY <1>1, FromIsProduct, Counts
<1>3. totalSegments \in Nat
  BY <1>1, ShardSize, Counts, CeilDivRows DEF totalSegments
<1>4. mf.FileSize <= From(at)
  BY <1>1, <1>2, <1>3, SegmentsAreStripes DEF V2Ends
<1>5. out[0] = Original
  BY <1>1, <1>4, FileComplete
<1>6. QED
  BY <1>1, <1>5, EndKeeps DEF V2Ends

Rebuilt(chunks, i, n) == [b \in 1 .. n |-> AnyByte(chunks, i, b)]
Grown(chunks, i) == out[i] \o Rebuilt(chunks, i, Rows(at))

\* The rebuilt chunk of one stripe is appended to what there is.
LEMMA ShardGrows ==
    ASSUME AllWritten, present \subseteq All, Cardinality(present) >= k,
           at \in Nat, From(at) < mf.FileSize, NEW chunks, ChunksOf(chunks, at),
           NEW i \in All, out[i] \in Seq(Byte), ShardSoFar(i)
    PROVE  /\ Grown(chunks, i) \in Seq(Byte)
           /\ Len(Grown(chunks, i)) = Smaller((at + 1) * bs, shardSize)
           /\ \A x \in 1 .. Len(Grown(chunks, i)) : Grown(chunks, i)[x] = shard[i][x]
<1> DEFINE s == Grown(chunks, i)
           t == Rebuilt(chunks, i, Rows(at))
           o == out[i]
<1>1. /\ Sized /\ at * bs \in Nat /\ Rows(at) \in Nat /\ bs \in Nat /\ shardSize \in Nat
      /\ at * bs + Rows(at) <= shardSize /\ Smaller(at * bs + bs, shardSize) = at * bs + Rows(at)
  <2>1. Sized
    BY DEF AllWritten
  <2>2. QED
    BY <2>1, StripeRows, Counts
<1>2. \A b \in 1 .. Rows(at) : t[b] = Right(i, at, b)
  BY <1>1, RebuiltByte DEF Rebuilt
<1>3. /\ shard[i] \in Seq(Byte) /\ Len(shard[i]) = shardSize
      /\ \A b \in 1 .. Rows(at) : shard[i][at * bs + b] = Right(i, at, b)
  BY DEF AllWritten, Filled
<1>4. \A b \in 1 .. Rows(at) : t[b] = shard[i][at * bs + b]
  BY <1>2, <1>3
<1>5. t = [b \in 1 .. Rows(at) |-> t[b]]
  BY DEF Rebuilt
<1> PICK c \in Nat, r \in Nat : c = at * bs /\ r = Rows(at)
  BY <1>1
<1>6. Len(o) = c /\ \A x \in 1 .. c : o[x] = shard[i][x]
  <2>1. Smaller(c, shardSize) = c
    BY <1>1 DEF Smaller
  <2>2. QED
    BY <2>1 DEF ShardSoFar
<1> HIDE DEF s, t, o
<1>7. \A b \in 1 .. r : t[b] = shard[i][c + b] /\ t[b] \in Byte
  <2>1. \A b \in 1 .. r : c + b \in 1 .. Len(shard[i])
    <3>1. c + r <= Len(shard[i]) /\ Len(shard[i]) \in Nat
      BY <1>1, <1>3
    <3>2. QED
      BY <3>1
  <2>2. QED
    BY <1>3, <1>4, <2>1
<1>8. t \in Seq(Byte) /\ Len(t) = r
  BY <1>5, <1>7, FunctionIsSeq
<1>9. s = o \o t /\ o \in Seq(Byte)
  BY DEF s, o, t, Grown
<1>10. /\ s \in Seq(Byte) /\ Len(s) = c + r
       /\ \A x \in 1 .. c : s[x] = o[x]
       /\ \A b \in 1 .. r : s[c + b] = t[b]
  <2>1. /\ o \o t \in Seq(Byte) /\ Len(o \o t) = Len(o) + Len(t)
        /\ \A x \in 1 .. Len(o) : (o \o t)[x] = o[x]
        /\ \A x \in 1 .. Len(t) : (o \o t)[Len(o) + x] = t[x]
    BY <1>8, <1>9, Appended
  <2>2. QED
    BY <1>6, <1>8, <1>9, <2>1
<1>11. ASSUME NEW x \in 1 .. c + r PROVE s[x] = shard[i][x]
  <2>1. CASE x \in 1 .. c
    BY <1>6, <1>10, <2>1, Zenon
  <2>2. CASE c < x
    <3>1. PICK y \in 1 .. r : x = c + y
      <4>1. x - c \in 1 .. r /\ x = c + (x - c)
        BY <2>2
      <4>2. QED
        BY <4>1
    <3>2. s[c + y] = t[y] /\ t[y] = shard[i][c + y]
      BY <1>7, <1>10, <3>1, Zenon
    <3>3. QED
      BY <3>1, <3>2, Zenon
  <2>3. x \in 1 .. c \/ c < x
    OBVIOUS
  <2>4. QED
    BY <2>1, <2>2, <2>3, Zenon
<1>12. (at + 1) * bs = at * bs + bs
  BY <1>1
<1>13. QED
  BY <1>1, <1>10, <1>11, <1>12 DEF s

\* RepairShards reads the rows of the stripe.
LEMMA ReadSizeIsRows ==
    ASSUME Sized, at \in Nat, From(at) < mf.FileSize
    PROVE  ReadSize = Rows(at)
<1>1. /\ k * bs \in Nat /\ mf.FileSize \in Nat /\ From(at) \in Nat
      /\ From(at + 1) \in Nat /\ From(at + 1) = From(at) + k * bs
  <2>1. at + 1 \in Nat
    OBVIOUS
  <2>2. QED
    BY <2>1, FromIsProduct, Counts
<1>2. Remaining = mf.FileSize - From(at) /\ Bytes(at) = Smaller(k * bs, Remaining)
  BY DEF Remaining, From, Bytes
<1>3. CASE Remaining < k * bs
  <2>1. Bytes(at) = Remaining
    BY <1>1, <1>2, <1>3 DEF Smaller
  <2>2. QED
    BY <1>3, <2>1 DEF ReadSize, Rows
<1>4. CASE ~ Remaining < k * bs
  <2>1. From(at + 1) <= mf.FileSize
    BY <1>1, <1>2, <1>4
  <2>2. QED
    BY <1>4, <2>1, StripeBounds DEF ReadSize
<1>5. QED
  BY <1>3, <1>4

LEMMA DecodeNeedsEnough ==
    ASSUME Sized, present \subseteq All, NEW chunks, DOMAIN chunks = present, CanDecode(chunks)
    PROVE  Cardinality(present) >= k
<1> DEFINE c == {i \in present : chunks[i] # <<>>}
<1>1. c \subseteq present /\ IsFiniteSet(present) /\ k \in Nat
  BY AllFinite, Counts
<1>2. Cardinality(c) >= k
  BY DEF CanDecode
<1> HIDE DEF c
<1>3. Cardinality(c) <= Cardinality(present) /\ Cardinality(c) \in Nat /\ Cardinality(present) \in Nat
  BY <1>1, FS_Subset, FS_CardinalityType
<1>4. QED
  BY <1>1, <1>2, <1>3

LEMMA RepairStripeKeeps ==
    ASSUME CodecInv, RepairStripe
    PROVE  CodecInv'
<1> DEFINE chunks == [i \in present |-> Padded(ReadChunk(i, at * bs, ReadSize), ReadSize)]
<1>1. /\ Sized /\ at \in Nat /\ present \in SUBSET All /\ wanted \in SUBSET (All \ present)
      /\ job = "repair" /\ pos = mf.FileSize
      /\ DOMAIN out = All /\ \A i \in All : out[i] \in Seq(Byte)
  BY DEF CodecInv, CodecTypes, ReadSoFar, RepairStripe
<1>2. From(at) < mf.FileSize
  <2>1. mf.FileSize - From(at) > 0
    BY DEF RepairStripe, Remaining, From
  <2>2. From(at) \in Nat /\ mf.FileSize \in Nat
    BY <1>1, FromIsProduct, Counts
  <2>3. QED
    BY <2>1, <2>2
<1>3. AllWritten
  BY <1>1, EncodedFile
<1>4. ChunksOf(chunks, at)
  BY <1>1, <1>2, <1>3, PaddedRead, ReadSizeIsRows
<1>5. /\ Continue(CanDecode(chunks))
      /\ CanDecode(chunks) =>
            out' = [i \in All |->
               IF i \notin wanted THEN out[i]
               ELSE out[i] \o [b \in 1 .. ReadSize |-> AnyByte(chunks, i, b)]]
  BY DEF RepairStripe
<1>6. DOMAIN chunks = present
  OBVIOUS
<1> HIDE DEF chunks
<1>7. CASE CanDecode(chunks)
  <2>1. Cardinality(present) >= k
    BY <1>1, <1>6, <1>7, DecodeNeedsEnough
  <2>2. at' = at + 1 /\ UNCHANGED <<mf, job, pos, buflen, shard, present, wanted>>
    BY <1>5, <1>7 DEF Continue
  <2>3. DOMAIN out' = All /\ \A i \in All : i \notin wanted => out'[i] = out[i]
    BY <1>5, <1>7
  <2>4. ASSUME NEW i \in wanted
        PROVE  out'[i] \in Seq(Byte) /\ ShardSoFar(i)'
    <3>1. i \in All /\ ShardSoFar(i)
      BY <1>1, <2>1 DEF CodecInv, WayBack
    <3>2. out'[i] = Grown(chunks, i)
      <4>1. ReadSize = Rows(at)
        BY <1>1, <1>2, ReadSizeIsRows
      <4>2. QED
        BY <1>5, <1>7, <3>1, <4>1 DEF Rebuilt, Grown
    <3>3. /\ out'[i] \in Seq(Byte) /\ Len(out'[i]) = Smaller((at + 1) * bs, shardSize)
          /\ \A x \in 1 .. Len(out'[i]) : out'[i][x] = shard[i][x]
      <4>1. out[i] \in Seq(Byte) /\ present \subseteq All /\ at \in Nat /\ i \in All /\ ShardSoFar(i)
        BY <1>1, <3>1
      <4>2. /\ Grown(chunks, i) \in Seq(Byte)
            /\ Len(Grown(chunks, i)) = Smaller((at + 1) * bs, shardSize)
            /\ \A x \in 1 .. Len(Grown(chunks, i)) : Grown(chunks, i)[x] = shard[i][x]
        BY <1>2, <1>3, <1>4, <2>1, <4>1, ShardGrows, Zenon
      <4>3. QED
        BY <3>2, <4>2, Zenon
    <3>4. Smaller(at * bs, shardSize)' = Smaller((at + 1) * bs, shardSize)
      BY <2>2, SameNumbers DEF Smaller
    <3>5. QED
      BY <2>2, <3>3, <3>4 DEF ShardSoFar
  <2>5. WayBack'
    BY <1>1, <2>2, <2>4 DEF WayBack
  <2>6. at' \in Nat /\ \A i \in All : out'[i] \in Seq(Byte)
    BY <1>1, <2>2, <2>3, <2>4
  <2>7. QED
    BY <1>1, <2>2, <2>3, <2>5, <2>6, EncoderRests DEF Job
<1>8. CASE ~ CanDecode(chunks)
  <2>1. job' = "failed" /\ UNCHANGED <<mf, pos, buflen, shard, present, wanted, at, out>>
    BY <1>5, <1>8 DEF Continue
  <2>2. ~ Cardinality(present) >= k
    BY <1>1, <1>2, <1>4, <1>8, StripeDecodes
  <2>3. Cardinality(present) < k
    BY <1>1, <2>2, AllFinite, Counts
  <2>4. WayBack'
    BY <2>1, <2>3, SameNumbers DEF WayBack
  <2>5. QED
    BY <1>1, <2>1, <2>4, EncoderRests DEF Job
<1>9. QED
  BY <1>7, <1>8

LEMMA RepairEndsKeeps ==
    ASSUME CodecInv, RepairEnds
    PROVE  CodecInv'
<1>1. /\ Sized /\ at \in Nat /\ present \in SUBSET All /\ wanted \in SUBSET (All \ present)
      /\ job = "repair" /\ pos = mf.FileSize
      /\ \A i \in All : out[i] \in Seq(Byte)
  BY DEF CodecInv, CodecTypes, ReadSoFar, RepairEnds
<1>2. AllWritten
  BY <1>1, EncodedFile
<1>3. shardSize \in Nat /\ at * bs \in Nat /\ ~ at * bs < shardSize
  <2>1. ~ From(at) < mf.FileSize
    <3>1. mf.FileSize - From(at) <= 0
      BY DEF RepairEnds, Remaining, From
    <3>2. From(at) \in Nat /\ mf.FileSize \in Nat
      BY <1>1, FromIsProduct, Counts
    <3>3. QED
      BY <3>1, <3>2
  <2>2. QED
    BY <1>1, <2>1, ShardSize, Product, Counts
<1>4. ASSUME Cardinality(present) >= k, NEW i \in wanted PROVE out[i] = shard[i]
  <2>1. ShardSoFar(i) /\ i \in All
    BY <1>1, <1>4 DEF CodecInv, WayBack
  <2>2. Smaller(at * bs, shardSize) = shardSize
    BY <1>3 DEF Smaller
  <2>3. Len(out[i]) = shardSize /\ \A b \in 1 .. shardSize : out[i][b] = shard[i][b]
    BY <2>1, <2>2 DEF ShardSoFar
  <2>4. shard[i] \in Seq(Byte) /\ out[i] \in Seq(Byte) /\ Len(shard[i]) = shardSize
    BY <1>1, <1>2, <2>1 DEF AllWritten
  <2>5. /\ out[i] = [b \in 1 .. shardSize |-> out[i][b]]
        /\ shard[i] = [b \in 1 .. shardSize |-> shard[i][b]]
    BY <2>3, <2>4
  <2>6. QED
    BY <2>3, <2>5
<1>5. CASE \A i \in wanted : out[i] = shard[i]
  <2>1. WayEnds("repaired")
    BY <1>5 DEF RepairEnds
  <2>2. QED
    BY <1>1, <2>1, EndKeeps
<1>6. CASE ~ \A i \in wanted : out[i] = shard[i]
  <2>1. WayEnds("failed")
    BY <1>6 DEF RepairEnds
  <2>2. ~ Cardinality(present) >= k
    BY <1>4, <1>6
  <2>3. Cardinality(present) < k
    <3>1. Cardinality(present) \in Nat /\ k \in Nat
      BY <1>1, AllFinite, Counts
    <3>2. QED
      BY <2>2, <3>1
  <2>4. QED
    BY <1>1, <2>1, <2>3, EndKeeps
<1>7. QED
  BY <1>5, <1>6

LEMMA CodecStutter ==
    ASSUME CodecInv, UNCHANGED codecVars
    PROVE  CodecInv'
<1>1. /\ UNCHANGED <<mf, job, pos, buflen, shard, present, wanted, at, out>>
  BY DEF codecVars
<1>2. /\ k' = k /\ bs' = bs /\ All' = All /\ (Sized' <=> Sized) /\ mf'.FileSize = mf.FileSize
      /\ shardSize' = shardSize /\ Original' = Original
  BY <1>1, SameNumbers
<1>3. \A q : From(q)' = From(q)
  BY <1>1, SameStripes
<1>4. CodecTypes'
  BY <1>1, <1>2 DEF CodecInv, CodecTypes
<1>5. ReadSoFar'
  BY <1>1, <1>2, <1>3 DEF CodecInv, ReadSoFar
<1>6. \A i \in All' : Written(i)'
  BY <1>1, <1>2, SameWritten DEF CodecInv
<1>7. FileSoFar' <=> FileSoFar
  <2>1. From(at)' = From(at)
    BY <1>1, <1>2 DEF From
  <2>2. QED
    BY <1>1, <1>2, <2>1 DEF FileSoFar, Smaller
<1>8. \A i : ShardSoFar(i)' <=> ShardSoFar(i)
  BY <1>1, <1>2 DEF ShardSoFar, Smaller
<1>9. WayBack'
  BY <1>1, <1>2, <1>7, <1>8 DEF CodecInv, WayBack
<1>10. QED
  BY <1>4, <1>5, <1>6, <1>9 DEF CodecInv

LEMMA CodecKeeps ==
    ASSUME CodecInv, [CodecNext]_codecVars
    PROVE  CodecInv'
<1>1. CASE EncodeStripe
  BY <1>1, EncodeStripeKeeps
<1>2. CASE EncodeEnds
  BY <1>2, EncodeEndsKeeps
<1>3. CASE Begin
  BY <1>3, BeginKeeps
<1>4. CASE V1Stripe
  BY <1>4, V1StripeKeeps
<1>5. CASE V1Ends
  BY <1>5, V1EndsKeeps
<1>6. CASE V2Segment
  BY <1>6, V2SegmentKeeps
<1>7. CASE V2Ends
  BY <1>7, V2EndsKeeps
<1>8. CASE RepairStripe
  BY <1>8, RepairStripeKeeps
<1>9. CASE RepairEnds
  BY <1>9, RepairEndsKeeps
<1>10. CASE UNCHANGED codecVars
  BY <1>10, CodecStutter
<1>11. QED
  BY <1>1, <1>2, <1>3, <1>4, <1>5, <1>6, <1>7, <1>8, <1>9, <1>10 DEF CodecNext

----------------------------------------------------------------------------
(* What follows from the invariant                                          *)

LEMMA CodecInvTypes ==
    ASSUME CodecInv
    PROVE  CodecTypeOK
<1>1. /\ Sized /\ Validate(mf) /\ pos \in 0 .. mf.FileSize
      /\ \A i \in All : Written(i)
  BY DEF CodecInv, CodecTypes, Sized
<1>2. 0 \in All
  BY <1>1, Counts
<1>3. pos = mf.FileSize \/ \E n \in Nat : pos = From(n)
  BY DEF CodecInv, ReadSoFar
<1>4. \A i \in All : Len(shard[i]) = Len(shard[0])
  <2>1. CASE pos = mf.FileSize
    BY <1>1, <1>2, <2>1 DEF Written
  <2>2. CASE \E n \in Nat : pos = From(n)
    BY <1>1, <1>2, <2>2 DEF Written
  <2>3. QED
    BY <1>3, <2>1, <2>2
<1>5. QED
  BY <1>1, <1>4 DEF CodecInv, CodecTypes, CodecTypeOK

LEMMA CodecInvSizes ==
    ASSUME CodecInv
    PROVE  ShardSizesAgree
<1>1. pos \in 0 .. mf.FileSize /\ mf.FileSize \in Nat
  BY Counts DEF CodecInv, CodecTypes
<1>2. pos >= mf.FileSize => pos = mf.FileSize
  BY <1>1
<1>3. QED
  BY <1>2 DEF CodecInv, Written, ShardSizesAgree

LEMMA CodecInvDecodes ==
    ASSUME CodecInv
    PROVE  DecodesToOriginal /\ FailsOnlyWhenTooFew
  BY DEF CodecInv, WayBack, DecodesToOriginal, FailsOnlyWhenTooFew

LEMMA CodecInvariant == CodecSpec => []CodecInv
<1>1. CodecInit => CodecInv
  BY CodecBegins, CodecAssumption
<1>2. CodecInv /\ [CodecNext]_codecVars => CodecInv'
  BY CodecKeeps
<1>3. QED
  BY <1>1, <1>2, PTL DEF CodecSpec

\* The states of the codec are what they should be: in particular all shards of
\* a file are always of one length, data and parity, also after a short stripe.
THEOREM CodecTypeCorrect == CodecSpec => []CodecTypeOK
<1>1. CodecInv => CodecTypeOK
  BY CodecInvTypes
<1>2. QED
  BY <1>1, CodecInvariant, PTL

\* For a file of any size and any number of shards and size of blocks, the size
\* of a shard that RunV2 derives from the size of the file is the one that the
\* stripes of EncodeFile add up to.
THEOREM ShardSizes == CodecSpec => []ShardSizesAgree
<1>1. CodecInv => ShardSizesAgree
  BY CodecInvSizes
<1>2. QED
  BY <1>1, CodecInvariant, PTL

\* From any DataShards or more of the shards ReconstructFile and the segments of
\* RunV2 give the file that EncodeFile was given, every byte in its place.
THEOREM DecodesBack == CodecSpec => []DecodesToOriginal
<1>1. CodecInv => DecodesToOriginal
  BY CodecInvDecodes
<1>2. QED
  BY <1>1, CodecInvariant, PTL

\* ReconstructFile, RunV2 and RepairShards fail only where fewer than DataShards
\* shards are left: none of them reads past a shard or cuts a stripe in
\* another way than EncodeFile, whatever the sizes.
THEOREM FailsForAReason == CodecSpec => []FailsOnlyWhenTooFew
<1>1. CodecInv => FailsOnlyWhenTooFew
  BY CodecInvDecodes
<1>2. QED
  BY <1>1, CodecInvariant, PTL

----------------------------------------------------------------------------
(* The fetch of a segment                                                   *)

USE ShardAssumption, ProviderAssumption, TaskAssumption

----------------------------------------------------------------------------
(* The inductive invariant                                                  *)

\* The tasks in the channel.
Queued == {taskQueue[i] : i \in 1 .. Len(taskQueue)}

NoRepeat == \A i, j \in 1 .. Len(taskQueue) : taskQueue[i] = taskQueue[j] => i = j

Holding == {"choosing", "asking", "sleeping"}

\* What a worker holds fits to where it stands.
WorkersOK ==
    \A w \in Worker :
        /\ task[w] # NoTask <=> pc[w] \in Holding
        /\ asked[w] # NoProvider <=> pc[w] = "asking"

\* A task is in one place at most, and nowhere once its chunk has arrived.
Disjoint ==
    /\ NoRepeat
    /\ \A v, w \in Worker : task[v] = task[w] /\ task[v] # NoTask => v = w
    /\ \A w \in Worker : task[w] \notin Queued \cup requeuing \cup shards
    /\ Queued \cap requeuing = {}
    /\ (Queued \cup requeuing) \cap shards = {}

\* A task that is not dropped when it is taken has an attempt left.
AttemptLeft ==
    /\ \A w \in Worker : task[w] # NoTask => attempts[task[w]] < MaxAttempts
    /\ \A s \in requeuing : attempts[s] < MaxAttempts

PoolInv ==
    /\ TypeOK
    /\ WorkersOK /\ Disjoint /\ AttemptLeft
    /\ got = Cardinality(shards)

Held(s) == \E w \in Worker : task[w] = s

\* Unless the run is cancelled every task that is needed is somewhere.
Somewhere(s) ==
    \/ s \in shards \/ attempts[s] >= MaxAttempts
    \/ s \in Queued \/ s \in requeuing \/ Held(s)

AllGone == \A w \in Worker : pc[w] = "gone"

\* The workers are gone before the segment ends.  The last of them has left an
\* empty channel behind: what has not arrived has failed.
EndInv ==
    /\ ~cancelled => \A s \in Shard : Somewhere(s)
    /\ outcome # "fetching" => AllGone
    /\ outcome = "fetching" /\ AllGone /\ ~cancelled /\ ~Enough =>
           \A s \in Shard : s \in shards \/ Failed(s)
    /\ outcome = "short" => ~Enough /\ \A s \in Shard : s \in shards \/ Failed(s)

----------------------------------------------------------------------------
(* The channel and the workers                                              *)

LEMMA Sizes ==
    /\ Total \in Nat /\ MaxAttempts \in Nat
    /\ DataShards \in Nat \ {0} /\ ParityShards \in Nat \ {0}
    /\ Total = DataShards + ParityShards
    /\ 1 \in Worker
  BY DEF Total, Worker

LEMMA ShardFinite == IsFiniteSet(Shard) /\ Cardinality(Shard) = Total
<1>1. 0 \in Int /\ Total - 1 \in Int /\ Total \in Nat
  BY Sizes
<1>2. /\ IsFiniteSet(0 .. Total - 1)
      /\ Cardinality(0 .. Total - 1) = IF 0 > Total - 1 THEN 0 ELSE (Total - 1) - 0 + 1
  BY <1>1, FS_Interval
<1>3. QED
  BY <1>1, <1>2 DEF Shard

\* Taking the first task of a channel without repetitions removes it.
LEMMA QueueTail ==
    ASSUME taskQueue \in Seq(Shard), taskQueue # <<>>, NoRepeat, taskQueue' = Tail(taskQueue)
    PROVE  /\ taskQueue' \in Seq(Shard)
           /\ Head(taskQueue) \in Shard /\ Head(taskQueue) \in Queued
           /\ Queued' = Queued \ {Head(taskQueue)}
           /\ NoRepeat'
<1>1. /\ Len(taskQueue) \in Nat \ {0} /\ Len(taskQueue') = Len(taskQueue) - 1
      /\ taskQueue' \in Seq(Shard)
      /\ Head(taskQueue) = taskQueue[1] /\ taskQueue[1] \in Shard
      /\ \A i \in 1 .. Len(taskQueue') : taskQueue'[i] = taskQueue[i + 1]
  OBVIOUS
<1>2. Head(taskQueue) \in Queued
  BY <1>1 DEF Queued
<1>3. Queued' \subseteq Queued \ {Head(taskQueue)}
  <2> SUFFICES ASSUME NEW i \in 1 .. Len(taskQueue')
               PROVE  taskQueue'[i] \in Queued \ {Head(taskQueue)}
    BY DEF Queued
  <2>1. i + 1 \in 1 .. Len(taskQueue) /\ 1 \in 1 .. Len(taskQueue) /\ i + 1 # 1
    BY <1>1
  <2>2. taskQueue[i + 1] # taskQueue[1]
    BY <2>1 DEF NoRepeat
  <2>3. QED
    BY <1>1, <2>1, <2>2 DEF Queued
<1>4. Queued \ {Head(taskQueue)} \subseteq Queued'
  <2> SUFFICES ASSUME NEW i \in 1 .. Len(taskQueue), taskQueue[i] # Head(taskQueue)
               PROVE  taskQueue[i] \in Queued'
    BY DEF Queued
  <2>1. i - 1 \in 1 .. Len(taskQueue') /\ taskQueue'[i - 1] = taskQueue[i]
    BY <1>1
  <2>2. QED
    BY <2>1 DEF Queued
<1>5. NoRepeat'
  <2> SUFFICES ASSUME NEW i \in 1 .. Len(taskQueue'), NEW j \in 1 .. Len(taskQueue'),
                      taskQueue'[i] = taskQueue'[j]
               PROVE  i = j
    BY DEF NoRepeat
  <2>1. i + 1 \in 1 .. Len(taskQueue) /\ j + 1 \in 1 .. Len(taskQueue)
        /\ taskQueue[i + 1] = taskQueue[j + 1]
    BY <1>1
  <2>2. i + 1 = j + 1
    BY <2>1 DEF NoRepeat
  <2>3. QED
    BY <2>2
<1>6. QED
  BY <1>1, <1>2, <1>3, <1>4, <1>5

\* Putting back a task that is not in the channel adds it.
LEMMA QueueAppend ==
    ASSUME taskQueue \in Seq(Shard), NEW s \in Shard, s \notin Queued, NoRepeat,
           taskQueue' = Append(taskQueue, s)
    PROVE  /\ taskQueue' \in Seq(Shard)
           /\ Queued' = Queued \cup {s}
           /\ NoRepeat'
<1>1. /\ Len(taskQueue) \in Nat /\ Len(taskQueue') = Len(taskQueue) + 1
      /\ taskQueue' \in Seq(Shard)
      /\ taskQueue'[Len(taskQueue) + 1] = s
      /\ \A i \in 1 .. Len(taskQueue) : taskQueue'[i] = taskQueue[i]
  OBVIOUS
<1>2. \A i \in 1 .. Len(taskQueue') :
          i = Len(taskQueue) + 1 \/ i \in 1 .. Len(taskQueue)
  BY <1>1
<1>3. Queued' \subseteq Queued \cup {s}
  BY <1>1, <1>2 DEF Queued
<1>4. Queued \subseteq Queued'
  <2> SUFFICES ASSUME NEW i \in 1 .. Len(taskQueue) PROVE taskQueue[i] \in Queued'
    BY DEF Queued
  <2>1. i \in 1 .. Len(taskQueue') /\ taskQueue'[i] = taskQueue[i]
    BY <1>1
  <2>2. QED
    BY <2>1 DEF Queued
<1>5. s \in Queued'
  <2>1. Len(taskQueue) + 1 \in 1 .. Len(taskQueue')
    BY <1>1
  <2>2. QED
    BY <1>1, <2>1 DEF Queued
<1>6. NoRepeat'
  <2> SUFFICES ASSUME NEW i \in 1 .. Len(taskQueue'), NEW j \in 1 .. Len(taskQueue'),
                      taskQueue'[i] = taskQueue'[j]
               PROVE  i = j
    BY DEF NoRepeat
  <2>1. \A n \in 1 .. Len(taskQueue) : taskQueue'[n] # s
    BY <1>1 DEF Queued
  <2>2. i \in 1 .. Len(taskQueue) <=> j \in 1 .. Len(taskQueue)
    BY <1>1, <1>2, <2>1
  <2>3. QED
    BY <1>1, <1>2, <2>2 DEF NoRepeat
<1>7. QED
  BY <1>1, <1>3, <1>4, <1>5, <1>6

\* Without repetitions the channel never holds more tasks than there are
\* shards: the send of a goroutine with a task in hand does not block.
LEMMA QueueBound ==
    ASSUME NEW q \in Seq(Shard), \A i, j \in 1 .. Len(q) : q[i] = q[j] => i = j
    PROVE  Len(q) <= Total
<1> DEFINE S == 1 .. Len(q)
<1>1. Len(q) \in Nat /\ q \in [S -> Shard]
  OBVIOUS
<1>2. IsFiniteSet(S) /\ Cardinality(S) = Len(q)
  <2>1. 1 \in Int /\ Len(q) \in Int
    BY <1>1
  <2>2. IsFiniteSet(S) /\ Cardinality(S) = IF 1 > Len(q) THEN 0 ELSE Len(q) - 1 + 1
    BY <2>1, FS_Interval
  <2>3. QED
    BY <1>1, <2>2
<1>3. SUFFICES ASSUME Total < Len(q) PROVE FALSE
  BY <1>1, Sizes
<1>4. Cardinality(Shard) < Cardinality(S) /\ IsFiniteSet(Shard)
  BY <1>2, <1>3, ShardFinite
<1> HIDE DEF S
<1>5. ASSUME NEW f \in [S -> Shard]
      PROVE  \E i, j \in S : i # j /\ f[i] = f[j]
  BY <1>2, <1>4, <1>5, FS_PigeonHole, SMTT(30)
<1>6. \E i, j \in S : i # j /\ q[i] = q[j]
  BY <1>1, <1>5
<1>7. QED
  BY <1>6 DEF S

LEMMA DropStep ==
    ASSUME TypeOK, NEW w \in Worker, NEW to \in {"looping", "polling", "gone"}, Drop(w, to)
    PROVE  /\ pc' \in [Worker -> {"looping", "polling", "choosing", "asking", "sleeping", "gone"}]
           /\ task' \in [Worker -> Shard \cup {NoTask}]
           /\ asked' \in [Worker -> Provider \cup {NoProvider}]
           /\ pc'[w] = to /\ task'[w] = NoTask /\ asked'[w] = NoProvider
           /\ \A v \in Worker : v # w =>
                 pc'[v] = pc[v] /\ task'[v] = task[v] /\ asked'[v] = asked[v]
  BY DEF TypeOK, Drop

----------------------------------------------------------------------------
(* The pool                                                                 *)

PoolTypes ==
    /\ taskQueue \in Seq(Shard) /\ attempts \in [Shard -> 0 .. MaxAttempts]
    /\ requeuing \in SUBSET Shard
    /\ pc \in [Worker -> {"looping", "polling", "choosing", "asking", "sleeping", "gone"}]
    /\ task \in [Worker -> Shard \cup {NoTask}]
    /\ asked \in [Worker -> Provider \cup {NoProvider}]

RestTypes ==
    /\ outcome \in {"fetching", "decoded", "short", "aborted"}
    /\ cancelled \in BOOLEAN
    /\ blacklisted \in SUBSET Provider
    /\ shards \in SUBSET Shard

\* The bounds on the channel and on the counter follow from the rest.
LEMMA TypesFromParts ==
    ASSUME PoolTypes', RestTypes', NoRepeat', got' = Cardinality(shards')
    PROVE  TypeOK'
<1>1. Len(taskQueue') <= Total
  BY QueueBound DEF PoolTypes, NoRepeat
<1>2. Cardinality(shards') \in 0 .. Total
  <2>1. IsFiniteSet(shards') /\ Cardinality(shards') <= Total
    BY ShardFinite, FS_Subset DEF RestTypes
  <2>2. QED
    BY <2>1, FS_CardinalityType, Sizes
<1>3. QED
  BY <1>1, <1>2 DEF PoolTypes, RestTypes, TypeOK

LEMMA PartsFromTypes ==
    ASSUME TypeOK
    PROVE  PoolTypes /\ RestTypes /\ Queued \subseteq Shard
<1>1. PoolTypes /\ RestTypes
  BY DEF TypeOK, PoolTypes, RestTypes
<1>2. \A i \in 1 .. Len(taskQueue) : taskQueue[i] \in Shard
  BY DEF TypeOK
<1>3. QED
  BY <1>1, <1>2 DEF Queued

LEMMA InitPool == Init => PoolInv /\ EndInv
<1> SUFFICES ASSUME Init PROVE PoolInv /\ EndInv
  OBVIOUS
<1>1. /\ taskQueue \in Seq(Shard) /\ Len(taskQueue) = Total
      /\ \A i \in 1 .. Total : taskQueue[i] = i - 1
  BY Sizes DEF Init, Shard
<1>2. got = Cardinality(shards) /\ 0 \in 0 .. Total
  BY FS_EmptySet, Sizes DEF Init
<1>3. attempts \in [Shard -> 0 .. MaxAttempts]
  BY Sizes DEF Init
<1>4. TypeOK
  <2>1. PoolTypes
    BY <1>1, <1>3 DEF Init, PoolTypes
  <2>2. RestTypes
    BY DEF Init, RestTypes
  <2>3. got \in 0 .. Total /\ Len(taskQueue) <= Total
    BY <1>1, <1>2, Sizes DEF Init
  <2>4. QED
    BY <2>1, <2>2, <2>3 DEF PoolTypes, RestTypes, TypeOK
<1>5. WorkersOK /\ AttemptLeft
  BY DEF Init, WorkersOK, AttemptLeft, Holding
<1>6. NoRepeat /\ Queued \subseteq Shard
  BY <1>1 DEF NoRepeat, Queued
<1>7. Disjoint
  BY <1>6 DEF Init, Disjoint
<1>8. ASSUME NEW s \in Shard PROVE s \in Queued
  <2>1. s + 1 \in 1 .. Total /\ taskQueue[s + 1] = s
    BY <1>1, Sizes DEF Shard
  <2>2. QED
    BY <1>1, <2>1 DEF Queued
<1>9. EndInv
  <2>1. ~AllGone
    BY Sizes DEF Init, AllGone
  <2>2. QED
    BY <1>8, <2>1 DEF Init, EndInv, Somewhere
<1>10. QED
  BY <1>2, <1>4, <1>5, <1>7, <1>9 DEF PoolInv

\* A worker without a task goes on or leaves.
LEMMA WalkPool ==
    ASSUME PoolInv, NEW w \in Worker, CheckCount(w) \/ Leave(w)
    PROVE  PoolInv' /\ task' = task
<1> USE DEF PoolInv
<1>1. PoolTypes /\ RestTypes
  BY PartsFromTypes
<1>2. PICK to \in {"looping", "polling", "gone"} : Drop(w, to)
  BY DEF CheckCount, Leave
<1>3. UNCHANGED <<outcome, cancelled, blacklisted, taskQueue, attempts, requeuing, shards, got>>
  BY DEF CheckCount, Leave
<1>4. task[w] = NoTask
  BY DEF CheckCount, Leave, WorkersOK, Holding
<1>5. task' = task
  BY <1>1, <1>2, <1>4 DEF Drop, PoolTypes
<1>6. /\ PoolTypes' /\ WorkersOK' /\ RestTypes'
  BY <1>1, <1>2, <1>3, <1>5, DropStep DEF PoolTypes, RestTypes, WorkersOK, Holding
<1>7. Disjoint' /\ AttemptLeft'
  BY <1>3, <1>5 DEF Disjoint, AttemptLeft, NoRepeat, Queued
<1>8. QED
  BY <1>3, <1>5, <1>6, <1>7, TypesFromParts DEF Disjoint

LEMMA TakeTaskPool ==
    ASSUME PoolInv, NEW w \in Worker, TakeTask(w)
    PROVE  /\ PoolInv'
           /\ Head(taskQueue) \in Shard /\ Queued' = Queued \ {Head(taskQueue)}
           /\ attempts[Head(taskQueue)] >= MaxAttempts \/ task'[w] = Head(taskQueue)
           /\ pc'[w] # "gone"
           /\ \A v \in Worker : v # w => pc'[v] = pc[v] /\ task'[v] = task[v]
<1> USE DEF PoolInv
<1>1. PoolTypes /\ RestTypes /\ Queued \subseteq Shard
  BY PartsFromTypes
<1>2. /\ taskQueue' \in Seq(Shard) /\ NoRepeat'
      /\ Head(taskQueue) \in Shard /\ Head(taskQueue) \in Queued
      /\ Queued' = Queued \ {Head(taskQueue)}
  BY <1>1, QueueTail DEF TakeTask, PoolTypes, Disjoint
<1>3. task[w] = NoTask /\ asked[w] = NoProvider
  BY DEF TakeTask, WorkersOK, Holding
<1>4. UNCHANGED <<outcome, cancelled, blacklisted, attempts, requeuing, shards, got>>
  BY DEF TakeTask
<1>5. RestTypes'
  BY <1>1, <1>4 DEF RestTypes
<1>6. CASE attempts[Head(taskQueue)] >= MaxAttempts
  <2>1. Drop(w, "looping")
    BY <1>6 DEF TakeTask
  <2>2. task' = task
    BY <1>1, <1>3, <2>1 DEF Drop, PoolTypes
  <2>3. PoolTypes' /\ WorkersOK'
    BY <1>1, <1>2, <1>4, <2>1, DropStep DEF PoolTypes, WorkersOK, Holding
  <2>4. Disjoint' /\ AttemptLeft'
    BY <1>2, <1>4, <2>2 DEF Disjoint, AttemptLeft
  <2>5. pc'[w] # "gone" /\ \A v \in Worker : v # w => pc'[v] = pc[v] /\ task'[v] = task[v]
    BY <2>1, DropStep
  <2>6. QED
    BY <1>2, <1>4, <1>5, <1>6, <2>3, <2>4, <2>5, TypesFromParts
<1>7. CASE ~(attempts[Head(taskQueue)] >= MaxAttempts)
  <2>1. /\ pc' = [pc EXCEPT ![w] = "choosing"]
        /\ task' = [task EXCEPT ![w] = Head(taskQueue)] /\ asked' = asked
    BY <1>7 DEF TakeTask
  <2>2. attempts[Head(taskQueue)] < MaxAttempts
    BY <1>1, <1>2, <1>7, Sizes DEF PoolTypes
  <2>3. PoolTypes'
    BY <1>1, <1>2, <1>4, <2>1 DEF PoolTypes
  <2>4. WorkersOK'
    BY <1>1, <1>2, <1>3, <2>1 DEF PoolTypes, WorkersOK, Holding
  <2>5. AttemptLeft'
    BY <1>1, <1>4, <2>1, <2>2 DEF PoolTypes, AttemptLeft
  <2>6. /\ task'[w] = Head(taskQueue) /\ pc'[w] # "gone"
        /\ \A v \in Worker : v # w =>
              pc'[v] = pc[v] /\ task'[v] = task[v] /\ task[v] # Head(taskQueue)
    BY <1>1, <1>2, <2>1 DEF PoolTypes, Disjoint
  <2>7. Disjoint'
    BY <1>2, <1>4, <2>6 DEF Disjoint
  <2>8. QED
    BY <1>2, <1>4, <1>5, <2>3, <2>4, <2>5, <2>6, <2>7, TypesFromParts
<1>8. QED
  BY <1>6, <1>7

LEMMA ChoosePool ==
    ASSUME PoolInv, NEW w \in Worker, ChooseProvider(w)
    PROVE  /\ PoolInv' /\ task' = task /\ pc'[w] # "gone"
           /\ \A v \in Worker : v # w => pc'[v] = pc[v]
<1> USE DEF PoolInv
<1>1. PoolTypes /\ RestTypes
  BY PartsFromTypes
<1>2. UNCHANGED <<outcome, cancelled, blacklisted, taskQueue, attempts, requeuing,
                  task, shards, got>> /\ pc[w] = "choosing"
  BY DEF ChooseProvider
<1>3. \/ /\ pc' = [pc EXCEPT ![w] = "sleeping"] /\ asked' = asked
      \/ \E q \in Provider : /\ pc' = [pc EXCEPT ![w] = "asking"]
                             /\ asked' = [asked EXCEPT ![w] = q]
  BY DEF ChooseProvider, Candidates
<1>4. PoolTypes' /\ pc'[w] \in {"sleeping", "asking"}
      /\ \A v \in Worker : v # w => pc'[v] = pc[v]
  <2>1. CASE pc' = [pc EXCEPT ![w] = "sleeping"] /\ asked' = asked
    BY <1>1, <1>2, <2>1 DEF PoolTypes
  <2>2. ASSUME NEW q \in Provider, pc' = [pc EXCEPT ![w] = "asking"],
               asked' = [asked EXCEPT ![w] = q]
        PROVE  /\ PoolTypes' /\ pc'[w] \in {"sleeping", "asking"}
               /\ \A v \in Worker : v # w => pc'[v] = pc[v]
    BY <1>1, <1>2, <2>2 DEF PoolTypes
  <2>3. QED
    BY <1>3, <2>1, <2>2
<1>5. WorkersOK'
  BY <1>1, <1>2, <1>3 DEF PoolTypes, WorkersOK, Holding
<1>6. Disjoint' /\ AttemptLeft' /\ RestTypes'
  BY <1>1, <1>2 DEF Disjoint, AttemptLeft, NoRepeat, Queued, RestTypes
<1>7. QED
  BY <1>2, <1>4, <1>5, <1>6, TypesFromParts DEF Disjoint

\* A worker hands its task to one place: the channel, the goroutine that will
\* put it back, or the shards of which the chunk has arrived.
LEMMA HandOver ==
    ASSUME PoolInv, NEW w \in Worker, pc[w] \in Holding,
           NEW to \in {"looping", "polling", "gone"}, Drop(w, to),
           attempts' = attempts, RestTypes', got' = Cardinality(shards'),
           \/ /\ taskQueue' = Append(taskQueue, task[w])
              /\ UNCHANGED <<requeuing, shards>>
           \/ /\ requeuing' = requeuing \cup {task[w]}
              /\ UNCHANGED <<taskQueue, shards>>
           \/ /\ shards' = shards \cup {task[w]}
              /\ UNCHANGED <<taskQueue, requeuing>>
    PROVE  /\ PoolInv'
           /\ Queued \subseteq Queued' /\ requeuing \subseteq requeuing'
           /\ shards \subseteq shards'
           /\ task[w] \in Queued' \cup requeuing' \cup shards'
           /\ pc'[w] = to /\ \A v \in Worker : v # w => pc'[v] = pc[v] /\ task'[v] = task[v]
<1> USE DEF PoolInv
<1>1. PoolTypes /\ RestTypes /\ Queued \subseteq Shard
  BY PartsFromTypes
<1>2. /\ task[w] \in Shard /\ task[w] # NoTask
      /\ task[w] \notin Queued \cup requeuing \cup shards
      /\ attempts[task[w]] < MaxAttempts
      /\ \A v \in Worker : v # w => task[v] # task[w]
  BY <1>1 DEF PoolTypes, WorkersOK, Disjoint, AttemptLeft
<1>3. /\ pc' \in [Worker -> {"looping", "polling", "choosing", "asking", "sleeping", "gone"}]
      /\ task' \in [Worker -> Shard \cup {NoTask}]
      /\ asked' \in [Worker -> Provider \cup {NoProvider}]
      /\ pc'[w] = to /\ task'[w] = NoTask /\ asked'[w] = NoProvider
      /\ \A v \in Worker : v # w =>
            pc'[v] = pc[v] /\ task'[v] = task[v] /\ asked'[v] = asked[v]
  BY DropStep
<1>4. /\ taskQueue' \in Seq(Shard) /\ NoRepeat'
      /\ \/ /\ Queued' = Queued \cup {task[w]} /\ UNCHANGED <<requeuing, shards>>
         \/ /\ requeuing' = requeuing \cup {task[w]}
            /\ UNCHANGED shards /\ Queued' = Queued
         \/ /\ shards' = shards \cup {task[w]}
            /\ UNCHANGED requeuing /\ Queued' = Queued
  <2>1. CASE taskQueue' = Append(taskQueue, task[w]) /\ UNCHANGED <<requeuing, shards>>
    BY <1>1, <1>2, <2>1, QueueAppend DEF PoolTypes, Disjoint
  <2>2. CASE taskQueue' = taskQueue /\ \/ UNCHANGED requeuing \/ UNCHANGED shards
    <3>1. Queued' = Queued /\ NoRepeat' /\ taskQueue' \in Seq(Shard)
      BY <1>1, <2>2 DEF PoolTypes, Disjoint, NoRepeat, Queued
    <3>2. \A s \in Shard : Append(taskQueue, s) # taskQueue
      BY <1>1 DEF PoolTypes
    <3>3. QED
      BY <1>2, <2>2, <3>1, <3>2
  <2>3. QED
    BY <2>1, <2>2
<1>5. PoolTypes'
  BY <1>1, <1>2, <1>3, <1>4 DEF PoolTypes
<1>6. WorkersOK'
  BY <1>3 DEF WorkersOK, Holding
<1>7. Disjoint'
  <2>1. NoTask \notin Queued' \cup requeuing' \cup shards'
    BY <1>1, <1>2, <1>4 DEF PoolTypes, RestTypes
  <2>2. \A v \in Worker : task'[v] \notin Queued' \cup requeuing' \cup shards'
    BY <1>2, <1>3, <1>4, <2>1 DEF Disjoint
  <2>3. \A u, v \in Worker : task'[v] = task'[u] /\ task'[v] # NoTask => v = u
    BY <1>3 DEF Disjoint
  <2>4. Queued' \cap requeuing' = {} /\ (Queued' \cup requeuing') \cap shards' = {}
    BY <1>2, <1>4 DEF Disjoint
  <2>5. QED
    BY <1>4, <2>2, <2>3, <2>4 DEF Disjoint
<1>8. AttemptLeft'
  BY <1>2, <1>3, <1>4 DEF AttemptLeft
<1>9. QED
  BY <1>3, <1>4, <1>5, <1>6, <1>7, <1>8, TypesFromParts

\* What the worker does with its task in each of its last steps.
LEMMA HandOverSteps ==
    ASSUME PoolInv, NEW w \in Worker, PutBack(w) \/ ChunkArrives(w) \/ FetchFails(w)
    PROVE  /\ PoolInv'
           /\ Queued \subseteq Queued' /\ requeuing \subseteq requeuing'
           /\ shards \subseteq shards'
           /\ task[w] \in Queued' \cup requeuing' \cup shards'
           /\ pc'[w] \in {"looping", "gone"} /\ (pc'[w] = "gone" => Enough')
           /\ \A v \in Worker : v # w => pc'[v] = pc[v] /\ task'[v] = task[v]
           /\ attempts' = attempts
<1> USE DEF PoolInv
<1>1. PoolTypes /\ RestTypes /\ pc[w] \in Holding
  BY PartsFromTypes DEF PutBack, ChunkArrives, FetchFails, Holding
<1>2. task[w] \in Shard /\ task[w] \notin shards
  BY <1>1 DEF PoolTypes, WorkersOK, Disjoint
<1>3. PICK to \in {"looping", "gone"} :
           Drop(w, to) /\ (to = "gone" => ChunkArrives(w) /\ got' >= DataShards)
  BY DEF PutBack, ChunkArrives, FetchFails
<1>4. attempts' = attempts
  BY DEF PutBack, ChunkArrives, FetchFails
<1>5. RestTypes' /\ got' = Cardinality(shards')
  <2>1. CASE PutBack(w) 
    BY <1>1, <2>1 DEF PutBack, RestTypes
  <2>2. CASE FetchFails(w)
    <3>1. asked[w] \in Provider
      BY <1>1, <2>2 DEF FetchFails, PoolTypes, WorkersOK
    <3>2. QED
      BY <1>1, <2>2, <3>1 DEF FetchFails, RestTypes
  <2>3. CASE ChunkArrives(w)
    <3>1. IsFiniteSet(shards)
      BY <1>1, ShardFinite, FS_Subset DEF RestTypes
    <3>2. Cardinality(shards \cup {task[w]}) = Cardinality(shards) + 1
      BY <1>2, <3>1, FS_AddElement
    <3>3. QED
      BY <1>1, <1>2, <2>3, <3>2 DEF ChunkArrives, RestTypes
  <2>4. QED
    BY <2>1, <2>2, <2>3
<1>6. \/ /\ taskQueue' = Append(taskQueue, task[w])
         /\ UNCHANGED <<requeuing, shards>>
      \/ /\ requeuing' = requeuing \cup {task[w]}
         /\ UNCHANGED <<taskQueue, shards>>
      \/ /\ shards' = shards \cup {task[w]}
         /\ UNCHANGED <<taskQueue, requeuing>>
  BY DEF PutBack, ChunkArrives, FetchFails
<1>7. QED
  BY <1>1, <1>3, <1>4, <1>5, <1>6, HandOver DEF Enough

LEMMA RequeuePool ==
    ASSUME PoolInv, NEW s \in Shard, Requeue(s)
    PROVE  /\ PoolInv'
           /\ attempts'[s] > 0 /\ \A r \in Shard : r # s => attempts'[r] = attempts[r]
           /\ Queued' = Queued \cup {s} \/ (cancelled /\ Queued' = Queued)
<1> USE DEF PoolInv
<1>1. PoolTypes /\ RestTypes /\ Queued \subseteq Shard
  BY PartsFromTypes
<1>2. /\ s \in requeuing /\ requeuing' = requeuing \ {s}
      /\ attempts' = [attempts EXCEPT ![s] = @ + 1]
      /\ UNCHANGED <<outcome, cancelled, blacklisted, pc, task, asked, shards, got>>
  BY DEF Requeue
<1>3. attempts[s] < MaxAttempts /\ s \notin Queued /\ s \notin shards
      /\ \A w \in Worker : task[w] # s
  BY <1>2 DEF AttemptLeft, Disjoint
<1>4. /\ attempts' \in [Shard -> 0 .. MaxAttempts] /\ attempts'[s] > 0
      /\ \A r \in Shard : r # s => attempts'[r] = attempts[r]
  BY <1>1, <1>2, <1>3, Sizes DEF PoolTypes
<1>5. /\ taskQueue' \in Seq(Shard) /\ NoRepeat'
      /\ Queued' = Queued \cup {s} \/ (cancelled /\ Queued' = Queued)
  <2>1. CASE taskQueue' = Append(taskQueue, s)
    BY <1>1, <1>3, <2>1, QueueAppend DEF PoolTypes, Disjoint
  <2>2. CASE taskQueue' = taskQueue /\ cancelled
    BY <1>1, <2>2 DEF PoolTypes, Disjoint, NoRepeat, Queued
  <2>3. QED
    BY <2>1, <2>2 DEF Requeue
<1>6. PoolTypes' /\ RestTypes'
  BY <1>1, <1>2, <1>4, <1>5 DEF PoolTypes, RestTypes
<1>7. Disjoint'
  BY <1>2, <1>3, <1>5 DEF Disjoint
<1>8. AttemptLeft' /\ WorkersOK'
  BY <1>1, <1>2, <1>3, <1>4 DEF AttemptLeft, PoolTypes, WorkersOK
<1>9. QED
  BY <1>2, <1>4, <1>5, <1>6, <1>7, <1>8, TypesFromParts

\* The steps of others leave the pool alone.
LEMMA OtherPool ==
    ASSUME PoolInv, Finish \/ OtherReports \/ Cancel \/ UNCHANGED vars
    PROVE  PoolInv'
<1> USE DEF PoolInv
<1>1. PoolTypes /\ RestTypes
  BY PartsFromTypes
<1>2. UNCHANGED <<taskQueue, attempts, requeuing, pc, task, asked, shards, got>>
  BY DEF Finish, OtherReports, Cancel, vars, poolVars
<1>3. RestTypes'
  BY <1>1 DEF RestTypes, Finish, OtherReports, Cancel, vars, Candidates
<1>4. PoolTypes' /\ WorkersOK' /\ AttemptLeft'
  BY <1>1, <1>2 DEF PoolTypes, WorkersOK, AttemptLeft
<1>5. Disjoint'
  BY <1>2 DEF Disjoint, NoRepeat, Queued
<1>6. QED
  BY <1>2, <1>3, <1>4, <1>5, TypesFromParts DEF Disjoint

LEMMA NextPool ==
    ASSUME PoolInv, [Next]_vars
    PROVE  PoolInv'
<1>1. ASSUME NEW w \in Worker, WorkerStep(w)
      PROVE  PoolInv'
  BY <1>1, WalkPool, TakeTaskPool, ChoosePool, HandOverSteps DEF WorkerStep
<1>2. ASSUME NEW s \in Shard, Requeue(s)
      PROVE  PoolInv'
  BY <1>2, RequeuePool
<1>3. QED
  BY <1>1, <1>2, OtherPool DEF Next

LEMMA PoolCorrect == Spec => []PoolInv
<1>1. Init => PoolInv
  BY InitPool
<1>2. QED
  BY <1>1, NextPool, PTL DEF Spec

\* Every variable of the fetch keeps its type: the channel never holds more
\* than the Total tasks it has room for, and the atomic counter is the number of
\* chunks that have arrived, so that it never exceeds Total.
THEOREM TypeCorrect == Spec => []TypeOK
<1>1. PoolInv => TypeOK
  BY DEF PoolInv
<1>2. QED
  BY <1>1, PoolCorrect, PTL

----------------------------------------------------------------------------
(* No task is lost, and how the fetch ends                                  *)

\* The last worker to leave, if it was not sent away, has found the channel empty.
LEMMA WorkerEnd ==
    ASSUME PoolInv, PoolInv', EndInv, NEW w \in Worker, WorkerStep(w)
    PROVE  EndInv'
<1>1. PoolTypes /\ pc[w] # "gone" /\ ~AllGone
  BY PartsFromTypes DEF PoolInv, AllGone, WorkerStep, CheckCount, Leave, TakeTask,
     ChooseProvider, PutBack, ChunkArrives, FetchFails
<1>2. outcome = "fetching" /\ outcome' = "fetching" /\ cancelled' = cancelled
  BY <1>1 DEF EndInv, WorkerStep, CheckCount, Leave, TakeTask, ChooseProvider,
     PutBack, ChunkArrives, FetchFails
<1>3. ASSUME ~cancelled, NEW s \in Shard PROVE Somewhere(s)'
  <2>1. Somewhere(s)
    BY <1>3 DEF EndInv
  <2>2. CASE CheckCount(w) \/ Leave(w)
    <3>1. UNCHANGED <<taskQueue, attempts, requeuing, shards, task>>
      BY <2>2, WalkPool DEF CheckCount, Leave
    <3>2. QED
      BY <2>1, <3>1 DEF Somewhere, Queued, Held
  <2>3. CASE TakeTask(w)
    <3>1. task[w] = NoTask /\ UNCHANGED <<attempts, requeuing, shards>>
      BY <2>3 DEF TakeTask, PoolInv, WorkersOK, Holding
    <3>2. /\ Queued' = Queued \ {Head(taskQueue)}
          /\ attempts[Head(taskQueue)] >= MaxAttempts \/ task'[w] = Head(taskQueue)
          /\ \A v \in Worker : v # w => task'[v] = task[v]
      BY <2>3, TakeTaskPool
    <3>3. QED
      BY <2>1, <3>1, <3>2 DEF Somewhere, Held
  <2>4. CASE ChooseProvider(w)
    <3>1. UNCHANGED <<taskQueue, attempts, requeuing, shards, task>>
      BY <2>4 DEF ChooseProvider
    <3>2. QED
      BY <2>1, <3>1 DEF Somewhere, Queued, Held
  <2>5. CASE PutBack(w) \/ ChunkArrives(w) \/ FetchFails(w)
    <3>1. /\ Queued \subseteq Queued' /\ requeuing \subseteq requeuing'
          /\ shards \subseteq shards' /\ attempts' = attempts
          /\ task[w] \in Queued' \cup requeuing' \cup shards'
          /\ \A v \in Worker : v # w => pc'[v] = pc[v] /\ task'[v] = task[v]
      BY <2>5, HandOverSteps
    <3>2. QED
      BY <2>1, <3>1 DEF Somewhere, Held
  <2>6. QED
    BY <2>2, <2>3, <2>4, <2>5 DEF WorkerStep
<1>4. ASSUME AllGone', ~cancelled, ~Enough', NEW s \in Shard
      PROVE  s \in shards' \/ Failed(s)'
  <2>1. pc'[w] = "gone"
    BY <1>4 DEF AllGone
  <2>2. ~TakeTask(w) /\ ~ChooseProvider(w)
    BY <2>1, TakeTaskPool, ChoosePool
  <2>3. ~(PutBack(w) \/ ChunkArrives(w) \/ FetchFails(w))
    BY <1>4, <2>1, HandOverSteps
  <2>4. ~CheckCount(w)
    BY <1>1, <1>4, <2>1 DEF CheckCount, Drop, PoolTypes, Enough
  <2>5. Leave(w)
    BY <2>2, <2>3, <2>4 DEF WorkerStep
  <2>6. /\ taskQueue = <<>> /\ UNCHANGED <<attempts, requeuing, shards>>
        /\ task' = task
    BY <1>4, <2>5, WalkPool DEF Leave
  <2>7. s \notin Queued /\ ~Held(s)
    <3>1. \A v \in Worker : task'[v] = NoTask
      BY <1>4 DEF AllGone, PoolInv, WorkersOK, Holding
    <3>2. QED
      BY <2>6, <3>1 DEF Held, Queued
  <2>8. s \in shards \/ attempts[s] >= MaxAttempts \/ s \in requeuing
    BY <1>4, <2>7 DEF EndInv, Somewhere
  <2>9. attempts[s] >= MaxAttempts => attempts[s] > 0
    BY <1>1, Sizes DEF PoolTypes
  <2>10. QED
    BY <2>6, <2>8, <2>9 DEF Failed
<1>5. QED
  BY <1>2, <1>3, <1>4 DEF EndInv

\* A shard that has failed once keeps the trace of it.
LEMMA RequeueEnd ==
    ASSUME PoolInv, EndInv, NEW s \in Shard, Requeue(s)
    PROVE  EndInv'
<1>1. /\ s \in requeuing /\ requeuing' = requeuing \ {s}
      /\ UNCHANGED <<outcome, cancelled, pc, task, shards, got>>
  BY DEF Requeue
<1>2. /\ attempts'[s] > 0 /\ \A r \in Shard : r # s => attempts'[r] = attempts[r]
      /\ Queued' = Queued \cup {s} \/ (cancelled /\ Queued' = Queued)
  BY RequeuePool
<1>3. ASSUME NEW r \in Shard, Failed(r) PROVE Failed(r)'
  BY <1>1, <1>2, <1>3 DEF Failed
<1>4. ASSUME ~cancelled, NEW r \in Shard PROVE Somewhere(r)'
  <2>1. Somewhere(r) /\ Queued' = Queued \cup {s}
    BY <1>2, <1>4 DEF EndInv
  <2>2. QED
    BY <1>1, <1>2, <2>1 DEF Somewhere, Held
<1>5. QED
  BY <1>1, <1>3, <1>4 DEF EndInv, AllGone, Enough

LEMMA OtherEnd ==
    ASSUME EndInv, Finish \/ OtherReports \/ Cancel \/ UNCHANGED vars
    PROVE  EndInv'
<1>1. UNCHANGED <<taskQueue, attempts, requeuing, pc, task, shards, got>>
  BY DEF Finish, OtherReports, Cancel, vars, poolVars
<1>2. /\ \A s \in Shard : Somewhere(s)' <=> Somewhere(s)
      /\ \A s \in Shard : Failed(s)' <=> Failed(s)
      /\ AllGone' <=> AllGone
      /\ Enough' <=> Enough
  BY <1>1 DEF Somewhere, Queued, Held, Failed, AllGone, Enough
<1>3. CASE Finish
  <2>1. AllGone /\ outcome = "fetching"
    BY <1>3 DEF Finish, AllGone
  <2>2. cancelled => cancelled'
    BY <1>3 DEF Finish
  <2>3. outcome' = "short" => ~Enough /\ ~cancelled
    BY <1>3 DEF Finish
  <2>4. outcome' # "fetching"
    BY <1>3 DEF Finish
  <2>5. QED
    BY <1>1, <1>2, <2>1, <2>2, <2>3, <2>4 DEF EndInv
<1>4. CASE OtherReports \/ Cancel \/ UNCHANGED vars
  <2>1. outcome' = outcome /\ (cancelled => cancelled')
    BY <1>4 DEF OtherReports, Cancel, vars
  <2>2. QED
    BY <1>1, <1>2, <2>1 DEF EndInv
<1>5. QED
  BY <1>3, <1>4

LEMMA NextEnd ==
    ASSUME PoolInv, PoolInv', EndInv, [Next]_vars
    PROVE  EndInv'
<1>1. ASSUME NEW w \in Worker, WorkerStep(w)
      PROVE  EndInv'
  BY <1>1, WorkerEnd
<1>2. ASSUME NEW s \in Shard, Requeue(s)
      PROVE  EndInv'
  BY <1>2, RequeueEnd
<1>3. QED
  BY <1>1, <1>2, OtherEnd DEF Next

LEMMA FetchCorrect == Spec => [](PoolInv /\ EndInv)
<1>1. Init => PoolInv /\ EndInv
  BY InitPool
<1>2. PoolInv /\ EndInv /\ [Next]_vars => (PoolInv /\ EndInv)'
  BY NextPool, NextEnd
<1>3. QED
  BY <1>1, <1>2, PTL DEF Spec

\* A task is counted once, wherever it is.
LEMMA OnePlace ==
    ASSUME PoolInv, EndInv
    PROVE  TasksAccounted
<1> SUFFICES ASSUME NEW s \in Shard
             PROVE  \/ Places(s) = 1 /\ s \notin shards
                    \/ /\ Places(s) = 0
                       /\ s \in shards \/ cancelled \/ attempts[s] >= MaxAttempts
  BY DEF TasksAccounted
<1> DEFINE W == {w \in Worker : task[w] = s}
           Q == {i \in DOMAIN taskQueue : taskQueue[i] = s}
           R == requeuing \cap {s}
<1>1. DOMAIN taskQueue = 1 .. Len(taskQueue)
  BY DEF PoolInv, TypeOK
<1>2. /\ s \in Queued <=> Q # {}
      /\ Held(s) <=> W # {}
      /\ s \in requeuing <=> R # {}
  BY <1>1 DEF Queued, Held
<1>3. /\ ~(s \in Queued /\ s \in requeuing)
      /\ ~(Held(s) /\ (s \in Queued \/ s \in requeuing))
      /\ s \in shards => s \notin Queued /\ s \notin requeuing /\ ~Held(s)
  BY DEF PoolInv, Disjoint, Held
<1>4. Cardinality(W) = IF Held(s) THEN 1 ELSE 0
  <2>1. CASE Held(s)
    <3>1. PICK w \in Worker : task[w] = s
      BY <2>1 DEF Held
    <3>2. W = {w}
      BY <3>1 DEF PoolInv, Disjoint
    <3>3. QED
      BY <2>1, <3>2, FS_Singleton
  <2>2. CASE ~Held(s)
    BY <1>2, <2>2, FS_EmptySet
  <2>3. QED
    BY <2>1, <2>2
<1>5. Cardinality(Q) = IF s \in Queued THEN 1 ELSE 0
  <2>1. CASE s \in Queued
    <3>1. PICK i \in 1 .. Len(taskQueue) : taskQueue[i] = s
      BY <2>1 DEF Queued
    <3>2. Q = {i}
      BY <1>1, <3>1 DEF PoolInv, Disjoint, NoRepeat
    <3>3. QED
      BY <2>1, <3>2, FS_Singleton
  <2>2. CASE s \notin Queued
    BY <1>2, <2>2, FS_EmptySet
  <2>3. QED
    BY <2>1, <2>2
<1>6. Cardinality(R) = IF s \in requeuing THEN 1 ELSE 0
  <2>1. CASE s \in requeuing
    BY <2>1, FS_Singleton, R = {s}
  <2>2. CASE s \notin requeuing
    BY <2>2, FS_EmptySet, R = {}
  <2>3. QED
    BY <2>1, <2>2
<1>7. Places(s) = Cardinality(Q) + Cardinality(W) + Cardinality(R)
  BY DEF Places
<1>8. CASE s \in Queued \/ s \in requeuing \/ Held(s)
  BY <1>3, <1>4, <1>5, <1>6, <1>7, <1>8
<1>9. CASE ~(s \in Queued \/ s \in requeuing \/ Held(s))
  BY <1>4, <1>5, <1>6, <1>7, <1>9 DEF EndInv, Somewhere
<1>10. QED
  BY <1>8, <1>9

\* Unless the run is cancelled the task of every missing shard is in exactly one
\* place, or has used up its attempts; the task of one that has arrived is gone.
THEOREM NoTaskLost == Spec => []TasksAccounted
  BY FetchCorrect, OnePlace, PTL

\* A task that is outside the channel leaves room for it.
LEMMA RoomForSender ==
    ASSUME PoolInv, requeuing # {} \/ (\E w \in Worker : pc[w] = "sleeping")
    PROVE  Len(taskQueue) < Total
<1>1. PICK s \in Shard : s \notin Queued
  <2>1. CASE requeuing # {}
    BY <2>1 DEF PoolInv, TypeOK, Disjoint
  <2>2. CASE \E w \in Worker : pc[w] = "sleeping"
    <3>1. PICK w \in Worker : pc[w] = "sleeping"
      BY <2>2
    <3>2. task[w] \in Shard /\ task[w] \notin Queued
      BY <3>1 DEF PoolInv, TypeOK, WorkersOK, Holding, Disjoint
    <3>3. QED
      BY <3>2
  <2>3. QED
    BY <2>1, <2>2
<1> DEFINE q == Append(taskQueue, s)
<1>2. /\ q \in Seq(Shard) /\ Len(q) = Len(taskQueue) + 1 /\ Len(taskQueue) \in Nat
      /\ q[Len(taskQueue) + 1] = s
      /\ \A i \in 1 .. Len(taskQueue) : q[i] = taskQueue[i]
  BY DEF PoolInv, TypeOK
<1> HIDE DEF q
<1>3. ASSUME NEW i \in 1 .. Len(q), NEW j \in 1 .. Len(q), q[i] = q[j]
      PROVE  i = j
  <2>1. \A n \in 1 .. Len(q) : n = Len(taskQueue) + 1 \/ n \in 1 .. Len(taskQueue)
    BY <1>2
  <2>2. \A n \in 1 .. Len(taskQueue) : q[n] # s
    BY <1>1, <1>2 DEF Queued
  <2>3. QED
    BY <1>2, <1>3, <2>1, <2>2 DEF PoolInv, Disjoint, NoRepeat
<1>4. Len(q) <= Total
  BY <1>2, <1>3, QueueBound
<1>5. QED
  BY <1>2, <1>4, Sizes

\* Whoever is about to send a task to the channel finds room for it: the send
\* of a worker without a provider, which has no way out, does not block.
THEOREM ChannelHasRoom ==
    Spec => [](requeuing # {} \/ (\E w \in Worker : pc[w] = "sleeping")
                  => Len(taskQueue) < Total)
  BY PoolCorrect, RoomForSender, PTL

\* What has not arrived when the workers have left has failed.
LEMMA FailuresCounted ==
    ASSUME PoolInv, EndInv, outcome = "short"
    PROVE  Cardinality({s \in Shard : Failed(s)}) > ParityShards
<1> DEFINE F == {s \in Shard : Failed(s)}
<1>1. shards \subseteq Shard /\ Cardinality(shards) < DataShards
  <2>1. got \in Nat /\ got = Cardinality(shards) /\ ~Enough
    BY Sizes DEF PoolInv, TypeOK, EndInv
  <2>2. QED
    BY <2>1, Sizes DEF Enough, PoolInv, TypeOK
<1>2. Shard \ shards \subseteq F /\ F \subseteq Shard
  BY DEF EndInv
<1>3. /\ IsFiniteSet(Shard) /\ IsFiniteSet(F) /\ IsFiniteSet(shards)
      /\ IsFiniteSet(Shard \ shards)
  BY <1>1, <1>2, ShardFinite, FS_Subset
<1>4. Cardinality(Shard \ shards) = Total - Cardinality(shards)
  <2>1. Cardinality(Shard \ shards) = Cardinality(Shard) - Cardinality(Shard \cap shards)
    BY <1>3, FS_Difference
  <2>2. Shard \cap shards = shards
    BY <1>1
  <2>3. QED
    BY <2>1, <2>2, ShardFinite
<1>5. Cardinality(Shard \ shards) <= Cardinality(F)
  BY <1>2, <1>3, FS_Subset
<1>6. Cardinality(F) \in Nat /\ Cardinality(shards) \in Nat
  BY <1>3, FS_CardinalityType
<1>7. QED
  BY <1>1, <1>4, <1>5, <1>6, Sizes

\* A segment ends short only when the fetches of more shards have failed than
\* there are parity shards, although the workers do not wait for tasks that are
\* on their way back.
THEOREM ShortExplained == Spec => []ShortForAReason
<1>1. PoolInv /\ EndInv => ShortForAReason
  BY FailuresCounted DEF ShortForAReason
<1> QED
  BY <1>1, FetchCorrect, PTL

----------------------------------------------------------------------------
(* The contract                                                             *)

LEMMA ContractStep ==
    ASSUME PoolInv, PoolInv', EndInv, [Next]_vars
    PROVE  [Contract!Next]_Contract!vars
<1> USE DEF Contract!Next, Contract!vars
<1>1. ASSUME NEW w \in Worker, WorkerStep(w)
      PROVE  [Contract!Next]_Contract!vars
  <2>1. CASE ChunkArrives(w)
    <3>1. /\ shards' = shards \cup {task[w]} /\ UNCHANGED <<outcome, cancelled>>
          /\ pc[w] = "asking"
      BY <2>1 DEF ChunkArrives
    <3>2. outcome = "fetching" /\ task[w] \in Shard \ shards
      BY <3>1 DEF EndInv, AllGone, PoolInv, TypeOK, WorkersOK, Holding, Disjoint
    <3>3. Contract!Collect
      BY <3>1, <3>2 DEF Contract!Collect
    <3>4. QED
      BY <3>3
  <2>2. CASE ~ChunkArrives(w)
    <3>1. UNCHANGED <<outcome, shards, cancelled>>
      BY <1>1, <2>2 DEF WorkerStep, CheckCount, Leave, TakeTask, ChooseProvider,
         PutBack, FetchFails
    <3>2. QED
      BY <3>1
  <2>3. QED
    BY <2>1, <2>2
<1>2. ASSUME NEW s \in Shard, Requeue(s)
      PROVE  [Contract!Next]_Contract!vars
  BY <1>2 DEF Requeue
<1>3. CASE Finish
  <2>1. Cardinality(shards) = Contract!Cardinality(shards)
    BY Zenon DEF Cardinality, Contract!Cardinality, IsFiniteSet, Contract!IsFiniteSet
  <2>2. Enough <=> Contract!Enough
    BY <2>1 DEF Enough, Contract!Enough, PoolInv
  <2>3. Contract!End
    BY <1>3, <2>2 DEF Finish, Contract!End
  <2>4. QED
    BY <2>3
<1>4. CASE Cancel
  BY <1>4 DEF Cancel, Contract!Cancel
<1>5. CASE OtherReports \/ UNCHANGED vars
  BY <1>5 DEF OtherReports, vars
<1>6. QED
  BY <1>1, <1>2, <1>3, <1>4, <1>5 DEF Next

\* Every step of the pool is a step that the rest of RunV2 expects of a segment,
\* or none: distinct chunks are collected, and the end is the right one of the
\* three.  (That the end comes is the liveness half of FetchContract.)
THEOREM KeepsContract == Spec => Contract!Init /\ [][Contract!Next]_Contract!vars
<1>1. Init => Contract!Init
  BY DEF Init, Contract!Init
<1>2. PoolInv /\ EndInv /\ (PoolInv /\ EndInv)' /\ [Next]_vars
        => [Contract!Next]_Contract!vars
  BY ContractStep
<1>3. QED
  BY <1>1, <1>2, FetchCorrect, PTL DEF Spec
=============================================================================
