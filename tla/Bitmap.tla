------------------------------ MODULE Bitmap -------------------------------
(***************************************************************************)
(* The bitmaps in which nodes tell each other what shards they hold        *)
(* (watchdog/bitmap.go) and what the pipeline makes of several of them     *)
(* (watchdog/aggregator.go).  A byte is the set of its bits that are 1.    *)
(***************************************************************************)
EXTENDS Integers

Byte == SUBSET (0 .. 7)

Width(totalShards) == (totalShards + 7) \div 8

\* BitmapFromShardIndices: indices out of range are skipped.
BitmapFromShardIndices(totalShards, indices) ==
    [b \in 0 .. Width(totalShards) - 1 |->
        {bit \in 0 .. 7 : b * 8 + bit \in indices /\ b * 8 + bit < totalShards}]

DecodeBitmap(bitmap) ==
    UNION {{b * 8 + bit : bit \in bitmap[b]} : b \in DOMAIN bitmap}

\* BuildNetworkState: a shard is available when some bitmap has it; bits past
\* the last shard are not looked at.
AvailableShards(totalShards, bitmaps) ==
    {i \in 0 .. totalShards - 1 : \E bm \in bitmaps : i \in DecodeBitmap(bm)}
============================================================================
