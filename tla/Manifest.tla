----------------------------- MODULE Manifest ------------------------------
(***************************************************************************)
(* The manifest of a file (manifest/manifest.go): how the file is cut into *)
(* shards, and the hashes that the file and its shards have to have.  A    *)
(* hash is whatever tells two contents apart; Unset stands for the zero    *)
(* value of a field that JSON leaves out.  Names, paths and hex digits are *)
(* left out but for how many shard paths and hashes there are.             *)
(***************************************************************************)
EXTENDS Integers

maxShardCount == 256
maxBlockSize  == 67108864

\* The zero value of a string, and of a list of hashes.
Unset == ""

\* NewManifest, for a file of `size` bytes whose hash is `sum`.
NewManifest(size, k, m, blockSize, sum, hashes) ==
    [Version |-> "2", FileSize |-> size, OriginalSize |-> size,
     DataShards |-> k, ParityShards |-> m, MinShards |-> k,
     BlockSize |-> blockSize, Sha256 |-> sum,
     ShardPaths |-> k + m, ShardHashes |-> hashes, Hashes |-> k + m]

\* What json.Unmarshal makes of an object without any field of a manifest.
ZeroManifest ==
    [Version |-> Unset, FileSize |-> 0, OriginalSize |-> 0,
     DataShards |-> 0, ParityShards |-> 0, MinShards |-> 0,
     BlockSize |-> 0, Sha256 |-> Unset, ShardPaths |-> 0, ShardHashes |-> Unset, Hashes |-> 0]

Validate(mf) ==
    /\ mf.Version \in {"1", "2"}
    /\ mf.FileSize >= 0
    /\ mf.OriginalSize >= 0 /\ mf.OriginalSize = mf.FileSize
    /\ mf.DataShards > 0 /\ mf.ParityShards > 0
    /\ mf.DataShards + mf.ParityShards <= maxShardCount
    /\ mf.MinShards = mf.DataShards
    /\ mf.BlockSize > 0 /\ mf.BlockSize <= maxBlockSize
    /\ mf.Sha256 # Unset
    /\ mf.ShardPaths = mf.DataShards + mf.ParityShards
    /\ mf.Version = "2" => mf.Hashes = mf.DataShards + mf.ParityShards
============================================================================
