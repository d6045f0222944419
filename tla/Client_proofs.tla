--------------------------- MODULE Client_proofs ----------------------------
(***************************************************************************)
(* Proofs about uploads and downloads, for any number of goroutines,       *)
(* nodes, calls, edits and contents:                                       *)
(*   - the variables keep their types (TypeCorrect);                       *)
(*   - a download that reports success has the content that the file ID    *)
(*     names (DownloadsWhatIsNamed);                                       *)
(*   - a download in which nothing fails by itself fails for a reason      *)
(*     (FailsForAReason);                                                  *)
(*   - an undisturbed upload stores the file on every running node to      *)
(*     which no push of it has failed (UploadStoresFile).                  *)
(***************************************************************************)
EXTENDS Client, FiniteSetTheorems, TLAPS

----------------------------------------------------------------------------
(* The types of the variables, with every field of the records.             *)

ShardFile == [of : Content \cup {"nothing", "mixed"}, block : Nat]
ShardDir  == [Shard -> ShardFile]

AnyManifest ==
    [Version : {Unset, "1", "2"}, FileSize : Nat, OriginalSize : Nat, DataShards : Nat,
     ParityShards : Nat, MinShards : Nat, BlockSize : Nat, Sha256 : Content \cup {Unset},
     ShardPaths : Nat, ShardHashes : ShardDir \cup {Unset}, Hashes : Nat]

StoreEntry == [m : AnyManifest, text : {"whole", "empty", "garbled"}, shard : ShardDir]

LateRecord ==
    [to : Peer, id : Content, open : BOOLEAN, at : Shard \cup {ManifestAt},
     data : AnyManifest \cup ShardFile]

CallRecord ==
    [kind : {"none", "upload", "download"}, pc : UploadPhase \cup DownloadPhase \cup {"ended"},
     result : {"none", "ok", "err"}, peers : Seq(Peer), todo : Seq(Peer),
     file : Content \cup {Unset}, m : AnyManifest, block : Nat, size : Nat, step : Nat,
     have : SUBSET Shard, data : ShardFile, out : Content \cup {"nothing", "mixed"},
     edited : BOOLEAN, broken : BOOLEAN]

Typed ==
    /\ call \in [Slot -> CallRecord]
    /\ input \in Content
    /\ upDir \in [Content -> ShardDir] /\ dlDir \in [Content -> ShardDir]
    /\ store \in [Peer -> [Content -> StoreEntry]]
    /\ late \in SUBSET LateRecord
    /\ up \in SUBSET Peer
    /\ missed \in SUBSET (Peer \X Content)

----------------------------------------------------------------------------
(* What the local variables of a call promise by themselves.                *)

Named   == {"create", "write", "hash", "open", "fill", "push", "copy"}
Taken   == {"shards", "receive"}

USE DEF PreparePhase, PushPhase

PhaseOK(c) ==
    /\ c.pc \in UploadPhase => c.kind = "upload"
    /\ c.pc \in DownloadPhase => c.kind = "download"
    /\ c.pc # "ended" => c.result = "none"
    /\ c.pc \notin {"ended", "name"} => c.file \in Content
    /\ c.pc \in UploadPhase \cup {"fetch"} => c.todo # <<>>
    /\ c.pc \in UploadPhase => 0 < c.block /\ c.block <= maxBlockSize
    /\ c.pc \in UploadPhase \ {"push", "copy"} => c.step = 0
    /\ c.pc \in {"push", "copy", "receive"} => c.step \in Shard
    /\ c.pc \in UploadPhase \ PushPhase => c.todo = c.peers
    /\ c.pc = "fetch" => c.have = {}
    /\ c.pc = "receive" => c.step \notin c.have
    /\ \A k \in DOMAIN c.todo : \E j \in DOMAIN c.peers : c.peers[j] = c.todo[k]

NameOK(c) ==
    /\ c.pc \in Named => Validate(c.m) /\ c.m.Sha256 \in Content
    /\ c.pc \in Taken /\ Validate(c.m) => c.m.Sha256 = c.file
    /\ c.kind = "download" /\ c.result = "ok" => c.out = c.file

CallOK(c) == PhaseOK(c) /\ NameOK(c)

\* What a handler that is late has been given to write, and where.
LateOK(l) ==
    /\ l.at = ManifestAt =>
          l.data \in AnyManifest /\ (Validate(l.data) => l.data.Sha256 = l.id)
    /\ l.at # ManifestAt => l.data \in ShardFile
    /\ <<l.to, l.id>> \in missed

\* A manifest that passes for one is stored under the hash that it names.
StoreOK ==
    /\ \A p \in Peer, c \in Content : Validate(store[p][c].m) => store[p][c].m.Sha256 = c
    /\ \A l \in late : LateOK(l)

Inv == Typed /\ (\A s \in Slot : CallOK(call[s])) /\ StoreOK

----------------------------------------------------------------------------
(* What the histories record, and what a call that nothing of it happened   *)
(* to can rely on.                                                          *)

Recorded ==
    /\ \A s, t \in Slot : Overlaps(s, t) => s \in shared
    /\ \A s \in Slot : Lacks(s) => s \in lacking

\* A manifest of the file in the layout that the shards have.
Fits(m, c) ==
    /\ Validate(m) /\ m.FileSize = Size[c]
    /\ \A i \in Shard : m.ShardHashes[i] = ShardOf(c, m.BlockSize)
    /\ \A i \in Shard : ShardOf(c, m.BlockSize) # Nothing

InTodo(c, p) == \E k \in DOMAIN c.todo : c.todo[k] = p

\* A download in which nothing failed and that all its nodes could serve all the
\* time.
DownloadOK(s) ==
    call[s].kind = "download" /\ s \notin lacking /\ ~call[s].broken =>
        /\ call[s].pc = "fetch" => \A p \in Providers(s) : InTodo(call[s], p)
        /\ call[s].pc \in Taken =>
              /\ Fits(call[s].m, call[s].file)
              /\ \A p \in Providers(s) :
                    store[p][call[s].file].m.BlockSize = call[s].m.BlockSize
              /\ s \notin shared => \A i \in call[s].have :
                    dlDir[call[s].file][i] = ShardOf(call[s].file, call[s].m.BlockSize)

FailureOK(s) ==
    call[s].kind = "download" /\ call[s].result = "err"
    => \/ call[s].broken \/ s \in lacking \/ s \in shared \/ Providers(s) = {}
       \/ Cardinality(Peer \ up) >= maxAttempts

DownloadsInv ==
    /\ Inv /\ Recorded
    /\ \A s \in Slot : DownloadOK(s) /\ FailureOK(s)

\* An upload that is alone with a file that nobody edits: what it has left at a
\* node, and at the node that it is at, unless a push of the file has failed there.
KeptOK(s, p) ==
    <<p, call[s].file>> \notin missed => InTodo(call[s], p) \/ Stored(p, call[s].file)

TargetOK(s) ==
    LET c == call[s]
        entry == store[Target(s)][c.file]
    IN  c.pc \in PushPhase /\ Target(s) \in up /\ <<Target(s), c.file>> \notin missed =>
        /\ c.pc = "fill" => entry.text = "empty"
        /\ c.pc \in {"push", "copy"} =>
              /\ entry.text = "whole" /\ entry.m = c.m
              /\ \A i \in Shard : i < c.step => entry.shard[i] = ShardOf(c.file, c.block)
        /\ c.pc = "copy" => /\ entry.shard[c.step] = Nothing
                            /\ c.data = ShardOf(c.file, c.block)

UploadOK(s) ==
    LET c == call[s]
        f == c.file
    IN  c.kind = "upload" /\ Running(s) /\ c.pc # "name" /\ ~c.edited /\ s \notin shared =>
        /\ Reads(s) => input = f
        /\ c.pc # "stat" => c.size = Size[f]
        /\ c.pc \in Named => c.m.FileSize = Size[f] /\ c.m.Sha256 = f /\ c.m.BlockSize = c.block
        /\ c.pc = "write" => \A i \in Shard : upDir[f][i] = Nothing
        /\ c.pc \in PushPhase \cup {"hash"} => \A i \in Shard : upDir[f][i] = ShardOf(f, c.block)
        /\ c.pc \in PushPhase => \A i \in Shard : c.m.ShardHashes[i] = ShardOf(f, c.block)
        /\ Size[f] > 0 => (\A p \in Providers(s) : KeptOK(s, p)) /\ TargetOK(s)

UploadsInv ==
    /\ Inv /\ Recorded
    /\ \A s \in Slot : UploadOK(s)

LEMMA ContentNames ==
    ASSUME NEW c \in Content
    PROVE  c # Unset /\ c # "nothing" /\ c # "mixed"
  BY SizeAssumption

LEMMA ConstantTypes ==
    /\ \A c \in Content :
          /\ Size[c] \in Nat
          /\ BlockSize(Size[c]) \in Nat
          /\ 0 < BlockSize(Size[c]) /\ BlockSize(Size[c]) <= maxBlockSize
    /\ maxBlockSize \in Nat /\ maxShardCount \in Nat
    /\ 0 \in Shard
    /\ NoShards \in ShardDir
    /\ ZeroManifest \in AnyManifest /\ ~Validate(ZeroManifest)
    /\ \A c \in Content, b \in Nat : ShardOf(c, b) \in ShardFile
<1>2. ASSUME NEW c \in Content
      PROVE  /\ Size[c] \in Nat
             /\ BlockSize(Size[c]) \in Nat
             /\ 0 < BlockSize(Size[c]) /\ BlockSize(Size[c]) <= maxBlockSize
  <2>1. Size[c] \in Nat
    BY SizeAssumption
  <2>2. ASSUME NEW n \in Nat
        PROVE  BlockSize(n) \in Nat /\ 0 < BlockSize(n) /\ BlockSize(n) <= maxBlockSize
    BY SMT DEF BlockSize, maxBlockSize
  <2>3. QED
    BY <2>1, <2>2
<1>3. 0 \in Shard
  BY ShardAssumption DEF Shard
<1>4. NoShards \in ShardDir
  BY DEF NoShards, ShardDir, ShardFile, Nothing
<1>5. ZeroManifest \in AnyManifest /\ ~Validate(ZeroManifest)
  BY DEF ZeroManifest, AnyManifest, Validate
<1>6. ASSUME NEW c \in Content, NEW b \in Nat PROVE ShardOf(c, b) \in ShardFile
  BY DEF ShardOf, ShardFile, Nothing
<1>7. maxBlockSize \in Nat /\ maxShardCount \in Nat
  BY SMT DEF maxBlockSize, maxShardCount
<1>8. QED
  BY <1>2, <1>3, <1>4, <1>5, <1>6, <1>7

\* What the passes over the file have found makes a manifest that is accepted.
LEMMA NewManifestValid ==
    ASSUME NEW n \in Nat, NEW b \in Nat, 0 < b, b <= maxBlockSize, NEW f \in Content,
           NEW m, m = NewManifest(n, DataShards, ParityShards, b, f, NoShards)
    PROVE  /\ m \in AnyManifest /\ Validate(m)
           /\ m.FileSize = n /\ m.Sha256 = f /\ m.BlockSize = b
<1>1. DataShards \in Nat /\ ParityShards \in Nat /\ DataShards > 0 /\ ParityShards > 0
      /\ DataShards + ParityShards \in Nat /\ DataShards + ParityShards <= maxShardCount
  BY ShardAssumption
<1>2. m \in AnyManifest
  BY <1>1, ConstantTypes DEF NewManifest, AnyManifest
<1>3. Validate(m)
  <2>1. /\ m.Version = "2" /\ m.FileSize = n /\ m.OriginalSize = n /\ m.MinShards = DataShards
        /\ m.DataShards = DataShards /\ m.ParityShards = ParityShards
        /\ m.ShardPaths = DataShards + ParityShards /\ m.Hashes = DataShards + ParityShards
        /\ m.BlockSize = b /\ m.Sha256 = f
    BY DEF NewManifest
  <2>2. f # Unset
    BY ContentNames
  <2>3. maxBlockSize \in Nat /\ maxShardCount \in Nat
    BY ConstantTypes
  <2> HIDE <1>2
  <2>4. QED
    BY <1>1, <2>1, <2>2, <2>3, SMT DEF Validate
<1>4. QED
  BY <1>2, <1>3 DEF NewManifest

\* A step of one call: the others stay as they are.
LEMMA OneCall ==
    ASSUME Inv, NEW s \in Slot, NEW r \in CallRecord, CallOK(r),
           call' = [call EXCEPT ![s] = r]
    PROVE  /\ call' \in [Slot -> CallRecord]
           /\ \A t \in Slot : CallOK(call'[t])
           /\ call'[s] = r /\ \A t \in Slot \ {s} : call'[t] = call[t]
<1>1. call \in [Slot -> CallRecord] /\ \A t \in Slot : CallOK(call[t])
  BY DEF Inv, Typed
<1>2. QED
  BY <1>1

\* The records that a call goes through, one lemma for each change of them.
LEMMA NoCallTyped == NoCall \in CallRecord
<1>1. /\ ZeroManifest \in AnyManifest /\ <<>> \in Seq(Peer) /\ Nothing \in ShardFile
      /\ "ended" \in UploadPhase \cup DownloadPhase \cup {"ended"}
      /\ {} \in SUBSET Shard /\ Unset \in Content \cup {Unset}
  BY ConstantTypes DEF Nothing, ShardFile
<1>2. QED
  BY <1>1 DEF NoCall, CallRecord

LEMMA BeginUploadCall ==
    ASSUME NEW f \in Content, NEW list \in PeerLists,
           NEW r, r = [NoCall EXCEPT !.kind = "upload", !.pc = "name", !.peers = list,
                         !.todo = list, !.block = BlockSize(Size[f])]
    PROVE  r \in CallRecord /\ CallOK(r)
<1>1. list \in Seq(Peer) /\ list # <<>>
  BY PeerAssumption
<1>2. r.kind = "upload" /\ r.pc = "name" /\ r.result = "none" /\ r.step = 0
      /\ r.todo = list /\ r.peers = list /\ r.block = BlockSize(Size[f])
  BY DEF NoCall
<1>3. r \in CallRecord
  <2>1. BlockSize(Size[f]) \in Nat
    BY ConstantTypes
  <2>2. QED
    BY <1>1, <2>1, NoCallTyped DEF CallRecord, UploadPhase
<1>4. PhaseOK(r)
  BY <1>1, <1>2, ConstantTypes DEF PhaseOK, UploadPhase, DownloadPhase, PushPhase
<1>5. NameOK(r)
  BY <1>2 DEF NameOK, Named, Taken
<1>6. QED
  BY <1>3, <1>4, <1>5 DEF CallOK

LEMMA NameCall ==
    ASSUME NEW c \in CallRecord, CallOK(c), c.pc = "name", NEW f \in Content
    PROVE  LET r == [c EXCEPT !.pc = "stat", !.file = f] IN r \in CallRecord /\ CallOK(r)
<1> DEFINE r == [c EXCEPT !.pc = "stat", !.file = f]
<1>1. PhaseOK(c) /\ NameOK(c)
  BY DEF CallOK
<1>2. r \in CallRecord
  BY <1>1 DEF CallRecord, UploadPhase, PreparePhase, PushPhase, DownloadPhase
<1>3. /\ r.kind = c.kind /\ r.pc = "stat" /\ r.file = f /\ r.result = c.result
      /\ r.peers = c.peers /\ r.todo = c.todo /\ r.block = c.block /\ r.step = c.step
      /\ r.have = c.have /\ r.m = c.m /\ r.out = c.out
  BY DEF CallRecord
<1> HIDE DEF r
<1>4. PhaseOK(r)
  BY <1>1, <1>3 DEF CallOK, PhaseOK, UploadPhase, DownloadPhase, PushPhase
<1>5. NameOK(r)
  BY <1>3 DEF CallOK, PhaseOK, NameOK, UploadPhase, DownloadPhase, Named, Taken
<1>6. QED
  BY <1>2, <1>3, <1>4, <1>5 DEF CallOK, r

LEMMA StatCall ==
    ASSUME NEW c \in CallRecord, CallOK(c), c.pc = "stat", NEW n \in Nat
    PROVE  LET r == [c EXCEPT !.pc = "sum", !.size = n] IN r \in CallRecord /\ CallOK(r)
<1> DEFINE r == [c EXCEPT !.pc = "sum", !.size = n]
<1>1. PhaseOK(c) /\ NameOK(c)
  BY DEF CallOK
<1>2. r \in CallRecord
  BY <1>1 DEF CallRecord, UploadPhase, DownloadPhase
<1>3. /\ r.kind = c.kind /\ r.pc = "sum" /\ r.file = c.file /\ r.result = c.result
      /\ r.peers = c.peers /\ r.todo = c.todo /\ r.block = c.block /\ r.step = c.step
      /\ r.have = c.have /\ r.m = c.m /\ r.out = c.out
  BY DEF CallRecord
<1> HIDE DEF r
<1>4. PhaseOK(r)
  BY <1>1, <1>3 DEF CallOK, PhaseOK, UploadPhase, DownloadPhase, PushPhase
<1>5. NameOK(r)
  BY <1>3 DEF CallOK, PhaseOK, NameOK, UploadPhase, DownloadPhase, Named, Taken
<1>6. QED
  BY <1>2, <1>3, <1>4, <1>5 DEF CallOK, r

LEMMA SumCall ==
    ASSUME NEW c \in CallRecord, CallOK(c), c.pc = "sum", NEW f \in Content
    PROVE  LET m == NewManifest(c.size, DataShards, ParityShards, c.block, f, NoShards)
               r == [c EXCEPT !.pc = "create", !.m = m]
           IN  r \in CallRecord /\ CallOK(r)
<1> DEFINE m == NewManifest(c.size, DataShards, ParityShards, c.block, f, NoShards)
           r == [c EXCEPT !.pc = "create", !.m = m]
<1>1. c.size \in Nat /\ c.block \in Nat /\ 0 < c.block /\ c.block <= maxBlockSize
  BY DEF CallRecord, CallOK, PhaseOK, UploadPhase
<1>2. m \in AnyManifest
  BY <1>1, NewManifestValid
<1>3. Validate(m) /\ m.Sha256 = f
  BY <1>1, NewManifestValid
<1> HIDE DEF m
<1>4. r \in CallRecord
  BY <1>2 DEF CallRecord, UploadPhase
<1>5. CallOK(r)
  BY <1>3 DEF CallRecord, CallOK, PhaseOK, NameOK, UploadPhase, DownloadPhase, PushPhase, Named, Taken
<1>6. QED
  BY <1>4, <1>5 DEF m


LEMMA CreateCall ==
    ASSUME NEW c \in CallRecord, CallOK(c), c.pc = "create"
    PROVE  LET r == [c EXCEPT !.pc = "write"] IN r \in CallRecord /\ CallOK(r)
<1> DEFINE r == [c EXCEPT !.pc = "write"]
<1>1. PhaseOK(c) /\ NameOK(c)
  BY DEF CallOK
<1>2. r \in CallRecord
  BY <1>1 DEF CallRecord, UploadPhase, DownloadPhase
<1>3. /\ r.kind = c.kind /\ r.pc = "write" /\ r.file = c.file /\ r.result = c.result
      /\ r.peers = c.peers /\ r.todo = c.todo /\ r.block = c.block /\ r.step = c.step
      /\ r.have = c.have /\ r.m = c.m /\ r.out = c.out
  BY DEF CallRecord
<1> HIDE DEF r
<1>4. PhaseOK(r)
  BY <1>1, <1>3 DEF CallOK, PhaseOK, UploadPhase, DownloadPhase, PushPhase
<1>5. NameOK(r)
  BY <1>3 DEF CallOK, PhaseOK, NameOK, UploadPhase, DownloadPhase, Named, Taken
<1>6. QED
  BY <1>2, <1>3, <1>4, <1>5 DEF CallOK, r

LEMMA WriteCall ==
    ASSUME NEW c \in CallRecord, CallOK(c), c.pc = "write"
    PROVE  LET r == [c EXCEPT !.pc = "hash"] IN r \in CallRecord /\ CallOK(r)
<1> DEFINE r == [c EXCEPT !.pc = "hash"]
<1>1. PhaseOK(c) /\ NameOK(c)
  BY DEF CallOK
<1>2. r \in CallRecord
  BY <1>1 DEF CallRecord, UploadPhase, DownloadPhase
<1>3. /\ r.kind = c.kind /\ r.pc = "hash" /\ r.file = c.file /\ r.result = c.result
      /\ r.peers = c.peers /\ r.todo = c.todo /\ r.block = c.block /\ r.step = c.step
      /\ r.have = c.have /\ r.m = c.m /\ r.out = c.out
  BY DEF CallRecord
<1> HIDE DEF r
<1>4. PhaseOK(r)
  BY <1>1, <1>3 DEF CallOK, PhaseOK, UploadPhase, DownloadPhase, PushPhase
<1>5. NameOK(r)
  BY <1>3 DEF CallOK, PhaseOK, NameOK, UploadPhase, DownloadPhase, Named, Taken
<1>6. QED
  BY <1>2, <1>3, <1>4, <1>5 DEF CallOK, r

\* The hashes of the shards do not enter into Validate.
LEMMA HashesFree ==
    ASSUME NEW x \in AnyManifest, NEW d \in ShardDir
    PROVE  LET y == [x EXCEPT !.ShardHashes = d]
           IN  /\ y \in AnyManifest
               /\ Validate(x) => Validate(y)
               /\ y.Sha256 = x.Sha256 /\ y.FileSize = x.FileSize /\ y.BlockSize = x.BlockSize
               /\ y.ShardHashes = d
<1> DEFINE y == [x EXCEPT !.ShardHashes = d]
<1>1. y \in AnyManifest
  BY DEF AnyManifest
<1>2. /\ y.Version = x.Version /\ y.FileSize = x.FileSize /\ y.OriginalSize = x.OriginalSize
      /\ y.DataShards = x.DataShards /\ y.ParityShards = x.ParityShards
      /\ y.MinShards = x.MinShards /\ y.BlockSize = x.BlockSize /\ y.Sha256 = x.Sha256
      /\ y.ShardPaths = x.ShardPaths /\ y.Hashes = x.Hashes /\ y.ShardHashes = d
  BY DEF AnyManifest
<1> HIDE DEF y
<1>3. Validate(x) => Validate(y)
  BY <1>2 DEF Validate
<1>4. QED
  BY <1>1, <1>2, <1>3 DEF y

LEMMA HashCall ==
    ASSUME NEW c \in CallRecord, CallOK(c), c.pc = "hash", NEW d \in ShardDir
    PROVE  LET r == [c EXCEPT !.m.ShardHashes = d, !.pc = "open"]
           IN  /\ r \in CallRecord /\ CallOK(r)
               /\ r.kind = c.kind /\ r.pc = "open" /\ r.file = c.file /\ r.edited = c.edited
               /\ r.peers = c.peers /\ r.todo = c.todo /\ r.size = c.size /\ r.block = c.block
               /\ r.m = [c.m EXCEPT !.ShardHashes = d]
<1> DEFINE y == [c.m EXCEPT !.ShardHashes = d]
           r == [c EXCEPT !.m = y, !.pc = "open"]
<1>1. [c EXCEPT !.m.ShardHashes = d, !.pc = "open"] = r
  BY DEF CallRecord
<1>2. c.m \in AnyManifest /\ Validate(c.m) /\ c.m.Sha256 \in Content
  BY DEF CallRecord, CallOK, NameOK, Named
<1>3. y \in AnyManifest /\ Validate(y) /\ y.Sha256 \in Content
  BY <1>2, HashesFree
<1> HIDE DEF y
<1>4. r \in CallRecord
  BY <1>3 DEF CallRecord, UploadPhase
<1>5. CallOK(r)
  BY <1>3 DEF CallRecord, CallOK, PhaseOK, NameOK, UploadPhase, DownloadPhase, PushPhase, Named, Taken
<1>6. /\ r.kind = c.kind /\ r.pc = "open" /\ r.file = c.file /\ r.edited = c.edited
      /\ r.peers = c.peers /\ r.todo = c.todo /\ r.size = c.size /\ r.block = c.block
      /\ r.m = y
  BY DEF CallRecord
<1>7. QED
  BY <1>1, <1>4, <1>5, <1>6 DEF y

LEMMA OpenCall ==
    ASSUME NEW c \in CallRecord, CallOK(c), c.pc = "open"
    PROVE  LET r == [c EXCEPT !.pc = "fill"] IN r \in CallRecord /\ CallOK(r)
<1> DEFINE r == [c EXCEPT !.pc = "fill"]
<1>1. PhaseOK(c) /\ NameOK(c)
  BY DEF CallOK
<1>2. r \in CallRecord
  BY <1>1 DEF CallRecord, UploadPhase, DownloadPhase
<1>3. /\ r.kind = c.kind /\ r.pc = "fill" /\ r.file = c.file /\ r.result = c.result
      /\ r.peers = c.peers /\ r.todo = c.todo /\ r.block = c.block /\ r.step = c.step
      /\ r.have = c.have /\ r.m = c.m /\ r.out = c.out
  BY DEF CallRecord
<1> HIDE DEF r
<1>4. PhaseOK(r)
  BY <1>1, <1>3 DEF CallOK, PhaseOK, UploadPhase, DownloadPhase, PushPhase
<1>5. NameOK(r)
  BY <1>3 DEF CallOK, PhaseOK, NameOK, UploadPhase, DownloadPhase, Named, Taken
<1>6. QED
  BY <1>2, <1>3, <1>4, <1>5 DEF CallOK, r

LEMMA FillCall ==
    ASSUME NEW c \in CallRecord, CallOK(c), c.pc \in {"open", "fill"}
    PROVE  LET r == [c EXCEPT !.pc = "push"] IN r \in CallRecord /\ CallOK(r)
<1> DEFINE r == [c EXCEPT !.pc = "push"]
<1>1. 0 \in Shard /\ c.step = 0
  BY ConstantTypes DEF CallOK, PhaseOK, UploadPhase
<1>2. r \in CallRecord
  BY <1>1 DEF CallRecord, UploadPhase, DownloadPhase
<1>3. /\ r.kind = c.kind /\ r.pc = "push" /\ r.file = c.file /\ r.result = c.result
      /\ r.peers = c.peers /\ r.todo = c.todo /\ r.block = c.block /\ r.step = c.step
      /\ r.have = c.have /\ r.m = c.m /\ r.out = c.out
  BY DEF CallRecord
<1> HIDE DEF r
<1>4. PhaseOK(r)
  BY <1>1, <1>3 DEF CallOK, PhaseOK, UploadPhase, DownloadPhase
<1>5. NameOK(r)
  BY <1>3 DEF CallOK, PhaseOK, NameOK, UploadPhase, DownloadPhase, Named, Taken
<1>6. QED
  BY <1>2, <1>3, <1>4, <1>5 DEF CallOK, r

LEMMA ShardCount ==
    /\ IsFiniteSet(Shard) /\ Cardinality(Shard) = DataShards + ParityShards
    /\ \A k \in Nat : k \in Shard <=> k < Cardinality(Shard)
<1>1. PICK t \in Nat : t > 0 /\ t = DataShards + ParityShards
  BY ShardAssumption
<1>2. Shard = 0 .. (t - 1)
  BY <1>1, ShardAssumption DEF Shard
<1>3. 0 \in Int /\ t - 1 \in Int /\ ~(0 > t - 1) /\ (t - 1) - 0 + 1 = t
  BY <1>1
<1>4. /\ IsFiniteSet(0 .. (t - 1))
      /\ Cardinality(0 .. (t - 1)) = IF 0 > t - 1 THEN 0 ELSE (t - 1) - 0 + 1
  BY <1>3, FS_Interval
<1>5. IsFiniteSet(Shard) /\ Cardinality(Shard) = t
  BY <1>2, <1>3, <1>4
<1>6. \A k \in Nat : k \in 0 .. (t - 1) <=> k < t
  BY <1>1
<1>7. QED
  BY <1>1, <1>2, <1>5, <1>6

\* The rest of the nodes are among the nodes.
LEMMA TailOfTodo ==
    ASSUME NEW q \in Seq(Peer), q # <<>>
    PROVE  /\ Head(q) \in Peer /\ Tail(q) \in Seq(Peer)
           /\ Len(q) \in Nat /\ (Len(q) > 1 <=> Tail(q) # <<>>)
           /\ 1 \in DOMAIN q /\ q[1] = Head(q)
           /\ \A k \in DOMAIN Tail(q) : k + 1 \in DOMAIN q /\ Tail(q)[k] = q[k + 1]
           /\ \A k \in DOMAIN q : k = 1 \/ (k - 1 \in DOMAIN Tail(q) /\ Tail(q)[k - 1] = q[k])
<1>1. /\ Len(q) \in Nat /\ Len(q) > 0 /\ DOMAIN q = 1 .. Len(q)
      /\ Head(q) \in Peer /\ q[1] = Head(q)
  OBVIOUS
<1>2. /\ Tail(q) \in Seq(Peer) /\ Len(Tail(q)) = Len(q) - 1
      /\ DOMAIN Tail(q) = 1 .. (Len(q) - 1)
  OBVIOUS
<1>3. \A k \in 1 .. (Len(q) - 1) : Tail(q)[k] = q[k + 1]
  OBVIOUS
<1>4. Len(q) > 1 <=> Tail(q) # <<>>
  BY <1>1, <1>2
<1>5. \A k \in DOMAIN Tail(q) : k + 1 \in DOMAIN q /\ Tail(q)[k] = q[k + 1]
  BY <1>1, <1>2, <1>3
<1>6. ASSUME NEW k \in DOMAIN q, k # 1
      PROVE  k - 1 \in DOMAIN Tail(q) /\ Tail(q)[k - 1] = q[k]
  <2>1. k - 1 \in 1 .. (Len(q) - 1) /\ (k - 1) + 1 = k
    BY <1>1, <1>6
  <2>2. Tail(q)[k - 1] = q[(k - 1) + 1]
    BY <1>3, <2>1
  <2>3. QED
    BY <1>2, <2>1, <2>2
<1>7. QED
  BY <1>1, <1>2, <1>4, <1>5, <1>6

LEMMA NextShardCall ==
    ASSUME NEW c \in CallRecord, CallOK(c), c.pc \in {"push", "copy"},
           c.step + 1 < Cardinality(Shard)
    PROVE  LET r == [c EXCEPT !.step = @ + 1, !.data = Nothing, !.pc = "push"]
           IN  r \in CallRecord /\ CallOK(r) /\ r.step = c.step + 1
<1> DEFINE r == [c EXCEPT !.step = @ + 1, !.data = Nothing, !.pc = "push"]
<1>1. c.step + 1 \in Shard /\ c.step + 1 \in Nat
  BY ShardCount DEF CallRecord
<1>2. r \in CallRecord
  <2>1. Nothing \in ShardFile
    BY DEF Nothing, ShardFile
  <2>2. QED
    BY <1>1, <2>1 DEF CallRecord, UploadPhase, DownloadPhase
<1>3. /\ r.kind = c.kind /\ r.pc = "push" /\ r.file = c.file /\ r.result = c.result
      /\ r.peers = c.peers /\ r.todo = c.todo /\ r.block = c.block /\ r.step = c.step + 1
      /\ r.have = c.have /\ r.m = c.m /\ r.out = c.out
  BY DEF CallRecord
<1> HIDE DEF r
<1>4. PhaseOK(r)
  BY <1>1, <1>3 DEF CallOK, PhaseOK, UploadPhase, DownloadPhase
<1>5. NameOK(r)
  BY <1>3 DEF CallOK, PhaseOK, NameOK, UploadPhase, DownloadPhase, Named, Taken
<1>6. QED
  BY <1>2, <1>3, <1>4, <1>5 DEF CallOK, r

LEMMA NextPeerCall ==
    ASSUME NEW c \in CallRecord, CallOK(c), c.pc \in {"push", "copy"}, Len(c.todo) > 1
    PROVE  LET r == [c EXCEPT !.step = 0, !.data = Nothing, !.todo = Tail(@), !.pc = "open"]
           IN  r \in CallRecord /\ CallOK(r)
<1> DEFINE r == [c EXCEPT !.step = 0, !.data = Nothing, !.todo = Tail(@), !.pc = "open"]
<1>1. c.todo \in Seq(Peer) /\ c.todo # <<>>
  BY DEF CallRecord, CallOK, PhaseOK, UploadPhase
<1>2. /\ Tail(c.todo) \in Seq(Peer) /\ Tail(c.todo) # <<>>
      /\ \A k \in DOMAIN Tail(c.todo) : k + 1 \in DOMAIN c.todo /\ Tail(c.todo)[k] = c.todo[k + 1]
  BY <1>1, TailOfTodo
<1>3. r \in CallRecord
  <2>1. Nothing \in ShardFile
    BY DEF Nothing, ShardFile
  <2>2. QED
    BY <1>2, <2>1 DEF CallRecord, UploadPhase
<1>4. /\ r.kind = c.kind /\ r.pc = "open" /\ r.file = c.file /\ r.result = c.result
      /\ r.peers = c.peers /\ r.todo = Tail(c.todo) /\ r.block = c.block /\ r.step = 0 /\ r.m = c.m
  BY DEF CallRecord
<1> HIDE DEF r
<1>5. \A k \in DOMAIN r.todo : \E j \in DOMAIN r.peers : r.peers[j] = r.todo[k]
  BY <1>2, <1>4 DEF CallOK, PhaseOK
<1>6. PhaseOK(r)
  BY <1>2, <1>4, <1>5 DEF CallOK, PhaseOK, UploadPhase, DownloadPhase, PushPhase
<1>7. NameOK(r)
  BY <1>4 DEF CallOK, PhaseOK, NameOK, Named, Taken, UploadPhase
<1>8. QED
  BY <1>3, <1>6, <1>7 DEF CallOK, r

LEMMA SendCall ==
    ASSUME NEW c \in CallRecord, CallOK(c), c.pc = "push", NEW d \in ShardFile
    PROVE  LET r == [c EXCEPT !.pc = "copy", !.data = d] IN r \in CallRecord /\ CallOK(r)
<1> DEFINE r == [c EXCEPT !.pc = "copy", !.data = d]
<1>1. PhaseOK(c) /\ NameOK(c)
  BY DEF CallOK
<1>2. r \in CallRecord
  BY <1>1 DEF CallRecord, UploadPhase, DownloadPhase
<1>3. /\ r.kind = c.kind /\ r.pc = "copy" /\ r.file = c.file /\ r.result = c.result
      /\ r.peers = c.peers /\ r.todo = c.todo /\ r.block = c.block /\ r.step = c.step
      /\ r.have = c.have /\ r.m = c.m /\ r.out = c.out
  BY DEF CallRecord
<1> HIDE DEF r
<1>4. PhaseOK(r)
  BY <1>1, <1>3 DEF CallOK, PhaseOK, UploadPhase, DownloadPhase
<1>5. NameOK(r)
  BY <1>3 DEF CallOK, PhaseOK, NameOK, UploadPhase, DownloadPhase, Named, Taken
<1>6. QED
  BY <1>2, <1>3, <1>4, <1>5 DEF CallOK, r

LEMMA UploadedCall == Uploaded \in CallRecord /\ CallOK(Uploaded)
<1>1. /\ Uploaded.kind = "upload" /\ Uploaded.pc = "ended" /\ Uploaded.result = "ok"
      /\ Uploaded.todo = <<>>
  BY DEF Uploaded, NoCall
<1>2. Uploaded \in CallRecord
  BY NoCallTyped DEF Uploaded, CallRecord
<1>3. CallOK(Uploaded)
  BY <1>1 DEF CallOK, PhaseOK, NameOK, UploadPhase, DownloadPhase, PushPhase, Named, Taken
<1>4. QED
  BY <1>2, <1>3

\* What an upload leaves that could not prepare its shards.
LEMMA NotUploadedCall ==
    LET r == [NoCall EXCEPT !.kind = "upload", !.result = "err"]
    IN  r \in CallRecord /\ CallOK(r)
<1> DEFINE r == [NoCall EXCEPT !.kind = "upload", !.result = "err"]
<1>1. r.kind = "upload" /\ r.pc = "ended" /\ r.todo = <<>>
  BY DEF NoCall
<1>2. r \in CallRecord
  BY NoCallTyped DEF CallRecord
<1> HIDE DEF r
<1>3. CallOK(r)
  BY <1>1 DEF CallOK, PhaseOK, NameOK, UploadPhase, DownloadPhase, Named, Taken
<1>4. QED
  BY <1>2, <1>3 DEF r

LEMMA BeginDownloadCall ==
    ASSUME NEW f \in Content, NEW list \in PeerLists,
           NEW r, r = [NoCall EXCEPT !.kind = "download", !.pc = "fetch", !.file = f,
                         !.peers = list, !.todo = list]
    PROVE  r \in CallRecord /\ CallOK(r)
<1>1. list \in Seq(Peer) /\ list # <<>>
  BY PeerAssumption
<1>2. r.kind = "download" /\ r.pc = "fetch" /\ r.file = f /\ r.result = "none" /\ r.have = {}
      /\ r.todo = list /\ r.peers = list
  BY DEF NoCall
<1>3. r \in CallRecord
  BY <1>1, NoCallTyped DEF CallRecord, DownloadPhase
<1>4. PhaseOK(r)
  BY <1>1, <1>2 DEF PhaseOK, UploadPhase, DownloadPhase, PushPhase
<1>5. NameOK(r)
  BY <1>2 DEF NameOK, Named, Taken
<1>6. QED
  BY <1>3, <1>4, <1>5 DEF CallOK

\* The end of a download.  One that reports success has compared its output with
\* the file ID.
LEMMA ReturnedCall ==
    ASSUME NEW c \in CallRecord, c.pc \in DownloadPhase, CallOK(c),
           NEW d \in Content \cup {"nothing", "mixed"}, NEW v \in {"ok", "err"},
           v = "ok" => d = c.file,
           NEW r, r = Returned(c, d, v)
    PROVE  /\ r \in CallRecord /\ CallOK(r)
           /\ r.kind = "download" /\ c.kind = "download" /\ r.pc = "ended"
           /\ r.file = c.file /\ r.peers = c.peers
           /\ r.broken = c.broken /\ r.out = d /\ r.result = v
<1>1. c.kind = "download"
  BY DEF CallOK, PhaseOK
<1>2. /\ r.kind = "download" /\ r.pc = "ended" /\ r.file = c.file /\ r.peers = c.peers
      /\ r.broken = c.broken /\ r.out = d /\ r.result = v /\ r.todo = <<>>
  BY DEF Returned, NoCall
<1>3. r \in CallRecord
  BY NoCallTyped DEF Returned, CallRecord
<1>4. CallOK(r)
  BY <1>2 DEF CallOK, PhaseOK, NameOK, UploadPhase, DownloadPhase, Named, Taken
<1>5. QED
  BY <1>1, <1>2, <1>3, <1>4

\* Something fails in a download.
LEMMA BrokenCall ==
    ASSUME NEW c \in CallRecord, CallOK(c),
           NEW r, r = [c EXCEPT !.broken = TRUE]
    PROVE  /\ r \in CallRecord /\ CallOK(r) /\ r.broken
           /\ r.kind = c.kind /\ r.pc = c.pc /\ r.file = c.file /\ r.peers = c.peers
           /\ r.todo = c.todo /\ r.m = c.m /\ r.have = c.have /\ r.step = c.step
<1>1. r \in CallRecord
  BY DEF CallRecord
<1>2. /\ r.kind = c.kind /\ r.pc = c.pc /\ r.file = c.file /\ r.result = c.result /\ r.out = c.out
      /\ r.peers = c.peers /\ r.todo = c.todo /\ r.block = c.block /\ r.step = c.step /\ r.m = c.m
      /\ r.have = c.have /\ r.broken = TRUE
  BY DEF CallRecord
<1>3. CallOK(r)
  BY <1>2 DEF CallOK, PhaseOK, NameOK
<1>4. QED
  BY <1>1, <1>2, <1>3

LEMMA AskNextCall ==
    ASSUME NEW c \in CallRecord, CallOK(c), c.pc = "fetch", Len(c.todo) > 1
    PROVE  LET r == [c EXCEPT !.todo = Tail(@)] IN r \in CallRecord /\ CallOK(r)
<1> DEFINE r == [c EXCEPT !.todo = Tail(@)]
<1>1. c.todo \in Seq(Peer) /\ c.todo # <<>>
  BY DEF CallRecord, CallOK, PhaseOK
<1>2. /\ Tail(c.todo) \in Seq(Peer) /\ Tail(c.todo) # <<>>
      /\ \A k \in DOMAIN Tail(c.todo) : k + 1 \in DOMAIN c.todo /\ Tail(c.todo)[k] = c.todo[k + 1]
  BY <1>1, TailOfTodo
<1>3. r \in CallRecord
  BY <1>2 DEF CallRecord
<1>4. /\ r.kind = c.kind /\ r.pc = c.pc /\ r.file = c.file /\ r.result = c.result
      /\ r.peers = c.peers /\ r.todo = Tail(c.todo) /\ r.block = c.block /\ r.step = c.step
      /\ r.m = c.m /\ r.out = c.out /\ r.have = c.have
  BY DEF CallRecord
<1> HIDE DEF r
<1>5. \A k \in DOMAIN r.todo : \E j \in DOMAIN r.peers : r.peers[j] = r.todo[k]
  BY <1>2, <1>4 DEF CallOK, PhaseOK
<1>6. PhaseOK(r)
  BY <1>2, <1>4, <1>5 DEF CallOK, PhaseOK, UploadPhase, DownloadPhase, PushPhase
<1>7. NameOK(r)
  BY <1>4 DEF CallOK, NameOK
<1>8. QED
  BY <1>3, <1>6, <1>7 DEF CallOK, r

LEMMA TakeCall ==
    ASSUME NEW c \in CallRecord, CallOK(c), c.pc = "fetch",
           NEW x \in AnyManifest, Validate(x) => x.Sha256 = c.file
    PROVE  LET r == [c EXCEPT !.pc = "shards", !.m = x] IN r \in CallRecord /\ CallOK(r)
<1> DEFINE r == [c EXCEPT !.pc = "shards", !.m = x]
<1>1. PhaseOK(c) /\ NameOK(c)
  BY DEF CallOK
<1>2. r \in CallRecord
  BY <1>1 DEF CallRecord, UploadPhase, DownloadPhase
<1>3. /\ r.kind = c.kind /\ r.pc = "shards" /\ r.file = c.file /\ r.result = c.result
      /\ r.peers = c.peers /\ r.todo = c.todo /\ r.block = c.block /\ r.step = c.step
      /\ r.have = c.have /\ r.m = x /\ r.out = c.out
  BY DEF CallRecord
<1> HIDE DEF r
<1>4. PhaseOK(r)
  BY <1>1, <1>3 DEF CallOK, PhaseOK, UploadPhase, DownloadPhase, PushPhase
<1>5. NameOK(r)
  BY <1>3 DEF CallOK, PhaseOK, NameOK, UploadPhase, DownloadPhase, Named, Taken
<1>6. QED
  BY <1>2, <1>3, <1>4, <1>5 DEF CallOK, r

LEMMA OpenShardCall ==
    ASSUME NEW c \in CallRecord, CallOK(c), c.pc = "shards", NEW i \in Shard \ c.have
    PROVE  LET r == [c EXCEPT !.pc = "receive", !.step = i] IN r \in CallRecord /\ CallOK(r)
<1> DEFINE r == [c EXCEPT !.pc = "receive", !.step = i]
<1>1. i \in Nat
  BY ShardAssumption DEF Shard
<1>2. r \in CallRecord
  BY <1>1 DEF CallRecord, UploadPhase, DownloadPhase
<1>3. /\ r.kind = c.kind /\ r.pc = "receive" /\ r.file = c.file /\ r.result = c.result
      /\ r.peers = c.peers /\ r.todo = c.todo /\ r.block = c.block /\ r.step = i
      /\ r.have = c.have /\ r.m = c.m /\ r.out = c.out
  BY DEF CallRecord
<1> HIDE DEF r
<1>4. PhaseOK(r)
  BY <1>1, <1>3 DEF CallOK, PhaseOK, UploadPhase, DownloadPhase, PushPhase
<1>5. NameOK(r)
  BY <1>3 DEF CallOK, PhaseOK, NameOK, UploadPhase, DownloadPhase, Named, Taken
<1>6. QED
  BY <1>2, <1>3, <1>4, <1>5 DEF CallOK, r

LEMMA ArrivesCall ==
    ASSUME NEW c \in CallRecord, CallOK(c), c.pc = "receive"
    PROVE  LET r == [c EXCEPT !.pc = "shards", !.have = @ \cup {c.step}]
           IN  r \in CallRecord /\ CallOK(r)
<1> DEFINE r == [c EXCEPT !.pc = "shards", !.have = @ \cup {c.step}]
<1>1. c.have \cup {c.step} \subseteq Shard
  BY DEF CallRecord, CallOK, PhaseOK
<1>2. r \in CallRecord
  BY <1>1 DEF CallRecord, UploadPhase, DownloadPhase
<1>3. /\ r.kind = c.kind /\ r.pc = "shards" /\ r.file = c.file /\ r.result = c.result
      /\ r.peers = c.peers /\ r.todo = c.todo /\ r.block = c.block /\ r.step = c.step
      /\ r.have = c.have \cup {c.step} /\ r.m = c.m /\ r.out = c.out
  BY DEF CallRecord
<1> HIDE DEF r
<1>4. PhaseOK(r)
  BY <1>1, <1>3 DEF CallOK, PhaseOK, UploadPhase, DownloadPhase, PushPhase
<1>5. NameOK(r)
  BY <1>3 DEF CallOK, PhaseOK, NameOK, UploadPhase, DownloadPhase, Named, Taken
<1>6. QED
  BY <1>2, <1>3, <1>4, <1>5 DEF CallOK, r

LEMMA ShardEndsCall ==
    ASSUME NEW c \in CallRecord, CallOK(c), c.pc \in {"shards", "receive"}
    PROVE  LET r == [c EXCEPT !.pc = "shards"] IN r \in CallRecord /\ CallOK(r)
<1> DEFINE r == [c EXCEPT !.pc = "shards"]
<1>1. PhaseOK(c) /\ NameOK(c)
  BY DEF CallOK
<1>2. r \in CallRecord
  BY <1>1 DEF CallRecord, UploadPhase, DownloadPhase
<1>3. /\ r.kind = c.kind /\ r.pc = "shards" /\ r.file = c.file /\ r.result = c.result
      /\ r.peers = c.peers /\ r.todo = c.todo /\ r.block = c.block /\ r.step = c.step
      /\ r.have = c.have /\ r.m = c.m /\ r.out = c.out
  BY DEF CallRecord
<1> HIDE DEF r
<1>4. PhaseOK(r)
  BY <1>1, <1>3 DEF CallOK, PhaseOK, UploadPhase, DownloadPhase, PushPhase
<1>5. NameOK(r)
  BY <1>3 DEF CallOK, PhaseOK, NameOK, UploadPhase, DownloadPhase, Named, Taken
<1>6. QED
  BY <1>2, <1>3, <1>4, <1>5 DEF CallOK, r

LEMMA EditedCall ==
    ASSUME NEW c \in CallRecord, CallOK(c), NEW b \in BOOLEAN
    PROVE  LET r == [c EXCEPT !.edited = b] IN r \in CallRecord /\ CallOK(r) /\ r.pc = c.pc
<1> DEFINE r == [c EXCEPT !.edited = b]
<1>1. r \in CallRecord
  BY DEF CallRecord
<1>2. /\ r.kind = c.kind /\ r.pc = c.pc /\ r.file = c.file /\ r.result = c.result /\ r.out = c.out
      /\ r.peers = c.peers /\ r.todo = c.todo /\ r.block = c.block /\ r.step = c.step /\ r.m = c.m
      /\ r.have = c.have
  BY DEF CallRecord
<1> HIDE DEF r
<1>3. CallOK(r)
  BY <1>2 DEF CallOK, PhaseOK, NameOK
<1>4. QED
  BY <1>1, <1>2, <1>3 DEF r

----------------------------------------------------------------------------
(* What one step does: it keeps Inv, touches one call, and changes of it    *)
(* what its name says.                                                      *)

Others(s) == \A t \in Slot \ {s} : call'[t] = call[t]

SameCall(r, c) == r.kind = c.kind /\ r.file = c.file /\ r.peers = c.peers

SameUpload(r, c) == SameCall(r, c) /\ r.edited = c.edited

\* A step that changes a call and at most the directories.
LEMMA LocalInv ==
    ASSUME Inv, NEW s \in Slot, NEW r \in CallRecord, CallOK(r),
           call' = [call EXCEPT ![s] = r], UNCHANGED <<input, store, late, up, missed>>,
           upDir' \in [Content -> ShardDir], dlDir' \in [Content -> ShardDir]
    PROVE  Inv' /\ Others(s) /\ call'[s] = r
<1>1. /\ call' \in [Slot -> CallRecord] /\ \A t \in Slot : CallOK(call'[t])
      /\ call'[s] = r /\ Others(s)
  BY OneCall DEF Others
<1>2. Typed'
  BY <1>1 DEF Inv, Typed
<1>3. StoreOK'
  BY DEF Inv, StoreOK, LateOK
<1>4. QED
  BY <1>1, <1>2, <1>3 DEF Inv

\* A step that changes neither keeps their types.
LEMMA SameDirs ==
    ASSUME Inv
    PROVE  /\ UNCHANGED upDir => upDir' \in [Content -> ShardDir]
           /\ UNCHANGED dlDir => dlDir' \in [Content -> ShardDir]
  BY DEF Inv, Typed

LEMMA BeginUploadStep ==
    ASSUME Inv, NEW s \in Slot, BeginUpload(s)
    PROVE  /\ Inv' /\ Others(s)
           /\ ~Running(s)
           /\ call'[s].kind = "upload" /\ call'[s].pc = "name"
           /\ UNCHANGED <<input, upDir, dlDir, store, late, up, missed>>
<1>1. PICK list \in PeerLists :
          Begin(s, [NoCall EXCEPT !.kind = "upload", !.pc = "name", !.peers = list,
                      !.todo = list, !.block = BlockSize(Size[input])])
  BY DEF BeginUpload
<1> DEFINE r == [NoCall EXCEPT !.kind = "upload", !.pc = "name", !.peers = list,
                   !.todo = list, !.block = BlockSize(Size[input])]
<1>2. input \in Content
  BY DEF Inv, Typed
<1>3. r \in CallRecord /\ CallOK(r)
  BY <1>2, BeginUploadCall
<1>4. r.kind = "upload" /\ r.pc = "name"
  BY DEF NoCall
<1> HIDE DEF r
<1>5. /\ ~Running(s) /\ call' = [call EXCEPT ![s] = r]
      /\ UNCHANGED <<input, upDir, dlDir, store, late, up, missed>>
  BY <1>1 DEF BeginUpload, Begin, r
<1>6. Inv' /\ Others(s) /\ call'[s] = r
  BY <1>3, <1>5, SameDirs, LocalInv
<1>7. QED
  BY <1>4, <1>5, <1>6

LEMMA NameStep ==
    ASSUME Inv, NEW s \in Slot, NameDir(s)
    PROVE  /\ Inv' /\ Others(s)
           /\ call[s].pc = "name" /\ call[s].kind = "upload"
           /\ call'[s].kind = "upload" /\ call'[s].pc = "stat" /\ call'[s].file = input
           /\ call'[s].todo = call'[s].peers
           /\ UNCHANGED <<input, upDir, dlDir, store, late, up, missed>>
<1> DEFINE r == [call[s] EXCEPT !.pc = "stat", !.file = input]
<1>1. /\ call[s] \in CallRecord /\ CallOK(call[s]) /\ call[s].pc = "name"
      /\ input \in Content
  BY DEF Inv, Typed, NameDir
<1>2. r \in CallRecord /\ CallOK(r)
  BY <1>1, NameCall
<1>3. call[s].kind = "upload" /\ call[s].todo = call[s].peers
  BY <1>1 DEF CallOK, PhaseOK, UploadPhase
<1>4. /\ r.kind = call[s].kind /\ r.pc = "stat" /\ r.file = input
      /\ r.todo = call[s].todo /\ r.peers = call[s].peers
  BY <1>1 DEF CallRecord
<1> HIDE DEF r
<1>5. /\ call' = [call EXCEPT ![s] = r]
      /\ UNCHANGED <<input, upDir, dlDir, store, late, up, missed>>
  BY DEF NameDir, Local, Step, r
<1>6. Inv' /\ Others(s) /\ call'[s] = r
  BY <1>2, <1>5, SameDirs, LocalInv
<1>7. QED
  BY <1>1, <1>3, <1>4, <1>5, <1>6

LEMMA StatStep ==
    ASSUME Inv, NEW s \in Slot, StatInput(s)
    PROVE  /\ Inv' /\ Others(s) /\ SameUpload(call'[s], call[s])
           /\ call[s].pc = "stat" /\ call'[s].pc = "sum" /\ call'[s].size = Size[input]
           /\ call'[s].todo = call[s].todo /\ call'[s].block = call[s].block
           /\ UNCHANGED <<input, upDir, dlDir, store, late, up, missed>>
<1> DEFINE r == [call[s] EXCEPT !.pc = "sum", !.size = Size[input]]
<1>1. call[s] \in CallRecord /\ CallOK(call[s]) /\ call[s].pc = "stat"
  BY DEF Inv, Typed, StatInput
<1>2. Size[input] \in Nat
  BY ConstantTypes DEF Inv, Typed
<1>3. r \in CallRecord /\ CallOK(r)
  BY <1>1, <1>2, StatCall
<1>4. /\ SameUpload(r, call[s]) /\ r.pc = "sum" /\ r.size = Size[input]
      /\ r.todo = call[s].todo /\ r.block = call[s].block
  BY <1>1 DEF SameUpload, SameCall, CallRecord
<1> HIDE DEF r
<1>5. call' = [call EXCEPT ![s] = r] /\ UNCHANGED <<input, upDir, dlDir, store, late, up, missed>>
  BY DEF StatInput, Local, Step, r
<1>6. Inv' /\ Others(s) /\ call'[s] = r
  BY <1>3, <1>5, SameDirs, LocalInv
<1>7. QED
  BY <1>1, <1>4, <1>5, <1>6

LEMMA SumStep ==
    ASSUME Inv, NEW s \in Slot, SumInput(s)
    PROVE  /\ Inv' /\ Others(s) /\ SameUpload(call'[s], call[s])
           /\ call[s].pc = "sum" /\ call'[s].pc = "create"
           /\ call'[s].size = call[s].size
           /\ call'[s].todo = call[s].todo /\ call'[s].block = call[s].block
           /\ call'[s].m.FileSize = call[s].size /\ call'[s].m.Sha256 = input
           /\ call'[s].m.BlockSize = call[s].block
           /\ UNCHANGED <<input, upDir, dlDir, store, late, up, missed>>
<1> DEFINE m == NewManifest(call[s].size, DataShards, ParityShards, call[s].block, input, NoShards)
           r == [call[s] EXCEPT !.pc = "create", !.m = m]
<1>1. call[s] \in CallRecord /\ CallOK(call[s]) /\ call[s].pc = "sum" /\ input \in Content
  BY DEF Inv, Typed, SumInput
<1>2. r \in CallRecord /\ CallOK(r)
  BY <1>1, SumCall
<1>3. /\ call[s].size \in Nat /\ call[s].block \in Nat
      /\ 0 < call[s].block /\ call[s].block <= maxBlockSize
  BY <1>1 DEF CallRecord, CallOK, PhaseOK, UploadPhase
<1>4. m.FileSize = call[s].size /\ m.Sha256 = input /\ m.BlockSize = call[s].block
  BY DEF NewManifest
<1>5. call' = [call EXCEPT ![s] = r] /\ UNCHANGED <<input, upDir, dlDir, store, late, up, missed>>
  BY DEF SumInput, Local, Step
<1> HIDE DEF m
<1>6. /\ SameUpload(r, call[s]) /\ r.pc = "create" /\ r.size = call[s].size
      /\ r.todo = call[s].todo /\ r.block = call[s].block /\ r.m = m
  BY <1>1 DEF SameUpload, SameCall, CallRecord
<1> HIDE DEF r
<1>7. Inv' /\ Others(s) /\ call'[s] = r
  BY <1>2, <1>5, SameDirs, LocalInv
<1>8. QED
  BY <1>1, <1>4, <1>5, <1>6, <1>7

LEMMA CreateStep ==
    ASSUME Inv, NEW s \in Slot, CreateShards(s)
    PROVE  /\ Inv' /\ Others(s) /\ SameUpload(call'[s], call[s])
           /\ call[s].pc = "create" /\ call'[s].pc = "write"
           /\ call'[s].size = call[s].size /\ call'[s].m = call[s].m
           /\ call'[s].todo = call[s].todo /\ call'[s].block = call[s].block
           /\ call[s].file \in Content
           /\ upDir' = [upDir EXCEPT ![call[s].file] = NoShards]
           /\ UNCHANGED <<input, dlDir, store, late, up, missed>>
<1> DEFINE r == [call[s] EXCEPT !.pc = "write"]
<1>1. call[s] \in CallRecord /\ CallOK(call[s]) /\ call[s].pc = "create"
  BY DEF Inv, Typed, CreateShards
<1>2. r \in CallRecord /\ CallOK(r)
  BY <1>1, CreateCall
<1>3. /\ SameUpload(r, call[s]) /\ r.pc = "write" /\ r.size = call[s].size
      /\ r.todo = call[s].todo /\ r.block = call[s].block /\ r.m = call[s].m
  BY <1>1 DEF SameUpload, SameCall, CallRecord
<1>4. call[s].file \in Content
  BY <1>1 DEF CallOK, PhaseOK
<1> HIDE DEF r
<1>5. call' = [call EXCEPT ![s] = r] /\ UNCHANGED <<input, dlDir, store, late, up, missed>>
      /\ upDir' = [upDir EXCEPT ![call[s].file] = NoShards]
  BY DEF CreateShards, Local, Step, r
<1>6. upDir' \in [Content -> ShardDir]
  BY <1>4, <1>5, ConstantTypes DEF Inv, Typed
<1>7. Inv' /\ Others(s) /\ call'[s] = r
  BY <1>2, <1>5, <1>6, SameDirs, LocalInv
<1>8. QED
  BY <1>1, <1>3, <1>4, <1>5, <1>7

\* What a write leaves in a file.
LEMMA BlendCases ==
    ASSUME NEW d, NEW now, NEW rivals, NEW x \in Blend(d, now, rivals)
    PROVE  x = d \/ (x = Mixed /\ ~(now = Nothing /\ ~rivals))
  BY DEF Blend

\* What an upload writes: its own shards, or a mix with those of another that
\* writes in the same directory, or has done since this one emptied it.
LEMMA WriteStep ==
    ASSUME Inv, NEW s \in Slot, WriteShards(s)
    PROVE  /\ Inv' /\ Others(s) /\ SameUpload(call'[s], call[s])
           /\ call[s].pc = "write" /\ call'[s].pc = "hash"
           /\ call'[s].size = call[s].size /\ call'[s].m = call[s].m
           /\ call'[s].todo = call[s].todo /\ call'[s].block = call[s].block
           /\ call[s].file \in Content
           /\ \A c \in Content \ {call[s].file} : upDir'[c] = upDir[c]
           /\ \/ \A i \in Shard : upDir'[call[s].file][i] = ShardOf(input, call[s].block)
              \/ upDir[call[s].file][0] # Nothing
              \/ \E t \in Slot \ {s} : call[t].pc = "write" /\ call[t].file = call[s].file
           /\ UNCHANGED <<input, dlDir, store, late, up, missed>>
<1> DEFINE r == [call[s] EXCEPT !.pc = "hash"]
           f == call[s].file
           Shared == Writing(f, Slot \ {s})
<1>1. call[s] \in CallRecord /\ CallOK(call[s]) /\ call[s].pc = "write" /\ input \in Content
  BY DEF Inv, Typed, WriteShards
<1>2. r \in CallRecord /\ CallOK(r)
  BY <1>1, WriteCall
<1>3. /\ SameUpload(r, call[s]) /\ r.pc = "hash" /\ r.size = call[s].size
      /\ r.todo = call[s].todo /\ r.block = call[s].block /\ r.m = call[s].m
  BY <1>1 DEF SameUpload, SameCall, CallRecord
<1>4. f \in Content /\ call[s].block \in Nat
  BY <1>1 DEF CallOK, PhaseOK, CallRecord
<1> HIDE DEF r, Shared
<1>5. call' = [call EXCEPT ![s] = r] /\ UNCHANGED <<input, dlDir, store, late, up, missed>>
  BY DEF WriteShards, Local, Step, r
<1>6. PICK x \in Blend(ShardOf(input, call[s].block), upDir[f][0], Shared) :
          upDir' = [upDir EXCEPT ![f] = [i \in Shard |-> x]]
  BY DEF WriteShards, Shared
<1>7. \/ x = ShardOf(input, call[s].block)
      \/ (x = Mixed /\ (upDir[f][0] # Nothing \/ Shared))
  BY BlendCases
<1>8. [i \in Shard |-> x] \in ShardDir
  <2>1. ShardOf(input, call[s].block) \in ShardFile
    BY <1>1, <1>4, ConstantTypes
  <2>2. Mixed \in ShardFile
    BY DEF Mixed, ShardFile
  <2>3. QED
    BY <1>7, <2>1, <2>2 DEF ShardDir
<1>9. upDir \in [Content -> ShardDir]
  BY DEF Inv, Typed
<1>10. upDir' \in [Content -> ShardDir]
  BY <1>4, <1>6, <1>8, <1>9
<1>11. /\ \A c \in Content \ {f} : upDir'[c] = upDir[c]
       /\ \A i \in Shard : upDir'[f][i] = x
  BY <1>4, <1>6, <1>9
<1>12. Inv' /\ Others(s) /\ call'[s] = r
  BY <1>2, <1>5, <1>10, SameDirs, LocalInv
<1>13. \/ \A i \in Shard : upDir'[f][i] = ShardOf(input, call[s].block)
       \/ upDir[f][0] # Nothing \/ Shared
  BY <1>7, <1>11
<1>14. QED
  BY <1>1, <1>3, <1>4, <1>5, <1>11, <1>12, <1>13 DEF Shared, Writing

\* An upload that cannot prepare its shards leaves what it has written.
LEMMA PrepareFailsStep ==
    ASSUME Inv, NEW s \in Slot, PrepareFails(s)
    PROVE  /\ Inv' /\ Others(s)
           /\ call[s].pc \in PreparePhase /\ call[s].kind = "upload"
           /\ call'[s].kind = "upload" /\ call'[s].pc = "ended" /\ call'[s].result = "err"
           /\ \A c \in Content :
                 ~(call[s].pc = "write" /\ c = call[s].file) => upDir'[c] = upDir[c]
           /\ UNCHANGED <<input, dlDir, store, late, up, missed>>
<1> DEFINE r == [NoCall EXCEPT !.kind = "upload", !.result = "err"]
           f == call[s].file
<1>1. /\ call[s] \in CallRecord /\ CallOK(call[s]) /\ call[s].pc \in PreparePhase
      /\ upDir \in [Content -> ShardDir]
  BY DEF Inv, Typed, PrepareFails
<1>2. r \in CallRecord /\ CallOK(r)
  BY NotUploadedCall
<1>3. r.kind = "upload" /\ r.pc = "ended" /\ r.result = "err"
  BY DEF NoCall
<1>4. call[s].kind = "upload" /\ (call[s].pc = "write" => f \in Content)
  BY <1>1 DEF CallOK, PhaseOK, UploadPhase
<1> HIDE DEF r
<1>5. call' = [call EXCEPT ![s] = r] /\ UNCHANGED <<input, dlDir, store, late, up, missed>>
  BY DEF PrepareFails, Fault, Step, r
<1>6. /\ upDir' \in [Content -> ShardDir]
      /\ \A c \in Content : ~(call[s].pc = "write" /\ c = f) => upDir'[c] = upDir[c]
  <2>1. CASE call[s].pc # "write"
    BY <1>1, <2>1 DEF PrepareFails
  <2>2. CASE call[s].pc = "write"
    <3> DEFINE now == upDir[f][0]
    <3>1. PICK x \in Blend(now, now, now # Nothing \/ Writing(f, Slot \ {s})) :
              upDir' = [upDir EXCEPT ![f] = [i \in Shard |-> x]]
      BY <2>2 DEF PrepareFails
    <3>2. x = now \/ x = Mixed
      BY BlendCases
    <3>3. now \in ShardFile /\ Mixed \in ShardFile
      BY <1>1, <1>4, <2>2, ConstantTypes DEF ShardDir, Mixed, ShardFile
    <3>4. [i \in Shard |-> x] \in ShardDir
      BY <3>2, <3>3 DEF ShardDir
    <3>5. QED
      BY <1>1, <1>4, <2>2, <3>1, <3>4
  <2>3. QED
    BY <2>1, <2>2
<1>7. Inv' /\ Others(s) /\ call'[s] = r
  BY <1>2, <1>5, <1>6, SameDirs, LocalInv
<1>8. QED
  BY <1>1, <1>3, <1>4, <1>5, <1>6, <1>7

LEMMA HashStep ==
    ASSUME Inv, NEW s \in Slot, HashShards(s)
    PROVE  /\ Inv' /\ Others(s) /\ SameUpload(call'[s], call[s])
           /\ call[s].pc = "hash" /\ call'[s].pc = "open"
           /\ call'[s].size = call[s].size
           /\ call'[s].todo = call[s].todo /\ call'[s].block = call[s].block
           /\ call'[s].m.FileSize = call[s].m.FileSize /\ call'[s].m.Sha256 = call[s].m.Sha256
           /\ call'[s].m.BlockSize = call[s].m.BlockSize
           /\ call'[s].m.ShardHashes = upDir[call[s].file]
           /\ UNCHANGED <<input, upDir, dlDir, store, late, up, missed>>
<1> DEFINE d == upDir[call[s].file]
           r == [call[s] EXCEPT !.m.ShardHashes = d, !.pc = "open"]
<1>1. call[s] \in CallRecord /\ CallOK(call[s]) /\ call[s].pc = "hash"
  BY DEF Inv, Typed, HashShards
<1>2. call[s].file \in Content /\ call[s].m \in AnyManifest
  BY <1>1 DEF CallOK, PhaseOK, CallRecord
<1>3. d \in ShardDir
  BY <1>2 DEF Inv, Typed
<1>4. call' = [call EXCEPT ![s] = r] /\ UNCHANGED <<input, upDir, dlDir, store, late, up, missed>>
  BY DEF HashShards, Local, Step
<1> HIDE DEF d
<1>5. /\ r \in CallRecord /\ CallOK(r)
      /\ r.kind = call[s].kind /\ r.pc = "open" /\ r.file = call[s].file
      /\ r.edited = call[s].edited /\ r.peers = call[s].peers /\ r.todo = call[s].todo
      /\ r.size = call[s].size /\ r.block = call[s].block
      /\ r.m = [call[s].m EXCEPT !.ShardHashes = d]
  BY <1>1, <1>3, HashCall
<1> HIDE DEF r
<1>6. /\ r.m.FileSize = call[s].m.FileSize /\ r.m.Sha256 = call[s].m.Sha256
      /\ r.m.BlockSize = call[s].m.BlockSize /\ r.m.ShardHashes = d
  BY <1>2, <1>3, <1>5, HashesFree
<1>7. Inv' /\ Others(s) /\ call'[s] = r
  BY <1>4, <1>5, SameDirs, LocalInv
<1>8. QED
  BY <1>1, <1>4, <1>5, <1>6, <1>7 DEF SameUpload, SameCall, d

\* What a node keeps under a file ID when it is pushed there.
Stores(s, e) ==
    \A p \in Peer, c \in Content :
        store'[p][c] = IF p = Target(s) /\ c = Id(s) /\ p \in up THEN e ELSE store[p][c]

\* One step of a push.
LEMMA PushInv ==
    ASSUME Inv, NEW s \in Slot, call[s].pc \in PushPhase,
           NEW r, r \in CallRecord, CallOK(r),
           NEW E, E # {}, \A e \in E : e \in StoreEntry /\ (Validate(e.m) => e.m.Sha256 = Id(s)),
           Push(s, r, E)
    PROVE  /\ Inv' /\ Others(s) /\ call'[s] = r /\ \E e \in E : Stores(s, e)
           /\ UNCHANGED <<input, upDir, dlDir, late, up, missed>>
<1>1. /\ call' = [call EXCEPT ![s] = r] /\ UNCHANGED <<input, upDir, dlDir, late, up, missed>>
      /\ \E e \in E : store' = IF Target(s) \in up THEN [store EXCEPT ![Target(s)][Id(s)] = e]
                               ELSE store
  BY DEF Push
<1>2. PICK e \in E : store' = IF Target(s) \in up THEN [store EXCEPT ![Target(s)][Id(s)] = e]
                              ELSE store
  BY <1>1
<1>3. /\ call' \in [Slot -> CallRecord] /\ \A t \in Slot : CallOK(call'[t])
      /\ call'[s] = r /\ Others(s)
  BY <1>1, OneCall DEF Others
<1>4. Target(s) \in Peer /\ Id(s) \in Content
  <2>1. call[s] \in CallRecord /\ CallOK(call[s])
    BY DEF Inv, Typed
  <2>2. call[s].todo \in Seq(Peer) /\ call[s].todo # <<>> /\ Id(s) \in Content
    BY <2>1 DEF CallRecord, CallOK, PhaseOK, NameOK, Named, UploadPhase, Id
  <2>3. QED
    BY <2>2, TailOfTodo DEF Target
<1>5. store \in [Peer -> [Content -> StoreEntry]]
  BY DEF Inv, Typed
<1>6. PICK q \in Peer : q = Target(s)
  BY <1>4
<1>7. PICK f \in Content : f = Id(s)
  BY <1>4
<1>8. store' = IF q \in up THEN [store EXCEPT ![q][f] = e] ELSE store
  BY <1>2, <1>6, <1>7
<1>9. e \in StoreEntry /\ (Validate(e.m) => e.m.Sha256 = f)
  BY <1>7
<1>10. store' \in [Peer -> [Content -> StoreEntry]]
  BY <1>5, <1>8, <1>9
<1>11. \A p \in Peer, c \in Content :
          store'[p][c] = IF p = q /\ c = f /\ p \in up THEN e ELSE store[p][c]
  BY <1>5, <1>8
<1>12. Stores(s, e)
  BY <1>6, <1>7, <1>11 DEF Stores
<1>13. Typed'
  BY <1>1, <1>3, <1>10 DEF Inv, Typed
<1>14. StoreOK'
  <2>1. ASSUME NEW p \in Peer, NEW c \in Content, Validate(store'[p][c].m)
        PROVE  store'[p][c].m.Sha256 = c
    <3>1. CASE p = q /\ c = f /\ p \in up
      BY <1>9, <1>11, <2>1, <3>1
    <3>2. CASE ~(p = q /\ c = f /\ p \in up)
      BY <1>11, <2>1, <3>2 DEF Inv, StoreOK
    <3>3. QED
      BY <3>1, <3>2
  <2>2. \A l \in late' : LateOK(l)'
    BY <1>1 DEF Inv, StoreOK, LateOK
  <2>3. QED
    BY <2>1, <2>2 DEF StoreOK
<1>15. QED
  BY <1>1, <1>3, <1>12, <1>13, <1>14 DEF Inv

\* What the node has there is an entry, and what the call pushes is named.
LEMMA PushTarget ==
    ASSUME Inv, NEW s \in Slot, call[s].pc \in PushPhase
    PROVE  /\ Target(s) \in Peer /\ Id(s) \in Content
           /\ call[s] \in CallRecord /\ CallOK(call[s])
           /\ Entry(s) \in StoreEntry
           /\ Validate(Entry(s).m) => Entry(s).m.Sha256 = Id(s)
           /\ call[s].file \in Content
           /\ call[s].pc \in {"push", "copy"} => call[s].step \in Shard
<1>1. call[s] \in CallRecord /\ CallOK(call[s])
  BY DEF Inv, Typed
<1>2. /\ call[s].todo \in Seq(Peer) /\ call[s].todo # <<>> /\ Id(s) \in Content
      /\ call[s].file \in Content
      /\ call[s].pc \in {"push", "copy"} => call[s].step \in Shard
  BY <1>1 DEF CallRecord, CallOK, PhaseOK, NameOK, Named, UploadPhase, Id
<1>3. Target(s) \in Peer
  BY <1>2, TailOfTodo DEF Target
<1>4. QED
  BY <1>1, <1>2, <1>3 DEF Inv, Typed, StoreOK, Entry

\* A manifest is not a shard.
LEMMA ManifestPlace == ManifestAt \notin Shard
  BY ShardAssumption DEF ManifestAt, Shard

\* An entry with another shard.
WithShard(old, at, x) == [old EXCEPT !.shard[at] = x]

LEMMA ShardChanged ==
    ASSUME NEW old \in StoreEntry, NEW at \in Shard, NEW x \in ShardFile
    PROVE  /\ WithShard(old, at, x) \in StoreEntry
           /\ WithShard(old, at, x).m = old.m /\ WithShard(old, at, x).text = old.text
           /\ \A i \in Shard : WithShard(old, at, x).shard[i] = IF i = at THEN x ELSE old.shard[i]
<1> DEFINE d == [old.shard EXCEPT ![at] = x]
<1>1. old.shard \in [Shard -> ShardFile]
  BY DEF StoreEntry, ShardDir
<1>2. d \in ShardDir /\ \A i \in Shard : d[i] = IF i = at THEN x ELSE old.shard[i]
  BY <1>1 DEF ShardDir
<1>3. PICK e : e = [old EXCEPT !.shard = d]
  OBVIOUS
<1>4. WithShard(old, at, x) = e
  BY <1>3 DEF WithShard, StoreEntry
<1> HIDE DEF d
<1>5. e \in StoreEntry /\ e.m = old.m /\ e.text = old.text /\ e.shard = d
  BY <1>2, <1>3 DEF StoreEntry
<1>6. QED
  BY <1>2, <1>4, <1>5

LEMMA TruncatedManifest ==
    ASSUME NEW old \in StoreEntry
    PROVE  LET e == Truncated(old, ManifestAt)
           IN  e \in StoreEntry /\ e.text = "empty" /\ e.m = old.m /\ e.shard = old.shard
  BY DEF Truncated, StoreEntry

LEMMA TruncatedShard ==
    ASSUME NEW old \in StoreEntry, NEW at \in Shard
    PROVE  /\ Truncated(old, at) \in StoreEntry
           /\ Truncated(old, at).m = old.m /\ Truncated(old, at).text = old.text
           /\ \A i \in Shard : Truncated(old, at).shard[i] = IF i = at THEN Nothing ELSE old.shard[i]
<1>1. Truncated(old, at) = WithShard(old, at, Nothing)
  BY ManifestPlace DEF Truncated, WithShard
<1>2. Nothing \in ShardFile
  BY DEF Nothing, ShardFile
<1>3. QED
  BY <1>1, <1>2, ShardChanged

LEMMA WrittenManifest ==
    ASSUME NEW old \in StoreEntry, NEW data \in AnyManifest, NEW rivals
    PROVE  /\ Written(old, ManifestAt, data, rivals) # {}
           /\ \A e \in Written(old, ManifestAt, data, rivals) :
                 /\ e \in StoreEntry /\ e.m = data /\ e.shard = old.shard
                 /\ old.text = "empty" => e.text = "whole"
<1> DEFINE T == IF old.text = "empty" THEN {"whole"} ELSE {"whole", "garbled"}
<1>1. Written(old, ManifestAt, data, rivals) = {[old EXCEPT !.m = data, !.text = t] : t \in T}
  BY DEF Written
<1>2. /\ "whole" \in T /\ T \subseteq {"whole", "garbled"}
      /\ old.text = "empty" => T = {"whole"}
  OBVIOUS
<1> HIDE DEF T
<1>3. ASSUME NEW t \in T, NEW e, e = [old EXCEPT !.m = data, !.text = t]
      PROVE  e \in StoreEntry /\ e.m = data /\ e.shard = old.shard /\ e.text = t
  BY <1>2, <1>3 DEF StoreEntry
<1>4. ASSUME NEW e \in Written(old, ManifestAt, data, rivals)
      PROVE  /\ e \in StoreEntry /\ e.m = data /\ e.shard = old.shard
             /\ old.text = "empty" => e.text = "whole"
  <2>1. PICK t \in T : e = [old EXCEPT !.m = data, !.text = t]
    BY <1>1
  <2>2. QED
    BY <1>2, <1>3, <2>1
<1>5. Written(old, ManifestAt, data, rivals) # {}
  <2>1. PICK t : t \in T
    BY <1>2
  <2>2. [old EXCEPT !.m = data, !.text = t] \in Written(old, ManifestAt, data, rivals)
    BY <1>1, <2>1
  <2>3. QED
    BY <2>2
<1>6. QED
  BY <1>4, <1>5

LEMMA WrittenShard ==
    ASSUME NEW old \in StoreEntry, NEW at \in Shard, NEW data \in ShardFile, NEW rivals
    PROVE  /\ Written(old, at, data, rivals) # {}
           /\ \A e \in Written(old, at, data, rivals) :
                 /\ e \in StoreEntry /\ e.m = old.m /\ e.text = old.text
                 /\ \A i \in Shard : i # at => e.shard[i] = old.shard[i]
                 /\ old.shard[at] = Nothing /\ ~rivals => e.shard[at] = data
<1> DEFINE B == Blend(data, old.shard[at], rivals)
<1>1. Written(old, at, data, rivals) = {WithShard(old, at, x) : x \in B}
  BY ManifestPlace DEF Written, WithShard
<1>2. /\ data \in B
      /\ \A x \in B : x = data \/ (x = Mixed /\ ~(old.shard[at] = Nothing /\ ~rivals))
  BY DEF Blend
<1> HIDE DEF B
<1>3. \A x \in B : x \in ShardFile
  BY <1>2 DEF Mixed, ShardFile
<1>4. ASSUME NEW x \in B
      PROVE  /\ WithShard(old, at, x) \in StoreEntry
             /\ WithShard(old, at, x).m = old.m /\ WithShard(old, at, x).text = old.text
             /\ \A i \in Shard : i # at => WithShard(old, at, x).shard[i] = old.shard[i]
             /\ old.shard[at] = Nothing /\ ~rivals => WithShard(old, at, x).shard[at] = data
  BY <1>2, <1>3, ShardChanged
<1>5. Written(old, at, data, rivals) # {}
  BY <1>1, <1>2
<1>6. QED
  BY <1>1, <1>4, <1>5

LEMMA OpenStep ==
    ASSUME Inv, NEW s \in Slot, OpenManifest(s)
    PROVE  /\ Inv' /\ Others(s) /\ SameUpload(call'[s], call[s])
           /\ call[s].pc = "open" /\ call'[s].pc = "fill"
           /\ call'[s].size = call[s].size /\ call'[s].m = call[s].m
           /\ call'[s].todo = call[s].todo /\ call'[s].block = call[s].block
           /\ Target(s) \in Peer /\ Id(s) \in Content
           /\ \E e : /\ Stores(s, e)
                     /\ e.text = "empty" /\ e.m = Entry(s).m /\ e.shard = Entry(s).shard
           /\ UNCHANGED <<input, upDir, dlDir, late, up, missed>>
<1> DEFINE e == Truncated(Entry(s), ManifestAt)
           r == [call[s] EXCEPT !.pc = "fill"]
<1>1. call[s].pc = "open" /\ Push(s, r, {e})
  BY DEF OpenManifest
<1>2. /\ call[s] \in CallRecord /\ CallOK(call[s]) /\ Target(s) \in Peer /\ Id(s) \in Content
      /\ Entry(s) \in StoreEntry /\ (Validate(Entry(s).m) => Entry(s).m.Sha256 = Id(s))
  BY <1>1, PushTarget
<1>3. r \in CallRecord /\ CallOK(r)
  BY <1>1, <1>2, OpenCall
<1>4. e \in StoreEntry /\ e.text = "empty" /\ e.m = Entry(s).m /\ e.shard = Entry(s).shard
  BY <1>2, TruncatedManifest
<1>5. /\ SameUpload(r, call[s]) /\ r.pc = "fill" /\ r.size = call[s].size
      /\ r.todo = call[s].todo /\ r.block = call[s].block /\ r.m = call[s].m
  BY <1>2 DEF SameUpload, SameCall, CallRecord
<1> HIDE DEF r, e
<1>6. /\ call[s].pc \in PushPhase
      /\ {e} # {} /\ \A x \in {e} : x \in StoreEntry /\ (Validate(x.m) => x.m.Sha256 = Id(s))
  BY <1>1, <1>2, <1>4
<1>7. /\ Inv' /\ Others(s) /\ call'[s] = r /\ (\E x \in {e} : Stores(s, x))
      /\ UNCHANGED <<input, upDir, dlDir, late, up, missed>>
  BY <1>1, <1>3, <1>6, PushInv
<1>8. QED
  BY <1>1, <1>2, <1>4, <1>5, <1>7

LEMMA FillStep ==
    ASSUME Inv, NEW s \in Slot, FillManifest(s)
    PROVE  /\ Inv' /\ Others(s) /\ SameUpload(call'[s], call[s])
           /\ call[s].pc = "fill" /\ call'[s].pc = "push" /\ call'[s].step = 0
           /\ call'[s].size = call[s].size /\ call'[s].m = call[s].m
           /\ call'[s].todo = call[s].todo /\ call'[s].block = call[s].block
           /\ Target(s) \in Peer /\ Id(s) \in Content
           /\ \E e : /\ Stores(s, e) /\ e.m = call[s].m /\ e.shard = Entry(s).shard
                     /\ Entry(s).text = "empty" => e.text = "whole"
           /\ UNCHANGED <<input, upDir, dlDir, late, up, missed>>
<1> DEFINE E == Written(Entry(s), ManifestAt, call[s].m, FALSE)
           r == [call[s] EXCEPT !.pc = "push"]
<1>1. call[s].pc = "fill" /\ Push(s, r, E)
  BY DEF FillManifest
<1>2. /\ call[s] \in CallRecord /\ CallOK(call[s]) /\ Target(s) \in Peer /\ Id(s) \in Content
      /\ Entry(s) \in StoreEntry /\ (Validate(Entry(s).m) => Entry(s).m.Sha256 = Id(s))
  BY <1>1, PushTarget
<1>3. r \in CallRecord /\ CallOK(r)
  BY <1>1, <1>2, FillCall
<1>4. call[s].m \in AnyManifest /\ call[s].m.Sha256 = Id(s) /\ call[s].step = 0
  BY <1>1, <1>2 DEF CallRecord, Id, CallOK, PhaseOK, UploadPhase
<1> HIDE DEF r
<1>5. /\ E # {}
      /\ \A e \in E : /\ e \in StoreEntry /\ e.m = call[s].m /\ e.shard = Entry(s).shard
                      /\ Entry(s).text = "empty" => e.text = "whole"
  <2>1. PICK old \in StoreEntry : old = Entry(s)
    BY <1>2
  <2>2. PICK data \in AnyManifest, no \in BOOLEAN : data = call[s].m /\ no = FALSE
    BY <1>4
  <2>3. /\ Written(old, ManifestAt, data, no) # {}
        /\ \A e \in Written(old, ManifestAt, data, no) :
              /\ e \in StoreEntry /\ e.m = data /\ e.shard = old.shard
              /\ old.text = "empty" => e.text = "whole"
    BY WrittenManifest
  <2>4. E = Written(old, ManifestAt, data, no)
    BY <2>1, <2>2
  <2> HIDE DEF E
  <2>5. QED
    BY <2>1, <2>2, <2>3, <2>4
<1>6. /\ SameUpload(r, call[s]) /\ r.pc = "push" /\ r.size = call[s].size /\ r.step = call[s].step
      /\ r.todo = call[s].todo /\ r.block = call[s].block /\ r.m = call[s].m
  BY <1>2 DEF SameUpload, SameCall, CallRecord, r
<1> HIDE DEF E
<1>7. /\ call[s].pc \in PushPhase
      /\ \A x \in E : x \in StoreEntry /\ (Validate(x.m) => x.m.Sha256 = Id(s))
  BY <1>1, <1>4, <1>5
<1>8. /\ Inv' /\ Others(s) /\ call'[s] = r /\ (\E x \in E : Stores(s, x))
      /\ UNCHANGED <<input, upDir, dlDir, late, up, missed>>
  BY <1>1, <1>3, <1>5, <1>7, PushInv
<1>9. QED
  BY <1>1, <1>2, <1>4, <1>5, <1>6, <1>8

SameWork(r, c) == SameUpload(r, c) /\ r.m = c.m /\ r.block = c.block /\ r.size = c.size

\* The three ways on after a shard has been pushed.
LEMMA AfterPushCases ==
    ASSUME Inv, NEW s \in Slot, call[s].pc \in {"push", "copy"}, NEW r, r = AfterPush(s)
    PROVE  /\ r \in CallRecord /\ CallOK(r)
           /\ \/ /\ call[s].step + 1 < Cardinality(Shard)
                 /\ SameWork(r, call[s])
                 /\ r.pc = "push" /\ r.step = call[s].step + 1 /\ r.todo = call[s].todo
              \/ /\ ~(call[s].step + 1 < Cardinality(Shard)) /\ Len(call[s].todo) > 1
                 /\ SameWork(r, call[s])
                 /\ r.pc = "open" /\ r.todo = Tail(call[s].todo)
              \/ /\ ~(call[s].step + 1 < Cardinality(Shard)) /\ ~(Len(call[s].todo) > 1)
                 /\ r = Uploaded
<1>1. call[s] \in CallRecord /\ CallOK(call[s])
  BY DEF Inv, Typed
<1>2. CASE call[s].step + 1 < Cardinality(Shard)
  <2> DEFINE x == [call[s] EXCEPT !.step = @ + 1, !.data = Nothing, !.pc = "push"]
  <2>1. r = x
    BY <1>2 DEF AfterPush
  <2>2. x \in CallRecord /\ CallOK(x) /\ x.step = call[s].step + 1
    BY <1>1, <1>2, NextShardCall
  <2>3. SameWork(x, call[s]) /\ x.pc = "push" /\ x.todo = call[s].todo
    BY <1>1 DEF SameWork, SameUpload, SameCall, CallRecord
  <2>4. QED
    BY <1>2, <2>1, <2>2, <2>3
<1>3. CASE ~(call[s].step + 1 < Cardinality(Shard)) /\ Len(call[s].todo) > 1
  <2> DEFINE x == [call[s] EXCEPT !.step = 0, !.data = Nothing, !.todo = Tail(@), !.pc = "open"]
  <2>1. r = x
    BY <1>3 DEF AfterPush
  <2>2. x \in CallRecord /\ CallOK(x)
    BY <1>1, <1>3, NextPeerCall
  <2>3. SameWork(x, call[s]) /\ x.pc = "open" /\ x.todo = Tail(call[s].todo)
    BY <1>1 DEF SameWork, SameUpload, SameCall, CallRecord
  <2>4. QED
    BY <1>3, <2>1, <2>2, <2>3
<1>4. CASE ~(call[s].step + 1 < Cardinality(Shard)) /\ ~(Len(call[s].todo) > 1)
  BY <1>4, UploadedCall DEF AfterPush
<1>5. QED
  BY <1>2, <1>3, <1>4

LEMMA SkipStep ==
    ASSUME Inv, NEW s \in Slot, SkipShard(s)
    PROVE  /\ Inv' /\ Others(s) /\ call[s].pc = "push" /\ call'[s] = AfterPush(s)
           /\ upDir[call[s].file][call[s].step] = Nothing
           /\ UNCHANGED <<input, upDir, dlDir, store, late, up, missed>>
<1> DEFINE r == AfterPush(s)
<1>1. call[s].pc = "push" /\ upDir[call[s].file][call[s].step] = Nothing
  BY DEF SkipShard, LocalShard
<1>2. r \in CallRecord /\ CallOK(r)
  BY <1>1, AfterPushCases
<1> HIDE DEF r
<1>3. /\ call' = [call EXCEPT ![s] = r]
      /\ UNCHANGED <<input, upDir, dlDir, store, late, up, missed>>
  BY DEF SkipShard, Local, Step, r
<1>4. Inv' /\ Others(s) /\ call'[s] = r
  BY <1>2, <1>3, SameDirs, LocalInv
<1>5. QED
  BY <1>1, <1>3, <1>4 DEF r

LEMMA SendStep ==
    ASSUME Inv, NEW s \in Slot, SendShard(s)
    PROVE  /\ Inv' /\ Others(s) /\ SameWork(call'[s], call[s])
           /\ call[s].pc = "push" /\ call'[s].pc = "copy"
           /\ call'[s].step = call[s].step /\ call'[s].todo = call[s].todo
           /\ call'[s].data = upDir[call[s].file][call[s].step]
           /\ Target(s) \in Peer /\ Id(s) \in Content /\ call[s].file \in Content
           /\ call[s].step \in Shard
           /\ \E e : /\ Stores(s, e) /\ e.m = Entry(s).m /\ e.text = Entry(s).text
                     /\ \A i \in Shard : e.shard[i] = IF i = call[s].step THEN Nothing
                                                      ELSE Entry(s).shard[i]
           /\ UNCHANGED <<input, upDir, dlDir, late, up, missed>>
<1> DEFINE d == upDir[call[s].file][call[s].step]
           e == Truncated(Entry(s), call[s].step)
           r == [call[s] EXCEPT !.pc = "copy", !.data = d]
<1>1. call[s].pc = "push" /\ Push(s, r, {e})
  BY DEF SendShard, LocalShard
<1>2. /\ call[s] \in CallRecord /\ CallOK(call[s]) /\ Target(s) \in Peer /\ Id(s) \in Content
      /\ Entry(s) \in StoreEntry /\ (Validate(Entry(s).m) => Entry(s).m.Sha256 = Id(s))
      /\ call[s].file \in Content /\ call[s].step \in Shard
  BY <1>1, PushTarget
<1>3. d \in ShardFile
  BY <1>2 DEF Inv, Typed, ShardDir
<1> HIDE DEF d
<1>4. r \in CallRecord /\ CallOK(r)
  BY <1>1, <1>2, <1>3, SendCall
<1>5. /\ e \in StoreEntry /\ e.text = Entry(s).text /\ e.m = Entry(s).m
      /\ \A i \in Shard : e.shard[i] = IF i = call[s].step THEN Nothing ELSE Entry(s).shard[i]
  BY <1>2, TruncatedShard
<1>6. /\ SameWork(r, call[s]) /\ r.pc = "copy" /\ r.data = d
      /\ r.todo = call[s].todo /\ r.step = call[s].step
  BY <1>2 DEF SameWork, SameUpload, SameCall, CallRecord
<1> HIDE DEF r, e
<1>7. /\ call[s].pc \in PushPhase
      /\ {e} # {} /\ \A x \in {e} : x \in StoreEntry /\ (Validate(x.m) => x.m.Sha256 = Id(s))
  BY <1>1, <1>2, <1>5
<1>8. /\ Inv' /\ Others(s) /\ call'[s] = r /\ (\E x \in {e} : Stores(s, x))
      /\ UNCHANGED <<input, upDir, dlDir, late, up, missed>>
  BY <1>1, <1>4, <1>7, PushInv
<1>9. QED
  BY <1>1, <1>2, <1>5, <1>6, <1>8 DEF d

LEMMA CopyStep ==
    ASSUME Inv, NEW s \in Slot, CopyShard(s)
    PROVE  /\ Inv' /\ Others(s) /\ call[s].pc = "copy" /\ call'[s] = AfterPush(s)
           /\ Target(s) \in Peer /\ Id(s) \in Content /\ call[s].file \in Content
           /\ call[s].step \in Shard
           /\ \E e : /\ Stores(s, e) /\ e.m = Entry(s).m /\ e.text = Entry(s).text
                     /\ \A i \in Shard : i # call[s].step => e.shard[i] = Entry(s).shard[i]
                     /\ Entry(s).shard[call[s].step] = Nothing
                        /\ ~Rivals(Target(s), Id(s), call[s].step, Slot \ {s}, late)
                        => e.shard[call[s].step] = call[s].data
           /\ UNCHANGED <<input, upDir, dlDir, late, up, missed>>
<1> DEFINE rivals == Rivals(Target(s), Id(s), call[s].step, Slot \ {s}, late)
           E == Written(Entry(s), call[s].step, call[s].data, rivals)
           r == AfterPush(s)
<1>1. call[s].pc = "copy" /\ Push(s, r, E)
  BY DEF CopyShard
<1>2. /\ call[s] \in CallRecord /\ CallOK(call[s]) /\ Target(s) \in Peer /\ Id(s) \in Content
      /\ Entry(s) \in StoreEntry /\ (Validate(Entry(s).m) => Entry(s).m.Sha256 = Id(s))
      /\ call[s].file \in Content /\ call[s].step \in Shard
  BY <1>1, PushTarget
<1>3. call[s].data \in ShardFile
  BY <1>2 DEF CallRecord
<1>4. r \in CallRecord /\ CallOK(r)
  BY <1>1, AfterPushCases
<1> HIDE DEF rivals, r
<1>5. /\ E # {}
      /\ \A e \in E :
            /\ e \in StoreEntry /\ e.m = Entry(s).m /\ e.text = Entry(s).text
            /\ \A i \in Shard : i # call[s].step => e.shard[i] = Entry(s).shard[i]
            /\ Entry(s).shard[call[s].step] = Nothing /\ ~rivals
               => e.shard[call[s].step] = call[s].data
  <2>1. PICK old \in StoreEntry : old = Entry(s)
    BY <1>2
  <2>2. PICK at \in Shard : at = call[s].step
    BY <1>2
  <2>3. PICK data \in ShardFile : data = call[s].data
    BY <1>3
  <2>4. /\ Written(old, at, data, rivals) # {}
        /\ \A e \in Written(old, at, data, rivals) :
              /\ e \in StoreEntry /\ e.m = old.m /\ e.text = old.text
              /\ \A i \in Shard : i # at => e.shard[i] = old.shard[i]
              /\ old.shard[at] = Nothing /\ ~rivals => e.shard[at] = data
    BY WrittenShard
  <2>5. E = Written(old, at, data, rivals)
    BY <2>1, <2>2, <2>3
  <2> HIDE DEF E
  <2>6. QED
    BY <2>1, <2>2, <2>3, <2>4, <2>5
<1> HIDE DEF E
<1>6. /\ call[s].pc \in PushPhase
      /\ \A x \in E : x \in StoreEntry /\ (Validate(x.m) => x.m.Sha256 = Id(s))
  BY <1>1, <1>2, <1>5
<1>7. /\ Inv' /\ Others(s) /\ call'[s] = r /\ (\E x \in E : Stores(s, x))
      /\ UNCHANGED <<input, upDir, dlDir, late, up, missed>>
  BY <1>1, <1>4, <1>5, <1>6, PushInv
<1>8. QED
  BY <1>1, <1>2, <1>5, <1>7 DEF r, rivals

\* A push that fails leaves its handler to go on, and the client with the next.
LEMMA PushFailsStep ==
    ASSUME Inv, NEW s \in Slot, PushFails(s)
    PROVE  /\ Inv' /\ Others(s) /\ call[s].pc \in PushPhase
           /\ \/ /\ call[s].pc \in {"open", "fill"} /\ SameWork(call'[s], call[s])
                 /\ call'[s].pc = "push" /\ call'[s].step = 0 /\ call'[s].todo = call[s].todo
              \/ /\ call[s].pc \in {"push", "copy"} /\ call'[s] = AfterPush(s)
                 /\ call[s].step \in Shard
           /\ Target(s) \in Peer /\ Id(s) \in Content /\ call[s].file \in Content
           /\ missed' = missed \cup {<<Target(s), Id(s)>>}
           /\ UNCHANGED <<input, upDir, dlDir, store, up>>
<1> DEFINE r == IF call[s].pc \in {"open", "fill"}
                THEN [call[s] EXCEPT !.pc = "push"] ELSE AfterPush(s)
<1>0. PICK a : a = Asked(s)
  OBVIOUS
<1>1. /\ call[s].pc \in PushPhase
      /\ call' = [call EXCEPT ![s] = r] /\ late' = late \cup {a}
      /\ missed' = missed \cup {<<Target(s), Id(s)>>}
      /\ UNCHANGED <<input, upDir, dlDir, store, up>>
  BY <1>0 DEF PushFails, Step
<1>2. /\ Target(s) \in Peer /\ Id(s) \in Content
      /\ call[s] \in CallRecord /\ CallOK(call[s]) /\ call[s].file \in Content
      /\ call[s].pc \in {"push", "copy"} => call[s].step \in Shard
  BY <1>1, PushTarget
<1>3. r \in CallRecord /\ CallOK(r)
  <2>1. CASE call[s].pc \in {"open", "fill"}
    BY <1>2, <2>1, FillCall
  <2>2. CASE call[s].pc \notin {"open", "fill"}
    BY <1>1, <2>2, AfterPushCases
  <2>3. QED
    BY <2>1, <2>2
<1>4. \/ /\ call[s].pc \in {"open", "fill"} /\ SameWork(r, call[s])
         /\ r.pc = "push" /\ r.step = 0 /\ r.todo = call[s].todo
      \/ /\ call[s].pc \in {"push", "copy"} /\ r = AfterPush(s)
         /\ call[s].step \in Shard
  <2>1. CASE call[s].pc \in {"open", "fill"}
    <3> DEFINE x == [call[s] EXCEPT !.pc = "push"]
    <3>1. r = x
      BY <2>1
    <3>2. /\ SameWork(x, call[s]) /\ x.pc = "push" /\ x.todo = call[s].todo
          /\ x.step = call[s].step
      BY <1>2 DEF SameWork, SameUpload, SameCall, CallRecord
    <3>3. call[s].step = 0
      BY <1>2, <2>1 DEF CallOK, PhaseOK, UploadPhase
    <3>4. QED
      BY <2>1, <3>1, <3>2, <3>3
  <2>2. CASE call[s].pc \notin {"open", "fill"}
    BY <1>1, <1>2, <2>2
  <2>3. QED
    BY <2>1, <2>2
<1>5. a \in LateRecord /\ LateOK(a)'
  <2> DEFINE manifest == call[s].pc \in {"open", "fill"}
             at == IF manifest THEN ManifestAt ELSE call[s].step
             data == IF manifest THEN call[s].m
                     ELSE IF call[s].pc = "push" THEN upDir[call[s].file][call[s].step]
                          ELSE call[s].data
  <2>1. a = [to |-> Target(s), id |-> Id(s), open |-> call[s].pc \in {"fill", "copy"},
             at |-> at, data |-> data]
    BY <1>0 DEF Asked, LocalShard
  <2>2. CASE manifest
    <3>1. at = ManifestAt /\ data = call[s].m /\ data \in AnyManifest /\ data.Sha256 = Id(s)
      BY <1>2, <2>2 DEF CallRecord, Id
    <3> HIDE DEF at, data
    <3>2. a \in LateRecord
      BY <1>2, <2>1, <3>1 DEF LateRecord
    <3>3. QED
      BY <1>1, <2>1, <3>1, <3>2 DEF LateOK
  <2>3. CASE ~manifest
    <3>1. at = call[s].step /\ at \in Shard
      BY <1>1, <1>2, <2>3
    <3>2. data \in ShardFile
      BY <1>1, <1>2, <2>3 DEF CallRecord, Inv, Typed, ShardDir
    <3> HIDE DEF at, data, manifest
    <3>3. a \in LateRecord
      BY <1>2, <2>1, <3>1, <3>2 DEF LateRecord
    <3>4. QED
      BY <1>1, <2>1, <3>1, <3>2, <3>3, ManifestPlace DEF LateOK
  <2>4. QED
    BY <2>2, <2>3
<1> HIDE DEF r
<1>6. /\ call' \in [Slot -> CallRecord] /\ \A t \in Slot : CallOK(call'[t])
      /\ call'[s] = r /\ Others(s)
  BY <1>1, <1>3, OneCall DEF Others
<1>7. Typed'
  BY <1>1, <1>2, <1>5, <1>6 DEF Inv, Typed
<1>8. StoreOK'
  <2>1. \A l \in late : LateOK(l)'
    BY <1>1 DEF Inv, StoreOK, LateOK
  <2>2. QED
    BY <1>1, <1>5, <2>1 DEF Inv, StoreOK
<1>9. QED
  BY <1>1, <1>2, <1>4, <1>6, <1>7, <1>8 DEF Inv

LEMMA BeginDownloadStep ==
    ASSUME Inv, NEW s \in Slot, BeginDownload(s)
    PROVE  /\ Inv' /\ Others(s)
           /\ ~Running(s)
           /\ call'[s].kind = "download" /\ call'[s].pc = "fetch" /\ call'[s].result = "none"
           /\ call'[s].todo = call'[s].peers
           /\ UNCHANGED <<input, upDir, dlDir, store, late, up, missed>>
<1>1. PICK list \in PeerLists, f \in Content :
          Begin(s, [NoCall EXCEPT !.kind = "download", !.pc = "fetch", !.file = f,
                      !.peers = list, !.todo = list])
  BY DEF BeginDownload
<1> DEFINE r == [NoCall EXCEPT !.kind = "download", !.pc = "fetch", !.file = f,
                   !.peers = list, !.todo = list]
<1>2. r \in CallRecord /\ CallOK(r)
  BY BeginDownloadCall
<1>3. /\ r.kind = "download" /\ r.pc = "fetch" /\ r.result = "none"
      /\ r.todo = list /\ r.peers = list
  BY DEF NoCall
<1> HIDE DEF r
<1>4. /\ ~Running(s) /\ call' = [call EXCEPT ![s] = r]
      /\ UNCHANGED <<input, upDir, dlDir, store, late, up, missed>>
  BY <1>1 DEF BeginDownload, Begin, r
<1>5. Inv' /\ Others(s) /\ call'[s] = r
  BY <1>2, <1>4, SameDirs, LocalInv
<1>6. QED
  BY <1>3, <1>4, <1>5

\* A download that goes on, or has ended: what failed in it is not forgotten.
SameDownload(r, c) == SameCall(r, c) /\ (c.broken => r.broken)

\* DownloadFile returns.
LEMMA ReturnStep ==
    ASSUME Inv, NEW s \in Slot, NEW c \in CallRecord, c.pc \in DownloadPhase, CallOK(c),
           SameDownload(c, call[s]),
           NEW d \in Content \cup {"nothing", "mixed"}, NEW v \in {"ok", "err"},
           v = "ok" => d = c.file,
           call' = [call EXCEPT ![s] = Returned(c, d, v)],
           UNCHANGED <<input, upDir, dlDir, store, late, up, missed>>
    PROVE  /\ Inv' /\ Others(s) /\ SameDownload(call'[s], call[s])
           /\ call'[s].pc = "ended" /\ call'[s].result = v
           /\ call'[s].broken = c.broken
<1>1. PICK r : r = Returned(c, d, v)
  OBVIOUS
<1>2. /\ r \in CallRecord /\ CallOK(r)
      /\ r.kind = "download" /\ c.kind = "download" /\ r.pc = "ended"
      /\ r.file = c.file /\ r.peers = c.peers
      /\ r.broken = c.broken /\ r.out = d /\ r.result = v
  BY <1>1, ReturnedCall
<1>3. Inv' /\ Others(s) /\ call'[s] = r
  BY <1>1, <1>2, SameDirs, LocalInv
<1>4. SameDownload(r, call[s])
  BY <1>2 DEF SameDownload, SameCall
<1>5. QED
  BY <1>2, <1>3, <1>4

\* What a call is, as it is and when something has failed in it.
LEMMA CallItself ==
    ASSUME Inv, NEW s \in Slot, NEW c \in {call[s], Broken(s)}
    PROVE  /\ c \in CallRecord /\ CallOK(c) /\ SameDownload(c, call[s])
           /\ c.pc = call[s].pc /\ c.todo = call[s].todo /\ c.m = call[s].m
           /\ c.have = call[s].have /\ c.step = call[s].step
           /\ c = call[s] \/ c.broken
<1>1. call[s] \in CallRecord /\ CallOK(call[s])
  BY DEF Inv, Typed
<1>2. CASE c = call[s]
  BY <1>1, <1>2 DEF SameDownload, SameCall
<1>3. CASE c = Broken(s)
  <2>1. c = [call[s] EXCEPT !.broken = TRUE]
    BY <1>3 DEF Broken
  <2>2. QED
    BY <1>1, <2>1, BrokenCall DEF SameDownload, SameCall
<1>4. QED
  BY <1>2, <1>3

LEMMA FailStep ==
    ASSUME Inv, NEW s \in Slot, call[s].pc \in DownloadPhase, UNCHANGED <<upDir, dlDir>>,
           Fail(s) \/ Fault(s, Failed(Broken(s)))
    PROVE  /\ Inv' /\ Others(s) /\ SameDownload(call'[s], call[s])
           /\ call'[s].pc = "ended"
           /\ Fail(s) \/ call'[s].broken
           /\ UNCHANGED <<input, upDir, dlDir, store, late, up, missed>>
<1>1. /\ \E c \in {call[s], Broken(s)} :
            /\ call' = [call EXCEPT ![s] = Returned(c, "nothing", "err")]
            /\ Fail(s) \/ c = Broken(s)
      /\ UNCHANGED <<input, upDir, dlDir, store, late, up, missed>>
  BY DEF Fail, Failed, Local, Fault, Step
<1>2. PICK c \in {call[s], Broken(s)} :
            /\ call' = [call EXCEPT ![s] = Returned(c, "nothing", "err")]
            /\ Fail(s) \/ c = Broken(s)
  BY <1>1
<1>3. /\ c \in CallRecord /\ CallOK(c) /\ SameDownload(c, call[s]) /\ c.pc = call[s].pc
  BY CallItself
<1>4. c = Broken(s) => c.broken
  BY BrokenCall DEF Broken, Inv, Typed
<1>5. /\ Inv' /\ Others(s) /\ SameDownload(call'[s], call[s])
      /\ call'[s].pc = "ended" /\ call'[s].broken = c.broken
  BY <1>1, <1>2, <1>3, ReturnStep
<1>6. QED
  BY <1>1, <1>2, <1>4, <1>5

LEMMA NoAnswerStep ==
    ASSUME Inv, NEW s \in Slot, NoAnswer(s)
    PROVE  /\ Inv' /\ Others(s) /\ SameDownload(call'[s], call[s])
           /\ call[s].pc = "fetch"
           /\ \/ Len(call[s].todo) > 1 /\ call'[s].pc = "fetch" /\ call'[s].todo = Tail(call[s].todo)
              \/ ~(Len(call[s].todo) > 1) /\ call'[s].pc = "ended"
           /\ Silent(s) \/ call'[s].broken
           /\ UNCHANGED <<input, upDir, dlDir, store, late, up, missed>>
<1> DEFINE next(c) == IF Len(c.todo) > 1 THEN [c EXCEPT !.todo = Tail(@)] ELSE Failed(c)
<1>1. /\ call[s].pc = "fetch" /\ call[s].pc \in DownloadPhase
      /\ UNCHANGED <<input, upDir, dlDir, store, late, up, missed>>
      /\ \/ Silent(s) /\ call' = [call EXCEPT ![s] = next(call[s])]
         \/ call' = [call EXCEPT ![s] = next(Broken(s))]
  BY DEF NoAnswer, Local, Fault, Step, DownloadPhase
<1>2. PICK c \in {call[s], Broken(s)} :
            /\ call' = [call EXCEPT ![s] = next(c)]
            /\ Silent(s) \/ c = Broken(s)
  BY <1>1
<1>3. /\ c \in CallRecord /\ CallOK(c) /\ SameDownload(c, call[s])
      /\ c.pc = call[s].pc /\ c.todo = call[s].todo
  BY CallItself
<1>4. c = Broken(s) => c.broken
  BY BrokenCall DEF Broken, Inv, Typed
<1>5. CASE Len(call[s].todo) > 1
  <2> DEFINE r == [c EXCEPT !.todo = Tail(@)]
  <2>1. r \in CallRecord /\ CallOK(r)
    BY <1>1, <1>3, <1>5, AskNextCall
  <2>2. /\ SameDownload(r, call[s]) /\ r.pc = "fetch" /\ r.todo = Tail(call[s].todo)
        /\ r.broken = c.broken
    BY <1>1, <1>3 DEF SameDownload, SameCall, CallRecord
  <2>3. call' = [call EXCEPT ![s] = r]
    BY <1>2, <1>3, <1>5
  <2> HIDE DEF r
  <2>4. Inv' /\ Others(s) /\ call'[s] = r
    BY <1>1, <2>1, <2>3, SameDirs, LocalInv
  <2>5. QED
    BY <1>1, <1>2, <1>4, <1>5, <2>2, <2>4
<1>6. CASE ~(Len(call[s].todo) > 1)
  <2>1. call' = [call EXCEPT ![s] = Returned(c, "nothing", "err")]
    BY <1>2, <1>3, <1>6 DEF Failed
  <2>2. /\ Inv' /\ Others(s) /\ SameDownload(call'[s], call[s])
        /\ call'[s].pc = "ended" /\ call'[s].broken = c.broken
    BY <1>1, <1>3, <2>1, ReturnStep
  <2>3. QED
    BY <1>1, <1>2, <1>4, <1>6, <2>2
<1>7. QED
  BY <1>5, <1>6

LEMMA TakeStep ==
    ASSUME Inv, NEW s \in Slot, TakeManifest(s)
    PROVE  /\ Inv' /\ Others(s) /\ SameDownload(call'[s], call[s])
           /\ call'[s].broken = call[s].broken
           /\ call[s].pc = "fetch" /\ call'[s].pc = "shards" /\ call'[s].have = {}
           /\ ~Silent(s) /\ Target(s) \in up /\ InTodo(call[s], Target(s))
           /\ call'[s].m = store[Target(s)][call[s].file].m
           /\ UNCHANGED <<input, upDir, dlDir, store, late, up, missed>>
<1> DEFINE x == store[Target(s)][call[s].file].m
           r == [call[s] EXCEPT !.pc = "shards", !.m = x]
<1>1. call[s] \in CallRecord /\ CallOK(call[s]) /\ call[s].pc = "fetch"
  BY DEF Inv, Typed, TakeManifest
<1>2. call[s].todo \in Seq(Peer) /\ call[s].todo # <<>> /\ call[s].file \in Content
  BY <1>1 DEF CallRecord, CallOK, PhaseOK
<1>3. Target(s) \in Peer /\ InTodo(call[s], Target(s))
  BY <1>2, TailOfTodo DEF Target, InTodo
<1>4. x \in AnyManifest /\ (Validate(x) => x.Sha256 = call[s].file)
  BY <1>2, <1>3 DEF Inv, Typed, StoreOK, StoreEntry
<1>5. /\ call' = [call EXCEPT ![s] = r]
      /\ UNCHANGED <<input, upDir, dlDir, store, late, up, missed>>
      /\ ~Silent(s) /\ Target(s) \in up
  BY DEF TakeManifest, Local, Step, Silent
<1> HIDE DEF x
<1>6. r \in CallRecord /\ CallOK(r)
  BY <1>1, <1>4, TakeCall
<1>7. /\ SameDownload(r, call[s]) /\ r.broken = call[s].broken
      /\ r.pc = "shards" /\ r.m = x /\ r.have = call[s].have
  BY <1>1 DEF SameDownload, SameCall, CallRecord
<1>8. call[s].have = {}
  BY <1>1 DEF CallOK, PhaseOK
<1> HIDE DEF r
<1>9. Inv' /\ Others(s) /\ call'[s] = r
  BY <1>5, <1>6, SameDirs, LocalInv
<1>10. QED
  BY <1>1, <1>3, <1>5, <1>7, <1>8, <1>9 DEF x

LEMMA OpenShardStep ==
    ASSUME Inv, NEW s \in Slot, OpenShard(s)
    PROVE  /\ Inv' /\ Others(s) /\ SameDownload(call'[s], call[s])
           /\ call'[s].broken = call[s].broken
           /\ call[s].pc = "shards" /\ call'[s].pc = "receive"
           /\ call'[s].m = call[s].m /\ call'[s].have = call[s].have
           /\ call'[s].step \in Shard \ call[s].have
           /\ call[s].file \in Content
           /\ \A c \in Content, i \in Shard :
                 dlDir'[c][i] = IF c = call[s].file /\ i = call'[s].step THEN Nothing
                                ELSE dlDir[c][i]
           /\ UNCHANGED <<input, upDir, store, late, up, missed>>
<1>1. /\ call[s] \in CallRecord /\ CallOK(call[s]) /\ call[s].pc = "shards"
      /\ dlDir \in [Content -> [Shard -> ShardFile]]
  BY DEF Inv, Typed, OpenShard, MoreToFetch, ShardDir
<1>2. PICK i \in Shard \ call[s].have :
         /\ dlDir' = [dlDir EXCEPT ![call[s].file][i] = Nothing]
         /\ Local(s, [call[s] EXCEPT !.pc = "receive", !.step = i])
  BY DEF OpenShard
<1> DEFINE r == [call[s] EXCEPT !.pc = "receive", !.step = i]
<1>3. r \in CallRecord /\ CallOK(r)
  BY <1>1, OpenShardCall
<1>4. /\ SameDownload(r, call[s]) /\ r.broken = call[s].broken /\ r.pc = "receive" /\ r.m = call[s].m /\ r.have = call[s].have
      /\ r.step = i
  BY <1>1 DEF SameDownload, SameCall, CallRecord
<1> HIDE DEF r
<1>5. call' = [call EXCEPT ![s] = r] /\ UNCHANGED <<input, upDir, store, late, up, missed>>
  BY <1>2 DEF OpenShard, Local, Step, r
<1>6. PICK f \in Content : f = call[s].file
  BY <1>1 DEF CallOK, PhaseOK
<1>7. dlDir' = [dlDir EXCEPT ![f][i] = Nothing]
  BY <1>2, <1>6
<1>8. Nothing \in ShardFile
  BY DEF Nothing, ShardFile
<1>9. dlDir' \in [Content -> ShardDir]
  BY <1>1, <1>7, <1>8 DEF ShardDir
<1>10. \A c \in Content, k \in Shard :
          dlDir'[c][k] = IF c = f /\ k = i THEN Nothing ELSE dlDir[c][k]
  BY <1>1, <1>7
<1>11. Inv' /\ Others(s) /\ call'[s] = r
  BY <1>3, <1>5, <1>9, SameDirs, LocalInv
<1>12. QED
  BY <1>1, <1>4, <1>5, <1>6, <1>10, <1>11

LEMMA ArrivesStep ==
    ASSUME Inv, NEW s \in Slot, ShardArrives(s)
    PROVE  /\ Inv' /\ Others(s) /\ SameDownload(call'[s], call[s])
           /\ call'[s].broken = call[s].broken
           /\ call[s].pc = "receive" /\ call'[s].pc = "shards"
           /\ call'[s].m = call[s].m /\ call'[s].have = call[s].have \cup {call[s].step}
           /\ call[s].step \in Shard /\ call[s].file \in Content
           /\ \A c \in Content, i \in Shard :
                 dlDir'[c][i] = IF c = call[s].file /\ i = call[s].step
                                THEN call[s].m.ShardHashes[i] ELSE dlDir[c][i]
           /\ UNCHANGED <<input, upDir, store, late, up, missed>>
<1> DEFINE r == [call[s] EXCEPT !.pc = "shards", !.have = @ \cup {call[s].step}]
           x == call[s].m.ShardHashes[call[s].step]
<1>1. /\ call[s] \in CallRecord /\ CallOK(call[s]) /\ call[s].pc = "receive"
      /\ dlDir \in [Content -> [Shard -> ShardFile]]
  BY DEF Inv, Typed, ShardArrives, ShardDir
<1>2. r \in CallRecord /\ CallOK(r)
  BY <1>1, ArrivesCall
<1>3. /\ SameDownload(r, call[s]) /\ r.broken = call[s].broken /\ r.pc = "shards" /\ r.m = call[s].m
      /\ r.have = call[s].have \cup {call[s].step}
  BY <1>1 DEF SameDownload, SameCall, CallRecord
<1>4. call' = [call EXCEPT ![s] = r] /\ UNCHANGED <<input, upDir, store, late, up, missed>>
  BY DEF ShardArrives, Local, Step
<1> HIDE DEF r
<1>5. PICK f \in Content : f = call[s].file
  BY <1>1 DEF CallOK, PhaseOK
<1>6. PICK i \in Shard : i = call[s].step
  BY <1>1 DEF CallOK, PhaseOK
<1>7. x \in ShardFile
  <2>1. PICK p \in Providers(s) : Serves(p, s, call[s].step)
    BY DEF ShardArrives
  <2>2. p \in Peer
    BY DEF Providers, Inv, Typed
  <2>3. x = store[p][f].shard[i]
    BY <2>1, <1>5, <1>6 DEF Serves
  <2>4. QED
    BY <2>2, <2>3 DEF Inv, Typed, StoreEntry, ShardDir
<1>8. dlDir' = [dlDir EXCEPT ![f][i] = x]
  BY <1>5, <1>6 DEF ShardArrives
<1> HIDE DEF x
<1>9. dlDir' \in [Content -> ShardDir]
  BY <1>1, <1>7, <1>8 DEF ShardDir
<1>10. \A c \in Content, k \in Shard : dlDir'[c][k] = IF c = f /\ k = i THEN x ELSE dlDir[c][k]
  BY <1>1, <1>8
<1>11. Inv' /\ Others(s) /\ call'[s] = r
  BY <1>2, <1>4, <1>9, SameDirs, LocalInv
<1>12. \A c \in Content, k \in Shard :
          dlDir'[c][k] = IF c = call[s].file /\ k = call[s].step
                         THEN call[s].m.ShardHashes[k] ELSE dlDir[c][k]
  BY <1>5, <1>6, <1>10 DEF x
<1>13. QED
  BY <1>1, <1>3, <1>4, <1>5, <1>6, <1>11, <1>12

\* A shard that does not come, or comes wrong.
LEMMA ShardEndsStep ==
    ASSUME Inv, NEW s \in Slot, ShardIsWrong(s) \/ FetchFails(s)
    PROVE  /\ Inv' /\ Others(s) /\ SameDownload(call'[s], call[s])
           /\ call[s].pc \in {"shards", "receive"} /\ call'[s].pc = "shards"
           /\ call'[s].m = call[s].m /\ call'[s].have = call[s].have
           /\ call[s].file \in Content
           /\ \A c \in Content, i \in Shard :
                 \/ dlDir'[c][i] = dlDir[c][i]
                 \/ c = call[s].file /\ i \notin call[s].have
           /\ UNCHANGED <<input, upDir, store, late, up, missed>>
<1>1. /\ call[s] \in CallRecord /\ CallOK(call[s]) /\ call[s].pc \in {"shards", "receive"}
      /\ dlDir \in [Content -> [Shard -> ShardFile]]
  BY DEF Inv, Typed, ShardIsWrong, FetchFails, ShardDir
<1>2. PICK c \in {call[s], Broken(s)} : call' = [call EXCEPT ![s] = [c EXCEPT !.pc = "shards"]]
  BY DEF ShardIsWrong, FetchFails, Local, Fault, Step
<1>3. UNCHANGED <<input, upDir, store, late, up, missed>>
  BY DEF ShardIsWrong, FetchFails, Local, Fault, Step
<1> DEFINE r == [c EXCEPT !.pc = "shards"]
<1>4. /\ c \in CallRecord /\ CallOK(c) /\ SameDownload(c, call[s]) /\ c.pc = call[s].pc
      /\ c.m = call[s].m /\ c.have = call[s].have
  BY CallItself
<1>5. r \in CallRecord /\ CallOK(r)
  BY <1>1, <1>4, ShardEndsCall
<1>6. SameDownload(r, call[s]) /\ r.pc = "shards" /\ r.m = call[s].m /\ r.have = call[s].have
  BY <1>4 DEF SameDownload, SameCall, CallRecord
<1> HIDE DEF r
<1>7. PICK f \in Content : f = call[s].file
  BY <1>1 DEF CallOK, PhaseOK
<1>8. /\ dlDir' \in [Content -> ShardDir]
      /\ \A d \in Content, i \in Shard :
            dlDir'[d][i] = dlDir[d][i] \/ (d = f /\ i \notin call[s].have)
  <2>1. CASE ShardIsWrong(s)
    <3>1. PICK i \in Shard : i = call[s].step /\ i \notin call[s].have
      BY <1>1, <2>1 DEF ShardIsWrong, CallOK, PhaseOK
    <3>2. dlDir' = [dlDir EXCEPT ![f][i] = Nothing]
      BY <1>7, <2>1, <3>1 DEF ShardIsWrong
    <3>3. Nothing \in ShardFile
      BY DEF Nothing, ShardFile
    <3>4. \A d \in Content, k \in Shard :
             dlDir'[d][k] = IF d = f /\ k = i THEN Nothing ELSE dlDir[d][k]
      BY <1>1, <3>2
    <3>5. dlDir' \in [Content -> ShardDir]
      BY <1>1, <3>2, <3>3 DEF ShardDir
    <3>6. QED
      BY <3>1, <3>4, <3>5
  <2>2. CASE FetchFails(s)
    BY <1>1, <2>2 DEF FetchFails, ShardDir
  <2>3. QED
    BY <2>1, <2>2
<1>9. call' = [call EXCEPT ![s] = r]
  BY <1>2 DEF r
<1>10. Inv' /\ Others(s) /\ call'[s] = r
  BY <1>3, <1>5, <1>8, <1>9, SameDirs, LocalInv
<1>11. QED
  BY <1>1, <1>3, <1>6, <1>7, <1>8, <1>10

LEMMA GiveUpStep ==
    ASSUME Inv, NEW s \in Slot, GiveUp(s)
    PROVE  /\ Inv' /\ Others(s) /\ SameDownload(call'[s], call[s])
           /\ call[s].pc = "shards" /\ call'[s].pc = "ended"
           /\ UNCHANGED <<input, upDir, dlDir, store, late, up, missed>>
<1>1. call[s].pc = "shards" /\ Fail(s) /\ UNCHANGED <<upDir, dlDir>>
  BY DEF GiveUp, MoreToFetch
<1>2. call[s].pc \in DownloadPhase
  BY <1>1 DEF DownloadPhase
<1>3. QED
  BY <1>1, <1>2, FailStep

\* A valid manifest asks for a shard at least.
LEMMA EnoughShards ==
    ASSUME Inv, NEW s \in Slot, call[s].pc = "shards", ~MoreToFetch(s), Validate(call[s].m)
    PROVE  /\ call[s].have # {} /\ call[s].have \subseteq Shard
           /\ Decoded(s) \in Content \cup {"nothing", "mixed"}
<1>1. /\ call[s] \in CallRecord /\ CallOK(call[s])
      /\ dlDir \in [Content -> [Shard -> ShardFile]]
  BY DEF Inv, Typed, ShardDir
<1>2. /\ call[s].have \subseteq Shard /\ call[s].file \in Content
      /\ call[s].m.MinShards \in Nat /\ call[s].m.DataShards \in Nat
  BY <1>1 DEF CallRecord, CallOK, PhaseOK, AnyManifest
<1>3. call[s].m.MinShards = call[s].m.DataShards /\ call[s].m.DataShards > 0
  BY DEF Validate
<1>4. ~(Cardinality(call[s].have) < call[s].m.MinShards)
  BY DEF MoreToFetch
<1>5. call[s].have # {}
  <2>1. SUFFICES ASSUME call[s].have = {} PROVE FALSE
    OBVIOUS
  <2>2. Cardinality(call[s].have) = 0
    BY <2>1, FS_EmptySet
  <2>3. QED
    BY <1>2, <1>3, <1>4, <2>2
<1> DEFINE k == CHOOSE i \in call[s].have : TRUE
<1>6. k \in Shard
  BY <1>2, <1>5
<1> HIDE DEF k
<1>7. dlDir[call[s].file][k].of \in Content \cup {"nothing", "mixed"}
  BY <1>1, <1>2, <1>6 DEF ShardFile
<1>8. Decoded(s) \in {dlDir[call[s].file][k].of, "mixed"}
  BY DEF Decoded, k
<1>9. QED
  BY <1>2, <1>5, <1>7, <1>8

LEMMA ReconstructStep ==
    ASSUME Inv, NEW s \in Slot, Reconstruct(s)
    PROVE  /\ Inv' /\ Others(s) /\ SameDownload(call'[s], call[s])
           /\ call[s].pc = "shards" /\ call'[s].pc = "ended" /\ ~MoreToFetch(s)
           /\ \/ call'[s].broken \/ call'[s].result = "ok"
              \/ ~Validate(call[s].m) \/ Decoded(s) # call[s].m.Sha256
           /\ UNCHANGED <<input, upDir, dlDir, store, late, up, missed>>
<1>1. /\ call[s] \in CallRecord /\ CallOK(call[s]) /\ call[s].pc = "shards" /\ ~MoreToFetch(s)
      /\ call[s].pc \in DownloadPhase /\ UNCHANGED <<upDir, dlDir>>
  BY DEF Inv, Typed, Reconstruct, DownloadPhase
<1>2. \/ Fail(s) /\ (~Validate(call[s].m) \/ Decoded(s) # call[s].m.Sha256)
      \/ /\ Validate(call[s].m) /\ Decoded(s) = call[s].m.Sha256
         /\ Local(s, Returned(call[s], Decoded(s), "ok"))
      \/ Fault(s, Failed(Broken(s)))
  BY DEF Reconstruct
<1>3. CASE Fail(s) /\ (~Validate(call[s].m) \/ Decoded(s) # call[s].m.Sha256)
  BY <1>1, <1>3, FailStep
<1>4. CASE /\ Validate(call[s].m) /\ Decoded(s) = call[s].m.Sha256
           /\ Local(s, Returned(call[s], Decoded(s), "ok"))
  <2>1. PICK d \in Content \cup {"nothing", "mixed"} : d = Decoded(s)
    BY <1>1, <1>4, EnoughShards
  <2>2. d = call[s].file
    BY <1>1, <1>4, <2>1 DEF CallOK, NameOK, Taken
  <2>3. call' = [call EXCEPT ![s] = Returned(call[s], d, "ok")]
        /\ UNCHANGED <<input, upDir, dlDir, store, late, up, missed>>
    BY <1>1, <1>4, <2>1 DEF Local, Step
  <2>4. SameDownload(call[s], call[s])
    BY DEF SameDownload, SameCall
  <2>5. /\ Inv' /\ Others(s) /\ SameDownload(call'[s], call[s])
        /\ call'[s].pc = "ended" /\ call'[s].result = "ok"
    BY <1>1, <2>2, <2>3, <2>4, ReturnStep
  <2>6. QED
    BY <1>1, <2>3, <2>5
<1>5. CASE Fault(s, Failed(Broken(s)))
  <2>1. call'[s].broken
    <3>1. call' = [call EXCEPT ![s] = Returned(Broken(s), "nothing", "err")]
      BY <1>5 DEF Fault, Step, Failed
    <3>2. call \in [Slot -> CallRecord]
      BY DEF Inv, Typed
    <3>3. call'[s] = Returned(Broken(s), "nothing", "err")
      BY <3>1, <3>2
    <3>4. Broken(s).broken
      BY <1>1, BrokenCall DEF Broken
    <3>5. QED
      BY <3>3, <3>4 DEF Returned, NoCall
  <2>2. QED
    BY <1>1, <1>5, <2>1, FailStep
<1>6. QED
  BY <1>2, <1>3, <1>4, <1>5

LEMMA EditStep ==
    ASSUME Inv, EditInput
    PROVE  /\ Inv'
           /\ \A s \in Slot :
                 /\ call'[s] = [call[s] EXCEPT !.edited = @ \/ Reads(s)]
                 /\ call'[s].edited = (call[s].edited \/ Reads(s))
                 /\ call'[s].kind = call[s].kind /\ call'[s].pc = call[s].pc
                 /\ call'[s].result = call[s].result
                 /\ call'[s].peers = call[s].peers /\ call'[s].todo = call[s].todo
                 /\ call'[s].file = call[s].file /\ call'[s].m = call[s].m
                 /\ call'[s].block = call[s].block /\ call'[s].size = call[s].size
                 /\ call'[s].step = call[s].step /\ call'[s].have = call[s].have
                 /\ call'[s].data = call[s].data /\ call'[s].broken = call[s].broken
           /\ UNCHANGED <<upDir, dlDir, store, late, up, missed>>
<1>1. ASSUME NEW s \in Slot
      PROVE  /\ call'[s] \in CallRecord /\ CallOK(call'[s])
             /\ call'[s] = [call[s] EXCEPT !.edited = @ \/ Reads(s)]
             /\ call'[s].edited = (call[s].edited \/ Reads(s))
             /\ call'[s].kind = call[s].kind /\ call'[s].pc = call[s].pc
             /\ call'[s].result = call[s].result
             /\ call'[s].peers = call[s].peers /\ call'[s].todo = call[s].todo
             /\ call'[s].file = call[s].file /\ call'[s].m = call[s].m
             /\ call'[s].block = call[s].block /\ call'[s].size = call[s].size
             /\ call'[s].step = call[s].step /\ call'[s].have = call[s].have
             /\ call'[s].data = call[s].data /\ call'[s].broken = call[s].broken
  <2>1. call[s] \in CallRecord /\ CallOK(call[s])
    BY DEF Inv, Typed
  <2>2. PICK b \in BOOLEAN : b = (call[s].edited \/ Reads(s))
    BY <2>1, Zenon DEF CallRecord
  <2>3. call'[s] = [call[s] EXCEPT !.edited = @ \/ Reads(s)]
    BY DEF EditInput
  <2>4. call'[s] = [call[s] EXCEPT !.edited = b]
    BY <2>2, <2>3
  <2> DEFINE r == [call[s] EXCEPT !.edited = b]
  <2>5. r \in CallRecord /\ CallOK(r)
    BY <2>1, EditedCall
  <2>6. /\ r.edited = b /\ r.kind = call[s].kind /\ r.pc = call[s].pc
        /\ r.result = call[s].result /\ r.peers = call[s].peers /\ r.todo = call[s].todo
        /\ r.file = call[s].file /\ r.m = call[s].m /\ r.block = call[s].block
        /\ r.size = call[s].size /\ r.step = call[s].step /\ r.have = call[s].have
        /\ r.data = call[s].data /\ r.broken = call[s].broken
    BY <2>1 DEF CallRecord
  <2> HIDE DEF r
  <2>7. call'[s] = r
    BY <2>4 DEF r
  <2>8. QED
    BY <2>2, <2>3, <2>5, <2>6, <2>7
<1>2. /\ UNCHANGED <<upDir, dlDir, store, late, up, missed>> /\ input' \in Content
      /\ call' = [s \in Slot |-> [call[s] EXCEPT !.edited = @ \/ Reads(s)]]
  BY DEF EditInput
<1>3. call' \in [Slot -> CallRecord]
  BY <1>1, <1>2
<1>4. Typed'
  BY <1>2, <1>3 DEF Inv, Typed
<1>5. StoreOK'
  BY <1>2 DEF Inv, StoreOK, LateOK
<1>6. Inv'
  BY <1>1, <1>4, <1>5 DEF Inv
<1>7. QED
  BY <1>1, <1>2, <1>6

LEMMA EmptyStoreOK ==
    /\ EmptyStore \in [Content -> StoreEntry]
    /\ \A c \in Content : ~Validate(EmptyStore[c].m)
<1>1. ZeroManifest \in AnyManifest /\ ~Validate(ZeroManifest) /\ NoShards \in ShardDir
  BY ConstantTypes
<1>2. QED
  BY <1>1 DEF EmptyStore, StoreEntry

LEMMA StopStep ==
    ASSUME Inv, NEW p \in Peer, StopNode(p)
    PROVE  /\ Inv'
           /\ up' = up \ {p}
           /\ \A q \in Peer \ {p} : store'[q] = store[q]
           /\ UNCHANGED <<call, input, upDir, dlDir, missed>>
<1>1. /\ up' = up \ {p} /\ store' = [store EXCEPT ![p] = EmptyStore] /\ late' \subseteq late
      /\ UNCHANGED <<call, input, upDir, dlDir, missed>>
  BY DEF StopNode
<1>2. store \in [Peer -> [Content -> StoreEntry]]
  BY DEF Inv, Typed
<1>3. store' \in [Peer -> [Content -> StoreEntry]]
  BY <1>1, <1>2, EmptyStoreOK
<1>4. store'[p] = EmptyStore /\ \A q \in Peer \ {p} : store'[q] = store[q]
  BY <1>1, <1>2
<1>5. Typed'
  BY <1>1, <1>3 DEF Inv, Typed
<1>6. StoreOK'
  BY <1>1, <1>4, EmptyStoreOK DEF Inv, StoreOK, LateOK
<1>7. QED
  BY <1>1, <1>4, <1>5, <1>6 DEF Inv

\* A late handler touches what a push has failed about.
LEMMA LateStep ==
    ASSUME Inv, NEW l \in late, LateOpen(l) \/ LateWrite(l)
    PROVE  /\ Inv'
           /\ l.to \in Peer /\ l.id \in Content /\ <<l.to, l.id>> \in missed
           /\ \A p \in Peer, c \in Content :
                 /\ (p = l.to /\ c = l.id) \/ store'[p][c] = store[p][c]
                 /\ store'[p][c].shard = store[p][c].shard \/ store'[p][c].m = store[p][c].m
           /\ UNCHANGED <<call, input, upDir, dlDir, up, missed>>
<1>1. /\ l \in LateRecord /\ LateOK(l)
      /\ store \in [Peer -> [Content -> StoreEntry]] /\ late \in SUBSET LateRecord
  BY DEF Inv, Typed, StoreOK
<1>2. PICK p \in Peer : p = l.to
  BY <1>1 DEF LateRecord
<1>3. PICK c \in Content : c = l.id
  BY <1>1 DEF LateRecord
<1>4. PICK old \in StoreEntry : old = store[p][c]
  BY <1>1
<1>5. UNCHANGED <<call, input, upDir, dlDir, up, missed>>
  BY DEF LateOpen, LateWrite
<1>6. PICK e \in StoreEntry :
         /\ store' = [store EXCEPT ![p][c] = e]
         /\ e.m = old.m \/ (e.shard = old.shard /\ (Validate(e.m) => e.m.Sha256 = c))
  <2>1. l.at \in Shard \cup {ManifestAt}
    BY <1>1 DEF LateRecord
  <2>2. CASE LateOpen(l)
    <3>1. PICK e : e = Truncated(old, l.at)
      OBVIOUS
    <3>2. e \in StoreEntry /\ e.m = old.m
      BY <2>1, <3>1, TruncatedManifest, TruncatedShard
    <3>3. store' = [store EXCEPT ![p][c] = e]
      BY <1>1, <1>2, <1>3, <1>4, <2>2, <3>1 DEF LateOpen
    <3>4. QED
      BY <3>2, <3>3
  <2>3. CASE LateWrite(l)
    <3> DEFINE rivals == Rivals(l.to, l.id, l.at, Slot, late \ {l})
    <3>1. PICK e \in Written(old, l.at, l.data, rivals) : store' = [store EXCEPT ![p][c] = e]
      BY <1>2, <1>3, <1>4, <2>3 DEF LateWrite
    <3> HIDE DEF rivals
    <3>2. /\ l.at = ManifestAt =>
                l.data \in AnyManifest /\ (Validate(l.data) => l.data.Sha256 = c)
          /\ l.at # ManifestAt => l.data \in ShardFile
      BY <1>1, <1>3 DEF LateOK
    <3>3. /\ e \in StoreEntry
          /\ l.at = ManifestAt => e.m = l.data /\ e.shard = old.shard
          /\ l.at # ManifestAt => e.m = old.m
      BY <2>1, <3>1, <3>2, ManifestPlace, WrittenManifest, WrittenShard
    <3>4. QED
      BY <3>1, <3>2, <3>3
  <2>4. QED
    BY <2>2, <2>3
<1>7. /\ store' \in [Peer -> [Content -> StoreEntry]]
      /\ \A q \in Peer, d \in Content :
            store'[q][d] = IF q = p /\ d = c THEN e ELSE store[q][d]
  BY <1>1, <1>6
<1>8. /\ late' \in SUBSET LateRecord /\ \A k \in late' : LateOK(k)'
  <2>1. \A k \in late : LateOK(k)'
    BY <1>5 DEF Inv, StoreOK, LateOK
  <2>2. CASE LateOpen(l)
    <3>1. PICK k : k = [l EXCEPT !.open = TRUE]
      OBVIOUS
    <3>2. /\ k \in LateRecord
          /\ k.to = l.to /\ k.id = l.id /\ k.at = l.at /\ k.data = l.data
      BY <1>1, <3>1 DEF LateRecord
    <3>3. LateOK(k)'
      BY <1>1, <1>5, <3>2 DEF LateOK
    <3>4. late' = (late \ {l}) \cup {k}
      BY <2>2, <3>1 DEF LateOpen
    <3>5. QED
      BY <1>1, <2>1, <3>2, <3>3, <3>4
  <2>3. CASE LateWrite(l)
    BY <1>1, <2>1, <2>3 DEF LateWrite
  <2>4. QED
    BY <2>2, <2>3
<1>9. Typed'
  BY <1>5, <1>7, <1>8 DEF Inv, Typed
<1>10. StoreOK'
  <2>1. ASSUME NEW q \in Peer, NEW d \in Content, Validate(store'[q][d].m)
        PROVE  store'[q][d].m.Sha256 = d
    <3>1. Validate(store[q][d].m) => store[q][d].m.Sha256 = d
      BY DEF Inv, StoreOK
    <3>2. CASE q = p /\ d = c
      BY <1>4, <1>6, <1>7, <2>1, <3>1, <3>2
    <3>3. CASE ~(q = p /\ d = c)
      BY <1>7, <2>1, <3>1, <3>3
    <3>4. QED
      BY <3>2, <3>3
  <2>2. QED
    BY <1>8, <2>1 DEF StoreOK
<1>11. Inv'
  BY <1>5, <1>9, <1>10 DEF Inv
<1>12. <<l.to, l.id>> \in missed
  BY <1>1 DEF LateOK
<1>13. \A q \in Peer, d \in Content :
          /\ (q = l.to /\ d = l.id) \/ store'[q][d] = store[q][d]
          /\ store'[q][d].shard = store[q][d].shard \/ store'[q][d].m = store[q][d].m
  BY <1>2, <1>3, <1>4, <1>6, <1>7
<1>14. QED
  BY <1>2, <1>3, <1>5, <1>11, <1>12, <1>13

----------------------------------------------------------------------------
(* Types, and the name of a downloaded file                                 *)

LEMMA InvInit == Init => Inv
<1> SUFFICES ASSUME Init PROVE Inv
  OBVIOUS
<1>1. NoCall.kind = "none" /\ NoCall.pc = "ended" /\ NoCall.result = "none" /\ NoCall.todo = <<>>
  BY DEF NoCall
<1>2. NoCall \in CallRecord
  BY NoCallTyped
<1>3. CallOK(NoCall)
  BY <1>1 DEF CallOK, PhaseOK, NameOK, UploadPhase, DownloadPhase, PushPhase, Named, Taken
<1>4. Typed
  BY <1>2, EmptyStoreOK, ConstantTypes DEF Init, Typed
<1>5. StoreOK
  BY EmptyStoreOK DEF Init, StoreOK
<1>6. QED
  BY <1>3, <1>4, <1>5 DEF Init, Inv

LEMMA InvStep == Inv /\ [Next]_vars => Inv'
<1> SUFFICES ASSUME Inv, [Next]_vars PROVE Inv'
  OBVIOUS
<1>1. ASSUME NEW s \in Slot, Upload(s) PROVE Inv'
  BY <1>1, BeginUploadStep, NameStep, StatStep, SumStep, CreateStep, WriteStep, HashStep,
     PrepareFailsStep, OpenStep, FillStep, SkipStep, SendStep, CopyStep, PushFailsStep DEF Upload
<1>2. ASSUME NEW s \in Slot, Download(s) PROVE Inv'
  BY <1>2, BeginDownloadStep, NoAnswerStep, TakeStep, OpenShardStep, ArrivesStep,
     ShardEndsStep, GiveUpStep, ReconstructStep DEF Download
<1>3. CASE EditInput
  BY <1>3, EditStep
<1>4. ASSUME NEW p \in Peer, StopNode(p) PROVE Inv'
  BY <1>4, StopStep
<1>5. ASSUME NEW l \in late, LateOpen(l) \/ LateWrite(l) PROVE Inv'
  BY <1>5, LateStep
<1>6. CASE UNCHANGED vars
  BY <1>6 DEF vars, Inv, Typed, StoreOK, LateOK
<1>7. QED
  BY <1>1, <1>2, <1>3, <1>4, <1>5, <1>6 DEF Next

LEMMA InvAlways == Spec => []Inv
  BY InvInit, InvStep, PTL DEF Spec

LEMMA InvTypeOK == Inv => TypeOK
<1> SUFFICES ASSUME Inv PROVE TypeOK
  OBVIOUS
<1>1. ASSUME NEW s \in Slot
      PROVE  /\ call[s].pc \in UploadPhase \cup DownloadPhase \cup {"ended"}
             /\ call[s].result \in {"none", "ok", "err"}
             /\ call[s].pc \in {"ended", "name"} \/ call[s].file \in Content
             /\ call[s].todo # <<>> \/ call[s].pc \notin PushPhase \cup {"fetch"}
             /\ call[s].have \subseteq Shard
             /\ call[s].pc \in PushPhase => Validate(call[s].m)
  <2>1. call[s] \in CallRecord /\ PhaseOK(call[s]) /\ NameOK(call[s])
    BY DEF Inv, Typed, CallOK
  <2>2. QED
    BY <2>1 DEF CallRecord, PhaseOK, NameOK, UploadPhase, Named
<1>2. input \in Content /\ up \subseteq Peer /\ missed \subseteq Peer \X Content
  BY DEF Inv, Typed
<1>3. ASSUME NEW c \in Content, NEW i \in Shard
      PROVE  /\ upDir[c][i].of \in Content \cup {"nothing", "mixed"}
             /\ dlDir[c][i].of \in Content \cup {"nothing", "mixed"}
  BY DEF Inv, Typed, ShardDir, ShardFile
<1>4. QED
  BY <1>1, <1>2, <1>3 DEF TypeOK

\* The calls of a client are where their code can be: there is a node to talk to
\* whenever one is asked or pushed to, and what UploadFile pushes passes
\* Validate, for every number of calls, nodes and edits.
THEOREM TypeCorrect == Spec => []TypeOK
  BY InvAlways, InvTypeOK, PTL

\* DownloadFile reports success only with the content that the file ID names:
\* whatever other calls and the user do to the file, the directories and the
\* nodes, the manifest that it takes names the file ID or does not pass
\* Validate, and the output is compared with that name.
THEOREM DownloadsWhatIsNamed == Spec => []SuccessIsNamed
<1>1. Inv => SuccessIsNamed
  BY DEF Inv, CallOK, NameOK, SuccessIsNamed
<1>2. QED
  BY <1>1, InvAlways, PTL

----------------------------------------------------------------------------
(* The histories                                                            *)

\* A node that keeps what it has of a file still stores it.
LEMMA StoredSame ==
    ASSUME NEW p, NEW f, store'[p][f] = store[p][f], Stored(p, f)
    PROVE  Stored(p, f)'
<1> DEFINE Whole(e) == /\ e.text = "whole"
                       /\ Validate(e.m) /\ e.m.FileSize = Size[f]
                       /\ \A i \in Shard : /\ e.shard[i] = ShardOf(f, e.m.BlockSize)
                                           /\ e.shard[i] = e.m.ShardHashes[i]
                                           /\ e.shard[i] # Nothing
<1>1. Stored(p, f) <=> Whole(store[p][f])
  BY DEF Stored
<1>2. Stored(p, f)' <=> Whole(store'[p][f])
  BY DEF Stored
<1> HIDE DEF Whole
<1>3. QED
  BY <1>1, <1>2

\* A stuttering step adds nothing to the histories.
LEMMA RecordedStutter ==
    ASSUME Recorded, UNCHANGED vars
    PROVE  Recorded'
<1>1. /\ call' = call /\ store' = store /\ up' = up
      /\ shared' = shared /\ lacking' = lacking
  BY DEF vars
<1>2. ASSUME NEW s \in Slot, NEW t \in Slot, Overlaps(s, t)'
      PROVE  Overlaps(s, t)
  BY <1>1, <1>2 DEF Overlaps, Running, Id
<1>3. ASSUME NEW s \in Slot, Lacks(s)'
      PROVE  Lacks(s)
  <2>1. call'[s].kind = "download" /\ Running(s) /\ Providers(s)' = Providers(s)
    BY <1>1, <1>3 DEF Lacks, Running, Providers
  <2>2. PICK f : f = call[s].file
    OBVIOUS
  <2>3. PICK p \in Providers(s), q \in Providers(s) :
           \/ ~Stored(p, f)'
           \/ store'[p][f].m.BlockSize # store'[q][f].m.BlockSize
    BY <1>1, <1>3, <2>1, <2>2 DEF Lacks
  <2>4. Stored(p, f) => Stored(p, f)'
    BY <1>1, StoredSame
  <2>5. QED
    BY <1>1, <2>1, <2>2, <2>3, <2>4 DEF Lacks
<1>4. QED
  BY <1>1, <1>2, <1>3 DEF Recorded

\* A step records what it makes true, and forgets only at the start of a call
\* and at the end of an upload.
LEMMA Watched ==
    ASSUME Watch
    PROVE  /\ Recorded'
           /\ \A s \in Slot : s \in lacking /\ (Running(s)' => Running(s)) => s \in lacking'
           /\ \A s \in Slot :
                 /\ s \in shared /\ (Running(s)' => Running(s))
                 /\ call'[s].kind = "download" \/ Running(s)'
                 => s \in shared'
<1>1. ASSUME NEW s \in Slot, NEW t \in Slot, Overlaps(s, t)' PROVE s \in shared'
  BY <1>1 DEF Watch
<1>2. ASSUME NEW s \in Slot, Lacks(s)' PROVE s \in lacking'
  BY <1>2 DEF Watch
<1>3. Recorded'
  BY <1>1, <1>2 DEF Recorded
<1>4. ASSUME NEW s \in Slot, s \in lacking, Running(s)' => Running(s) PROVE s \in lacking'
  BY <1>4 DEF Watch
<1>5. ASSUME NEW s \in Slot, s \in shared, Running(s)' => Running(s),
             call'[s].kind = "download" \/ Running(s)'
      PROVE  s \in shared'
  BY <1>5 DEF Watch
<1>6. QED
  BY <1>3, <1>4, <1>5

LEMMA UploadWatches == ASSUME NEW s \in Slot, Upload(s) PROVE Watch
  BY DEF Upload, BeginUpload, NameDir, StatInput, SumInput, CreateShards, WriteShards, HashShards,
     PrepareFails, OpenManifest, FillManifest, SkipShard, SendShard, CopyShard, PushFails,
     Begin, Local, Fault, Step, Push

LEMMA DownloadWatches == ASSUME NEW s \in Slot, Download(s) PROVE Watch
  BY DEF Download, BeginDownload, NoAnswer, TakeManifest, OpenShard, ShardArrives, ShardIsWrong,
     FetchFails, GiveUp, Reconstruct, Fail, Begin, Local, Fault, Step

LEMMA RecordedInit == Init => Recorded
<1>1. Init => \A s \in Slot : ~Running(s)
  BY DEF Init, Running, NoCall
<1>2. QED
  BY <1>1 DEF Recorded, Overlaps, Lacks

\* Nodes only stop, and one step changes the manifest that a node has of a file
\* or its shards.
LEMMA UploadGently ==
    ASSUME Inv, NEW s \in Slot, Upload(s)
    PROVE  /\ up' = up /\ UNCHANGED <<input, dlDir>> /\ Others(s)
           /\ missed \subseteq missed'
           /\ \A p \in Peer, c \in Content :
                 store'[p][c].shard = store[p][c].shard \/ store'[p][c].m = store[p][c].m
<1>1. CASE OpenManifest(s)
  <2>1. PICK e : Stores(s, e) /\ e.m = Entry(s).m
    BY <1>1, OpenStep
  <2>2. QED
    BY <1>1, <2>1, OpenStep DEF Stores, Entry
<1>2. CASE FillManifest(s)
  <2>1. PICK e : Stores(s, e) /\ e.shard = Entry(s).shard
    BY <1>2, FillStep
  <2>2. QED
    BY <1>2, <2>1, FillStep DEF Stores, Entry
<1>3. CASE SendShard(s)
  <2>1. PICK e : Stores(s, e) /\ e.m = Entry(s).m
    BY <1>3, SendStep
  <2>2. QED
    BY <1>3, <2>1, SendStep DEF Stores, Entry
<1>4. CASE CopyShard(s)
  <2>1. PICK e : Stores(s, e) /\ e.m = Entry(s).m
    BY <1>4, CopyStep
  <2>2. QED
    BY <1>4, <2>1, CopyStep DEF Stores, Entry
<1>5. CASE BeginUpload(s) \/ NameDir(s)
  BY <1>5, BeginUploadStep, NameStep
<1>6. CASE StatInput(s)
  BY <1>6, StatStep
<1>7. CASE SumInput(s)
  BY <1>7, SumStep
<1>8. CASE CreateShards(s)
  BY <1>8, CreateStep
<1>9. CASE WriteShards(s)
  BY <1>9, WriteStep
<1>10. CASE HashShards(s)
  BY <1>10, HashStep
<1>11. CASE PrepareFails(s)
  BY <1>11, PrepareFailsStep
<1>12. CASE SkipShard(s)
  BY <1>12, SkipStep
<1>13. CASE PushFails(s)
  BY <1>13, PushFailsStep, Zenon
<1>14. QED
  BY <1>1, <1>2, <1>3, <1>4, <1>5, <1>6, <1>7, <1>8, <1>9, <1>10, <1>11, <1>12, <1>13
     DEF Upload

\* Only a download of the same file touches the directory of a download.
LEMMA DownloadGently ==
    ASSUME Inv, Recorded, NEW t \in Slot, Download(t)
    PROVE  /\ UNCHANGED <<input, store, up, upDir>> /\ Others(t)
           /\ \A s \in Slot \ {t} :
                 call[s].kind = "download" /\ Running(s) /\ s \notin shared
                 => \A i \in Shard : dlDir'[call[s].file][i] = dlDir[call[s].file][i]
<1>1. ASSUME NEW s \in Slot \ {t}, call[s].kind = "download", Running(s), s \notin shared,
             call[t].pc \in DownloadPhase
      PROVE  call[t].file # call[s].file /\ call[s].file \in Content
  <2>1. CallOK(call[t]) /\ CallOK(call[s])
    BY DEF Inv
  <2>2. call[t].kind = "download" /\ Running(t) /\ call[s].pc \notin UploadPhase
    BY <1>1, <2>1 DEF CallOK, PhaseOK, Running, DownloadPhase
  <2>3. call[s].file \in Content /\ call[s].file # Unset
    BY <1>1, <2>1, <2>2, ContentNames DEF CallOK, PhaseOK, Running, UploadPhase
  <2>4. ~Overlaps(s, t)
    BY <1>1 DEF Recorded
  <2>5. QED
    BY <1>1, <2>2, <2>3, <2>4 DEF Overlaps
<1>2. CASE OpenShard(t)
  <2>1. call[t].pc \in DownloadPhase
    BY <1>2, OpenShardStep DEF DownloadPhase
  <2>2. QED
    BY <1>1, <1>2, <2>1, OpenShardStep
<1>3. CASE ShardArrives(t)
  <2>1. call[t].pc \in DownloadPhase
    BY <1>3, ArrivesStep DEF DownloadPhase
  <2>2. QED
    BY <1>1, <1>3, <2>1, ArrivesStep
<1>4. CASE BeginDownload(t)
  BY <1>4, BeginDownloadStep
<1>5. CASE NoAnswer(t)
  BY <1>5, NoAnswerStep
<1>6. CASE TakeManifest(t)
  BY <1>6, TakeStep
<1>7. CASE ShardIsWrong(t) \/ FetchFails(t)
  <2>1. call[t].pc \in DownloadPhase
    BY <1>7, ShardEndsStep DEF DownloadPhase
  <2>2. QED
    BY <1>1, <1>7, <2>1, ShardEndsStep
<1>8. CASE GiveUp(t)
  BY <1>8, GiveUpStep
<1>9. CASE Reconstruct(t)
  BY <1>9, ReconstructStep
<1>10. QED
  BY <1>2, <1>3, <1>4, <1>5, <1>6, <1>7, <1>8, <1>9 DEF Download

----------------------------------------------------------------------------
(* Why a download fails                                                     *)

\* As long as nothing is recorded of a download, its nodes hold the file.
LEMMA NotLacking ==
    ASSUME Recorded, NEW s \in Slot, call[s].kind = "download", Running(s), s \notin lacking
    PROVE  \A p, q \in Providers(s) :
              /\ Stored(p, call[s].file)
              /\ store[p][call[s].file].m.BlockSize = store[q][call[s].file].m.BlockSize
  BY DEF Recorded, Lacks

\* The layout shows in a shard: who changes only the manifest of a stored file
\* cannot change the layout that the manifest says.
LEMMA LayoutInShard ==
    ASSUME NEW c, NEW b, NEW d, ShardOf(c, b) = ShardOf(c, d), ShardOf(c, b) # Nothing
    PROVE  b = d
<1>1. ShardOf(c, b) = [of |-> c, block |-> b] /\ ShardOf(c, d) = [of |-> c, block |-> d]
  BY DEF ShardOf
<1>2. [of |-> c, block |-> b].block = b /\ [of |-> c, block |-> d].block = d
  OBVIOUS
<1>3. QED
  BY <1>1, <1>2

\* A node that has stopped does not come back.
LEMMA StoppedMore ==
    ASSUME up' \subseteq up, up \subseteq Peer, Cardinality(Peer \ up) >= maxAttempts
    PROVE  Cardinality(Peer \ up') >= maxAttempts
<1>1. IsFiniteSet(Peer \ up') /\ Peer \ up \subseteq Peer \ up'
  BY PeerAssumption, FS_Subset
<1>2. Cardinality(Peer \ up) <= Cardinality(Peer \ up') /\ IsFiniteSet(Peer \ up)
  BY <1>1, FS_Subset
<1>3. Cardinality(Peer \ up) \in Nat /\ Cardinality(Peer \ up') \in Nat
  BY <1>1, <1>2, FS_CardinalityType
<1>4. QED
  BY <1>2, <1>3 DEF maxAttempts

\* A step of somebody else.
LEMMA DownloadIdle ==
    ASSUME Inv, Recorded, NEW s \in Slot, DownloadOK(s), FailureOK(s), Watch,
           call'[s].kind = call[s].kind, call'[s].pc = call[s].pc,
           call'[s].result = call[s].result, call'[s].peers = call[s].peers,
           call'[s].todo = call[s].todo, call'[s].file = call[s].file,
           call'[s].m = call[s].m, call'[s].have = call[s].have,
           call'[s].broken = call[s].broken,
           up' \subseteq up, up \subseteq Peer,
           \A p \in up', c \in Content :
               store'[p][c].shard = store[p][c].shard \/ store'[p][c].m = store[p][c].m,
           call[s].kind = "download" /\ Running(s) /\ s \notin shared
               => \A i \in Shard : dlDir'[call[s].file][i] = dlDir[call[s].file][i]
    PROVE  DownloadOK(s)' /\ FailureOK(s)'
<1>1. Running(s)' <=> Running(s)
  BY DEF Running
<1>2. /\ s \in lacking => s \in lacking'
      /\ s \in shared /\ call[s].kind = "download" => s \in shared'
      /\ Recorded'
  BY <1>1, Watched
<1>3. Providers(s)' \subseteq Providers(s) /\ Providers(s)' \subseteq up'
  BY DEF Providers
<1>4. FailureOK(s)'
  <2>1. Cardinality(Peer \ up) >= maxAttempts => Cardinality(Peer \ up') >= maxAttempts
    BY StoppedMore
  <2>2. QED
    BY <1>2, <1>3, <2>1 DEF FailureOK
<1>5. ASSUME call[s].kind = "download", s \notin lacking', ~call[s].broken, call[s].pc \in Taken
      PROVE  /\ \A p \in Providers(s)' :
                    store'[p][call[s].file].m.BlockSize = call[s].m.BlockSize
             /\ s \notin shared' => \A i \in call[s].have :
                    dlDir'[call[s].file][i] = ShardOf(call[s].file, call[s].m.BlockSize)
  <2>1. Running(s) /\ s \notin lacking /\ call[s].file \in Content /\ call[s].have \subseteq Shard
    BY <1>2, <1>5 DEF Taken, Running, Inv, Typed, CallOK, PhaseOK, CallRecord
  <2>2. ASSUME NEW p \in Providers(s)'
        PROVE  store'[p][call[s].file].m.BlockSize = call[s].m.BlockSize
    <3> DEFINE f == call[s].file
    <3>1. p \in Providers(s) /\ p \in up'
      BY <1>3
    <3>2. Stored(p, f) /\ store[p][f].m.BlockSize = call[s].m.BlockSize
      BY <1>5, <2>1, <3>1, NotLacking DEF DownloadOK
    <3>3. ~Lacks(s)'
      BY <1>2, <1>5 DEF Recorded
    <3>4. Stored(p, call[s].file)'
      BY <1>1, <1>5, <2>1, <3>3 DEF Lacks
    <3>5. CASE store'[p][f].m = store[p][f].m
      BY <3>2, <3>5
    <3>6. CASE store'[p][f].shard = store[p][f].shard
      <4>1. \A i \in Shard : /\ store[p][f].shard[i] = ShardOf(f, store[p][f].m.BlockSize)
                             /\ store[p][f].shard[i] # Nothing
        BY <3>2 DEF Stored
      <4>2. \A i \in Shard : store'[p][f].shard[i] = ShardOf(f, store'[p][f].m.BlockSize)
        BY <3>4 DEF Stored
      <4>3. PICK b : b = store[p][f].m.BlockSize
        OBVIOUS
      <4>4. PICK d : d = store'[p][f].m.BlockSize
        OBVIOUS
      <4>5. ShardOf(f, b) = ShardOf(f, d) /\ ShardOf(f, b) # Nothing
        <5>1. 0 \in Shard
          BY ConstantTypes
        <5>2. store[p][f].shard[0] = ShardOf(f, b) /\ store[p][f].shard[0] # Nothing
          BY <4>1, <4>3, <5>1
        <5>3. store'[p][f].shard[0] = ShardOf(f, d)
          BY <4>2, <4>4, <5>1
        <5>4. QED
          BY <3>6, <5>2, <5>3
      <4>6. b = d
        BY <4>5, LayoutInShard
      <4>7. QED
        BY <3>2, <4>3, <4>4, <4>6
    <3>7. QED
      BY <2>1, <3>1, <3>5, <3>6
  <2>3. ASSUME s \notin shared', NEW i \in call[s].have
        PROVE  dlDir'[call[s].file][i] = ShardOf(call[s].file, call[s].m.BlockSize)
    BY <1>2, <1>5, <2>1, <2>3 DEF DownloadOK
  <2>4. QED
    BY <2>2, <2>3
<1>6. ASSUME call[s].kind = "download", s \notin lacking', ~call[s].broken, call[s].pc = "fetch"
      PROVE  \A p \in Providers(s)' : InTodo(call'[s], p)
  BY <1>2, <1>3, <1>6 DEF DownloadOK, InTodo
<1>7. ASSUME call[s].kind = "download", s \notin lacking', ~call[s].broken, call[s].pc \in Taken
      PROVE  Fits(call[s].m, call[s].file)
  <2>1. s \notin lacking
    BY <1>2, <1>7
  <2>2. QED
    BY <1>7, <2>1, Zenon DEF DownloadOK
<1>8. DownloadOK(s)'
  BY <1>5, <1>6, <1>7 DEF DownloadOK
<1>9. QED
  BY <1>4, <1>8

\* A call in one of the phases of a download.
LEMMA InDownload ==
    ASSUME Inv, NEW s \in Slot, call[s].pc \in DownloadPhase
    PROVE  /\ call[s].kind = "download" /\ Running(s) /\ call[s].result = "none"
           /\ call[s].file \in Content /\ call[s].have \subseteq Shard
           /\ call[s].todo \in Seq(Peer) /\ up \subseteq Peer
           /\ call[s].pc = "fetch" => call[s].todo # <<>>
           /\ \A k \in DOMAIN call[s].todo : \E j \in DOMAIN call[s].peers :
                 call[s].peers[j] = call[s].todo[k]
  BY DEF Inv, Typed, CallOK, PhaseOK, CallRecord, DownloadPhase, Running

\* A running call has not failed.
LEMMA RunningOK ==
    ASSUME Inv', NEW s \in Slot, call'[s].pc # "ended"
    PROVE  FailureOK(s)'
<1>1. call'[s].result = "none"
  BY DEF Inv, CallOK, PhaseOK
<1>2. QED
  BY <1>1 DEF FailureOK

\* One in which something has failed may.
LEMMA BrokenOK ==
    ASSUME NEW s \in Slot, call'[s].broken
    PROVE  DownloadOK(s)' /\ FailureOK(s)'
  BY DEF DownloadOK, FailureOK

\* What has ended with the reason on record.
LEMMA EndedOK ==
    ASSUME NEW s \in Slot, Watch, SameCall(call'[s], call[s]), call'[s].pc = "ended",
           call[s].kind = "download", up' = up,
           call'[s].result = "err" =>
              \/ call'[s].broken \/ s \in lacking \/ s \in shared \/ Providers(s) = {}
              \/ Cardinality(Peer \ up) >= maxAttempts
    PROVE  DownloadOK(s)' /\ FailureOK(s)'
<1>1. ~Running(s)' /\ call'[s].kind = "download"
  BY DEF Running, SameCall
<1>2. Providers(s)' = Providers(s)
  BY DEF Providers, SameCall
<1>3. (s \in lacking => s \in lacking') /\ (s \in shared => s \in shared')
  BY <1>1, Watched
<1>4. FailureOK(s)'
  BY <1>2, <1>3 DEF FailureOK
<1>5. DownloadOK(s)'
  BY DEF DownloadOK, Taken
<1>6. QED
  BY <1>4, <1>5

\* What still runs keeps its nodes and its histories.
LEMMA StillRuns ==
    ASSUME NEW s \in Slot, Watch, SameCall(call'[s], call[s]), call'[s].pc # "ended",
           Running(s), up' = up
    PROVE  /\ Providers(s)' = Providers(s)
           /\ (s \in lacking => s \in lacking') /\ (s \in shared => s \in shared')
<1>1. Running(s)'
  BY DEF Running
<1>2. QED
  BY <1>1, Watched DEF Providers, SameCall

LEMMA NoAnswerOK ==
    ASSUME Inv, Recorded, NEW s \in Slot, DownloadOK(s), Watch, NoAnswer(s)
    PROVE  DownloadOK(s)' /\ FailureOK(s)'
<1> SUFFICES ASSUME ~call'[s].broken PROVE DownloadOK(s)' /\ FailureOK(s)'
  BY BrokenOK
<1>1. /\ Inv' /\ SameCall(call'[s], call[s]) /\ call[s].pc = "fetch" /\ up' = up
      /\ ~call[s].broken /\ Silent(s)
      /\ \/ Len(call[s].todo) > 1 /\ call'[s].pc = "fetch" /\ call'[s].todo = Tail(call[s].todo)
         \/ ~(Len(call[s].todo) > 1) /\ call'[s].pc = "ended"
  BY NoAnswerStep DEF SameDownload
<1>2. /\ call[s].kind = "download" /\ Running(s) /\ call[s].todo \in Seq(Peer)
      /\ call[s].todo # <<>> /\ up \subseteq Peer
      /\ \A k \in DOMAIN call[s].todo : \E j \in DOMAIN call[s].peers :
            call[s].peers[j] = call[s].todo[k]
  BY <1>1, InDownload DEF DownloadPhase
<1>3. PICK q : q = call[s].todo
  OBVIOUS
<1>4. /\ 1 \in DOMAIN q /\ q[1] = Target(s) /\ Len(q) \in Nat
      /\ \A k \in DOMAIN q : k = 1 \/ (k - 1 \in DOMAIN Tail(q) /\ Tail(q)[k - 1] = q[k])
      /\ Len(q) > 1 <=> Tail(q) # <<>>
  BY <1>2, <1>3, TailOfTodo DEF Target
<1>5. ASSUME s \notin lacking
      PROVE  /\ Target(s) \notin up
             /\ \A p \in Providers(s) : InTodo(call[s], p)
  <2>1. ASSUME Target(s) \in up PROVE FALSE
    <3>1. Target(s) \in Providers(s)
      BY <1>2, <1>3, <1>4, <2>1 DEF Providers
    <3>2. store[Target(s)][call[s].file].text = "whole"
      BY <1>2, <1>5, <3>1, NotLacking DEF Stored
    <3>3. QED
      BY <1>1, <2>1, <3>2 DEF Silent
  <2>2. QED
    BY <1>1, <1>2, <1>5, <2>1 DEF DownloadOK
<1>6. ASSUME s \notin lacking, NEW p \in Providers(s)
      PROVE  \E k \in DOMAIN Tail(q) : Tail(q)[k] = p
  <2>1. PICK k \in DOMAIN q : q[k] = p
    BY <1>3, <1>5, <1>6 DEF InTodo
  <2>2. p \in up
    BY DEF Providers
  <2>3. k # 1
    BY <1>4, <1>5, <1>6, <2>1, <2>2
  <2>4. QED
    BY <1>4, <2>1, <2>3
<1>7. CASE call'[s].pc = "fetch"
  <2>1. Providers(s)' = Providers(s) /\ (s \in lacking => s \in lacking')
    BY <1>1, <1>2, <1>7, StillRuns
  <2>2. call'[s].todo = Tail(q)
    BY <1>1, <1>3, <1>7
  <2>3. s \notin lacking' => \A p \in Providers(s)' : InTodo(call'[s], p)
    BY <1>6, <2>1, <2>2 DEF InTodo
  <2>4. DownloadOK(s)'
    BY <1>7, <2>3 DEF DownloadOK, Taken
  <2>5. FailureOK(s)'
    BY <1>1, <1>7, RunningOK
  <2>6. QED
    BY <2>4, <2>5
<1>8. CASE call'[s].pc = "ended"
  <2>1. Tail(q) = <<>>
    BY <1>1, <1>3, <1>4, <1>8
  <2>2. s \notin lacking => Providers(s) = {}
    BY <1>6, <2>1
  <2>3. QED
    BY <1>1, <1>2, <1>8, <2>2, EndedOK
<1>9. QED
  BY <1>1, <1>7, <1>8

LEMMA TakeOK ==
    ASSUME Inv, Recorded, NEW s \in Slot, DownloadOK(s), Watch, TakeManifest(s)
    PROVE  DownloadOK(s)' /\ FailureOK(s)'
<1>1. /\ Inv' /\ SameCall(call'[s], call[s]) /\ call[s].pc = "fetch" /\ call'[s].pc = "shards"
      /\ call'[s].broken = call[s].broken
      /\ call'[s].have = {} /\ Target(s) \in up /\ InTodo(call[s], Target(s))
      /\ call'[s].m = store[Target(s)][call[s].file].m
      /\ UNCHANGED <<store, up, dlDir>>
  BY TakeStep DEF SameDownload
<1>2. /\ call[s].kind = "download" /\ Running(s)
      /\ \A k \in DOMAIN call[s].todo : \E j \in DOMAIN call[s].peers :
            call[s].peers[j] = call[s].todo[k]
  BY <1>1, InDownload DEF DownloadPhase
<1>3. Target(s) \in Providers(s)
  BY <1>1, <1>2 DEF InTodo, Providers
<1>4. Providers(s)' = Providers(s) /\ (s \in lacking => s \in lacking')
  BY <1>1, <1>2, StillRuns
<1> DEFINE f == call[s].file
           m == store[Target(s)][f].m
<1>5. ASSUME s \notin lacking'
      PROVE  Fits(m, f) /\ \A p \in Providers(s) : store[p][f].m.BlockSize = m.BlockSize
  <2>1. s \notin lacking
    BY <1>4, <1>5
  <2>2. Stored(Target(s), f) /\ \A p \in Providers(s) : store[p][f].m.BlockSize = m.BlockSize
    BY <1>2, <1>3, <2>1, NotLacking
  <2>3. Fits(m, f)
    BY <2>2 DEF Stored, Fits
  <2>4. QED
    BY <2>2, <2>3
<1> HIDE DEF m
<1>6. call'[s].m = m /\ call'[s].file = f /\ store' = store
  BY <1>1 DEF m, SameCall
<1>7. DownloadOK(s)'
  BY <1>1, <1>4, <1>5, <1>6 DEF DownloadOK
<1>8. FailureOK(s)'
  BY <1>1, RunningOK
<1>9. QED
  BY <1>7, <1>8

\* What a download that has taken its manifest keeps with its next shard.
LEMMA TakenOK ==
    ASSUME Inv', NEW s \in Slot, DownloadOK(s), Watch, SameDownload(call'[s], call[s]),
           Running(s), call[s].kind = "download", call[s].pc \in Taken, call'[s].pc \in Taken,
           call'[s].m = call[s].m, UNCHANGED <<store, up>>,
           s \notin lacking /\ s \notin shared /\ ~call[s].broken =>
               \A i \in call'[s].have :
                   dlDir'[call[s].file][i] = ShardOf(call[s].file, call[s].m.BlockSize)
    PROVE  DownloadOK(s)' /\ FailureOK(s)'
<1>1. call'[s].pc # "ended" /\ call'[s].pc # "fetch"
  BY DEF Taken
<1>2. /\ Providers(s)' = Providers(s)
      /\ (s \in lacking => s \in lacking') /\ (s \in shared => s \in shared')
  BY <1>1, StillRuns DEF SameDownload
<1>3. /\ call'[s].file = call[s].file /\ call'[s].kind = "download"
      /\ call[s].broken => call'[s].broken
  BY DEF SameDownload, SameCall
<1>4. DownloadOK(s)'
  BY <1>1, <1>2, <1>3 DEF DownloadOK
<1>5. FailureOK(s)'
  BY <1>1, RunningOK
<1>6. QED
  BY <1>4, <1>5

LEMMA OpenShardOK ==
    ASSUME Inv, NEW s \in Slot, DownloadOK(s), Watch, OpenShard(s)
    PROVE  DownloadOK(s)' /\ FailureOK(s)'
<1>1. /\ Inv' /\ SameDownload(call'[s], call[s])
      /\ call[s].pc = "shards" /\ call'[s].pc = "receive"
      /\ call'[s].m = call[s].m /\ call'[s].have = call[s].have
      /\ call'[s].step \in Shard \ call[s].have
      /\ call[s].file \in Content
      /\ \A c \in Content, i \in Shard :
            dlDir'[c][i] = IF c = call[s].file /\ i = call'[s].step THEN Nothing ELSE dlDir[c][i]
      /\ UNCHANGED <<store, up>>
  BY OpenShardStep
<1>2. /\ call[s].kind = "download" /\ Running(s) /\ call[s].have \subseteq Shard
      /\ call[s].pc \in Taken /\ call'[s].pc \in Taken
  BY <1>1, InDownload DEF DownloadPhase, Taken
<1>3. \A i \in call'[s].have : dlDir'[call[s].file][i] = dlDir[call[s].file][i]
  BY <1>1, <1>2
<1>4. s \notin lacking /\ s \notin shared /\ ~call[s].broken =>
         \A i \in call'[s].have :
             dlDir'[call[s].file][i] = ShardOf(call[s].file, call[s].m.BlockSize)
  BY <1>1, <1>2, <1>3 DEF DownloadOK
<1>5. QED
  BY <1>1, <1>2, <1>4, TakenOK

LEMMA ArrivesOK ==
    ASSUME Inv, NEW s \in Slot, DownloadOK(s), Watch, ShardArrives(s)
    PROVE  DownloadOK(s)' /\ FailureOK(s)'
<1>1. /\ Inv' /\ SameDownload(call'[s], call[s])
      /\ call[s].pc = "receive" /\ call'[s].pc = "shards"
      /\ call'[s].m = call[s].m /\ call'[s].have = call[s].have \cup {call[s].step}
      /\ call[s].step \in Shard /\ call[s].file \in Content
      /\ \A c \in Content, i \in Shard :
            dlDir'[c][i] = IF c = call[s].file /\ i = call[s].step
                           THEN call[s].m.ShardHashes[i] ELSE dlDir[c][i]
      /\ UNCHANGED <<store, up>>
  BY ArrivesStep
<1>2. /\ call[s].kind = "download" /\ Running(s) /\ call[s].have \subseteq Shard
      /\ call[s].pc \in Taken /\ call'[s].pc \in Taken
  BY <1>1, InDownload DEF DownloadPhase, Taken
<1>3. ASSUME s \notin lacking, s \notin shared, ~call[s].broken, NEW i \in call'[s].have
      PROVE  dlDir'[call[s].file][i] = ShardOf(call[s].file, call[s].m.BlockSize)
  <2>1. /\ \A k \in Shard :
              call[s].m.ShardHashes[k] = ShardOf(call[s].file, call[s].m.BlockSize)
        /\ \A k \in call[s].have :
              dlDir[call[s].file][k] = ShardOf(call[s].file, call[s].m.BlockSize)
    BY <1>2, <1>3 DEF DownloadOK, Fits
  <2>2. CASE i = call[s].step
    BY <1>1, <2>1, <2>2
  <2>3. CASE i # call[s].step
    BY <1>1, <1>2, <1>3, <2>1, <2>3
  <2>4. QED
    BY <2>2, <2>3
<1>4. QED
  BY <1>1, <1>2, <1>3, TakenOK

LEMMA ShardEndsOK ==
    ASSUME Inv, NEW s \in Slot, DownloadOK(s), Watch, ShardIsWrong(s) \/ FetchFails(s)
    PROVE  DownloadOK(s)' /\ FailureOK(s)'
<1>1. /\ Inv' /\ SameDownload(call'[s], call[s])
      /\ call[s].pc \in {"shards", "receive"} /\ call'[s].pc = "shards"
      /\ call'[s].m = call[s].m /\ call'[s].have = call[s].have
      /\ call[s].file \in Content
      /\ \A c \in Content, i \in Shard :
            \/ dlDir'[c][i] = dlDir[c][i]
            \/ c = call[s].file /\ i \notin call[s].have
      /\ UNCHANGED <<store, up>>
  BY ShardEndsStep
<1>2. /\ call[s].kind = "download" /\ Running(s) /\ call[s].have \subseteq Shard
      /\ call[s].pc \in Taken /\ call'[s].pc \in Taken
  BY <1>1, InDownload DEF DownloadPhase, Taken
<1>3. \A i \in call'[s].have : dlDir'[call[s].file][i] = dlDir[call[s].file][i]
  BY <1>1, <1>2
<1>4. s \notin lacking /\ s \notin shared /\ ~call[s].broken =>
         \A i \in call'[s].have :
             dlDir'[call[s].file][i] = ShardOf(call[s].file, call[s].m.BlockSize)
  BY <1>1, <1>2, <1>3 DEF DownloadOK
<1>5. QED
  BY <1>1, <1>2, <1>4, TakenOK

\* RunV1 gives up only if no running node has every shard, or if too many that
\* the call knows do not: as long as nothing is recorded, those have stopped.
LEMMA GiveUpOK ==
    ASSUME Inv, Recorded, NEW s \in Slot, DownloadOK(s), Watch, GiveUp(s)
    PROVE  DownloadOK(s)' /\ FailureOK(s)'
<1> DEFINE complete == {p \in Providers(s) : \A i \in Shard : Serves(p, s, i)}
           known == {call[s].peers[j] : j \in DOMAIN call[s].peers}
<1>1. /\ SameDownload(call'[s], call[s]) /\ call[s].pc = "shards" /\ call'[s].pc = "ended"
      /\ up' = up
      /\ complete = {} \/ Cardinality(known \ complete) >= maxAttempts \/ call[s].broken
  BY GiveUpStep DEF GiveUp
<1> HIDE DEF complete, known
<1>2. call[s].kind = "download" /\ Running(s) /\ call[s].pc \in Taken
  BY <1>1, InDownload DEF DownloadPhase, Taken
<1>3. ASSUME s \notin lacking, ~call[s].broken, NEW p \in Providers(s) PROVE p \in complete
  <2> DEFINE f == call[s].file
  <2>1. Stored(p, f)
    BY <1>2, <1>3, NotLacking
  <2>2. /\ store[p][f].m.BlockSize = call[s].m.BlockSize
        /\ \A i \in Shard : call[s].m.ShardHashes[i] = ShardOf(f, call[s].m.BlockSize)
    BY <1>2, <1>3 DEF DownloadOK, Fits
  <2>3. \A i \in Shard : /\ store[p][f].shard[i] = ShardOf(f, store[p][f].m.BlockSize)
                         /\ store[p][f].shard[i] # Nothing
    BY <2>1 DEF Stored
  <2>4. \A i \in Shard : Serves(p, s, i)
    BY <2>2, <2>3 DEF Serves
  <2>5. QED
    BY <2>4 DEF complete
<1>4. ASSUME s \notin lacking, ~call[s].broken, Cardinality(known \ complete) >= maxAttempts
      PROVE  Cardinality(Peer \ up) >= maxAttempts
  <2>1. known \subseteq Peer /\ known \cap up \subseteq Providers(s)
    BY DEF known, Providers, Inv, Typed, CallRecord
  <2>2. known \ complete \subseteq Peer \ up
    BY <1>3, <1>4, <2>1
  <2>3. IsFiniteSet(Peer \ up)
    BY PeerAssumption, FS_Subset
  <2>4. Cardinality(known \ complete) <= Cardinality(Peer \ up) /\ IsFiniteSet(known \ complete)
    BY <2>2, <2>3, FS_Subset
  <2>5. Cardinality(known \ complete) \in Nat /\ Cardinality(Peer \ up) \in Nat
    BY <2>3, <2>4, FS_CardinalityType
  <2>6. QED
    BY <1>4, <2>4, <2>5 DEF maxAttempts
<1>5. \/ call'[s].broken \/ s \in lacking \/ Providers(s) = {}
      \/ Cardinality(Peer \ up) >= maxAttempts
  BY <1>1, <1>3, <1>4 DEF SameDownload
<1>6. QED
  BY <1>1, <1>2, <1>5, EndedOK DEF SameDownload

\* The shards of one file in one layout decode to the file.
LEMMA ReconstructOK ==
    ASSUME Inv, Recorded, NEW s \in Slot, DownloadOK(s), Watch, Reconstruct(s)
    PROVE  DownloadOK(s)' /\ FailureOK(s)'
<1> SUFFICES ASSUME ~call'[s].broken PROVE DownloadOK(s)' /\ FailureOK(s)'
  BY BrokenOK
<1>1. /\ SameCall(call'[s], call[s]) /\ call[s].pc = "shards" /\ call'[s].pc = "ended"
      /\ ~MoreToFetch(s) /\ up' = up
      /\ ~call[s].broken
      /\ \/ call'[s].result = "ok"
         \/ ~Validate(call[s].m) \/ Decoded(s) # call[s].m.Sha256
  BY ReconstructStep DEF SameDownload
<1>2. /\ call[s].kind = "download" /\ Running(s) /\ call[s].pc \in Taken
      /\ call[s].file \in Content
  BY <1>1, InDownload DEF DownloadPhase, Taken
<1>3. ASSUME s \notin lacking, s \notin shared PROVE call'[s].result # "err"
  <2> DEFINE f == call[s].file
             b == call[s].m.BlockSize
  <2>1. /\ Fits(call[s].m, f)
        /\ \A i \in call[s].have : dlDir[f][i] = ShardOf(f, b)
    BY <1>1, <1>2, <1>3 DEF DownloadOK
  <2>2. call[s].have # {}
    BY <1>1, <2>1, EnoughShards DEF Fits
  <2>3. ShardOf(f, b) = [of |-> f, block |-> b]
    <3>1. 0 \in Shard
      BY ConstantTypes
    <3>2. ShardOf(f, b) # Nothing
      BY <2>1, <3>1 DEF Fits
    <3>3. QED
      BY <3>2 DEF ShardOf
  <2>4. call[s].m.FileSize = Size[f] /\ \A i \in call[s].have : dlDir[f][i] = [of |-> f, block |-> b]
    BY <2>1, <2>3 DEF Fits
  <2>5. Decoded(s) = dlDir[f][CHOOSE i \in call[s].have : TRUE].of
    BY <1>2, <2>4 DEF Decoded
  <2>6. (CHOOSE i \in call[s].have : TRUE) \in call[s].have
    BY <2>2
  <2>7. Decoded(s) = f
    BY <2>4, <2>5, <2>6
  <2>8. Validate(call[s].m) /\ call[s].m.Sha256 = f
    BY <1>2, <2>1 DEF Fits, Inv, CallOK, NameOK
  <2>9. QED
    BY <1>1, <2>7, <2>8
<1>4. QED
  BY <1>1, <1>2, <1>3, EndedOK

LEMMA BeginDownloadOK ==
    ASSUME Inv, NEW s \in Slot, BeginDownload(s)
    PROVE  DownloadOK(s)' /\ FailureOK(s)'
<1>1. /\ call'[s].pc = "fetch" /\ call'[s].todo = call'[s].peers
      /\ call'[s].result = "none"
  BY BeginDownloadStep
<1>2. \A p \in Providers(s)' : InTodo(call'[s], p)
  BY <1>1 DEF Providers, InTodo
<1>3. QED
  BY <1>1, <1>2 DEF DownloadOK, FailureOK, Taken

\* Upload steps are the steps of calls that are no downloads.
LEMMA UploadNoDownload ==
    ASSUME Inv, NEW s \in Slot, Upload(s)
    PROVE  DownloadOK(s)' /\ FailureOK(s)'
<1>1. ASSUME call'[s].kind = "upload" PROVE DownloadOK(s)' /\ FailureOK(s)'
  BY <1>1 DEF DownloadOK, FailureOK
<1>2. ASSUME SameUpload(call'[s], call[s]), call[s].pc \in UploadPhase
      PROVE  call'[s].kind = "upload"
  BY <1>2 DEF SameUpload, SameCall, Inv, CallOK, PhaseOK
<1>3. ASSUME call'[s] = AfterPush(s), call[s].pc \in {"push", "copy"}
      PROVE  call'[s].kind = "upload"
  <2>1. PICK r : r = AfterPush(s)
    OBVIOUS
  <2>2. SameUpload(r, call[s]) \/ r = Uploaded
    BY <1>3, <2>1, AfterPushCases DEF SameWork
  <2>3. Uploaded.kind = "upload" /\ call[s].pc \in UploadPhase
    BY <1>3 DEF Uploaded, NoCall, UploadPhase
  <2>4. QED
    BY <1>2, <1>3, <2>1, <2>2, <2>3
<1>4. CASE BeginUpload(s) \/ NameDir(s) \/ PrepareFails(s)
  BY <1>1, <1>4, BeginUploadStep, NameStep, PrepareFailsStep
<1>5. CASE StatInput(s)
  BY <1>1, <1>2, <1>5, StatStep DEF UploadPhase
<1>6. CASE SumInput(s)
  BY <1>1, <1>2, <1>6, SumStep DEF UploadPhase
<1>7. CASE CreateShards(s)
  BY <1>1, <1>2, <1>7, CreateStep DEF UploadPhase
<1>8. CASE WriteShards(s)
  BY <1>1, <1>2, <1>8, WriteStep DEF UploadPhase
<1>9. CASE HashShards(s)
  BY <1>1, <1>2, <1>9, HashStep DEF UploadPhase
<1>10. CASE OpenManifest(s)
  BY <1>1, <1>2, <1>10, OpenStep DEF UploadPhase
<1>11. CASE FillManifest(s)
  BY <1>1, <1>2, <1>11, FillStep DEF UploadPhase
<1>12. CASE SkipShard(s)
  BY <1>1, <1>3, <1>12, SkipStep
<1>13. CASE SendShard(s)
  BY <1>1, <1>2, <1>13, SendStep DEF UploadPhase, SameWork
<1>14. CASE CopyShard(s)
  BY <1>1, <1>3, <1>14, CopyStep
<1>15. CASE PushFails(s)
  BY <1>1, <1>2, <1>3, <1>15, PushFailsStep DEF UploadPhase, SameWork
<1>16. QED
  BY <1>4, <1>5, <1>6, <1>7, <1>8, <1>9, <1>10, <1>11, <1>12, <1>13, <1>14, <1>15 DEF Upload

LEMMA DownloadsInit == Init => DownloadsInv
<1>1. Init => \A s \in Slot : call[s].kind = "none"
  BY DEF Init, NoCall
<1>2. QED
  BY <1>1, InvInit, RecordedInit DEF DownloadsInv, DownloadOK, FailureOK

LEMMA DownloadsStep == DownloadsInv /\ [Next]_vars => DownloadsInv'
<1> SUFFICES ASSUME DownloadsInv, [Next]_vars PROVE DownloadsInv'
  OBVIOUS
<1> USE DEF DownloadsInv
<1>1. Inv /\ Recorded /\ Inv' /\ up \subseteq Peer
  BY InvStep DEF Inv, Typed
<1>2. ASSUME NEW t \in Slot, Upload(t)
      PROVE  Recorded' /\ \A s \in Slot : DownloadOK(s)' /\ FailureOK(s)'
  <2>1. /\ Watch /\ up' = up /\ UNCHANGED dlDir /\ Others(t)
        /\ \A p \in Peer, c \in Content :
              store'[p][c].shard = store[p][c].shard \/ store'[p][c].m = store[p][c].m
    BY <1>1, <1>2, UploadWatches, UploadGently
  <2>2. ASSUME NEW s \in Slot, s # t PROVE DownloadOK(s)' /\ FailureOK(s)'
    <3>1. call'[s] = call[s]
      BY <2>1, <2>2 DEF Others
    <3>2. \A i \in Shard : dlDir'[call[s].file][i] = dlDir[call[s].file][i]
      BY <2>1
    <3>3. DownloadOK(s) /\ FailureOK(s)
      OBVIOUS
    <3>4. QED
      BY <1>1, <2>1, <3>1, <3>2, <3>3, DownloadIdle
  <2>3. DownloadOK(t)' /\ FailureOK(t)'
    BY <1>1, <1>2, UploadNoDownload
  <2>4. Recorded'
    BY <2>1, Watched
  <2>5. QED
    BY <2>2, <2>3, <2>4
<1>3. ASSUME NEW t \in Slot, Download(t)
      PROVE  Recorded' /\ \A s \in Slot : DownloadOK(s)' /\ FailureOK(s)'
  <2>1. /\ Watch /\ UNCHANGED <<store, up>> /\ Others(t)
        /\ \A s \in Slot \ {t} :
              call[s].kind = "download" /\ Running(s) /\ s \notin shared
              => \A i \in Shard : dlDir'[call[s].file][i] = dlDir[call[s].file][i]
    BY <1>1, <1>3, DownloadWatches, DownloadGently
  <2>2. ASSUME NEW s \in Slot, s # t PROVE DownloadOK(s)' /\ FailureOK(s)'
    <3>1. call'[s] = call[s]
      BY <2>1, <2>2 DEF Others
    <3>2. DownloadOK(s) /\ FailureOK(s)
      OBVIOUS
    <3>3. QED
      BY <1>1, <2>1, <2>2, <3>1, <3>2, DownloadIdle
  <2>3. DownloadOK(t)' /\ FailureOK(t)'
    <3>1. DownloadOK(t)
      OBVIOUS
    <3>2. QED
      BY <1>1, <1>3, <2>1, <3>1, BeginDownloadOK, NoAnswerOK, TakeOK, OpenShardOK, ArrivesOK,
         ShardEndsOK, GiveUpOK, ReconstructOK DEF Download
  <2>4. Recorded'
    BY <2>1, Watched
  <2>5. QED
    BY <2>2, <2>3, <2>4
<1>4. CASE EditInput
  <2>1. Watch
    BY <1>4 DEF EditInput
  <2>2. ASSUME NEW s \in Slot PROVE DownloadOK(s)' /\ FailureOK(s)'
    <3>1. /\ call'[s].kind = call[s].kind /\ call'[s].pc = call[s].pc
          /\ call'[s].result = call[s].result /\ call'[s].peers = call[s].peers
          /\ call'[s].todo = call[s].todo /\ call'[s].file = call[s].file
          /\ call'[s].m = call[s].m /\ call'[s].have = call[s].have
          /\ call'[s].broken = call[s].broken
          /\ UNCHANGED <<dlDir, store, up>>
      BY <1>1, <1>4, EditStep
    <3>2. DownloadOK(s) /\ FailureOK(s)
      OBVIOUS
    <3>3. QED
      BY <1>1, <2>1, <3>1, <3>2, DownloadIdle
  <2>3. QED
    BY <1>1, <2>1, <2>2, Watched
<1>5. ASSUME NEW n \in Peer, StopNode(n)
      PROVE  Recorded' /\ \A s \in Slot : DownloadOK(s)' /\ FailureOK(s)'
  <2>1. /\ Watch /\ up' = up \ {n} /\ UNCHANGED <<call, dlDir>>
        /\ \A q \in Peer \ {n} : store'[q] = store[q]
    BY <1>1, <1>5, StopStep DEF StopNode
  <2>2. ASSUME NEW s \in Slot PROVE DownloadOK(s)' /\ FailureOK(s)'
    <3>1. DownloadOK(s) /\ FailureOK(s)
      OBVIOUS
    <3>2. \A p \in up', c \in Content :
             store'[p][c].shard = store[p][c].shard \/ store'[p][c].m = store[p][c].m
      BY <1>1, <2>1
    <3>3. QED
      BY <1>1, <2>1, <3>1, <3>2, DownloadIdle
  <2>3. QED
    BY <2>1, <2>2, Watched
<1>6. ASSUME NEW l \in late, LateOpen(l) \/ LateWrite(l)
      PROVE  Recorded' /\ \A s \in Slot : DownloadOK(s)' /\ FailureOK(s)'
  <2>1. /\ Watch /\ UNCHANGED <<call, dlDir, up>>
        /\ \A p \in Peer, c \in Content :
              store'[p][c].shard = store[p][c].shard \/ store'[p][c].m = store[p][c].m
    BY <1>1, <1>6, LateStep DEF LateOpen, LateWrite
  <2>2. ASSUME NEW s \in Slot PROVE DownloadOK(s)' /\ FailureOK(s)'
    <3>1. DownloadOK(s) /\ FailureOK(s)
      OBVIOUS
    <3>2. QED
      BY <1>1, <2>1, <3>1, DownloadIdle
  <2>3. QED
    BY <2>1, <2>2, Watched
<1>7. CASE UNCHANGED vars
  <2>1. Recorded'
    BY <1>1, <1>7, RecordedStutter
  <2>2. ASSUME NEW s \in Slot PROVE DownloadOK(s)' /\ FailureOK(s)'
    <3>1. call' = call /\ dlDir' = dlDir /\ store' = store /\ Providers(s)' = Providers(s)
          /\ shared' = shared /\ lacking' = lacking /\ up' = up
      BY <1>7 DEF vars, Providers
    <3>2. DownloadOK(s)'
      <4>1. DownloadOK(s)
        OBVIOUS
      <4>2. QED
        BY <3>1, <4>1 DEF DownloadOK
    <3>3. FailureOK(s)'
      BY <3>1 DEF FailureOK
    <3>4. QED
      BY <3>2, <3>3
  <2>3. QED
    BY <1>1, <2>1, <2>2
<1>8. QED
  BY <1>1, <1>2, <1>3, <1>4, <1>5, <1>6, <1>7 DEF Next

\* DownloadFile, when nothing fails in it, fails only when all the nodes of the
\* call have stopped, or so many that RunV1 has no attempts left, when one that
\* runs did not hold the file all the time or not in the layout of the others,
\* or when another download truncated the shards in its directory: for any
\* number of nodes, whichever of them stop in the middle, and whenever the
\* handlers of failed pushes come.
THEOREM FailsForAReason == Spec => []DownloadFailsForAReason
<1>1. DownloadsInv => DownloadFailsForAReason
  BY DEF DownloadsInv, FailureOK, DownloadFailsForAReason
<1>2. QED
  BY <1>1, DownloadsInit, DownloadsStep, PTL DEF Spec

----------------------------------------------------------------------------
(* What an upload has stored                                                *)

\* Nobody else works in the directory of an upload that is alone with its file,
\* or on what the nodes have under its file ID.
LEMMA UploadAlone ==
    ASSUME Inv, Recorded, NEW t \in Slot, Upload(t), NEW s \in Slot, s # t,
           call[s].kind = "upload", Running(s), call[s].pc # "name", s \notin shared
    PROVE  /\ \A i \in Shard : upDir'[call[s].file][i] = upDir[call[s].file][i]
           /\ Id(s) = call[s].file =>
                 \A p \in Peer : store'[p][call[s].file] = store[p][call[s].file]
<1>1. CallOK(call[t]) /\ CallOK(call[s]) /\ ~Overlaps(s, t)
  BY DEF Inv, Recorded
<1>2. call[s].file \in Content /\ call[s].file # Unset
  BY <1>1, ContentNames DEF CallOK, PhaseOK, Running
<1>3. ASSUME call[t].pc \in UploadPhase
      PROVE  /\ call[t].file # call[s].file
             /\ Id(t) \in Content => Id(t) # Id(s)
  <2>1. call[t].kind = "upload" /\ Running(t)
    BY <1>1, <1>3 DEF CallOK, PhaseOK, Running, UploadPhase
  <2>2. Id(t) \in Content => Id(t) # Unset
    BY ContentNames
  <2>3. QED
    BY <1>1, <1>2, <2>1, <2>2 DEF Overlaps
<1>4. CASE OpenManifest(t)
  <2>1. /\ call[t].pc \in UploadPhase /\ UNCHANGED upDir /\ Id(t) \in Content
        /\ \E e : Stores(t, e)
    BY <1>4, OpenStep DEF UploadPhase
  <2>2. QED
    BY <1>2, <1>3, <2>1 DEF Stores
<1>5. CASE FillManifest(t)
  <2>1. /\ call[t].pc \in UploadPhase /\ UNCHANGED upDir /\ Id(t) \in Content
        /\ \E e : Stores(t, e)
    BY <1>5, FillStep DEF UploadPhase
  <2>2. QED
    BY <1>2, <1>3, <2>1 DEF Stores
<1>6. CASE SendShard(t)
  <2>1. /\ call[t].pc \in UploadPhase /\ UNCHANGED upDir /\ Id(t) \in Content
        /\ \E e : Stores(t, e)
    BY <1>6, SendStep DEF UploadPhase
  <2>2. QED
    BY <1>2, <1>3, <2>1 DEF Stores
<1>7. CASE CopyShard(t)
  <2>1. /\ call[t].pc \in UploadPhase /\ UNCHANGED upDir /\ Id(t) \in Content
        /\ \E e : Stores(t, e)
    BY <1>7, CopyStep DEF UploadPhase
  <2>2. QED
    BY <1>2, <1>3, <2>1 DEF Stores
<1>8. CASE CreateShards(t)
  <2>1. /\ call[t].pc \in UploadPhase /\ UNCHANGED store /\ call[t].file \in Content
        /\ upDir' = [upDir EXCEPT ![call[t].file] = NoShards]
    BY <1>8, CreateStep DEF UploadPhase
  <2>2. upDir'[call[s].file] = upDir[call[s].file]
    BY <1>2, <1>3, <2>1 DEF Inv, Typed
  <2>3. QED
    BY <2>1, <2>2
<1>9. CASE WriteShards(t)
  <2>1. /\ call[t].pc \in UploadPhase /\ UNCHANGED store
        /\ \A c \in Content \ {call[t].file} : upDir'[c] = upDir[c]
    BY <1>9, WriteStep DEF UploadPhase
  <2>2. upDir'[call[s].file] = upDir[call[s].file]
    BY <1>2, <1>3, <2>1
  <2>3. QED
    BY <2>1, <2>2
<1>10. CASE PrepareFails(t)
  <2>1. /\ call[t].pc \in UploadPhase /\ UNCHANGED store
        /\ \A c \in Content :
              ~(call[t].pc = "write" /\ c = call[t].file) => upDir'[c] = upDir[c]
    BY <1>10, PrepareFailsStep DEF UploadPhase
  <2>2. upDir'[call[s].file] = upDir[call[s].file]
    BY <1>2, <1>3, <2>1
  <2>3. QED
    BY <2>1, <2>2
<1>11. CASE BeginUpload(t) \/ NameDir(t)
  BY <1>11, BeginUploadStep, NameStep
<1>12. CASE StatInput(t) \/ SumInput(t) \/ HashShards(t)
  BY <1>12, StatStep, SumStep, HashStep
<1>13. CASE SkipShard(t) \/ PushFails(t)
  BY <1>13, SkipStep, PushFailsStep
<1>14. QED
  BY <1>4, <1>5, <1>6, <1>7, <1>8, <1>9, <1>10, <1>11, <1>12, <1>13 DEF Upload

\* The node that a call is at keeps what it has of the file.
LEMMA TargetSame ==
    ASSUME NEW s, NEW p, p = Target(s), Target(s)' = p, TargetOK(s),
           NEW c, c = call[s], NEW d, d = call'[s],
           d.pc = c.pc, d.file = c.file, d.m = c.m, d.block = c.block, d.step = c.step,
           d.data = c.data,
           c.pc \in PushPhase /\ p \in up' /\ <<p, c.file>> \notin missed' =>
               store'[p][c.file] = store[p][c.file] /\ p \in up /\ <<p, c.file>> \notin missed
    PROVE  TargetOK(s)'
<1> DEFINE Entered(entry) ==
               /\ c.pc = "fill" => entry.text = "empty"
               /\ c.pc \in {"push", "copy"} =>
                     /\ entry.text = "whole" /\ entry.m = c.m
                     /\ \A i \in Shard : i < c.step => entry.shard[i] = ShardOf(c.file, c.block)
               /\ c.pc = "copy" => /\ entry.shard[c.step] = Nothing
                                   /\ c.data = ShardOf(c.file, c.block)
<1>1. c.pc \in PushPhase /\ p \in up /\ <<p, c.file>> \notin missed => Entered(store[p][c.file])
  BY DEF TargetOK
<1>2. (c.pc \in PushPhase /\ p \in up' /\ <<p, c.file>> \notin missed'
         => Entered(store'[p][c.file])) => TargetOK(s)'
  BY DEF TargetOK
<1> HIDE DEF Entered
<1>3. QED
  BY <1>1, <1>2

\* A step of somebody else.
LEMMA UploadIdle ==
    ASSUME Inv, NEW s \in Slot, UploadOK(s), Watch \/ shared' = shared,
           call'[s].kind = call[s].kind, call'[s].pc = call[s].pc,
           call'[s].peers = call[s].peers, call'[s].todo = call[s].todo,
           call'[s].file = call[s].file, call'[s].m = call[s].m,
           call'[s].block = call[s].block, call'[s].size = call[s].size,
           call'[s].step = call[s].step, call'[s].data = call[s].data,
           call[s].edited => call'[s].edited,
           input' = input \/ (Reads(s) => call'[s].edited),
           up' \subseteq up, up \subseteq Peer, missed \subseteq missed',
           call[s].kind = "upload" /\ Running(s) /\ call[s].pc # "name" /\ s \notin shared =>
               /\ \A i \in Shard : upDir'[call[s].file][i] = upDir[call[s].file][i]
               /\ Id(s) = call[s].file =>
                     \A p \in up' : <<p, call[s].file>> \notin missed =>
                                       store'[p][call[s].file] = store[p][call[s].file]
    PROVE  UploadOK(s)'
<1>1. Running(s)' <=> Running(s)
  BY DEF Running
<1>2. Running(s) /\ s \in shared => s \in shared'
  BY <1>1, Watched
<1>3. Providers(s)' \subseteq Providers(s) /\ Providers(s)' \subseteq up'
  BY DEF Providers
<1>4. SUFFICES ASSUME call[s].kind = "upload", Running(s), call[s].pc # "name",
                      ~call'[s].edited, s \notin shared'
               PROVE  UploadOK(s)'
  BY <1>1 DEF UploadOK
<1>5. ~call[s].edited /\ s \notin shared
  BY <1>2, <1>4
<1>6. PICK f : f = call[s].file
  OBVIOUS
<1>7. /\ Reads(s) => input = f
      /\ call[s].pc # "stat" => call[s].size = Size[f]
      /\ call[s].pc \in Named =>
            call[s].m.FileSize = Size[f] /\ call[s].m.Sha256 = f /\ call[s].m.BlockSize = call[s].block
      /\ call[s].pc = "write" => \A i \in Shard : upDir[f][i] = Nothing
      /\ call[s].pc \in PushPhase \cup {"hash"} =>
            \A i \in Shard : upDir[f][i] = ShardOf(f, call[s].block)
      /\ call[s].pc \in PushPhase =>
            \A i \in Shard : call[s].m.ShardHashes[i] = ShardOf(f, call[s].block)
      /\ Size[f] > 0 => /\ \A p \in Providers(s) : KeptOK(s, p)
                        /\ TargetOK(s)
  BY <1>4, <1>5, <1>6 DEF UploadOK
<1>8. \A i \in Shard : upDir'[f][i] = upDir[f][i]
  BY <1>4, <1>5, <1>6
<1>9. call[s].pc \in PushPhase =>
         \A p \in up' : <<p, f>> \notin missed => store'[p][f] = store[p][f]
  <2>1. call[s].pc \in PushPhase => Id(s) = f
    BY <1>7 DEF Named, Id
  <2>2. Id(s) = f => \A p \in up' : <<p, f>> \notin missed => store'[p][f] = store[p][f]
    BY <1>4, <1>5, <1>6
  <2>3. QED
    BY <2>1, <2>2
<1>10. Reads(s)' => Reads(s) /\ input' = f
  BY <1>4, <1>7 DEF Reads
<1>11. ASSUME Size[f] > 0, NEW p \in Providers(s)'
       PROVE  KeptOK(s, p)'
  <2>1. p \in Providers(s) /\ p \in up'
    BY <1>3
  <2>2. KeptOK(s, p)
    BY <1>7, <1>11, <2>1
  <2>3. SUFFICES ASSUME <<p, f>> \notin missed', ~InTodo(call'[s], p)
                 PROVE  Stored(p, f)'
    BY <1>6 DEF KeptOK
  <2>4. Stored(p, f)
    BY <1>6, <2>2, <2>3 DEF KeptOK, InTodo
  <2>5. call[s].pc \in PushPhase
    <3>1. PhaseOK(call[s]) /\ call[s].pc \in UploadPhase
      BY <1>4 DEF Inv, Typed, CallOK, PhaseOK, Running, CallRecord, DownloadPhase
    <3>2. call[s].todo # call[s].peers
      BY <2>1, <2>3 DEF InTodo, Providers
    <3>3. QED
      BY <3>1, <3>2 DEF PhaseOK
  <2>6. store'[p][f] = store[p][f]
    BY <1>9, <2>1, <2>3, <2>5
  <2>7. QED
    BY <2>4, <2>6, StoredSame
<1>12. ASSUME Size[f] > 0 PROVE TargetOK(s)'
  <2>1. PICK p : p = Target(s)
    OBVIOUS
  <2>2. Target(s)' = p
    BY <2>1 DEF Target
  <2>3. ASSUME call[s].pc \in PushPhase, p \in up', <<p, f>> \notin missed'
        PROVE  store'[p][f] = store[p][f] /\ p \in up /\ <<p, f>> \notin missed
    BY <1>9, <2>3
  <2>4. TargetOK(s)
    BY <1>7, <1>12
  <2>5. QED
    BY <1>6, <2>1, <2>2, <2>3, <2>4, TargetSame
<1>13. call'[s].file = f
  BY <1>6
<1>14. /\ Reads(s)' => input' = f
       /\ call'[s].pc # "stat" => call'[s].size = Size[f]
       /\ call'[s].pc \in Named =>
             call'[s].m.FileSize = Size[f] /\ call'[s].m.Sha256 = f
             /\ call'[s].m.BlockSize = call'[s].block
  BY <1>7, <1>10
<1>15. /\ call'[s].pc = "write" => \A i \in Shard : upDir'[f][i] = Nothing
       /\ call'[s].pc \in PushPhase \cup {"hash"} =>
             \A i \in Shard : upDir'[f][i] = ShardOf(f, call'[s].block)
       /\ call'[s].pc \in PushPhase =>
             \A i \in Shard : call'[s].m.ShardHashes[i] = ShardOf(f, call'[s].block)
  BY <1>7, <1>8
<1>16. QED
  BY <1>11, <1>12, <1>13, <1>14, <1>15 DEF UploadOK

LEMMA BeginUploadOK ==
    ASSUME Inv, NEW s \in Slot, BeginUpload(s) \/ PrepareFails(s)
    PROVE  UploadOK(s)'
<1>1. call'[s].pc \in {"name", "ended"}
  BY BeginUploadStep, PrepareFailsStep
<1>2. QED
  BY <1>1 DEF UploadOK, Running

LEMMA NameDirOK ==
    ASSUME Inv, NEW s \in Slot, NameDir(s)
    PROVE  UploadOK(s)'
<1>1. /\ call'[s].pc = "stat" /\ call'[s].todo = call'[s].peers /\ call'[s].file = input
      /\ input' = input
  BY NameStep
<1>2. \A p \in Providers(s)' : InTodo(call'[s], p)
  BY <1>1 DEF Providers, InTodo
<1>3. QED
  BY <1>1, <1>2 DEF UploadOK, KeptOK, TargetOK, Named

LEMMA PreparesOK ==
    ASSUME Inv, Recorded, NEW s \in Slot, UploadOK(s), Watch,
           StatInput(s) \/ SumInput(s) \/ CreateShards(s) \/ WriteShards(s) \/ HashShards(s)
    PROVE  UploadOK(s)'
<1>0. PICK f : f = call[s].file
  OBVIOUS
<1>1. /\ Inv' /\ SameUpload(call'[s], call[s]) /\ input' = input /\ up' = up
      /\ call'[s].todo = call[s].todo /\ call'[s].block = call[s].block
      /\ call[s].pc \in {"stat", "sum", "create", "write", "hash"}
      /\ call'[s].pc \in {"sum", "create", "write", "hash", "open"}
  BY StatStep, SumStep, CreateStep, WriteStep, HashStep
<1>2. /\ call[s].kind = "upload" /\ Running(s) /\ call'[s].todo = call'[s].peers
      /\ Running(s)' /\ call[s].todo = call[s].peers /\ f \in Content /\ f # Unset
  BY <1>0, <1>1, ContentNames
     DEF Inv, CallOK, PhaseOK, UploadPhase, Running, SameUpload, SameCall
<1>3. s \in shared => s \in shared'
  BY <1>2, Watched
<1>4. SUFFICES ASSUME ~call'[s].edited, s \notin shared'
               PROVE  UploadOK(s)'
  BY DEF UploadOK
<1>5. ~call[s].edited /\ s \notin shared
  BY <1>1, <1>3, <1>4 DEF SameUpload
<1>6. (\A p \in Providers(s)' : KeptOK(s, p)') /\ TargetOK(s)'
  <2>1. \A p \in Providers(s)' : InTodo(call'[s], p)
    BY <1>1, <1>2 DEF Providers, InTodo
  <2>2. TargetOK(s)'
    BY <1>1 DEF TargetOK
  <2>3. QED
    BY <2>1, <2>2 DEF KeptOK
<1>7. /\ Reads(s) => input = f
      /\ call[s].pc # "stat" => call[s].size = Size[f]
      /\ call[s].pc \in Named =>
            call[s].m.FileSize = Size[f] /\ call[s].m.Sha256 = f /\ call[s].m.BlockSize = call[s].block
      /\ call[s].pc = "write" => \A i \in Shard : upDir[f][i] = Nothing
      /\ call[s].pc = "hash" => \A i \in Shard : upDir[f][i] = ShardOf(f, call[s].block)
  BY <1>0, <1>1, <1>2, <1>5 DEF UploadOK
<1>8. call'[s].file = f
  BY <1>0, <1>1 DEF SameUpload, SameCall
<1>9. CASE StatInput(s)
  <2>1. call[s].pc = "stat" /\ call'[s].pc = "sum" /\ call'[s].size = Size[input]
    BY <1>9, StatStep
  <2>2. input = f
    BY <1>7, <2>1 DEF Reads
  <2>3. QED
    BY <1>1, <1>6, <1>8, <2>1, <2>2 DEF UploadOK, Named
<1>10. CASE SumInput(s)
  <2>1. /\ call[s].pc = "sum" /\ call'[s].pc = "create" /\ call'[s].size = call[s].size
        /\ call'[s].m.FileSize = call[s].size /\ call'[s].m.Sha256 = input
        /\ call'[s].m.BlockSize = call[s].block
    BY <1>10, SumStep
  <2>2. input = f /\ call[s].size = Size[f]
    BY <1>7, <2>1 DEF Reads
  <2>3. QED
    BY <1>1, <1>6, <1>8, <2>1, <2>2 DEF UploadOK, Named
<1>11. CASE CreateShards(s)
  <2>1. /\ call[s].pc = "create" /\ call'[s].pc = "write" /\ call'[s].size = call[s].size
        /\ call'[s].m = call[s].m /\ upDir' = [upDir EXCEPT ![call[s].file] = NoShards]
    BY <1>11, CreateStep
  <2>2. /\ input = f /\ call[s].size = Size[f] /\ call[s].m.FileSize = Size[f]
        /\ call[s].m.Sha256 = f /\ call[s].m.BlockSize = call[s].block
    BY <1>7, <2>1 DEF Reads, Named
  <2>3. \A i \in Shard : upDir'[f][i] = Nothing
    BY <1>0, <1>2, <2>1 DEF Inv, Typed, NoShards
  <2>4. QED
    BY <1>1, <1>6, <1>8, <2>1, <2>2, <2>3 DEF UploadOK, Named
<1>12. CASE WriteShards(s)
  <2>1. /\ call[s].pc = "write" /\ call'[s].pc = "hash" /\ call'[s].size = call[s].size
        /\ call'[s].m = call[s].m
        /\ \/ \A i \in Shard : upDir'[f][i] = ShardOf(input, call[s].block)
           \/ upDir[f][0] # Nothing
           \/ \E t \in Slot \ {s} : call[t].pc = "write" /\ call[t].file = f
    BY <1>0, <1>12, WriteStep
  <2>2. /\ input = f /\ call[s].size = Size[f] /\ call[s].m.FileSize = Size[f]
        /\ call[s].m.Sha256 = f /\ call[s].m.BlockSize = call[s].block
        /\ upDir[f][0] = Nothing
    BY <1>7, <2>1, ConstantTypes DEF Reads, Named
  <2>3. ASSUME NEW t \in Slot \ {s}, call[t].pc = "write", call[t].file = f PROVE FALSE
    <3>1. call[t].kind = "upload" /\ Running(t)
      BY <2>3 DEF Inv, CallOK, PhaseOK, UploadPhase, Running
    <3>2. Overlaps(s, t)
      BY <1>0, <1>2, <2>3, <3>1 DEF Overlaps
    <3>3. QED
      BY <1>5, <3>2 DEF Recorded
  <2>4. \A i \in Shard : upDir'[f][i] = ShardOf(f, call[s].block)
    BY <2>1, <2>2, <2>3
  <2>5. QED
    BY <1>1, <1>6, <1>8, <2>1, <2>2, <2>4 DEF UploadOK, Named, Reads
<1>13. CASE HashShards(s)
  <2>1. /\ call[s].pc = "hash" /\ call'[s].pc = "open" /\ call'[s].size = call[s].size
        /\ call'[s].m.FileSize = call[s].m.FileSize /\ call'[s].m.Sha256 = call[s].m.Sha256
        /\ call'[s].m.BlockSize = call[s].m.BlockSize
        /\ call'[s].m.ShardHashes = upDir[f] /\ upDir' = upDir
    BY <1>0, <1>13, HashStep
  <2>2. /\ call[s].size = Size[f] /\ call[s].m.FileSize = Size[f]
        /\ call[s].m.Sha256 = f /\ call[s].m.BlockSize = call[s].block
        /\ \A i \in Shard : upDir[f][i] = ShardOf(f, call[s].block)
    BY <1>7, <2>1 DEF Named
  <2>3. QED
    BY <1>1, <1>6, <1>8, <2>1, <2>2 DEF UploadOK, Named, Reads
<1>14. QED
  BY <1>9, <1>10, <1>11, <1>12, <1>13

\* What an undisturbed upload knows while it pushes.
LEMMA PushKnows ==
    ASSUME Inv, NEW s \in Slot, UploadOK(s), call[s].pc \in PushPhase,
           ~call[s].edited, s \notin shared, NEW f, f = call[s].file
    PROVE  LET c == call[s]
           IN  /\ c.kind = "upload" /\ Running(s) /\ f \in Content /\ f # Unset /\ Id(s) = f
               /\ Validate(c.m) /\ c.m.FileSize = Size[f] /\ c.m.Sha256 = f
               /\ c.m.BlockSize = c.block /\ c.size = Size[f]
               /\ \A i \in Shard : /\ upDir[f][i] = ShardOf(f, c.block)
                                   /\ c.m.ShardHashes[i] = ShardOf(f, c.block)
               /\ Size[f] > 0 => \A i \in Shard : ShardOf(f, c.block) # Nothing
               /\ Size[f] > 0 => (\A p \in Providers(s) : KeptOK(s, p)) /\ TargetOK(s)
               /\ c.todo \in Seq(Peer) /\ c.todo # <<>> /\ up \subseteq Peer
<1>1. /\ call[s].kind = "upload" /\ Running(s) /\ f \in Content /\ Validate(call[s].m)
      /\ call[s].todo \in Seq(Peer) /\ call[s].todo # <<>> /\ up \subseteq Peer
  BY DEF Inv, Typed, CallOK, PhaseOK, NameOK, Named, UploadPhase, Running, CallRecord
<1>2. Size[f] > 0 => ShardOf(f, call[s].block) # Nothing
  <2>1. SUFFICES ASSUME Size[f] > 0 PROVE ShardOf(f, call[s].block) # Nothing
    OBVIOUS
  <2>2. Size[f] # 0
    BY <1>1, <2>1, ConstantTypes
  <2>3. ShardOf(f, call[s].block).of = f /\ Nothing.of = "nothing"
    BY <2>2 DEF ShardOf, Nothing
  <2>4. f # "nothing"
    BY <1>1, ContentNames
  <2>5. QED
    BY <2>3, <2>4
<1>3. /\ call[s].m.FileSize = Size[f] /\ call[s].m.Sha256 = f
      /\ call[s].m.BlockSize = call[s].block /\ call[s].size = Size[f]
      /\ \A i \in Shard : /\ upDir[f][i] = ShardOf(f, call[s].block)
                          /\ call[s].m.ShardHashes[i] = ShardOf(f, call[s].block)
      /\ Size[f] > 0 => (\A p \in Providers(s) : KeptOK(s, p)) /\ TargetOK(s)
  BY <1>1 DEF UploadOK, Named
<1>4. QED
  BY <1>1, <1>2, <1>3, ContentNames DEF Id

\* The other nodes keep what they have of the file, and the call goes on there.
LEMMA OthersKept ==
    ASSUME Inv, NEW s \in Slot, NEW f, f = call[s].file, call'[s].file = f,
           call'[s].peers = call[s].peers, up' = up, missed \subseteq missed',
           call[s].todo \in Seq(Peer), call[s].todo # <<>>,
           NEW p \in Providers(s)', KeptOK(s, p), p # Target(s),
           store'[p][f] = store[p][f],
           call'[s].todo = call[s].todo \/ call'[s].todo = Tail(call[s].todo)
    PROVE  KeptOK(s, p)'
<1>1. CASE Stored(p, f)
  <2>1. Stored(p, f)'
    BY <1>1, StoredSame
  <2>2. QED
    BY <2>1 DEF KeptOK
<1>2. CASE InTodo(call[s], p)
  <2>1. PICK q : q = call[s].todo
    OBVIOUS
  <2>2. /\ q[1] = Target(s)
        /\ \A k \in DOMAIN q : k = 1 \/ (k - 1 \in DOMAIN Tail(q) /\ Tail(q)[k - 1] = q[k])
    BY <2>1, TailOfTodo DEF Target
  <2>3. PICK k \in DOMAIN q : q[k] = p
    BY <1>2, <2>1 DEF InTodo
  <2>4. k # 1
    BY <2>2, <2>3
  <2>5. InTodo(call'[s], p)
    BY <2>1, <2>2, <2>3, <2>4 DEF InTodo
  <2>6. QED
    BY <2>5 DEF KeptOK
<1>3. QED
  BY <1>1, <1>2 DEF KeptOK

\* The step that begins to store the manifest, the one that ends it, the one that
\* begins to store a shard, and a push of the manifest that fails.
LEMMA PushGoesOn ==
    ASSUME Inv, NEW s \in Slot, UploadOK(s), Watch,
           OpenManifest(s) \/ FillManifest(s) \/ SendShard(s)
           \/ (PushFails(s) /\ call[s].pc \in {"open", "fill"})
    PROVE  UploadOK(s)'
<1>1. PICK f : f = call[s].file
  OBVIOUS
<1>2. /\ SameWork(call'[s], call[s]) /\ call'[s].todo = call[s].todo
      /\ call[s].pc \in PushPhase /\ call'[s].pc \in {"fill", "push", "copy"}
      /\ Target(s) \in Peer /\ Id(s) \in Content
      /\ UNCHANGED <<input, upDir, up>> /\ missed \subseteq missed'
      /\ \A p \in Peer \ {Target(s)}, c \in Content : store'[p][c] = store[p][c]
  <2>1. CASE OpenManifest(s)
    BY <2>1, OpenStep DEF SameWork, SameUpload, SameCall, Stores
  <2>2. CASE FillManifest(s)
    BY <2>2, FillStep DEF SameWork, SameUpload, SameCall, Stores
  <2>3. CASE SendShard(s)
    BY <2>3, SendStep DEF Stores
  <2>4. CASE PushFails(s) /\ call[s].pc \in {"open", "fill"}
    BY <2>4, PushFailsStep DEF SameWork
  <2>5. QED
    BY <2>1, <2>2, <2>3, <2>4
<1>3. /\ Running(s) /\ Running(s)' /\ call'[s].file = f /\ call'[s].peers = call[s].peers
      /\ call'[s].m = call[s].m /\ call'[s].block = call[s].block /\ call'[s].size = call[s].size
      /\ call'[s].edited = call[s].edited
  BY <1>1, <1>2 DEF Running, SameWork, SameUpload, SameCall
<1>4. s \in shared => s \in shared'
  BY <1>3, Watched
<1>5. SUFFICES ASSUME ~call'[s].edited, s \notin shared'
               PROVE  UploadOK(s)'
  BY DEF UploadOK
<1>6. ~call[s].edited /\ s \notin shared
  BY <1>3, <1>4, <1>5
<1>7. /\ f \in Content /\ Id(s) = f /\ call[s].m.FileSize = Size[f] /\ call[s].m.Sha256 = f
      /\ call[s].m.BlockSize = call[s].block /\ call[s].size = Size[f]
      /\ \A i \in Shard : /\ upDir[f][i] = ShardOf(f, call[s].block)
                          /\ call[s].m.ShardHashes[i] = ShardOf(f, call[s].block)
      /\ Size[f] > 0 => (\A p \in Providers(s) : KeptOK(s, p)) /\ TargetOK(s)
      /\ call[s].todo \in Seq(Peer) /\ call[s].todo # <<>> /\ up \subseteq Peer
  BY <1>1, <1>2, <1>6, PushKnows
<1>8. ASSUME Size[f] > 0, NEW p \in Providers(s)'
      PROVE  KeptOK(s, p)'
  <2>1. p \in Providers(s) /\ p \in Peer
    BY <1>2, <1>3, <1>7 DEF Providers
  <2>2. CASE p = Target(s)
    <3>1. InTodo(call'[s], p)
      BY <1>2, <1>7, <2>2, TailOfTodo DEF InTodo, Target
    <3>2. QED
      BY <3>1 DEF KeptOK
  <2>3. CASE p # Target(s)
    <3>1. store'[p][f] = store[p][f] /\ KeptOK(s, p)
      BY <1>2, <1>7, <1>8, <2>1, <2>3
    <3>2. QED
      BY <1>1, <1>2, <1>3, <1>7, <2>3, <3>1, OthersKept
  <2>4. QED
    BY <2>2, <2>3
<1>9. ASSUME Size[f] > 0 PROVE TargetOK(s)'
  <2>1. PICK p \in Peer : p = Target(s)
    BY <1>2
  <2>2. Target(s)' = p
    BY <1>2, <2>1 DEF Target
  <2>3. SUFFICES ASSUME p \in up, <<p, f>> \notin missed'
                 PROVE  /\ call'[s].pc = "fill" => store'[p][f].text = "empty"
                        /\ call'[s].pc \in {"push", "copy"} =>
                              /\ store'[p][f].text = "whole" /\ store'[p][f].m = call[s].m
                              /\ \A i \in Shard : i < call'[s].step =>
                                    store'[p][f].shard[i] = ShardOf(f, call[s].block)
                        /\ call'[s].pc = "copy" =>
                              /\ store'[p][f].shard[call'[s].step] = Nothing
                              /\ call'[s].data = ShardOf(f, call[s].block)
    BY <1>2, <1>3, <2>2 DEF TargetOK
  <2>4. /\ call[s].pc = "fill" => store[p][f].text = "empty"
        /\ call[s].pc \in {"push", "copy"} =>
              /\ store[p][f].text = "whole" /\ store[p][f].m = call[s].m
              /\ \A i \in Shard : i < call[s].step =>
                    store[p][f].shard[i] = ShardOf(f, call[s].block)
    BY <1>1, <1>2, <1>7, <1>9, <2>1, <2>3 DEF TargetOK
  <2>5. Entry(s) = store[p][f]
    BY <1>7, <2>1 DEF Entry
  <2>6. CASE OpenManifest(s)
    <3>1. PICK e : Stores(s, e) /\ e.text = "empty"
      BY <2>6, OpenStep
    <3>2. store'[p][f] = e
      BY <1>7, <2>1, <2>3, <3>1 DEF Stores
    <3>3. QED
      BY <2>6, <3>1, <3>2, OpenStep
  <2>7. CASE FillManifest(s)
    <3>1. PICK e : Stores(s, e) /\ e.m = call[s].m /\ (Entry(s).text = "empty" => e.text = "whole")
      BY <2>7, FillStep
    <3>2. store'[p][f] = e
      BY <1>7, <2>1, <2>3, <3>1 DEF Stores
    <3>3. call[s].pc = "fill" /\ call'[s].pc = "push" /\ call'[s].step = 0
      BY <2>7, FillStep
    <3>4. \A i \in Shard : ~(i < 0)
      BY ShardAssumption DEF Shard
    <3>5. QED
      BY <2>4, <2>5, <3>1, <3>2, <3>3, <3>4
  <2>8. CASE SendShard(s)
    <3>1. PICK e : /\ Stores(s, e) /\ e.m = Entry(s).m /\ e.text = Entry(s).text
                   /\ \A i \in Shard : e.shard[i] = IF i = call[s].step THEN Nothing
                                                    ELSE Entry(s).shard[i]
      BY <2>8, SendStep
    <3>2. store'[p][f] = e
      BY <1>7, <2>1, <2>3, <3>1 DEF Stores
    <3>3. /\ call[s].pc = "push" /\ call'[s].pc = "copy" /\ call'[s].step = call[s].step
          /\ call[s].step \in Shard /\ call'[s].data = upDir[f][call[s].step]
      BY <1>1, <2>8, SendStep
    <3>4. \A i \in Shard : i < call[s].step => i # call[s].step
      BY <3>3, ShardAssumption DEF Shard
    <3>5. QED
      BY <1>7, <2>4, <2>5, <3>1, <3>2, <3>3, <3>4
  <2>9. CASE PushFails(s)
    BY <1>7, <2>1, <2>3, <2>9, PushFailsStep
  <2>10. QED
    BY <2>6, <2>7, <2>8, <2>9
<1>10. QED
  BY <1>2, <1>3, <1>7, <1>8, <1>9 DEF UploadOK, Named, Reads

\* A shard has been pushed: the node has the manifest and the shards so far.
Served(s) ==
    LET f == call[s].file
        entry == store'[Target(s)][f]
    IN  /\ \A p \in Peer \ {Target(s)} : store'[p][f] = store[p][f]
        /\ Target(s) \in up /\ <<Target(s), f>> \notin missed' =>
              /\ entry.text = "whole" /\ entry.m = call[s].m
              /\ \A i \in Shard : i < call[s].step + 1 => entry.shard[i] = ShardOf(f, call[s].block)

ShardDone(s) == SkipShard(s) \/ CopyShard(s) \/ (PushFails(s) /\ call[s].pc \in {"push", "copy"})

LEMMA ShardDoneStep ==
    ASSUME Inv, NEW s \in Slot, ShardDone(s)
    PROVE  /\ call[s].pc \in {"push", "copy"} /\ call'[s] = AfterPush(s) /\ up' = up
           /\ call[s].step \in Shard /\ UNCHANGED <<input, upDir>> /\ missed \subseteq missed'
           /\ Target(s) \in Peer /\ Id(s) \in Content
<1>1. CASE SkipShard(s)
  <2>1. call[s].pc = "push"
    BY <1>1, SkipStep
  <2>2. QED
    BY <1>1, <2>1, SkipStep, PushTarget
<1>2. CASE CopyShard(s)
  BY <1>2, CopyStep
<1>3. CASE PushFails(s) /\ call[s].pc \in {"push", "copy"}
  BY <1>3, PushFailsStep
<1>4. QED
  BY <1>1, <1>2, <1>3 DEF ShardDone

LEMMA Pushed ==
    ASSUME Inv, Recorded, NEW s \in Slot, UploadOK(s), ShardDone(s),
           ~call[s].edited, s \notin shared, Size[call[s].file] > 0
    PROVE  Served(s)
<1>1. PICK f : f = call[s].file
  OBVIOUS
<1>2. /\ call[s].pc \in {"push", "copy"} /\ call[s].pc \in PushPhase /\ call[s].step \in Shard
      /\ Target(s) \in Peer
  BY ShardDoneStep
<1>3. /\ f \in Content /\ f # Unset /\ Id(s) = f /\ Running(s) /\ call[s].kind = "upload"
      /\ \A i \in Shard : upDir[f][i] = ShardOf(f, call[s].block)
      /\ \A i \in Shard : ShardOf(f, call[s].block) # Nothing
      /\ TargetOK(s)
  BY <1>1, <1>2, PushKnows
<1>4. CASE SkipShard(s)
  BY <1>1, <1>2, <1>3, <1>4, SkipStep
<1>5. CASE PushFails(s)
  BY <1>1, <1>3, <1>5, PushFailsStep DEF Served
<1>6. CASE CopyShard(s)
  <2>1. PICK e : /\ Stores(s, e) /\ e.m = Entry(s).m /\ e.text = Entry(s).text
                 /\ \A i \in Shard : i # call[s].step => e.shard[i] = Entry(s).shard[i]
                 /\ Entry(s).shard[call[s].step] = Nothing
                    /\ ~Rivals(Target(s), Id(s), call[s].step, Slot \ {s}, late)
                    => e.shard[call[s].step] = call[s].data
    BY <1>6, CopyStep
  <2>2. call[s].pc = "copy" /\ missed' = missed
    BY <1>6, CopyStep
  <2>3. \A p \in Peer \ {Target(s)} : store'[p][f] = store[p][f]
    BY <1>3, <2>1 DEF Stores
  <2>4. SUFFICES ASSUME Target(s) \in up, <<Target(s), f>> \notin missed
                 PROVE  /\ store'[Target(s)][f].text = "whole"
                        /\ store'[Target(s)][f].m = call[s].m
                        /\ \A i \in Shard : i < call[s].step + 1 =>
                              store'[Target(s)][f].shard[i] = ShardOf(f, call[s].block)
    BY <1>1, <2>2, <2>3 DEF Served
  <2>5. store'[Target(s)][f] = e /\ Entry(s) = store[Target(s)][f]
    BY <1>2, <1>3, <2>1, <2>4 DEF Stores, Entry
  <2>6. /\ Entry(s).text = "whole" /\ Entry(s).m = call[s].m
        /\ \A i \in Shard : i < call[s].step => Entry(s).shard[i] = ShardOf(f, call[s].block)
        /\ Entry(s).shard[call[s].step] = Nothing /\ call[s].data = ShardOf(f, call[s].block)
    BY <1>1, <1>2, <1>3, <2>2, <2>4, <2>5 DEF TargetOK
  <2>7. ~Rivals(Target(s), Id(s), call[s].step, Slot \ {s}, late)
    <3>1. ASSUME NEW t \in Slot \ {s}, call[t].pc = "copy", Id(t) = f PROVE FALSE
      <4>1. call[t].kind = "upload" /\ Running(t)
        BY <3>1 DEF Inv, CallOK, PhaseOK, UploadPhase, Running
      <4>2. Overlaps(s, t)
        BY <1>3, <3>1, <4>1 DEF Overlaps
      <4>3. QED
        BY <4>2 DEF Recorded
    <3>2. ASSUME NEW l \in late, l.to = Target(s), l.id = f PROVE FALSE
      BY <2>4, <3>2 DEF Inv, StoreOK, LateOK
    <3>3. QED
      BY <1>3, <3>1, <3>2 DEF Rivals
  <2>8. ASSUME NEW i \in Shard, i < call[s].step + 1
        PROVE  e.shard[i] = ShardOf(f, call[s].block)
    <3>1. i < call[s].step \/ i = call[s].step
      BY <1>2, <2>8, ShardAssumption DEF Shard
    <3>2. CASE i = call[s].step
      BY <2>1, <2>6, <2>7, <3>2
    <3>3. CASE i < call[s].step
      <4>1. i # call[s].step
        BY <1>2, <3>3, ShardAssumption DEF Shard
      <4>2. QED
        BY <2>1, <2>6, <3>3, <4>1
    <3>4. QED
      BY <3>1, <3>2, <3>3
  <2>9. QED
    BY <2>1, <2>5, <2>6, <2>8
<1>7. QED
  BY <1>4, <1>5, <1>6 DEF ShardDone

\* With the last shard the node has the file.
LEMMA PushedAll ==
    ASSUME Inv, Recorded, NEW s \in Slot, UploadOK(s), ShardDone(s),
           ~call[s].edited, s \notin shared,
           Size[call[s].file] > 0, ~(call[s].step + 1 < Cardinality(Shard)),
           NEW f, f = call[s].file, NEW p \in Providers(s), <<p, f>> \notin missed'
    PROVE  \/ Stored(p, f)'
           \/ \E k \in DOMAIN Tail(call[s].todo) : Tail(call[s].todo)[k] = p
<1>1. /\ call[s].pc \in {"push", "copy"} /\ call[s].pc \in PushPhase /\ call[s].step \in Shard
      /\ missed \subseteq missed'
  BY ShardDoneStep
<1>2. /\ f \in Content /\ Validate(call[s].m) /\ call[s].m.FileSize = Size[f]
      /\ call[s].m.BlockSize = call[s].block
      /\ \A i \in Shard : /\ call[s].m.ShardHashes[i] = ShardOf(f, call[s].block)
                          /\ ShardOf(f, call[s].block) # Nothing
      /\ KeptOK(s, p)
      /\ call[s].todo \in Seq(Peer) /\ call[s].todo # <<>> /\ up \subseteq Peer
  BY <1>1, PushKnows
<1>3. InTodo(call[s], p) \/ Stored(p, f)
  BY <1>1, <1>2 DEF KeptOK
<1>4. p \in Peer /\ p \in up
  BY <1>2 DEF Providers
<1>5. Served(s)
  BY Pushed
<1>6. CASE p = Target(s)
  <2>1. \A i \in Shard : i < call[s].step + 1
    <3>1. ASSUME NEW i \in Shard PROVE i < call[s].step + 1
      <4>1. i \in Nat /\ call[s].step \in Nat /\ Cardinality(Shard) \in Nat
        BY <1>1, ShardCount, ShardAssumption DEF Shard
      <4>2. i < Cardinality(Shard)
        BY <4>1, ShardCount
      <4>3. QED
        BY <4>1, <4>2
    <3>2. QED
      BY <3>1
  <2>2. /\ store'[p][f].text = "whole" /\ store'[p][f].m = call[s].m
        /\ \A i \in Shard : store'[p][f].shard[i] = ShardOf(f, call[s].block)
    BY <1>4, <1>5, <1>6, <2>1 DEF Served
  <2>3. Stored(p, f)'
    BY <1>2, <2>2 DEF Stored
  <2>4. QED
    BY <2>3
<1>7. CASE p # Target(s) /\ Stored(p, f)
  <2>1. store'[p][f] = store[p][f]
    BY <1>4, <1>5, <1>7 DEF Served
  <2>2. Stored(p, f)'
    BY <1>7, <2>1, StoredSame
  <2>3. QED
    BY <2>2
<1>8. CASE p # Target(s) /\ InTodo(call[s], p)
  <2>1. PICK q : q = call[s].todo
    OBVIOUS
  <2>2. /\ q[1] = Target(s)
        /\ \A k \in DOMAIN q : k = 1 \/ (k - 1 \in DOMAIN Tail(q) /\ Tail(q)[k - 1] = q[k])
    BY <1>2, <2>1, TailOfTodo DEF Target
  <2>3. PICK k \in DOMAIN q : q[k] = p
    BY <1>8, <2>1 DEF InTodo
  <2>4. k # 1
    BY <1>8, <2>2, <2>3
  <2>5. QED
    BY <2>1, <2>2, <2>3, <2>4
<1>9. QED
  BY <1>3, <1>6, <1>7, <1>8

LEMMA ShardDoneOK ==
    ASSUME Inv, Recorded, NEW s \in Slot, UploadOK(s), Watch, ShardDone(s)
    PROVE  UploadOK(s)'
<1>1. PICK r : r = AfterPush(s)
  OBVIOUS
<1>2. /\ call[s].pc \in {"push", "copy"} /\ call'[s] = r /\ up' = up /\ call[s].step \in Shard
      /\ UNCHANGED <<input, upDir>> /\ missed \subseteq missed' /\ Target(s) \in Peer
  BY <1>1, ShardDoneStep
<1>3. \/ /\ call[s].step + 1 < Cardinality(Shard)
         /\ SameWork(r, call[s])
         /\ r.pc = "push" /\ r.step = call[s].step + 1 /\ r.todo = call[s].todo
      \/ /\ ~(call[s].step + 1 < Cardinality(Shard)) /\ Len(call[s].todo) > 1
         /\ SameWork(r, call[s])
         /\ r.pc = "open" /\ r.todo = Tail(call[s].todo)
      \/ r = Uploaded
  BY <1>1, <1>2, AfterPushCases
<1>4. CASE r = Uploaded
  <2>1. ~Running(s)'
    BY <1>2, <1>4 DEF Running, Uploaded, NoCall
  <2>2. QED
    BY <2>1 DEF UploadOK
<1>5. CASE SameWork(r, call[s]) /\ r.pc \in {"push", "open"}
  <2>1. call[s].pc \in PushPhase /\ Running(s) /\ Running(s)'
    BY <1>2, <1>5 DEF Running
  <2>2. s \in shared => s \in shared'
    BY <2>1, Watched
  <2>3. SUFFICES ASSUME ~call'[s].edited, s \notin shared'
                 PROVE  UploadOK(s)'
    BY DEF UploadOK
  <2>4. ~call[s].edited /\ s \notin shared
    BY <1>2, <1>5, <2>2, <2>3 DEF SameWork, SameUpload
  <2>5. PICK f : f = call[s].file
    OBVIOUS
  <2>6. /\ f \in Content /\ Id(s) = f /\ call[s].m.FileSize = Size[f] /\ call[s].m.Sha256 = f
        /\ call[s].m.BlockSize = call[s].block /\ call[s].size = Size[f]
        /\ \A i \in Shard : /\ upDir[f][i] = ShardOf(f, call[s].block)
                            /\ call[s].m.ShardHashes[i] = ShardOf(f, call[s].block)
        /\ Size[f] > 0 => (\A p \in Providers(s) : KeptOK(s, p)) /\ TargetOK(s)
        /\ call[s].todo \in Seq(Peer) /\ call[s].todo # <<>> /\ up \subseteq Peer
    BY <2>1, <2>4, <2>5, PushKnows
  <2>7. /\ call'[s].file = f /\ call'[s].m = call[s].m /\ call'[s].block = call[s].block
        /\ call'[s].size = call[s].size /\ Providers(s)' = Providers(s)
        /\ call'[s].peers = call[s].peers
    BY <1>2, <1>5, <2>5 DEF SameWork, SameUpload, SameCall, Providers
  <2>8. Size[f] > 0 => Served(s)
    BY <2>4, <2>5, Pushed
  <2>9. CASE r.pc = "push"
    <3>1. r.step = call[s].step + 1 /\ r.todo = call[s].todo
      BY <1>3, <1>4, <2>9 DEF Uploaded, NoCall
    <3>2. Target(s)' = Target(s)
      BY <1>2, <3>1 DEF Target
    <3>3. ASSUME Size[f] > 0 PROVE TargetOK(s)'
      <4>1. Served(s)
        BY <2>8, <3>3
      <4>2. /\ call'[s].pc = "push" /\ call'[s].step = call[s].step + 1
            /\ call'[s].file = call[s].file
        BY <1>2, <2>5, <2>7, <2>9, <3>1
      <4>3. PICK q \in Peer : q = Target(s)
        BY <1>2
      <4>4. Target(s)' = q
        BY <3>2, <4>3
      <4>5. q \in up' /\ <<q, f>> \notin missed' =>
                /\ store'[q][f].text = "whole" /\ store'[q][f].m = call[s].m
                /\ \A i \in Shard : i < call[s].step + 1 =>
                      store'[q][f].shard[i] = ShardOf(f, call[s].block)
        BY <1>2, <2>5, <4>1, <4>3 DEF Served
      <4>6. QED
        BY <2>7, <4>2, <4>4, <4>5 DEF TargetOK
    <3>4. ASSUME Size[f] > 0, NEW p \in Providers(s)' PROVE KeptOK(s, p)'
      <4>1. p \in Providers(s) /\ p \in Peer
        BY <2>6, <2>7, <3>4 DEF Providers
      <4>2. CASE p = Target(s)
        <5>1. InTodo(call'[s], p)
          BY <1>2, <2>6, <3>1, <4>2, TailOfTodo DEF InTodo, Target
        <5>2. QED
          BY <5>1 DEF KeptOK
      <4>3. CASE p # Target(s)
        <5>1. store'[p][f] = store[p][f] /\ KeptOK(s, p)
          BY <2>5, <2>6, <2>8, <3>4, <4>1, <4>3 DEF Served
        <5>2. QED
          BY <1>2, <2>5, <2>6, <2>7, <3>1, <4>3, <5>1, OthersKept
      <4>4. QED
        BY <4>2, <4>3
    <3>5. QED
      BY <1>2, <2>6, <2>7, <2>9, <3>3, <3>4 DEF UploadOK, Named, Reads
  <2>10. CASE r.pc = "open"
    <3>1. r.todo = Tail(call[s].todo) /\ ~(call[s].step + 1 < Cardinality(Shard))
      BY <1>3, <1>4, <2>10 DEF Uploaded, NoCall
    <3>2. ASSUME Size[f] > 0, NEW p \in Providers(s)' PROVE KeptOK(s, p)'
      <4>1. SUFFICES ASSUME <<p, f>> \notin missed' PROVE InTodo(call'[s], p) \/ Stored(p, f)'
        BY <2>7 DEF KeptOK
      <4>2. \/ Stored(p, f)'
            \/ \E k \in DOMAIN Tail(call[s].todo) : Tail(call[s].todo)[k] = p
        BY <2>4, <2>5, <2>7, <3>1, <3>2, <4>1, PushedAll
      <4>3. QED
        BY <1>2, <3>1, <4>2 DEF InTodo
    <3>3. TargetOK(s)'
      BY <1>2, <2>10 DEF TargetOK
    <3>4. QED
      BY <1>2, <2>6, <2>7, <2>10, <3>2, <3>3 DEF UploadOK, Named, Reads
  <2>11. QED
    BY <1>5, <2>9, <2>10
<1>6. QED
  BY <1>3, <1>4, <1>5

\* Steps of a download are steps of calls that are no uploads.
LEMMA DownloadNoUpload ==
    ASSUME Inv, NEW s \in Slot, Download(s)
    PROVE  UploadOK(s)'
<1>1. CASE BeginDownload(s)
  <2>1. call'[s].kind = "download"
    BY <1>1, BeginDownloadStep
  <2>2. QED
    BY <2>1 DEF UploadOK
<1>2. CASE ~BeginDownload(s)
  <2>1. SameDownload(call'[s], call[s]) /\ call[s].pc \in DownloadPhase
    BY <1>2, NoAnswerStep, TakeStep, OpenShardStep, ArrivesStep, ShardEndsStep, GiveUpStep,
       ReconstructStep DEF Download, DownloadPhase
  <2>2. call'[s].kind = "download"
    BY <2>1, InDownload DEF SameDownload, SameCall
  <2>3. QED
    BY <2>2 DEF UploadOK
<1>3. QED
  BY <1>1, <1>2

LEMMA UploadsInit == Init => UploadsInv
<1>1. Init => \A s \in Slot : call[s].kind = "none"
  BY DEF Init, NoCall
<1>2. QED
  BY <1>1, InvInit, RecordedInit DEF UploadsInv, UploadOK

LEMMA UploadsStep == UploadsInv /\ [Next]_vars => UploadsInv'
<1> SUFFICES ASSUME UploadsInv, [Next]_vars PROVE UploadsInv'
  OBVIOUS
<1> USE DEF UploadsInv
<1>1. Inv /\ Recorded /\ Inv' /\ up \subseteq Peer
  BY InvStep DEF Inv, Typed
<1>2. ASSUME NEW t \in Slot, Upload(t)
      PROVE  Recorded' /\ \A s \in Slot : UploadOK(s)'
  <2>1. Watch /\ up' = up /\ Others(t)
    BY <1>1, <1>2, UploadWatches, UploadGently
  <2>2. input' = input /\ missed \subseteq missed'
    BY <1>1, <1>2, UploadGently
  <2>3. ASSUME NEW s \in Slot, s # t PROVE UploadOK(s)'
    <3>1. call'[s] = call[s]
      BY <2>1, <2>3 DEF Others
    <3>2. call[s].kind = "upload" /\ Running(s) /\ call[s].pc # "name" /\ s \notin shared =>
             /\ \A i \in Shard : upDir'[call[s].file][i] = upDir[call[s].file][i]
             /\ Id(s) = call[s].file =>
                   \A p \in up' : store'[p][call[s].file] = store[p][call[s].file]
      BY <1>1, <1>2, <2>1, <2>3, UploadAlone
    <3>3. UploadOK(s)
      OBVIOUS
    <3>4. QED
      BY <1>1, <2>1, <2>2, <3>1, <3>2, <3>3, UploadIdle
  <2>4. UploadOK(t)'
    <3>1. UploadOK(t) /\ Watch
      BY <2>1
    <3>2. CASE BeginUpload(t) \/ PrepareFails(t) \/ NameDir(t)
      BY <1>1, <3>2, BeginUploadOK, NameDirOK
    <3>3. CASE StatInput(t) \/ SumInput(t) \/ CreateShards(t) \/ WriteShards(t) \/ HashShards(t)
      BY <1>1, <3>1, <3>3, PreparesOK
    <3>4. CASE OpenManifest(t) \/ FillManifest(t) \/ SendShard(t)
      BY <1>1, <3>1, <3>4, PushGoesOn
    <3>5. CASE SkipShard(t) \/ CopyShard(t)
      BY <1>1, <3>1, <3>5, ShardDoneOK DEF ShardDone
    <3>6. CASE PushFails(t)
      <4>1. call[t].pc \in {"open", "fill"} \/ call[t].pc \in {"push", "copy"}
        BY <3>6 DEF PushFails
      <4>2. QED
        BY <1>1, <3>1, <3>6, <4>1, PushGoesOn, ShardDoneOK DEF ShardDone
    <3>7. QED
      BY <1>2, <3>2, <3>3, <3>4, <3>5, <3>6 DEF Upload
  <2>5. Recorded'
    BY <2>1, Watched
  <2>6. QED
    BY <2>3, <2>4, <2>5
<1>3. ASSUME NEW t \in Slot, Download(t)
      PROVE  Recorded' /\ \A s \in Slot : UploadOK(s)'
  <2>1. Watch /\ UNCHANGED <<input, upDir, store, up>> /\ Others(t)
    BY <1>1, <1>3, DownloadWatches, DownloadGently
  <2>2. missed' = missed
    BY <1>1, <1>3, BeginDownloadStep, NoAnswerStep, TakeStep, OpenShardStep, ArrivesStep,
       ShardEndsStep, GiveUpStep, ReconstructStep DEF Download
  <2>3. ASSUME NEW s \in Slot, s # t PROVE UploadOK(s)'
    <3>1. call'[s] = call[s]
      BY <2>1, <2>3 DEF Others
    <3>2. UploadOK(s)
      OBVIOUS
    <3>3. QED
      BY <1>1, <2>1, <2>2, <3>1, <3>2, UploadIdle
  <2>4. UploadOK(t)'
    BY <1>1, <1>3, DownloadNoUpload
  <2>5. Recorded'
    BY <2>1, Watched
  <2>6. QED
    BY <2>3, <2>4, <2>5
<1>4. CASE EditInput
  <2>1. Watch
    BY <1>4 DEF EditInput
  <2>2. ASSUME NEW s \in Slot PROVE UploadOK(s)'
    <3>1. /\ call'[s].kind = call[s].kind /\ call'[s].pc = call[s].pc
          /\ call'[s].peers = call[s].peers /\ call'[s].todo = call[s].todo
          /\ call'[s].file = call[s].file /\ call'[s].m = call[s].m
          /\ call'[s].block = call[s].block /\ call'[s].size = call[s].size
          /\ call'[s].step = call[s].step /\ call'[s].data = call[s].data
          /\ UNCHANGED <<upDir, store, up, missed>>
      BY <1>1, <1>4, EditStep
    <3>2. /\ call[s].edited => call'[s].edited
          /\ Reads(s) => call'[s].edited
      BY <1>1, <1>4, EditStep, Zenon
    <3>3. UploadOK(s)
      OBVIOUS
    <3>4. QED
      BY <1>1, <2>1, <3>1, <3>2, <3>3, UploadIdle
  <2>3. QED
    BY <1>1, <2>1, <2>2, Watched
<1>5. ASSUME NEW n \in Peer, StopNode(n)
      PROVE  Recorded' /\ \A s \in Slot : UploadOK(s)'
  <2>1. /\ Watch /\ up' = up \ {n} /\ UNCHANGED <<call, input, upDir, missed>>
        /\ \A q \in Peer \ {n} : store'[q] = store[q]
    BY <1>1, <1>5, StopStep DEF StopNode
  <2>2. ASSUME NEW s \in Slot PROVE UploadOK(s)'
    <3>1. UploadOK(s)
      OBVIOUS
    <3>2. up' \subseteq up /\ \A p \in up' : store'[p] = store[p]
      BY <1>1, <2>1
    <3>3. QED
      BY <1>1, <2>1, <3>1, <3>2, UploadIdle
  <2>3. QED
    BY <2>1, <2>2, Watched
<1>6. ASSUME NEW l \in late, LateOpen(l) \/ LateWrite(l)
      PROVE  Recorded' /\ \A s \in Slot : UploadOK(s)'
  <2>1. /\ Watch /\ UNCHANGED <<call, input, upDir, up, missed>>
        /\ <<l.to, l.id>> \in missed
        /\ \A p \in Peer, c \in Content :
              (p = l.to /\ c = l.id) \/ store'[p][c] = store[p][c]
    BY <1>1, <1>6, LateStep DEF LateOpen, LateWrite
  <2>2. ASSUME NEW s \in Slot PROVE UploadOK(s)'
    <3>1. UploadOK(s)
      OBVIOUS
    <3>2. call[s].kind = "upload" /\ Running(s) /\ call[s].pc # "name" =>
             \A p \in up' : <<p, call[s].file>> \notin missed =>
                               store'[p][call[s].file] = store[p][call[s].file]
      <4>1. call[s].kind = "upload" /\ Running(s) /\ call[s].pc # "name"
               => call[s].file \in Content
        BY <1>1 DEF Inv, CallOK, PhaseOK, Running
      <4>2. QED
        BY <1>1, <2>1, <4>1
    <3>3. QED
      BY <1>1, <2>1, <3>1, <3>2, UploadIdle
  <2>3. QED
    BY <2>1, <2>2, Watched
<1>7. CASE UNCHANGED vars
  <2>1. Recorded'
    BY <1>1, <1>7, RecordedStutter
  <2>2. ASSUME NEW s \in Slot PROVE UploadOK(s)'
    <3>1. UNCHANGED <<call, input, upDir, store, up, shared, missed>>
      BY <1>7 DEF vars
    <3>2. UploadOK(s)
      OBVIOUS
    <3>3. QED
      BY <1>1, <3>1, <3>2, UploadIdle
  <2>3. QED
    BY <1>1, <2>1, <2>2
<1>8. QED
  BY <1>1, <1>2, <1>3, <1>4, <1>5, <1>6, <1>7 DEF Next

\* Only the push of the last shard, done or failed, ends an upload with success.
LEMMA UploadEnds ==
    ASSUME Inv, [Next]_vars, NEW s \in Slot,
           Running(s), ~Running(s)', call[s].kind = "upload", call'[s].result = "ok"
    PROVE  ShardDone(s) /\ ~(call[s].step + 1 < Cardinality(Shard)) /\ ~(Len(call[s].todo) > 1)
<1>1. call[s].pc # "ended" /\ call'[s].pc = "ended"
  BY DEF Running
<1>2. call[s].pc \notin DownloadPhase
  BY InDownload DEF Inv, CallOK, PhaseOK
<1>3. ASSUME NEW t \in Slot, t # s, Upload(t) \/ Download(t) PROVE FALSE
  <2>1. CASE Upload(t)
    <3>1. Others(t)
      BY <2>1, UploadGently
    <3>2. QED
      BY <1>1, <1>3, <3>1 DEF Others
  <2>2. CASE Download(t)
    <3>1. Others(t)
      BY <2>2, BeginDownloadStep, NoAnswerStep, TakeStep, OpenShardStep, ArrivesStep,
         ShardEndsStep, GiveUpStep, ReconstructStep DEF Download
    <3>2. QED
      BY <1>1, <1>3, <3>1 DEF Others
  <2>3. QED
    BY <1>3, <2>1, <2>2
<1>4. ~Download(s)
  <2>1. SUFFICES ASSUME Download(s) PROVE FALSE
    OBVIOUS
  <2>2. CASE BeginDownload(s)
    BY <2>2, BeginDownloadStep
  <2>3. CASE ~BeginDownload(s)
    BY <1>2, <2>1, <2>3, NoAnswerStep, TakeStep, OpenShardStep, ArrivesStep, ShardEndsStep,
       GiveUpStep, ReconstructStep DEF Download, DownloadPhase
  <2>4. QED
    BY <2>2, <2>3
<1>5. ~EditInput
  BY <1>1, EditStep
<1>6. ~\E p \in Peer : StopNode(p)
  BY <1>1, StopStep
<1>7. ~\E l \in late : LateOpen(l) \/ LateWrite(l)
  BY <1>1 DEF LateOpen, LateWrite
<1>8. ~UNCHANGED vars
  BY <1>1 DEF vars
<1>9. Upload(s)
  BY <1>3, <1>4, <1>5, <1>6, <1>7, <1>8 DEF Next
<1>10. SkipShard(s) \/ CopyShard(s) \/ PushFails(s)
  BY <1>1, <1>9, BeginUploadStep, NameStep, StatStep, SumStep, CreateStep, WriteStep, HashStep,
     PrepareFailsStep, OpenStep, FillStep, SendStep DEF Upload
<1>11. ShardDone(s)
  BY <1>1, <1>10, PushFailsStep DEF ShardDone
<1>12. PICK r : r = AfterPush(s)
  OBVIOUS
<1>13. call[s].pc \in {"push", "copy"} /\ call'[s] = r
  BY <1>11, <1>12, ShardDoneStep
<1>14. ~(call[s].step + 1 < Cardinality(Shard)) /\ ~(Len(call[s].todo) > 1)
  BY <1>1, <1>12, <1>13, AfterPushCases
<1>15. QED
  BY <1>11, <1>14

\* UploadFile reports success whatever the pushes return.  When it does, every
\* running node of the call to which no push of the file has failed has the whole
\* file, unless the file is empty, was edited while the upload read it, or was
\* uploaded twice at the same time: for every list of nodes, with repetitions too,
\* whichever of them stop, and whenever the handlers of failed pushes come.
THEOREM UploadStoresFile == Spec => UploadStores
<1>1. UploadsInv /\ [Next]_vars =>
         [\A s \in Slot, c \in Content :
            /\ Running(s) /\ ~Running(s)' /\ call[s].kind = "upload" /\ call[s].file = c
            /\ call'[s].result = "ok"
            /\ ~call[s].edited /\ s \notin shared /\ Size[c] > 0
            => \A p \in Peer :
                  p \in Providers(s) /\ <<p, c>> \notin missed' => Stored(p, c)']_vars
  <2> SUFFICES ASSUME UploadsInv, [Next]_vars, NEW s \in Slot, NEW c \in Content,
                      Running(s), ~Running(s)', call[s].kind = "upload", call[s].file = c,
                      call'[s].result = "ok",
                      ~call[s].edited, s \notin shared, Size[c] > 0,
                      NEW p \in Peer, p \in Providers(s), <<p, c>> \notin missed'
               PROVE  Stored(p, c)'
    OBVIOUS
  <2>1. Inv /\ Recorded /\ UploadOK(s)
    BY DEF UploadsInv
  <2>2. ShardDone(s) /\ ~(call[s].step + 1 < Cardinality(Shard)) /\ ~(Len(call[s].todo) > 1)
    BY <2>1, UploadEnds
  <2>3. \/ Stored(p, c)'
        \/ \E k \in DOMAIN Tail(call[s].todo) : Tail(call[s].todo)[k] = p
    BY <2>1, <2>2, PushedAll
  <2>4. Tail(call[s].todo) = <<>>
    <3>1. call[s].pc \in PushPhase
      BY <2>1, <2>2, ShardDoneStep
    <3>2. call[s].todo \in Seq(Peer) /\ call[s].todo # <<>>
      BY <2>1, <3>1, PushKnows
    <3>3. QED
      BY <2>2, <3>2, TailOfTodo
  <2>5. QED
    BY <2>3, <2>4
<1>2. QED
  BY <1>1, UploadsInit, UploadsStep, PTL DEF Spec, UploadStores
============================================================================
