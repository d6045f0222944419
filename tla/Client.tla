------------------------------- MODULE Client --------------------------------
(***************************************************************************)
(* UploadFile and DownloadFile of client/client.go, with what they use:    *)
(* CreateUploadManifest (manifest/manifest.go), PushManifestToPeer and     *)
(* PushShardToPeer (node/node.go), and the nodes they talk to.             *)
(*                                                                         *)
(* One Client serves several calls at once: client_test.go uploads and     *)
(* downloads from many goroutines.  An upload reads the user's file three  *)
(* times (to name its directory, to hash it, to encode it) and stats it    *)
(* twice, while the user may write to it; the directories of shards are    *)
(* named after the file alone, so that calls about the same file share     *)
(* them; and every error of a push is ignored, while the node may still    *)
(* carry it out.                                                           *)
(*                                                                         *)
(* Contents stand for themselves and for their hashes.  A pass over a file *)
(* sees one content.  RunV1 is taken for what RetrievalV1 shows of it:     *)
(* verified shards arrive one by one, and it fails only if every provider  *)
(* lacks a shard or something failed in it.  ErasureCodec is about the     *)
(* layout.                                                                 *)
(***************************************************************************)
EXTENDS Integers, Sequences, FiniteSets, Manifest

CONSTANTS
    Slot,        \* goroutines that use the client
    Peer,        \* storage nodes
    PeerLists,   \* lists of BootPeers that a call may have
    Size,        \* the contents of files, and how long they are
    DataShards, ParityShards,  \* 2 and 2 in UploadFile
    MaxEvents    \* bound: calls that begin, an upload counted twice, edits of the
                 \* user's file, nodes that stop, and failures of the network, of
                 \* a disk or for want of time

Content == DOMAIN Size
Shard == 0 .. DataShards + ParityShards - 1

ASSUME ShardAssumption ==
    /\ DataShards \in Nat \ {0} /\ ParityShards \in Nat \ {0}
    /\ DataShards + ParityShards <= maxShardCount
ASSUME SizeAssumption ==
    /\ Size \in [Content -> Nat]
    /\ Content \cap {Unset, "nothing", "mixed"} = {}
ASSUME PeerAssumption ==
    /\ IsFiniteSet(Peer)
    /\ PeerLists \subseteq {list \in Seq(Peer) : list # <<>>}

VARIABLES
    call,      \* the call in each slot, with its local variables
    events,    \* those so far
    input,     \* the content of the user's file
    upDir,     \* upload_shards_<hash>: the shard files, by content
    dlDir,     \* download_<fileID>: the shard files, by content
    store,     \* what each node has under a file ID
    late,      \* pushes that the client took for failed and a node did not
    up,        \* the nodes that run
    shared,    \* history: calls that overlapped with another about their file
    lacking,   \* history: downloads with a node that lacked some of the file
    missed     \* history: nodes and files of which a push has failed

vars == <<call, events, input, upDir, dlDir, store, late, up, shared, lacking, missed>>

\* A shard file: of which content, laid out in which blocks.  "nothing" is an
\* absent, empty or half-written file, "mixed" one with bytes of two uploads.
Nothing == [of |-> "nothing", block |-> 0]
Mixed   == [of |-> "mixed", block |-> 0]
NoShards == [i \in Shard |-> Nothing]

\* The encoding of an empty file is an empty file in every shard.
ShardOf(c, block) == IF Size[c] = 0 THEN Nothing ELSE [of |-> c, block |-> block]

\* What a write of x leaves in a file with `now` in it, truncated before, when
\* others may be writing to it as well.
Blend(x, now, rivals) == IF now \in {Nothing, x} /\ ~rivals THEN {x} ELSE {x, Mixed}

\* No call yet.  `file` names the directory, `m.Sha256` is the file ID, `data`
\* is the shard that is being pushed.  History: the user wrote to the file while
\* an upload read it (`edited`), something failed in a download (`broken`).
NoCall ==
    [kind |-> "none", pc |-> "ended", result |-> "none", peers |-> <<>>, todo |-> <<>>,
     file |-> Unset, m |-> ZeroManifest, block |-> 0, size |-> 0, step |-> 0, have |-> {},
     data |-> Nothing, out |-> "nothing", edited |-> FALSE, broken |-> FALSE]

PreparePhase  == {"name", "stat", "sum", "create", "write", "hash"}
PushPhase     == {"open", "fill", "push", "copy"}
UploadPhase   == PreparePhase \cup PushPhase
DownloadPhase == {"fetch", "shards", "receive"}
Running(s) == call[s].pc # "ended"

TypeOK ==
    /\ \A s \in Slot :
          /\ call[s].pc \in UploadPhase \cup DownloadPhase \cup {"ended"}
          /\ call[s].result \in {"none", "ok", "err"}
          /\ call[s].pc \in {"ended", "name"} \/ call[s].file \in Content
          /\ call[s].todo # <<>> \/ call[s].pc \notin PushPhase \cup {"fetch"}
          /\ call[s].have \subseteq Shard
          /\ call[s].pc \in PushPhase => Validate(call[s].m)
    /\ input \in Content /\ up \subseteq Peer /\ missed \subseteq Peer \X Content
    /\ \A c \in Content, i \in Shard :
          /\ upDir[c][i].of \in Content \cup {"nothing", "mixed"}
          /\ dlDir[c][i].of \in Content \cup {"nothing", "mixed"}

\* The file of a manifest is "empty" while a push is at it, and "garbled" when
\* two pushes were.  A node without one answers what becomes the zero manifest.
EmptyStore ==
    [c \in Content |-> [m |-> ZeroManifest, text |-> "whole", shard |-> NoShards]]

Init ==
    /\ call = [s \in Slot |-> NoCall]
    /\ events = 0
    /\ input \in Content
    /\ upDir = [c \in Content |-> NoShards] /\ dlDir = [c \in Content |-> NoShards]
    /\ store = [p \in Peer |-> EmptyStore]
    /\ late = {} /\ up = Peer
    /\ shared = {} /\ lacking = {} /\ missed = {}

----------------------------------------------------------------------------
\* A node that holds everything it takes to serve the file c.
Stored(p, c) ==
    LET entry == store[p][c]
    IN  /\ entry.text = "whole"
        /\ Validate(entry.m) /\ entry.m.FileSize = Size[c]
        /\ \A i \in Shard : /\ entry.shard[i] = ShardOf(c, entry.m.BlockSize)
                            /\ entry.shard[i] = entry.m.ShardHashes[i]
                            /\ entry.shard[i] # Nothing

\* The running nodes that a call knows.
Providers(s) == {call[s].peers[j] : j \in DOMAIN call[s].peers} \cap up

\* A running node that a download may ask is not one of those, or holds the
\* file in another layout than a second one: the file ID does not name it.
Lacks(s) ==
    /\ call[s].kind = "download" /\ Running(s)
    /\ \E p, q \in Providers(s) :
          \/ ~Stored(p, call[s].file)
          \/ store[p][call[s].file].m.BlockSize # store[q][call[s].file].m.BlockSize

Target(s) == Head(call[s].todo)
Id(s) == call[s].m.Sha256

\* The calls that work in the same directory as this one, or on the same file.
Overlaps(s, t) ==
    /\ s # t /\ Running(s) /\ Running(t) /\ call[s].kind = call[t].kind
    /\ \/ call[s].file # Unset /\ call[s].file = call[t].file
       \/ Id(s) # Unset /\ Id(s) = Id(t)

\* Every step keeps the history of the calls that run, and of the downloads
\* that have ended.
Watch ==
    LET old(set) == {s \in set : Running(s)' => Running(s)}
        known == {s \in Slot : call'[s].kind = "download" \/ Running(s)'}
    IN  /\ shared' = (old(shared) \cap known) \cup {s \in Slot : \E t \in Slot : Overlaps(s, t)'}
        /\ lacking' = old(lacking) \cup {s \in Slot : Lacks(s)'}

----------------------------------------------------------------------------
(* UploadFile                                                               *)

\* 1 MiB, or the whole of a smaller file.
BlockSize(size) ==
    IF size < 1048576 THEN (IF size <= 0 THEN 1 ELSE size) ELSE 1048576

Event(n) == events + n <= MaxEvents /\ events' = events + n

Begin(s, c) ==
    /\ ~Running(s)
    /\ call' = [call EXCEPT ![s] = c]
    /\ UNCHANGED <<input, upDir, dlDir, store, late, up, missed>>
    /\ Watch

\* Open and Stat, for the size of a block ...
BeginUpload(s) ==
    /\ Event(2)
    /\ \E list \in PeerLists :
          Begin(s, [NoCall EXCEPT !.kind = "upload", !.pc = "name", !.peers = list,
                      !.todo = list, !.block = BlockSize(Size[input])])

Step(s, c) ==
    /\ call' = [call EXCEPT ![s] = c]
    /\ UNCHANGED <<input, store, up>>
    /\ Watch

Local(s, c) == Step(s, c) /\ UNCHANGED <<events, late, missed>>

\* Something fails: the network, a disk, or there is no more time.
Fault(s, c) == Event(1) /\ Step(s, c) /\ UNCHANGED <<late, missed>>

\* ... and the pass over the file that names the directory.
NameDir(s) ==
    /\ call[s].pc = "name"
    /\ Local(s, [call[s] EXCEPT !.pc = "stat", !.file = input])
    /\ UNCHANGED <<upDir, dlDir>>

\* CreateUploadManifest: os.Stat, for the sizes of the manifest.
StatInput(s) ==
    /\ call[s].pc = "stat"
    /\ Local(s, [call[s] EXCEPT !.pc = "sum", !.size = Size[input]])
    /\ UNCHANGED <<upDir, dlDir>>

\* Its hash pass: the hash is the file ID.
SumInput(s) ==
    /\ call[s].pc = "sum"
    /\ Local(s, [call[s] EXCEPT !.pc = "create",
                   !.m = NewManifest(call[s].size, DataShards, ParityShards,
                                     call[s].block, input, NoShards)])
    /\ UNCHANGED <<upDir, dlDir>>

\* EncodeFile creates, and so empties, all shard files of the directory ...
CreateShards(s) ==
    /\ call[s].pc = "create"
    /\ upDir' = [upDir EXCEPT ![call[s].file] = NoShards]
    /\ Local(s, [call[s] EXCEPT !.pc = "write"])
    /\ UNCHANGED dlDir

\* Others write to the shard files of this directory.
Writing(f, others) == \E t \in others : call[t].pc = "write" /\ call[t].file = f

\* ... and writes them, in the third pass over the file.  Files that are not
\* empty by then have been written by somebody else meanwhile.
WriteShards(s) ==
    /\ call[s].pc = "write"
    /\ LET f == call[s].file
       IN  \E x \in Blend(ShardOf(input, call[s].block), upDir[f][0], Writing(f, Slot \ {s})) :
              upDir' = [upDir EXCEPT ![f] = [i \in Shard |-> x]]
    /\ Local(s, [call[s] EXCEPT !.pc = "hash"])
    /\ UNCHANGED dlDir

\* The hashes of the shard files, read again from the directory.
HashShards(s) ==
    /\ call[s].pc = "hash"
    /\ Local(s, [call[s] EXCEPT !.m.ShardHashes = upDir[call[s].file], !.pc = "open"])
    /\ UNCHANGED <<upDir, dlDir>>

\* A file that cannot be opened, read, created or written ends the upload with
\* an error, the last with some of the shards in their files.
PrepareFails(s) ==
    /\ call[s].pc \in PreparePhase
    /\ LET f == call[s].file
           now == upDir[f][0]
       IN  IF call[s].pc = "write"
           THEN \E x \in Blend(now, now, now # Nothing \/ Writing(f, Slot \ {s})) :
                   upDir' = [upDir EXCEPT ![f] = [i \in Shard |-> x]]
           ELSE UNCHANGED upDir
    /\ Fault(s, [NoCall EXCEPT !.kind = "upload", !.result = "err"])
    /\ UNCHANGED dlDir

\* The handlers of a node truncate the file that a push is about ...
ManifestAt == -1
Truncated(entry, at) ==
    IF at = ManifestAt THEN [entry EXCEPT !.text = "empty"]
    ELSE [entry EXCEPT !.shard[at] = Nothing]

\* ... and write to it: the manifest at once, a shard piece by piece.
Written(entry, at, data, rivals) ==
    IF at = ManifestAt
    THEN {[entry EXCEPT !.m = data, !.text = t] :
             t \in IF entry.text = "empty" THEN {"whole"} ELSE {"whole", "garbled"}}
    ELSE {[entry EXCEPT !.shard[at] = x] : x \in Blend(data, entry.shard[at], rivals)}

\* Other handlers are writing to the shard.
Rivals(p, c, i, slots, pushes) ==
    \/ \E t \in slots : /\ call[t].pc = "copy" /\ Target(t) = p
                        /\ Id(t) = c /\ call[t].step = i
    \/ \E l \in pushes : l.open /\ l.to = p /\ l.id = c /\ l.at = i

\* One step of a push.  What a node that has stopped should get is lost.
Push(s, c, entries) ==
    /\ call' = [call EXCEPT ![s] = c]
    /\ IF Target(s) \in up
       THEN \E e \in entries : store' = [store EXCEPT ![Target(s)][Id(s)] = e]
       ELSE UNCHANGED store
    /\ UNCHANGED <<events, input, upDir, dlDir, late, up, missed>>
    /\ Watch

Entry(s) == store[Target(s)][Id(s)]

OpenManifest(s) ==
    /\ call[s].pc = "open"
    /\ Push(s, [call[s] EXCEPT !.pc = "fill"], {Truncated(Entry(s), ManifestAt)})

FillManifest(s) ==
    /\ call[s].pc = "fill"
    /\ Push(s, [call[s] EXCEPT !.pc = "push"],
            Written(Entry(s), ManifestAt, call[s].m, FALSE))

\* UploadFile returns the file ID, and its local variables go.
Uploaded == [NoCall EXCEPT !.kind = "upload", !.result = "ok"]

\* Variant: one node too many.
AfterPushOverrun(s) ==
    IF call[s].step + 1 < Cardinality(Shard)
    THEN [call[s] EXCEPT !.step = @ + 1, !.data = Nothing, !.pc = "push"]
    ELSE IF Len(call[s].todo) > 0
         THEN [call[s] EXCEPT !.step = 0, !.data = Nothing, !.todo = Tail(@), !.pc = "open"]
         ELSE Uploaded

\* Variant: the first node is enough.
AfterPushOnce(s) ==
    IF call[s].step + 1 < Cardinality(Shard)
    THEN [call[s] EXCEPT !.step = @ + 1, !.data = Nothing, !.pc = "push"]
    ELSE Uploaded

\* The next shard, the next node, or the end of the call.
AfterPush(s) ==
    IF call[s].step + 1 < Cardinality(Shard)
    THEN [call[s] EXCEPT !.step = @ + 1, !.data = Nothing, !.pc = "push"]
    ELSE IF Len(call[s].todo) > 1
         THEN [call[s] EXCEPT !.step = 0, !.data = Nothing, !.todo = Tail(@), !.pc = "open"]
         ELSE Uploaded

LocalShard(s) == upDir[call[s].file][call[s].step]

\* PushShardToPeer refuses a shard file without a byte.
SkipShard(s) ==
    /\ call[s].pc = "push" /\ LocalShard(s) = Nothing
    /\ Local(s, AfterPush(s))
    /\ UNCHANGED <<upDir, dlDir>>

\* A shard file is read, half-written if it is being written.
SendShard(s) ==
    /\ call[s].pc = "push"
    /\ LocalShard(s) # Nothing \/ Writing(call[s].file, Slot)
    /\ Push(s, [call[s] EXCEPT !.pc = "copy", !.data = LocalShard(s)],
            {Truncated(Entry(s), call[s].step)})

CopyShard(s) ==
    /\ call[s].pc = "copy"
    /\ LET rivals == Rivals(Target(s), Id(s), call[s].step, Slot \ {s}, late)
       IN  Push(s, AfterPush(s), Written(Entry(s), call[s].step, call[s].data, rivals))

\* What the handler of a push has been asked to do.
Asked(s) ==
    LET manifest == call[s].pc \in {"open", "fill"}
    IN  [to |-> Target(s), id |-> Id(s), open |-> call[s].pc \in {"fill", "copy"},
         at |-> IF manifest THEN ManifestAt ELSE call[s].step,
         data |-> IF manifest THEN call[s].m
                  ELSE IF call[s].pc = "push" THEN LocalShard(s) ELSE call[s].data]

\* A push fails: no connection, a broken stream, a context that is done, no
\* room on the disk, no answer in time.  The client ignores it and goes on.
PushFails(s) ==
    /\ call[s].pc \in PushPhase /\ Target(s) \in up
    /\ call[s].pc = "push" => LocalShard(s) # Nothing
    /\ Event(1)
    /\ Step(s, IF call[s].pc \in {"open", "fill"}
               THEN [call[s] EXCEPT !.pc = "push"] ELSE AfterPush(s))
    /\ late' = late \cup {Asked(s)}
    /\ missed' = missed \cup {<<Target(s), Id(s)>>}
    /\ UNCHANGED <<upDir, dlDir>>

----------------------------------------------------------------------------
(* DownloadFile                                                             *)

BeginDownload(s) ==
    /\ Event(1)
    /\ \E list \in PeerLists, c \in Content :
          Begin(s, [NoCall EXCEPT !.kind = "download", !.pc = "fetch", !.file = c,
                      !.peers = list, !.todo = list])

\* No manifest, or nothing to make a file of.  What RunV1 has written stays.
\* DownloadFile returns, and its local variables go.
Returned(c, out, result) ==
    [NoCall EXCEPT !.kind = "download", !.file = c.file, !.peers = c.peers,
                   !.broken = c.broken, !.out = out, !.result = result]

Failed(c) == Returned(c, "nothing", "err")
Fail(s) == Local(s, Failed(call[s]))

Broken(s) == [call[s] EXCEPT !.broken = TRUE]

\* No manifest comes from the node.
Silent(s) == Target(s) \notin up \/ store[Target(s)][call[s].file].text # "whole"

\* Variant: an answer that is not a manifest ends the call.
NoAnswerFatal(s) ==
    /\ call[s].pc = "fetch"
    /\ (Silent(s) /\ Fail(s)) \/ Fault(s, Failed(Broken(s)))
    /\ UNCHANGED <<upDir, dlDir>>

\* It does not answer, in time or at all, or its answer is not JSON: ask the next.
NoAnswer(s) ==
    /\ call[s].pc = "fetch"
    /\ LET next(c) == IF Len(c.todo) > 1 THEN [c EXCEPT !.todo = Tail(@)] ELSE Failed(c)
       IN  (Silent(s) /\ Local(s, next(call[s]))) \/ Fault(s, next(Broken(s)))
    /\ UNCHANGED <<upDir, dlDir>>

\* Any JSON object is taken for the manifest.  The answer of a node that has
\* none, {"error": ...}, becomes one without a field set.
TakeManifest(s) ==
    /\ call[s].pc = "fetch"
    /\ ~Silent(s)
    /\ Local(s, [call[s] EXCEPT !.pc = "shards", !.m = store[Target(s)][call[s].file].m])
    /\ UNCHANGED <<upDir, dlDir>>

MoreToFetch(s) == call[s].pc = "shards" /\ Cardinality(call[s].have) < call[s].m.MinShards

\* A provider has the shard with the hash of the manifest.
Serves(p, s, i) ==
    LET x == store[p][call[s].file].shard[i]
    IN  x # Nothing /\ x = call[s].m.ShardHashes[i]

\* RunV1 opens, and so empties, the file of a shard that it is given, if only
\* with wrong bytes ...
OpenShard(s) ==
    /\ MoreToFetch(s)
    /\ \E i \in Shard \ call[s].have :
          /\ \E p \in Providers(s) : store[p][call[s].file].shard[i] # Nothing
          /\ dlDir' = [dlDir EXCEPT ![call[s].file][i] = Nothing]
          /\ Local(s, [call[s] EXCEPT !.pc = "receive", !.step = i])
    /\ UNCHANGED upDir

\* ... and counts it when the file has the right hash.
ShardArrives(s) ==
    /\ call[s].pc = "receive"
    /\ \E p \in Providers(s) : Serves(p, s, call[s].step)
    /\ dlDir' = [dlDir EXCEPT ![call[s].file][call[s].step] =
                    call[s].m.ShardHashes[call[s].step]]
    /\ Local(s, [call[s] EXCEPT !.pc = "shards", !.have = @ \cup {call[s].step}])
    /\ UNCHANGED upDir

\* Another download is writing to the same shard file.
Disturbed(s) ==
    \E t \in Slot \ {s} : /\ call[t].pc = "receive" /\ call[t].file = call[s].file
                          /\ call[t].step = call[s].step

\* The file has wrong bytes or too few, from a provider that has no others or
\* through the other download, and is removed or left as it is.
ShardIsWrong(s) ==
    /\ call[s].pc = "receive"
    /\ \/ /\ \E p \in Providers(s) : ~Serves(p, s, call[s].step)
          /\ Local(s, [call[s] EXCEPT !.pc = "shards"])
       \/ /\ Disturbed(s)
          /\ Local(s, [Broken(s) EXCEPT !.pc = "shards"])
    /\ dlDir' = [dlDir EXCEPT ![call[s].file][call[s].step] = Nothing]
    /\ UNCHANGED upDir

\* The provider has stopped, or the stream breaks or takes too long, before or
\* after the file was opened; the attempts of the shard may be used up by that.
FetchFails(s) ==
    /\ call[s].pc \in {"shards", "receive"}
    /\ \/ /\ call[s].pc = "receive" /\ Providers(s) = {}
          /\ Local(s, [call[s] EXCEPT !.pc = "shards"])
       \/ Fault(s, [Broken(s) EXCEPT !.pc = "shards"])
    /\ UNCHANGED <<upDir, dlDir>>

\* A provider without a shard, or with wrong bytes, is blacklisted for longer
\* than the run.  RunV1 fails when it may have run out of providers or attempts,
\* or have been cancelled: while nothing breaks, one provider that has every
\* shard suffices unless maxAttempts others refuse (RetrievalV1.FailsForAReason).
maxAttempts == 5
GiveUp(s) ==
    /\ MoreToFetch(s)
    /\ LET complete == {p \in Providers(s) : \A i \in Shard : Serves(p, s, i)}
           known == {call[s].peers[j] : j \in DOMAIN call[s].peers}
       IN  \/ complete = {} \/ Cardinality(known \ complete) >= maxAttempts
           \/ call[s].broken
    /\ Fail(s)
    /\ UNCHANGED <<upDir, dlDir>>

\* What ReconstructFile makes of the shard files in the directory.
Decoded(s) ==
    LET m == call[s].m
    IN  IF \E c \in Content : /\ m.FileSize = Size[c]
                              /\ \A i \in call[s].have :
                                    dlDir[call[s].file][i] = [of |-> c, block |-> m.BlockSize]
        THEN dlDir[call[s].file][CHOOSE i \in call[s].have : TRUE].of
        ELSE "mixed"

\* Variant: the hash of the output is compared nowhere.
ReconstructUnverified(s) ==
    /\ call[s].pc = "shards" /\ ~MoreToFetch(s)
    /\ \/ IF ~Validate(call[s].m) THEN Fail(s)
          ELSE Local(s, Returned(call[s], Decoded(s), "ok"))
       \/ Fault(s, Failed(Broken(s)))
    /\ UNCHANGED <<upDir, dlDir>>

\* ReconstructFromManifest, and the hash of the output compared once more; a
\* file that cannot be read or written ends the download too.
Reconstruct(s) ==
    /\ call[s].pc = "shards" /\ ~MoreToFetch(s)
    /\ \/ IF ~Validate(call[s].m) THEN Fail(s)
          ELSE IF Decoded(s) # call[s].m.Sha256 THEN Fail(s)
               ELSE Local(s, Returned(call[s], Decoded(s), "ok"))
       \/ Fault(s, Failed(Broken(s)))
    /\ UNCHANGED <<upDir, dlDir>>

----------------------------------------------------------------------------
(* The user and the nodes                                                   *)

\* An upload that has not read the file for the last time.
Reads(s) == call[s].pc \in PreparePhase \ {"hash"}

\* An edit that no upload will see is left out.
EditInput ==
    /\ events + 3 <= MaxEvents \/ \E s \in Slot : Reads(s)
    /\ Event(1)
    /\ input' \in Content \ {input}
    /\ call' = [s \in Slot |-> [call[s] EXCEPT !.edited = @ \/ Reads(s)]]
    /\ UNCHANGED <<upDir, dlDir, store, late, up, missed>>
    /\ Watch

\* A handler does late what its client took for failed, or never.
LateOpen(l) ==
    /\ ~l.open
    /\ late' = (late \ {l}) \cup {[l EXCEPT !.open = TRUE]}
    /\ store' = [store EXCEPT ![l.to][l.id] = Truncated(@, l.at)]
    /\ UNCHANGED <<call, events, input, upDir, dlDir, up, missed>>
    /\ Watch

LateWrite(l) ==
    /\ l.open
    /\ late' = late \ {l}
    /\ \E e \in Written(store[l.to][l.id], l.at, l.data,
                        Rivals(l.to, l.id, l.at, Slot, late \ {l})) :
          store' = [store EXCEPT ![l.to][l.id] = e]
    /\ UNCHANGED <<call, events, input, upDir, dlDir, up, missed>>
    /\ Watch

\* A node stops for good, and its disk is out of reach.
StopNode(p) ==
    /\ p \in up
    /\ Event(1)
    /\ up' = up \ {p}
    /\ store' = [store EXCEPT ![p] = EmptyStore]
    /\ late' = {l \in late : l.to # p}
    /\ UNCHANGED <<call, input, upDir, dlDir, missed>>
    /\ Watch

Upload(s) ==
    \/ BeginUpload(s) \/ NameDir(s) \/ StatInput(s) \/ SumInput(s) \/ CreateShards(s)
    \/ WriteShards(s) \/ HashShards(s) \/ PrepareFails(s) \/ OpenManifest(s)
    \/ FillManifest(s) \/ SkipShard(s) \/ SendShard(s) \/ CopyShard(s) \/ PushFails(s)

Download(s) ==
    \/ BeginDownload(s) \/ NoAnswer(s) \/ TakeManifest(s) \/ OpenShard(s) \/ ShardArrives(s)
    \/ ShardIsWrong(s) \/ FetchFails(s) \/ GiveUp(s) \/ Reconstruct(s)

Next ==
    \/ \E s \in Slot : Upload(s) \/ Download(s)
    \/ EditInput
    \/ \E l \in late : LateOpen(l) \/ LateWrite(l)
    \/ \E p \in Peer : StopNode(p)

Spec == Init /\ [][Next]_vars

----------------------------------------------------------------------------
(* Properties                                                               *)

\* A download reports success only with the content that the file ID names in
\* its output, whatever was edited, mixed, overwritten or truncated meanwhile,
\* in the uploads of the file or in the directory of another download.
SuccessIsNamed ==
    \A s \in Slot : call[s].kind = "download" /\ call[s].result = "ok"
                     => call[s].out = call[s].file

\* UploadFile ignores every error of a push.  When it reports success it has
\* still stored the file, manifest and shards in one layout, on every running
\* node to which no push of the file has failed, in this upload or an earlier
\* one (whose handler may be late): a failure costs the node where it happens
\* and no other.  Not for an empty file, for one that was edited meanwhile, or
\* for one that was uploaded twice at the same time: the passes over the file and
\* the shared directory are the other ways to miss.
UploadStores ==
    [][\A s \in Slot, c \in Content :
         /\ Running(s) /\ ~Running(s)' /\ call[s].kind = "upload" /\ call[s].file = c
         /\ call'[s].result = "ok"
         /\ ~call[s].edited /\ s \notin shared /\ Size[c] > 0
         => \A p \in Peer : p \in Providers(s) /\ <<p, c>> \notin missed' => Stored(p, c)']_vars

\* A download in which no stream, disk, deadline or context fails, fails only
\* when all nodes have stopped, when a running one did not hold the file all the
\* time or not in the layout of the others (a new upload rewrites it, for one, or
\* a push that comes late), when so many nodes have stopped that the attempts of
\* RunV1 are used up, or when another download of the file truncated its shards:
\* nodes that stop in the middle do no harm if one is left.
DownloadFailsForAReason ==
    \A s \in Slot :
        call[s].kind = "download" /\ call[s].result = "err"
        => \/ call[s].broken \/ s \in lacking \/ s \in shared
           \/ Providers(s) = {}
           \/ Cardinality(Peer \ up) >= maxAttempts

\* WIRE_SPECIFICATION.md says of ERR_NOT_FOUND that it is to be retried with a
\* different peer: a download does not end for want of a manifest while a node
\* that it knows holds the whole file.
AsksDifferentPeer ==
    [][\A s \in Slot :
         /\ call[s].kind = "download" /\ Running(s) /\ ~Running(s)'
         /\ call'[s].result = "err" /\ ~Validate(call[s].m)
         => \A p \in Providers(s) : ~Stored(p, call[s].file)]_vars
============================================================================
