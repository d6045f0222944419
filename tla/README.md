# Meshweb in TLA+

TLA+ models of the Go implementation of the Meshweb storage protocol under
`src/`, the TLC configurations that check them on small instances, and TLAPS
proofs.  Meshweb cuts a file into K data and M parity shards, keeps them on
nodes that find each other through a DHT or a registry, repairs what gets lost,
and downloads a file from several providers at once.

## 1. Inventory

| Component | State | Operations | Interacts with | What is hard, and what makes it correct |
|---|---|---|---|---|
| Soft lease `watchdog/lease.go` | a record per file in a key/value store (the DHT): epoch, owner, created, expires | `AcquireLease`, `CompareLeases` | called by the repair pipeline; every node reads and overwrites the same key | read-decide-write without compare-and-swap, 100 ms settling time, unsynchronised clocks, a store that fails.  At most one live holder; no alive lease stolen knowingly; epochs order the leases |
| Repair pipeline `watchdog/pipeline.go`, `aggregator.go`, `erasure/repair.go` | locals of one pass; shard files of all nodes | `RunOnce`: scan, query, aggregate, lease, reconstruct, commit, push | scanner, health and push handlers of other nodes, lease | acts on bitmaps from before the lease; writes truncate; scans move files; errors are ignored.  Never costs the file; heals it in the end |
| Scanner, bitmaps `watchdog/scanner.go`, `bitmap.go` | shard files, quarantine directory | `ScanLocalFile`, bitmap set/get/encode | pipeline and health handler run it on the same directory without a lock | a file is hashed, then renamed, while others write it |
| Watchdog daemon `watchdog/daemon.go` | cancel function | `Start`, `Stop`, periodic `RunOnce` | pipeline | repeated `Start` |
| Retrieval V1 `retrieval/orchestrator_v1.go` | task channel, provider scores and blacklists, verified shards, shard files | `RunV1`: workers, requeueing goroutines, watchdog; `GetBestProvider`, `ReportError`, `ReportSuccess` | storage nodes (two protocol versions), decoder | retries, blacklisting and cancellation race.  No task lost, no verified shard overwritten, the call returns |
| Retrieval V2 `retrieval/orchestrator_v2.go` | window semaphore, results channel, reorder buffer, output file, checkpoint file, shared error | `RunV2`: producer, segment goroutines, writer, closer, watchdog; resume | storage nodes, decoder, file system | bounded pipeline with error exits; crash between write and checkpoint; resume.  Bytes in order, checkpoint truthful, no goroutine stuck or leaked |
| Storage node `node/node.go` | shard files, manifests | storage v1/v2, push v1/v2, manifest, health, advertise | client, retrieval, pipeline, DHT | concurrent pushes of one file, partial files, completion decided by the last chunk, what is advertised |
| Client `client/client.go` | an embedded node; directories of shards named after the file | `UploadFile`, `DownloadFile`, from several goroutines | manifest, codec, retrieval V1, storage nodes | reads the user's file three times; calls about one file share a directory; every push error is ignored; the first JSON answer is the manifest.  A success is the named content; a failure has a reason |
| Registry `discovery/discovery.go` | providers of each file with the time they were last seen, under a mutex | announce, find, prune | providers, downloaders | answers are written with the mutex held and no deadline; expiry.  Finds return exactly who is fresh; every request is handled |
| DHT discovery `discovery/dht_discovery.go` | – | provide, find, get, put value | Kademlia library | pure I/O |
| Erasure codec `erasure/erasure.go` | – | `EncodeFile`, `ReconstructFile`, `ReconstructSegmentData` | client, retrievals, pipeline | the last stripe is shorter, and each reader works out by itself how; a wrong source shard gives wrong bytes without an error |
| Manifest `manifest/manifest.go` | – | `NewManifest`, `Validate`, `CreateUploadManifest`, `ReconstructFromManifest` | everything | separate passes over one file; not every reader validates |
| Compliance runner `compliance/` | report | run levels in order | – | sequential |
| Retry helper, placement, peer state, commands | – | – | – | no caller, no implementation, or pure I/O |

`PROJECT.json` lists the components with the status of their model, and under
`hazards` what in this code is hard to test, line by line, with the property
that covers it or the reason why none does yet.

## 2. Modules

| Module | Models | Checked by | Proved in |
|---|---|---|---|
| `RepairLease` | the soft lease of one file between any number of nodes | `MCRepairLease` | `RepairLease_proofs` |
| `SoftLease` | abstract: what the lease amounts to without clocks, records and phases | refined by `RepairLease` | `RepairLease_proofs` |
| `RepairPipeline` | self-healing of one file on all its nodes, with the lease abstracted | itself | `RepairPipeline_proofs` |
| `Bitmap` | health bitmaps and their aggregation, as operators | within `RepairPipeline` | `RepairPipeline_proofs` |
| `RetrievalV1` | one call of `RunV1` | `MCRetrievalV1` | `RetrievalV1_proofs` |
| `RetrievalV2` | successive calls of `RunV2` with one output and checkpoint | itself | `RetrievalV2_proofs` |
| `SegmentFetch` | the workers that fetch the chunks of one segment of `RunV2` | `MCSegmentFetch` | `Segment_proofs` |
| `SegmentOutcome` | abstract: what such a fetch promises to the rest of `RunV2` | refined by `SegmentFetch` | `Segment_proofs` |
| `StorageNode` | pushes, scans and announcements of one shard on one node | `MCStorageNode` | `StorageNode_proofs` |
| `Client` | `UploadFile` and `DownloadFile`, several at once, against storage nodes | `MCClient` | `Client_proofs` |
| `Manifest` | the manifest and its validation, as operators | within `Client`, `ErasureCodec` | within `Client_proofs`, `Segment_proofs` |
| `ErasureCodec` | the layout of a file in shards, and the three ways back | itself | `Segment_proofs` |
| `Registry` | the discovery registry and the streams of its users | itself | `Registry_proofs` |

How they fit together: `Client` composes an upload (manifest, codec, pushes)
and a download (manifest, retrieval V1, decoder) over the nodes.  It takes
`RunV1` for what `RetrievalV1` shows of it (verified shards arrive one by one;
while nothing breaks it fails only when no provider has everything or the others
have used up the attempts; else it may fail whenever it likes), and the codec for what
`ErasureCodec` shows (any K shards of one layout give the file back: proved for
every size and code).
`RetrievalV2` takes the fetch of one segment for one step, which `SegmentFetch`
is checked to implement and, as far as safety goes, proved to.
`RepairPipeline` takes the reading of a shard in the scan of `StorageNode` for
one step and its move for another, computes what is missing with `Bitmap`, and
its lease is an abstraction of `RepairLease` again.

### RepairLease

`pc[p]` is where node p stands in `AcquireLease`: `reading` (before the first
`GetValue`), `putting`, `settling` (the 100 ms sleep), `repairing` (returned
true, `RunOnce` goes on).  `stamp`, `seen` and `mine` are the local variables
`now`, `existingLease` and `newLease`.  Every access to the store is an action.
`now` is true time and `Skew[p]` what p's wall clock adds to it.  `raced` is a
history variable: some put has replaced a record its writer had not read, by
interleaving or because a failed read was taken for an absent record.  A crash
is possible everywhere and loses the locals, never the record.

### RepairPipeline

One step per externally visible access: of a scan, own or in the health handler
of another node, the judgement of each shard (`Judge`) and the move of one that
did not verify (`Move`); the sending of each health query, aggregation, the
three accesses of the lease, the reconstruction, and for every shard and node the
opening (which truncates) and the closing of the file.  `disk[p][i]` is `good`,
`bad` (wrong or partial bytes) or `absent`; `linked[p]` says that the file p is
writing is still under its name, which a scan that moves it ends.  `scan[p][q]`
is the scan on q for the pass of p: the next shard, those found healthy, and
whether the next one is `doomed`, that is, has been judged and will be moved
whatever a push makes of it meanwhile.  A pass that ends, or does not wait for
the answer any more, leaves only that move to an unfinished scan, a bound of the
model.  The lease record is reduced
to owner and alive-or-not; the arbitration may go either way for a node that
reads back a foreign record, which covers `CompareLeases` for all epochs and
clocks.  Damage and failures (bit rot, lost files, good shards that cannot be
read, moves that fail, unanswered queries, failing writes and store calls,
crashes, a stall that outlasts the lease) are counted by `faults`.

### RetrievalV1

The task channel, the goroutines that put failed tasks back, the workers and
the common context, one worker step per blocking call and per access to what
they share: the count of verified shards and the cancellation that follows it
(`counted`, `CancelWhenEnough`) are two.  A provider either
answers `not found`, breaks, or delivers right or wrong bytes; a streamed shard
truncates its file at the start, one of the older protocol is written after the
check.  Scores order the candidates only, so any candidate may be chosen;
blacklists outlast the run (the shortest is a minute).  `Cancel` is the caller's
or the watchdog's: it counts as a fault from outside unless the run was `Stuck`,
with no task in the channel, with a worker or with a requeueing goroutine.

### RetrievalV2

The producer loop, the goroutine of each segment, the closer and the writer,
with the output file as a sequence of segments.  Fetching the chunks of one
segment is one step with three outcomes: right bytes, wrong bytes (chunks are
not verified one by one), or too few chunks.  A write or a checkpoint can tear,
the process can die at every step, and a later call resumes.  `writeErr` holds
the dynamic type of the error since `atomic.Value` cares for it.

### StorageNode

Files (inodes) are told apart from the name `shard.NN`: `name` is the file that
has it, and a push or a scan keeps the file it has open when that is renamed.
`content[f]` is what each of the two chunks of a file holds.  A push has its
`stage`, `request` (protocol version, range of chunks, right bytes or not), `fd` and
`at`; a scan has its `stance` (between finding, opening, reading and renaming),
`hashing`, `read` and `intact`.  `manifest` is absent, torn or whole.
`during[b]` is a history variable: what others have done to the shard ("written",
"harmed") while b was at it.  What is in quarantine is never read again, and
files that have no name and are not open are reused.  A chunk is the unit of
reading and writing, which makes every mixture of the two that a hash can see.
Faults are broken streams, full disks, shards that cannot be opened or read
(which a scan moves to quarantine like corrupt ones), moves that fail, bit rot and restarts.
"unread" in `during` says that the scan itself could not read the shard.  The handlers that
only read are left out.

### SegmentFetch

K workers over a queue of one task per shard.  `pc[w]` is where worker w
stands: `looping` (before the counter is looked at), `polling` (before the
select), `choosing`, `asking`, `sleeping` (half a second, when everybody is
blacklisted) or `gone`; `got` is the atomic counter.  Unlike the workers of
`RunV1`, these leave when the queue is empty, even while a failed task is in
the hands of a requeueing goroutine.  The other segments share the blacklist
and the context, and show up as a blacklist that may have entries from the start
and grow at any time, and as cancellations at any time.

### Client

A call is a record of its local variables with a `pc`; every pass over the
user's file, every directory of shards, every answer of a node and the two
halves of a push (truncate, write) are steps of their own, and two slots run
calls at the same time.  `upDir` and `dlDir` are the
directories `upload_shards_<hash>` and `download_<fileID>`, which calls about
the same file share.  A shard file is told by its content and its block size,
or is `Mixed` (bytes of two encodings at once) or `Nothing`.  `store[p]` is what
node p has under a file ID.  The answer of a node without the file is the
manifest without a field set (`Unset` for strings), because that is what
`json.Unmarshal` makes of it.  `ShardAssumption` is what `UploadFile` meets with
its two data and two parity shards: both at least one, and together no more than the
`maxShardCount` of the manifest.

Everything can fail at a node that runs: `PushFails` stands for no connection, a
broken stream, a context that is done, a full disk or no answer in time, at each
half of a push; `UploadFile` ignores it and goes on, while the handler, whose
request is kept in `late`, may still open and write later or never.
`FetchFails` is the same for the streams of `RunV1`, after which `GiveUp` may
end it at any time (attempts used up, watchdog, caller); `NoAnswer` for the
manifest; `Reconstruct` has the local errors of decoding, `PrepareFails` those
of the upload.  Each of them, each call, edit and stop of a node takes from
`MaxEvents`, an upload two.  The history variables (`edited` and `broken` in a
call, `shared`, `lacking`, `missed`) record what the properties have to exempt.

### ErasureCodec

`EncodeFile` stripe by stripe, then one of the ways back from a subset of the
shards: `ReconstructFile`, the segments of `RunV2`, or `RepairShards`.  A byte
of a data shard says which byte of the file it is, or that it is padding; a
byte of a parity shard says what column it was computed from.  Reed-Solomon is
a library: K right bytes of one column give the others.  What is modelled in
full is the code's own part, where each reader starts, how much it reads, and
how many of the bytes it keeps.

### Registry

`records` is the map of maps; `mu` is who holds the mutex.  The handler of a
stream takes the mutex, does its work and writes the answer before the deferred
unlock: `answering` is the state in between.  An answer larger than `Window`
waits for its reader (`Blocked`).  Time is a bounded clock.  `known` and
`acked` are history: what the sender of a find could know of who has been told
that its announcement arrived.

### Operators named "Variant"

Beside some definitions stands another of the same parameters marked
`\* Variant:`.  It is a plausible slip in that piece of code (a dropped guard,
an off-by-one, a forgotten reset).  It is part of no specification; it
documents what each property is sharp against, and `mutants` in `PROJECT.json`
pairs every property with the variant that breaks it.

## 3. What the checks show

Sizes are those of the configurations as they stand.  "Fails" marks a run that
refutes something a document, a comment or a test says of the program; TLC
stops there with the behaviour that shows it.

| Run | Configuration | Distinct states | Outcome |
|---|---|---|---|
| `lease` | `MCRepairLease.cfg` | 4.6 million | holds |
| `lease_single` | `LeaseSingle.cfg` | – | fails: `SingleRepairer` |
| `repair_pipeline` | `MCRepairPipeline.cfg` | 439 thousand | holds |
| `retrieval_v1` | `MCRetrievalV1.cfg` | 337 thousand | holds |
| `retrieval_v2` | `MCRetrievalV2.cfg` | 431 thousand | holds |
| `v2_panic` | `V2Panic.cfg` | – | fails: `NeverPanics` |
| `segment_fetch` | `MCSegmentFetch.cfg` | 119 thousand | holds |
| `storage_node` | `MCStorageNode.cfg` | 569 thousand | holds |
| `client` | `MCClient.cfg` | 858 thousand | holds |
| `client_not_found` | `ClientNotFound.cfg` | – | fails: `AsksDifferentPeer` |
| `erasure_codec` | `ErasureCodec.cfg` | 43 thousand | holds |
| `registry` | `Registry.cfg` | 189 thousand | holds |

### Lease

- `MutexUnlessRaced`: `AcquireLease` cannot promise one holder, since nothing
  in a DHT compares and swaps.  What it does achieve is that two nodes hold
  leases that are alive on every clock only if some put has replaced a record
  that its writer had not read (`raced`).
- `StealOnlyUnseen`: nobody replaces an alive foreign lease that it has read.
- `EpochFences`: until a put is raced, epochs go up by one.
- `HeldByOne`: the refinement.  Seen as who holds a live lease and the last
  epoch put, the protocol is `SoftLease`: puts and acquisitions wait until
  nobody holds the lease, and each put counts by one, until a put is raced.

Three nodes are the least with which a third can be misled by the outcome of a
race between two; one of the clocks is ahead; reads and puts may fail.  A lease
lasts 2 of 4 moments (`MaxTime` = 3), so it is taken, renewed, expires and is
taken over; `MaxEpoch` = 3 lets the epoch count through two takeovers.  The
expiry of the record in the DHT itself is left out: nothing in `src/` sets it,
and a lease lasts ten minutes.  `SingleRepairer`, what the change log and a
test expect, fails with two nodes, right clocks and a store that never fails.

### Repair pipeline

- `FewFaultsKeepAll`: fewer faults than nodes, of whatever kind, cost no shard,
  not even for the time of a write.
- `FewFaultsKeepFile`: fewer faults than 2N + M - 1 (N nodes) never take the
  number of distinct good shards below K.
- `CapableHeals`: if from some time on every node has K good shards, all
  shards are good again and again.

Two nodes and a 2+1 file with three faults include: two repairers at once after
a stall, a crash in the middle of a push, a scan that moves the file being
written or one that a push has just made good, and sources that rot between the
scan and the reconstruction.

What the pipeline cannot stand is part of the claim.  With four faults in this
instance, 2N + M - 1 in general, the file can go: a node that has lost M shards
and hears nobody (N - 1 + M faults) pushes these shards to every node, the good
copies included; scans read them half-written and move them when they are whole
again; and one more shard is damaged on each node.  Damage alone needs
N * (M + 1) faults.  That the bound is sharp was seen with 2+1 and 1+2 files on
two nodes; with 1+1 on three nodes all behaviours of up to three faults keep the
file, and so did random ones of five.  `CapableHeals` gives the same verdict
with three nodes and one fault.  "Heals for good" (`<>[]Healed`) does not hold: a
second repairer may truncate what the first has restored.

### Retrieval V1

- `VerifiedStays`: no fetch ever truncates the file of a verified shard.
- `TasksAccounted`: until the call is cancelled or enough shards are counted,
  every shard is verified, out of attempts, or in exactly one of queue, worker,
  requeueing goroutine.  (Between the last count and the cancellation a worker
  may take a task, see that there is enough and leave with it.)
- `FailsForAReason`: without a fault or a cancellation from outside, the call
  succeeds if one provider has everything, however often the others refuse,
  unless these are so many (`MaxAttempts`) that they use up a task.  The
  cancellation of a run that is stuck by itself is not from outside.
- `Returns`: the call returns.

Two workers race for three tasks of which two are enough, so that one verified
shard more than needed, the cancellation by the last one, and a requeueing
goroutine that outlives the workers all happen.  One provider streams and one
speaks the older protocol; one has all shards, one only the last.

### Retrieval V2

- `OutputInOrder`: a segment is only written to its own place.
- `CkptWithinFile`: a checkpoint never claims bytes that are not in the file.
- `ResumeSucceeds`: a call in which nothing fails succeeds, whatever became of
  the calls before.
- `Returns`, `NoLeak`: the call returns, and a cancelled call leaves no
  segment goroutine.

Four segments, a window of two and a checkpoint after every second make the
window block, the reorder buffer fill and the last checkpoint lag.  Three calls
allow a crash, a resumed call that crashes too, and one more.  `CkptWithinFile` and
`ResumeSucceeds` are stated for runs in which every decoded segment is right
and nobody moves the output away (`tampered`): `RunV2` checks the whole file at
the end only, and a checkpoint over a wrong segment stays wrong.

### One segment of V2

- `TasksAccounted`: a shard without its chunk has its task in exactly one place
  unless it has used up its attempts or the run is cancelled; one with its
  chunk has none.  Hence no chunk counts twice, and the send in `PutBack`,
  which nothing could interrupt, always finds room.
- `ShortForAReason`: although workers leave early, a segment is short only when
  the fetches of more than M shards have failed.
- `FetchContract`: the refinement of `SegmentOutcome`: the fetch ends, and says
  decoded, short or aborted only when that is so.

Two workers, three shards and two attempts let a worker leave while the task
that the segment needs is on its way back, the last worker find everybody
blacklisted, and a task run out of attempts.  The order of the two `DataShards`
checks and the select, which the scheduler may separate, is in the steps.

### Storage node

- `HealthyIsHosted`: a set bit of the health bitmap is right, unless the shard
  was truncated, moved or damaged while the scan was reading it.
- `AckedIsStored`: a shard that is pushed whole and right is stored when the
  push is acknowledged, unless somebody interfered.
- `GoodMovedForAReason`: a scan moves a good shard only if a push has been
  writing since the scan found it, or the scan itself could not read it.
- `EventuallyClean`: once there is a manifest and the pushes are over, nothing
  broken keeps the shard's name.

One push stream and two scans with four files and one fault; two streams with
one scan give the same verdicts in a longer run.  A shard has two chunks, the
least with which it can be torn or arrive out of order; the requests are a whole shard,
each of its chunks and, by the older protocol, a wrong one.  Four files are
enough for the shard, both scans and the push to have different ones open.

### Client

- `SuccessIsNamed`: a download that reports success has the content that the
  file ID names in its output, whatever was edited, mixed or truncated in any
  upload or download meanwhile.
- `UploadStores`: no push makes an upload fail; only an error with a local file
  does.  One that reports success has stored the file on every running node of
  its list to which no push of the file has failed, in this upload or an earlier one,
  unless the file is empty, was edited during the upload, or was uploaded twice
  at the same time.  So a failure costs only the node where it happens.
- `DownloadFailsForAReason`: a download in which no stream, disk, deadline or
  context fails, fails only when no node of its list runs any more, when a
  running one did not hold the file in the one layout all along, when so many
  have stopped that the attempts of `RunV1` are used up, or when another
  download of the file was at work.

Two slots, two nodes and a 1+1 file with five events: say two uploads and an
edit, failure or stop; an upload, a download and two failures; or a download
among two uploads.  There is one file with bytes and one without.  This includes
two uploads of one file that empty each other's shards, an upload that rewrites
the manifest between the two steps of a download, a download whose shards
another truncates between their verification and the decoding, and a push given
up by one upload that reaches the node during the next.  A 2+1 file, lists
always of both nodes, and six events (1+1) give the same verdicts in longer runs.
Permutation of the two slots is a symmetry: nothing tells them apart, and no
liveness is asked.

The exemptions are what the checks taught us.  The file ID names the content
and not its layout: the block size comes from an earlier `Stat`, so an edit
during an upload can leave two nodes with one file ID and incompatible shards.
The upload of an empty file reports success and stores no shard, because
`PushShardToPeer` refuses to send nothing.

### Erasure codec

- `DecodesToOriginal`: both ways of decoding give the file back, byte for byte.
- `FailsOnlyWhenTooFew`: neither decoding nor repair fails with K shards or more.
- `ShardSizesAgree`: the shard size that `RunV2` derives is the one `EncodeFile`
  makes.

All files of 0 to 10 bytes with K in 1 to 3, M in 1 to 2 and blocks of 1 to 3
bytes, from every subset of the shards: stripes have 1 to 9 bytes, so every
file ends before, at and after the boundary of a block, a stripe and a shard.  The
theorems of section 5 say the same for every size.

### Registry

- `FoundWhileFresh`: who knows, before a find is sent, that its announcement has
  arrived is in the answer if that is made within the TTL, and nobody is
  whose last announcement is older.
- `HandledOrBlocked`: every request is handled unless a reader blocks for good.

Two streams suffice for one that holds the mutex and one that waits; two
providers of one file make an answer larger than the window of one; four
moments of time and a TTL of one let a record be refreshed, age and be pruned.

## 4. Fairness, and where a model may stop

Weak fairness is assumed of whatever the Go runtime schedules: goroutines,
handlers and the loop of the watchdog daemon go on.  A few assumptions say
more, each from a timeout in the code:

- `Cancel` of a V1 retrieval is weakly fair, because its watchdog cancels a run
  without progress; every stream has a deadline, so a worker's step ends.
- In the pipeline, `SF_vars(Completes(p) /\ CloseFile(p))`: a write that keeps
  being repeated is not disturbed every time.  A pass is
  repeated at an interval, a write is one copy of a shard; nothing in the code
  orders the two, and without this assumption a scan could move each file while
  it is written.
- A lease runs out after ten minutes.  Between a put and its read back lie
  100 ms; that a lease expires there needs a stalled process and counts as a
  fault.
- In `SegmentFetch` the branch of the context is strongly fair, since a select
  with two ready branches does not take the same one for ever; and
  `Starved /\ Cancel` is weakly fair because the watchdog cancels a run that
  has had no chunk for 30 s, which is shorter than any blacklisting.
- In `Registry`, getting the mutex is strongly fair, as `sync.Mutex` hands it to
  a waiter after a millisecond.  That a reader ever reads is not assumed: no
  stream of the registry has a deadline.
- Faults, damage and crashes are never fair; they may stop at any time.

The configurations of `RetrievalV1`, `RetrievalV2`, `SegmentFetch`, `Client` and
`ErasureCodec` turn deadlock checking off since a call that has returned does
nothing more, and the number of calls is bounded.  That a call of `RunV1` or
`RunV2` does return is the property `Returns`, that a fetch does is part of
`FetchContract`.  In the other models something can always happen, and TLC checks it.

## 5. What is proved

The theorems hold for all values of the constants that satisfy the named
assumptions of the modules: peers are numbers (libp2p IDs are compared as
strings, of which only the order matters), skews and the lease time are natural
numbers, streams and scans are told apart, "none" is not a file, K and M are
positive (the codec takes any integers for sizes and numbers of shards, and has
`Validate` turn down the wrong ones).  No proof uses a bound: the bounds are parameters.  Of each inductive
invariant below TLC has checked the reachable states of the runs, some with
larger instances, before it was proved.

| Module | Theorem | States |
|---|---|---|
| `RepairLease_proofs` | `LeaseOrder`, `TypeCorrect`, `Mutex`, `NeverStealsSeen`, `EpochsFence`, `ImplementsLease` | the order of leases, `TypeOK`, `MutexUnlessRaced`, `StealOnlyUnseen`, `EpochFences`, `HeldByOne` |
| `RepairPipeline_proofs` | `RoundTrip`, `Aggregation`, `TypeCorrect`, `TakesOnlyMissing`, `FewFaultsKeep` | bitmaps, `TypeOK`, `RepairTakesOnlyMissing`, `FewFaultsKeepAll` |
| `RetrievalV1_proofs` | `TypeCorrect`, `VerifiedSafe`, `NoTaskLost`, `FailureExplained` | `TypeOK`, `VerifiedStays`, `TasksAccounted`, `FailsForAReason` |
| `RetrievalV2_proofs` | `TypeCorrect`, `InOrder`, `CkptTruthful`, `ResumeSafe` | `TypeOK`, `OutputInOrder`, `CkptWithinFile`, `ResumeSucceeds` |
| `Segment_proofs`, codec | `CodecTypeCorrect`, `ShardSizes`, `DecodesBack`, `FailsForAReason` | `CodecTypeOK`, `ShardSizesAgree`, `DecodesToOriginal`, `FailsOnlyWhenTooFew` |
| `Segment_proofs`, fetch | `TypeCorrect`, `NoTaskLost`, `ChannelHasRoom`, `ShortExplained`, `KeepsContract` | `TypeOK`, `TasksAccounted`, room for every send, `ShortForAReason`, the safety half of `FetchContract` |
| `StorageNode_proofs` | `TypeCorrect`, `BitmapTruthful`, `AckTruthful`, `QuarantineSafe` | `TypeOK`, `HealthyIsHosted`, `AckedIsStored`, `GoodMovedForAReason` |
| `Client_proofs` | `TypeCorrect`, `DownloadsWhatIsNamed`, `FailsForAReason`, `UploadStoresFile` | `TypeOK`, `SuccessIsNamed`, `DownloadFailsForAReason`, `UploadStores` |
| `Registry_proofs` | `TypeCorrect`, `FreshAreFound` | `TypeOK`, `FoundWhileFresh` |

**Lease.**  `CompareLeases` is a strict order up to equal claims
(`LeaseOrder`).  `TypeCorrect` needs `HasRecord` beside `TypeOK`: an attempt
between its put and its end has a record of its own, without which nothing is
known of what `PutValue` stores.  The other theorems follow from

    LeaseInv == TypeOK /\ HasRecord /\ MayReplaceSeen /\ StampPast /\ LiveIsStored

`MutexUnlessRaced` alone is not inductive.  `LiveIsStored` says why there is
one holder: until a put is raced, whoever is settling or repairing under a live
record finds that record in the store, and the store holds one.  To keep it, a
put must not replace somebody's live record, which `MayReplaceSeen` gives (what was
read is absent, one's own, or expired on the reader's clock at the time) together with
`StampPast` (that time is in the past, so it has expired still).
`NeverStealsSeen` and `EpochsFence` are read off the same invariant.

`ImplementsLease` shows the refinement of `SoftLease`.  The mapping takes who
holds a lease alive on every clock for `holders` and the stored epoch for
`fence`.  Each step maps to one of the abstract ones (`LeaseStep`): a put to
`Put` (`OverwriteIsPut`: unless it is raced, what it replaces was read, so
nobody holds it), a won arbitration to `Acquire` (`AloneWhenLive`), and the end
of a repair, a crash, or a tick of the clock that ends several leases at once
to `Drop`.

**Storage node.**  `Consistent` ties the local variables of pushes and scans to
where these stand.  One lemma does most of the work: `StepNoted` says that any
step taken while somebody else is busy either leaves the named file and its good chunks
alone or puts "harmed" into the history of the busy one, and that no file
becomes good, and no good file gets the name, without "written" there.  Three
inductive invariants use it: `ReadsHosted` (what an undisturbed scan has read
is in the named file still), `WritesHosted` (the same of what an undisturbed
push has written) and `ReadsWrong` (without a write or a read error, a wrong hash
means that neither the file read nor one that has got the name since is good).  They give
`BitmapTruthful`, `AckTruthful` and `QuarantineSafe`.

**Repair pipeline and bitmaps.**  Decoding an encoded set of shards gives it
back without what is out of range (`RoundTrip`), and the aggregation of any
number of such bitmaps is their union (`Aggregation`); hence a health answer
adds to a pass just what the other node has vouched for.  `PipeInv` adds to the
types what a pass knows where it stands: it goes beyond the queries only with a
shard missing, writes only shards it has seen nowhere, with K of its own,
and whatever is open is being written with the right bytes.
`RepairTakesOnlyMissing` follows: apart from faults a good shard goes only in two
ways, truncated by a repairer that has seen it nowhere and has K others to make
it from, or moved by a scan that had found it corrupt or unreadable.
`FewFaultsKeepAll` is not inductive; `QuietInv` follows what a fault touches.  A
node is `Hurt` if a file on its disk is not good, a scan on it has missed a
shard, or a pass is through with it and misses one still.  A fault hurts one
node, no other step hurts any while nobody writes, and a pass that misses a
shard needs all nodes hurt: so with fewer faults than nodes nobody gets to
write.  `FewFaultsKeepFile`, whose bound is larger, has no proof.
That the loop over the missing shards finds a first one needs the natural
numbers to be well-founded, which `WFMin` of the library gives.

**Retrieval V1.**  `PoolInv` says that the places of a task (channel, workers,
requeueing goroutines, verified shards) are disjoint, and that the channel has no
task twice: so no verified shard is fetched again, and `VerifiedStays` is
inductive together with it.  `OpenInv`, that until there is enough or a cancellation every
task is somewhere and no worker has left, gives `TasksAccounted`.
For `FailsForAReason` one has to count: `ReasonInv` says that in a run without an
excuse only providers that lack a shard are blacklisted and that a task has used up
at most one attempt for each of them (`Used` counts those on their way, too:
two workers may ask one provider before either blacklists it).  A
run that is stuck has then tasks that are neither verified nor out of attempts,
and nobody who holds them, which `OpenInv` excludes.

**Retrieval V2.**  `WriterLevel` relates the writer's two counters and the
checkpoint: level, but for the moment between the write and the checkpoint.  It
gives `OutputInOrder` with `DataInPlace`.  `FileRight` says that what the
checkpoint claims is in the output, and that the writer is past it:
the prefix up to the checkpoint survives every torn write, since writing goes on
behind it.  `ResumeInv` adds that in a call without a fault every segment that
was launched and not written is on its way (in its goroutine, the channel or the
reorder buffer), nobody cancels, and the channel is closed only after
the last segment; so the writer cannot end early.

**One segment of V2.**  `PoolInv` is that of V1 with the counter equal to the number of
chunks.  `EndInv` says what is left when all workers are gone: the last one
has left an empty channel behind, so every chunk has arrived or its task is out of
attempts.  `ChannelHasRoom` is a count of the places of the tasks.  `KeepsContract`
maps every step to `SegmentOutcome`; its initial condition and steps, that is,
for the liveness of `FetchContract` stays with TLC.

**Codec.**  Stripe q has `Bytes(q)` bytes from `From(q)` of the file on, in
`Rows(q)` rows of the shards from q blocks on, and `Right(i, q, b)` is what row
b of it is in shard i.  All of the arithmetic is in lemmas about these
(`StripeBounds`, `StripeRows`, `ShardSize`, `SegmentIsStripe`, `ReadSizeIsRows`):
each reader computes starts and lengths in its own way, and they come to the same
stripes.  The provers do little with products of variables, so the lemmas go
through `ProductGrows` and `CeilDivUnique`.  The invariant is

    CodecInv == CodecTypes /\ ReadSoFar /\ (\A i \in All : Written(i)) /\ WayBack

`ReadSoFar` says that `EncodeFile` stands between whole stripes with a buffer of
full length, or at the end of the file: after the short stripe that leaves the
buffer short nothing else is read.  `Written` says that the shards have
the right bytes of each stripe up to there and nothing behind.
`WayBack` says that what a way back has put out is the beginning of the file, or
of the shard to be repaired, and that only with too few shards it has failed.
`DecodedByte` and `RebuiltByte` are what the Reed-Solomon library is taken for, and
`PlaceOf` undoes the division in `Join`.

**Registry.**  `Kept(f, p, t)` says that an announcement of time t, while
fresh, is on record or a later one is.  `KeptInv` has it for whatever was
acknowledged, for announcements that are stored and not yet acknowledged, and
for whatever a find that waits for the mutex may count on.  Pruning keeps it since it
removes only what is older than the TTL, and refreshing since time goes up.

**Client.**  `Inv` says where a call can be with what in its locals, and
that a manifest that validates is stored under the hash that it names
(`StoreOK`); a torn manifest and the answer of a node without the file do not
validate, so a download that decodes has compared with the name it
asked for.  The other two theorems rest on `Recorded`, that the histories
`shared` and `lacking` have everything they exempt, and on what a call that is
not in them can rely on.  For a download in which nothing broke (`DownloadOK`):
as long as it is looking, every running node is still to be asked; then its
manifest has the layout that all of them keep, and the shards in its directory
are right.  When such a download gives up, no node of its list runs or every
running one serves every shard, so those that do not are stopped nodes.  For an upload
(`UploadOK`): size, directory and manifest are those of the file, and every
running node of the list that is not in `missed` is still to do or has
everything, the one being pushed to up to the current shard (`TargetOK`).
Pushes that come late concern only nodes that are in `missed` (`LateOK`), which is why they
cannot spoil the others.  A list may name a node twice: the manifest that
comes again is the one that is there, and a shard is replaced by itself.

Model-checked only: `FewFaultsKeepFile` and liveness
(`CapableHeals`, `Returns`, `NoLeak`, `EventuallyClean`, `HandledOrBlocked`, and
that a fetch ends in `FetchContract`), which needs fairness and is out of reach of
these proofs.

## 6. Where the code and what is said of it differ

With a run that shows it:

| Run | Said | Done |
|---|---|---|
| `lease_single` | CHANGELOG.md:17, lease_test.go:181: one winner | two nodes win when one puts between the other's read and put |
| `v2_panic` | WIRE_SPECIFICATION.md:316: cancelling twice does not panic | two errors of different types are stored in one `atomic.Value` |
| `client_not_found` | WIRE_SPECIFICATION.md:274: "not found" is retried with a different peer | `DownloadFile` takes the answer for the manifest and asks nobody else |

Plain from the code, or a consequence of the checks above:

| Where | Said | Done |
|---|---|---|
| lease.go:93, pipeline.go:102 | PROTOCOL_CONSTITUTION.md:36: data is reconstructed automatically | a node with fewer than K shards keeps renewing the lease and shuts out the others; hence the premise of `CapableHeals` |
| pipeline.go:125 | pipeline.go:124: push to peers "that don't have it" | every repaired shard goes to every visible peer |
| orchestrator_v1.go:133 | WIRE_SPECIFICATION.md:274, as above | `RunV1` blacklists the provider for an hour, for all shards; hence the premise of `FailsForAReason` |
| orchestrator_v2.go:373 | SECURITY_CONSIDERATIONS.md:31, WIRE_SPECIFICATION.md:308: nothing unverified stays on disk | segments stay in the output after a failed call |
| manifest.go:265, client.go:262 | the same | the wrong output of `ReconstructFromManifest` stays: `RunV1` returns its error before the `os.Remove` of `DownloadFile` is reached |
| node.go:168 | PROTOCOL_V1.md:77: announced upon a successful write | the older push handler ignores the error of its write |
| lease.go:142 | RFC-0003, line 15: a node that sees a foreign record yields | a node whose record wins the comparison proceeds although a foreign record is stored |
| node.go:291 | – | a chunk that arrives out of order is truncated away by the chunk at offset 0 |
| client.go:76 | – | the five seconds for the manifest end the opening of the stream, not the reading |

## 7. What is not modelled

- The command line programs, the compliance runner, the retry helper,
  placement and peer state: demos, sequential code, code without callers or
  interfaces without an implementation.
- The DHT: a single atomic cell per key that may fail.  Kademlia's replication
  can lose or fork records; nothing in `src/` deals with that.
- The Reed-Solomon library: any K right shards decode, a wrong source gives
  wrong bytes.  `RepairShards` asks `ReconstructSome` for the missing shards
  only; that it rebuilds a parity shard although a data shard that was not asked for is
  absent is assumed (`ErasureCodec.AnyByte`), since the library is not in `src/`.
- Provider scores (they order candidates; any order is possible in the model)
  and the end of a blacklisting (a minute or an hour, longer than a run without
  progress lasts).
- `Daemon.Start` and `Stop`: nothing in the repository makes a `Daemon`.
- The storage handlers of a node, which only read; and nodes that answer neither
  with an error nor at all, which would hold up a download without end.

## 8. Plan

1. `RepairPipeline`: a proof of `FewFaultsKeepFile`, which has to follow who
   may be writing what, beyond `QuietInv`.
2. Questions of the code that no property asks yet: shard files that `RunV1`
   writes after a cancellation (WIRE_SPECIFICATION.md 5.3), quarantined shards
   counted as available.
3. Exempted today and worth a statement of their own: what a raced put of the
   lease costs (`raced`), scans that pushes or other scans interfere with
   (`harmed`), providers of which only several together have everything
   (`RetrievalV1.Complete`), and resumes over wrong segments (`tampered`).
