--------------------------- MODULE RepairPipeline ---------------------------
(***************************************************************************)
(* Self-healing of one file by the nodes that store it: RunOnce of         *)
(* watchdog/pipeline.go on every node, with the local scanner, the health  *)
(* and push handlers of the other nodes, the aggregator and RepairShards.  *)
(*                                                                         *)
(* A pass scans the own disk (moving corrupt shards to quarantine), asks   *)
(* the other nodes for the shards they can vouch for, and if some shard is *)
(* nowhere, takes the lease, reconstructs the shard from its own shards,   *)
(* verifies it and writes it to its own disk and to every other node.      *)
(*                                                                         *)
(* A scan goes from shard to shard.  It reads one, and if that does not    *)
(* verify or cannot be read, renames in a step of its own whatever file    *)
(* has the name by then; nothing is locked.  A write truncates the file    *)
(* first: a scan may find it corrupt until it is closed, and if the file   *)
(* is moved while it is open, the rest of the write goes to the moved one. *)
(* The lease is the one of RepairLease with the time and the epochs left   *)
(* out: the record names its owner and is alive or not, and who reads back *)
(* a foreign record may win or lose.                                       *)
(***************************************************************************)
EXTENDS Integers, FiniteSets, Bitmap

CONSTANTS
    Peer,        \* the nodes that have the manifest of the file
    DataShards,  \* K
    TotalShards, \* K + M
    MaxFaults,   \* bound: damage, lost messages, failed I/O and crashes
    None         \* nobody

ASSUME PeerAssumption == IsFiniteSet(Peer) /\ None \notin Peer
ASSUME ShardAssumption ==
    DataShards \in Nat \ {0} /\ TotalShards \in Nat /\ DataShards < TotalShards
ASSUME FaultAssumption == MaxFaults \in Nat

VARIABLES
    disk,    \* disk[p][i]: the file shard.i of node p
    step,    \* where each node stands in RunOnce
    healthy, \* scanRes.HealthyShards
    toAsk,   \* visible peers not queried yet
    scan,    \* scan[p][q]: the ScanLocalFile on q for the pass of p
    avail,   \* shards in some bitmap so far (the AvailableShards of the state)
    made,    \* whether the reconstructed bytes are the right ones
    left,    \* repaired shards not fully distributed yet
    sent,    \* nodes that the first of them has been written to
    target,  \* node whose file is being written, or None
    linked,  \* that file is still where it was opened
    owner, alive,   \* the lease record
    faults

passVars == <<step, healthy, toAsk, avail, scan>>
sendVars == <<made, left, sent, target, linked>>
leaseVars == <<owner, alive>>
vars == <<disk, passVars, sendVars, leaseVars, faults>>

Shard == 0 .. TotalShards - 1
\* Whether a pass waits for the scan, the next shard, those that have verified,
\* and whether the next one is about to be moved.
Scan == [wanted: BOOLEAN, next: Shard, found: SUBSET Shard, doomed: BOOLEAN]
NoScan == [wanted |-> FALSE, next |-> 0, found |-> {}, doomed |-> FALSE]
NewScan == [NoScan EXCEPT !.wanted = TRUE]

Step == {"idle", "querying", "leasing", "putting", "settling", "repairing", "writing"}

TypeOK ==
    /\ disk \in [Peer -> [Shard -> {"absent", "good", "bad"}]]
    /\ step \in [Peer -> Step]
    /\ healthy \in [Peer -> SUBSET Shard] /\ avail \in [Peer -> SUBSET Shard]
    /\ toAsk \in [Peer -> SUBSET Peer] /\ scan \in [Peer -> [Peer -> Scan]]
    /\ made \in [Peer -> {"good", "bad"}]
    /\ left \in [Peer -> SUBSET Shard] /\ sent \in [Peer -> SUBSET Peer]
    /\ target \in [Peer -> Peer \cup {None}] /\ linked \in [Peer -> BOOLEAN]
    /\ owner \in Peer \cup {None} /\ alive \in BOOLEAN
    /\ faults \in 0 .. MaxFaults

----------------------------------------------------------------------------
Good(p) == {i \in Shard : disk[p][i] = "good"}
Available == UNION {Good(p) : p \in Peer}

First(S) == CHOOSE i \in S : \A j \in S : i <= j

\* The file that p has open, and who else writes to it.
Current(p) == First(left[p])
SameFile(p, q) ==
    /\ target[q] # None /\ target[p] = target[q] /\ linked[q]
    /\ Current(p) = Current(q)

\* Nobody waits any more.  A bound of the model: of such a scan there is only
\* the move left that it has decided on; what it would look at afterwards is
\* left to the scans that follow.
Abandoned(p, q) ==
    IF scan[p][q].doomed THEN [scan[p][q] EXCEPT !.wanted = FALSE, !.found = {}] ELSE NoScan

\* The pass of p is over; its local variables go.
Return(p) ==
    /\ scan' = [scan EXCEPT ![p] = [q \in Peer |-> IF q = p THEN NoScan ELSE Abandoned(p, q)]]
    /\ step' = [step EXCEPT ![p] = "idle"]
    /\ healthy' = [healthy EXCEPT ![p] = {}]
    /\ toAsk' = [toAsk EXCEPT ![p] = {}]
    /\ avail' = [avail EXCEPT ![p] = {}]

GoTo(p, to) ==
    /\ step' = [step EXCEPT ![p] = to]
    /\ UNCHANGED <<healthy, toAsk, avail, scan>>

Fault == faults < MaxFaults /\ faults' = faults + 1

Init ==
    /\ disk = [p \in Peer |-> [i \in Shard |-> "good"]]
    /\ step = [p \in Peer |-> "idle"]
    /\ healthy = [p \in Peer |-> {}] /\ avail = [p \in Peer |-> {}]
    /\ toAsk = [p \in Peer |-> {}]
    /\ scan = [p \in Peer |-> [q \in Peer |-> NoScan]]
    /\ made = [p \in Peer |-> "good"]
    /\ left = [p \in Peer |-> {}] /\ sent = [p \in Peer |-> {}]
    /\ target = [p \in Peer |-> None] /\ linked = [p \in Peer |-> FALSE]
    /\ owner = None /\ alive = FALSE
    /\ faults = 0

----------------------------------------------------------------------------
(* ScanLocalFile on node q, in the own pass (q = p) or in the health handler *)

\* The shard that the scan is at.
At(p, q) == scan[p][q].next

\* The bitmap of a scan that found these shards healthy.
Vouched(shards) == BitmapFromShardIndices(TotalShards, shards)

\* Variant: the last bitmap is all that the aggregator looks at.
GoOnReplacing(p, q, s) ==
    IF s.wanted /\ s.next < TotalShards
      THEN scan' = [scan EXCEPT ![p][q] = s] /\ UNCHANGED <<healthy, avail>>
      ELSE /\ scan' = [scan EXCEPT ![p][q] = NoScan]
           /\ healthy' = IF p = q THEN [healthy EXCEPT ![p] = s.found] ELSE healthy
           /\ avail' = IF s.wanted THEN [avail EXCEPT ![p] = s.found] ELSE avail

\* On to the next shard, or with the result to the pass that waits for it.
GoOn(p, q, s) ==
    IF s.wanted /\ s.next < TotalShards
      THEN scan' = [scan EXCEPT ![p][q] = s] /\ UNCHANGED <<healthy, avail>>
      ELSE /\ scan' = [scan EXCEPT ![p][q] = NoScan]
           /\ healthy' = IF p = q THEN [healthy EXCEPT ![p] = s.found] ELSE healthy
           /\ avail' = [avail EXCEPT ![p] = AvailableShards(TotalShards, {Vouched(@), Vouched(s.found)})]

Passed(p, q) == [scan[p][q] EXCEPT !.next = @ + 1, !.doomed = FALSE]
Counted(p, q) == [Passed(p, q) EXCEPT !.found = @ \cup {At(p, q)}]
Doomed(p, q) == [scan EXCEPT ![p][q].doomed = TRUE]

\* Stat, hashFile and the comparison with the manifest.
Judge(p, q) ==
    /\ scan[p][q].wanted /\ ~scan[p][q].doomed
    /\ \/ disk[q][At(p, q)] = "good" /\ GoOn(p, q, Counted(p, q))
       \/ disk[q][At(p, q)] = "absent" /\ GoOn(p, q, Passed(p, q))
       \/ disk[q][At(p, q)] = "bad" /\ scan' = Doomed(p, q) /\ UNCHANGED <<healthy, avail>>
    /\ UNCHANGED <<disk, step, toAsk, sendVars, leaseVars, faults>>

\* hashFile fails on a shard that is as it should be.
ReadFails(p, q) ==
    /\ scan[p][q].wanted /\ ~scan[p][q].doomed /\ disk[q][At(p, q)] = "good"
    /\ Fault
    /\ scan' = Doomed(p, q)
    /\ UNCHANGED <<disk, step, healthy, toAsk, avail, sendVars, leaseVars>>

\* The files that a move takes from under the feet of their writers.
Unlinked(q, moved) ==
    [p \in Peer |-> linked[p] /\ ~(target[p] = q /\ Current(p) \in moved)]

\* Variant: the whole directory goes to quarantine with the corrupt shard.
MoveDirectory(p, q) ==
    /\ scan[p][q].doomed
    /\ disk' = [disk EXCEPT ![q] = [i \in Shard |-> "absent"]]
    /\ linked' = Unlinked(q, Shard)
    /\ GoOn(p, q, Passed(p, q))
    /\ UNCHANGED <<step, toAsk, made, left, sent, target, leaseVars, faults>>

\* The rename takes whatever file has the name now.
Move(p, q) ==
    /\ scan[p][q].doomed
    /\ disk' = [disk EXCEPT ![q][At(p, q)] = "absent"]
    /\ linked' = Unlinked(q, {At(p, q)})
    /\ GoOn(p, q, Passed(p, q))
    /\ UNCHANGED <<step, toAsk, made, left, sent, target, leaseVars, faults>>

\* No quarantine directory, or the rename fails: the file stays.
MoveFails(p, q) ==
    /\ scan[p][q].doomed
    /\ Fault
    /\ GoOn(p, q, Passed(p, q))
    /\ UNCHANGED <<disk, step, toAsk, sendVars, leaseVars>>

----------------------------------------------------------------------------
(* Own scan, queries, aggregation                                           *)

Start(p) ==
    /\ step[p] = "idle"
    /\ step' = [step EXCEPT ![p] = "querying"]
    /\ toAsk' = [toAsk EXCEPT ![p] = Peer \ {p}]
    /\ scan' = [scan EXCEPT ![p][p] = NewScan]
    /\ UNCHANGED <<disk, healthy, avail, sendVars, leaseVars, faults>>

\* Whether the pass is between two scans.
Free(p) == step[p] = "querying" /\ \A q \in Peer : ~scan[p][q].wanted

\* One health scan per asker and node at a time is a bound of the model.
Query(p, q) ==
    /\ Free(p) /\ q \in toAsk[p] /\ ~scan[p][q].doomed
    /\ toAsk' = [toAsk EXCEPT ![p] = @ \ {q}]
    /\ scan' = [scan EXCEPT ![p][q] = NewScan]
    /\ UNCHANGED <<disk, step, healthy, avail, sendVars, leaseVars, faults>>

\* A query that does not get through or without an answer is skipped.
QueryFails(p, q) ==
    /\ Fault
    /\ \/ /\ Free(p) /\ q \in toAsk[p]
          /\ toAsk' = [toAsk EXCEPT ![p] = @ \ {q}]
          /\ UNCHANGED scan
       \/ /\ q # p /\ scan[p][q].wanted
          /\ scan' = [scan EXCEPT ![p][q] = Abandoned(p, q)]
          /\ UNCHANGED toAsk
    /\ UNCHANGED <<disk, step, healthy, avail, sendVars, leaseVars>>

\* Variant: content with a file that can still be decoded.
AggregateLazily(p) ==
    /\ Free(p) /\ toAsk[p] = {}
    /\ IF Cardinality(avail[p]) >= DataShards THEN Return(p) ELSE GoTo(p, "leasing")
    /\ UNCHANGED <<disk, sendVars, leaseVars, faults>>

\* BuildNetworkState and CreateRepairJob: only shards seen nowhere are missing.
Aggregate(p) ==
    /\ Free(p) /\ toAsk[p] = {}
    /\ IF avail[p] = Shard THEN Return(p) ELSE GoTo(p, "leasing")
    /\ UNCHANGED <<disk, sendVars, leaseVars, faults>>

----------------------------------------------------------------------------
(* AcquireLease                                                             *)

ReadLease(p) ==
    /\ step[p] = "leasing"
    /\ IF owner \notin {None, p} /\ alive THEN Return(p) ELSE GoTo(p, "putting")
    /\ UNCHANGED <<disk, sendVars, leaseVars, faults>>

PutLease(p) ==
    /\ step[p] = "putting"
    /\ owner' = p /\ alive' = TRUE
    /\ GoTo(p, "settling")
    /\ UNCHANGED <<disk, sendVars, faults>>

ReadBack(p) ==
    /\ step[p] = "settling"
    /\ \/ GoTo(p, "repairing")
       \/ owner # p /\ Return(p)
    /\ UNCHANGED <<disk, sendVars, leaseVars, faults>>

\* A failed first read goes on as if there were no lease; the other calls of
\* the store end the pass.
StoreFails(p) ==
    /\ Fault
    /\ \/ step[p] = "leasing" /\ GoTo(p, "putting")
       \/ step[p] \in {"putting", "settling"} /\ Return(p)
    /\ UNCHANGED <<disk, sendVars, leaseVars>>

\* Ten minutes pass.  Between a put and its read back only 100 ms do, unless
\* the owner is stalled, which is one of the faults.
LeaseExpires ==
    /\ alive
    /\ \/ step[owner] # "settling" /\ UNCHANGED faults
       \/ step[owner] = "settling" /\ Fault
    /\ alive' = FALSE
    /\ UNCHANGED <<disk, passVars, sendVars, owner>>

----------------------------------------------------------------------------
(* RepairShards, local commit and distribution                              *)

\* The erasure code works on the first K of its sources.
Sources(p) == {i \in healthy[p] : Cardinality({j \in healthy[p] : j < i}) < DataShards}

\* RepairShards reads the shards that the scan found healthy as they are now.
CanRead(p) ==
    /\ Cardinality(healthy[p]) >= DataShards
    /\ \A i \in healthy[p] : disk[p][i] # "absent"

Made(p) == IF Sources(p) \subseteq Good(p) THEN "good" ELSE "bad"

\* What it makes of them has to have the hashes of the manifest.
Verified(p) == CanRead(p) /\ Made(p) = "good"

\* Variant: the loop over the shards runs one too far.
ReconstructPastEnd(p) ==
    /\ step[p] = "repairing"
    /\ IF Verified(p)
         THEN /\ GoTo(p, "writing")
              /\ made' = [made EXCEPT ![p] = Made(p)]
              /\ left' = [left EXCEPT ![p] = (0 .. TotalShards) \ avail[p]]
              /\ UNCHANGED <<sent, target, linked>>
         ELSE Return(p) /\ UNCHANGED sendVars
    /\ UNCHANGED <<disk, leaseVars, faults>>

Reconstruct(p) ==
    /\ step[p] = "repairing"
    /\ IF Verified(p)
         THEN /\ GoTo(p, "writing")
              /\ made' = [made EXCEPT ![p] = Made(p)]
              /\ left' = [left EXCEPT ![p] = Shard \ avail[p]]
              /\ UNCHANGED <<sent, target, linked>>
         ELSE Return(p) /\ UNCHANGED sendVars
    /\ UNCHANGED <<disk, leaseVars, faults>>

\* Own disk first, then the other nodes.
NextTarget(p, q) ==
    /\ step[p] = "writing" /\ target[p] = None
    /\ q \in IF p \in sent[p] THEN Peer \ sent[p] ELSE {p}

OpenFile(p, q) ==
    /\ NextTarget(p, q)
    /\ disk' = [disk EXCEPT ![q][Current(p)] = "bad"]
    /\ target' = [target EXCEPT ![p] = q]
    /\ linked' = [linked EXCEPT ![p] = TRUE]
    /\ UNCHANGED <<passVars, made, left, sent, leaseVars, faults>>

\* Whatever came of the write, go on with the next node or shard.
Proceed(p, q) ==
    LET done == sent[p] \cup {q} = Peer
        rest == IF done THEN left[p] \ {Current(p)} ELSE left[p]
    IN  /\ left' = [left EXCEPT ![p] = rest]
        /\ UNCHANGED made
        /\ sent' = [sent EXCEPT ![p] = IF done THEN {} ELSE @ \cup {q}]
        /\ target' = [target EXCEPT ![p] = None]
        /\ IF rest = {} THEN Return(p) ELSE UNCHANGED passVars

\* No scan has moved the file away, and nobody else is writing to it.
Completes(p) == linked[p] /\ \A q \in Peer \ {p} : ~SameFile(p, q)

CloseFile(p) ==
    LET q == target[p]
    IN  /\ q # None
        /\ disk' = IF Completes(p) THEN [disk EXCEPT ![q][Current(p)] = made[p]] ELSE disk
        /\ linked' = [linked EXCEPT ![p] = FALSE]
        /\ Proceed(p, q)
        /\ UNCHANGED <<leaseVars, faults>>

\* The stream breaks or the disk is full: the partial file stays.  Another
\* writer of the same file may or may not still fill the gap.
WriteBreaks(p) ==
    LET q == target[p]
    IN  /\ q # None
        /\ Fault
        /\ \E spoilt \in BOOLEAN :
              linked' = [r \in Peer |->
                  linked[r] /\ r # p /\ ~(spoilt /\ SameFile(p, r))]
        /\ Proceed(p, q)
        /\ UNCHANGED <<disk, leaseVars>>

\* The push never reaches q, or the own file cannot be opened.
PushLost(p, q) ==
    /\ NextTarget(p, q)
    /\ Fault
    /\ Proceed(p, q)
    /\ UNCHANGED <<disk, linked, leaseVars>>

----------------------------------------------------------------------------
(* Damage                                                                   *)

BitRot(p, i) ==
    /\ disk[p][i] = "good"
    /\ Fault
    /\ disk' = [disk EXCEPT ![p][i] = "bad"]
    /\ UNCHANGED <<passVars, sendVars, leaseVars>>

ShardLost(p, i) ==
    /\ disk[p][i] # "absent"
    /\ Fault
    /\ disk' = [disk EXCEPT ![p][i] = "absent"]
    /\ linked' = Unlinked(p, {i})
    /\ UNCHANGED <<passVars, made, left, sent, target, leaseVars>>

\* The node dies in its pass, or the pass returns an error.  What it was
\* writing stays as it is.
Crash(p) ==
    /\ step[p] # "idle"
    /\ Fault
    /\ Return(p)
    /\ left' = [left EXCEPT ![p] = {}]
    /\ sent' = [sent EXCEPT ![p] = {}]
    /\ target' = [target EXCEPT ![p] = None]
    /\ linked' = [linked EXCEPT ![p] = FALSE]
    /\ UNCHANGED <<disk, made, leaseVars>>

RunOnce(p) ==
    \/ Start(p) \/ Aggregate(p)
    \/ \E q \in Peer : Judge(p, q) \/ Move(p, q) \/ Query(p, q) \/ OpenFile(p, q)
    \/ ReadLease(p) \/ PutLease(p) \/ ReadBack(p)
    \/ Reconstruct(p) \/ CloseFile(p)

Damage(p) ==
    \/ \E q \in Peer :
          \/ ReadFails(p, q) \/ MoveFails(p, q)
          \/ QueryFails(p, q) \/ PushLost(p, q)
    \/ StoreFails(p) \/ WriteBreaks(p) \/ Crash(p)
    \/ \E i \in Shard : BitRot(p, i) \/ ShardLost(p, i)

Next == LeaseExpires \/ \E p \in Peer : RunOnce(p) \/ Damage(p)

\* Every daemon keeps running passes, and leases run out.  A pass is a matter
\* of an interval and a write is not, so a node that writes again and again is
\* not disturbed by a scan or another writer every time.
Fairness ==
    /\ \A p \in Peer : WF_vars(RunOnce(p)) /\ SF_vars(Completes(p) /\ CloseFile(p))
    /\ WF_vars(LeaseExpires)

Spec == Init /\ [][Next]_vars /\ Fairness

----------------------------------------------------------------------------
(* Properties                                                               *)

\* The file can be decoded from what is on the disks.
Decodable == Cardinality(Available) >= DataShards

\* Fewer faults than nodes never cost a shard, not even for the time of a
\* write: a shard looks missing only if every node has lost it, could not read
\* it or was not heard, so no pass gets as far as to truncate anything,
\* whatever the scans of other passes move meanwhile.
FewFaultsKeepAll == faults < Cardinality(Peer) => Available = Shard

\* Self-healing costs the file no sooner than this many faults, whatever the
\* scans move that a push has made good since they read it, unreadable shards
\* are moved although they are good, pushes truncate unseen and break, bitmaps
\* are stale, and several nodes repair at once.
\*
\* With that many the file may go: a node that has lost M shards and hears
\* nobody (|Peer| - 1 + M faults) pushes these shards to every node, other
\* scans read the files half-written and move them when they are whole again,
\* and one more shard is damaged on every node.  Damage alone takes
\* |Peer| * (M + 1) faults, which is the same for M = 1 and more otherwise.
FewFaultsKeepFile ==
    faults < 2 * Cardinality(Peer) + (TotalShards - DataShards) - 1 => Decodable

\* Every node keeps enough shards to repair on its own.
Capable == \A p \in Peer : Cardinality(Good(p)) >= DataShards
Healed == Available = Shard

\* While every node could repair alone, the file keeps being healed: leases
\* that change hands, run out or belong to a node that died, passes that lose
\* the arbitration and writes that a scan ruins do not go round in circles
\* without RunOnce restoring all shards.  ("For good" would be too much: a
\* second repairer may truncate what the first has restored.)
CapableHeals == <>[]Capable => []<>Healed
============================================================================
