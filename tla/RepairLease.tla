---------------------------- MODULE RepairLease ----------------------------
(***************************************************************************)
(* The soft lease with which the nodes that hold a damaged file agree on   *)
(* who repairs it: AcquireLease and CompareLeases of watchdog/lease.go.    *)
(*                                                                         *)
(* AcquireLease reads the clock, reads the lease record of the file from a *)
(* key/value store, decides from it whether to give up or to put a record  *)
(* of its own, puts it, waits 100 ms and reads the store again to see who  *)
(* won.  Every access of the store is a step of its own here, so that the  *)
(* attempts of several nodes interleave at each of them.                   *)
(*                                                                         *)
(* One file is modelled: the leases of different files have different keys *)
(* and never meet.  FileID and IntentHash, which the code stores in the    *)
(* record and never looks at again, are left out.                          *)
(***************************************************************************)
EXTENDS Integers

CONSTANTS
    Peer,       \* the nodes; a peer.ID is a number so that IDs are ordered
    LeaseTime,  \* the 10 minutes of lease.go, in ticks
    Skew,       \* Skew[p]: how far p's wall clock is ahead of the true time
    MaxTime,    \* bound: the clock stops here
    MaxEpoch,   \* bound: no attempt is continued above this epoch
    StoreErrors,\* whether the calls of the store may return an error
    NoLease     \* the store has no (readable) record under the key

ASSUME PeerAssumption  == Peer \subseteq Nat
ASSUME LeaseAssumption == LeaseTime \in Nat \ {0}
ASSUME SkewAssumption  == Skew \in [Peer -> Nat]
ASSUME BoundAssumption == MaxTime \in Nat /\ MaxEpoch \in Nat
ASSUME ErrorAssumption == StoreErrors \in BOOLEAN

RepairLeaseRecord == [Epoch: Nat, Owner: Peer, CreatedAt: Nat, ExpiresAt: Nat]

ASSUME NoLeaseAssumption == NoLease \notin RepairLeaseRecord

VARIABLES
    now,     \* true time
    store,   \* the record under /meshweb/lease/<file>
    pc,      \* where each node's RunOnce stands
    stamp,   \* the local `now` of AcquireLease
    seen,    \* the record the attempt read first (existingLease)
    mine,    \* the record it puts (newLease)
    raced    \* history: some put replaced a record its writer had not read

vars == <<now, store, pc, stamp, seen, mine, raced>>

Phase == {"idle", "reading", "putting", "settling", "repairing"}

TypeOK ==
    /\ now \in Nat
    /\ store \in RepairLeaseRecord \cup {NoLease}
    /\ pc \in [Peer -> Phase]
    /\ stamp \in [Peer -> Nat]
    /\ seen \in [Peer -> RepairLeaseRecord \cup {NoLease}]
    /\ mine \in [Peer -> RepairLeaseRecord \cup {NoLease}]
    /\ raced \in BOOLEAN

----------------------------------------------------------------------------
(* Pure operators                                                           *)

\* time.Now() on node p.
Clock(p) == now + Skew[p]

\* existingLease.ExpiresAt.After(now)
AliveAt(l, t) == l.ExpiresAt > t

\* Variant: the lease ends ten minutes before it begins.
NewLeaseBackdated(p, epoch) ==
    [Epoch |-> epoch, Owner |-> p,
     CreatedAt |-> stamp[p], ExpiresAt |-> stamp[p] - LeaseTime]

NewLease(p, epoch) ==
    [Epoch |-> epoch, Owner |-> p,
     CreatedAt |-> stamp[p], ExpiresAt |-> stamp[p] + LeaseTime]

\* CompareLeases(a, b) > 0: higher epoch, then earlier, then smaller peer ID.
Beats(a, b) ==
    \/ a.Epoch > b.Epoch
    \/ /\ a.Epoch = b.Epoch
       /\ \/ a.CreatedAt < b.CreatedAt
          \/ a.CreatedAt = b.CreatedAt /\ a.Owner < b.Owner

CompareLeases(a, b) == IF Beats(a, b) THEN 1 ELSE IF Beats(b, a) THEN -1 ELSE 0

\* A record that names the same epoch, instant and owner as another.
SameClaim(a, b) ==
    a.Epoch = b.Epoch /\ a.CreatedAt = b.CreatedAt /\ a.Owner = b.Owner

----------------------------------------------------------------------------
Init ==
    /\ now = 0
    /\ store = NoLease
    /\ pc = [p \in Peer |-> "idle"]
    /\ stamp = [p \in Peer |-> 0]
    /\ seen = [p \in Peer |-> NoLease]
    /\ mine = [p \in Peer |-> NoLease]
    /\ raced = FALSE

\* RunOnce returns, and its local variables go with it.
Return(p) ==
    /\ pc' = [pc EXCEPT ![p] = "idle"]
    /\ stamp' = [stamp EXCEPT ![p] = 0]
    /\ seen' = [seen EXCEPT ![p] = NoLease]
    /\ mine' = [mine EXCEPT ![p] = NoLease]

Tick ==
    /\ now < MaxTime
    /\ now' = now + 1
    /\ UNCHANGED <<store, pc, stamp, seen, mine, raced>>

\* RunOnce found shards missing and calls AcquireLease, which takes the time
\* before anything else.
BeginAcquire(p) ==
    /\ pc[p] = "idle"
    /\ pc' = [pc EXCEPT ![p] = "reading"]
    /\ stamp' = [stamp EXCEPT ![p] = Clock(p)]
    /\ UNCHANGED <<now, store, seen, mine, raced>>

\* The first read finds a foreign lease that is alive: (false, nil).
YieldToAlive(p) ==
    /\ pc[p] = "reading"
    /\ store # NoLease
    /\ AliveAt(store, stamp[p])
    /\ store.Owner # p
    /\ Return(p)
    /\ UNCHANGED <<now, store, raced>>

Claim(p, found, epoch) ==
    /\ epoch <= MaxEpoch
    /\ pc' = [pc EXCEPT ![p] = "putting"]
    /\ seen' = [seen EXCEPT ![p] = found]
    /\ mine' = [mine EXCEPT ![p] = NewLease(p, epoch)]
    /\ UNCHANGED <<now, store, stamp, raced>>

\* Variant: whether the lease found is alive does not matter.
ClaimAliveToo(p) ==
    /\ pc[p] = "reading"
    /\ \/ store = NoLease /\ Claim(p, NoLease, 1)
       \/ store # NoLease /\ Claim(p, store, store.Epoch + 1)

\* Variant: who takes over or renews a lease keeps its epoch.
ClaimSameEpoch(p) ==
    /\ pc[p] = "reading"
    /\ \/ store = NoLease /\ Claim(p, NoLease, 1)
       \/ /\ store # NoLease
          /\ AliveAt(store, stamp[p]) => store.Owner = p
          /\ Claim(p, store, store.Epoch)

\* The first read finds no lease, its own lease (a renewal), or an expired one.
ClaimLease(p) ==
    /\ pc[p] = "reading"
    /\ \/ store = NoLease /\ Claim(p, NoLease, 1)
       \/ /\ store # NoLease
          /\ AliveAt(store, stamp[p]) => store.Owner = p
          /\ Claim(p, store, store.Epoch + 1)

\* GetValue fails: the code treats it as an absent lease and starts at epoch 1.
ClaimAfterReadError(p) ==
    /\ StoreErrors
    /\ pc[p] = "reading"
    /\ Claim(p, NoLease, 1)

\* PutValue overwrites whatever the store holds by now.
Overwrite(p) ==
    /\ store' = mine[p]
    /\ raced' = (raced \/ store # seen[p])

PutLease(p) ==
    /\ pc[p] = "putting"
    /\ Overwrite(p)
    /\ pc' = [pc EXCEPT ![p] = "settling"]
    /\ UNCHANGED <<now, stamp, seen, mine>>

\* PutValue returns an error: the attempt is over, and the record may or may
\* not have reached the store.
PutError(p) ==
    /\ StoreErrors
    /\ pc[p] = "putting"
    /\ Overwrite(p) \/ UNCHANGED <<store, raced>>
    /\ Return(p)
    /\ UNCHANGED now

\* The read back arbitrates between the own record and the one found; the node
\* wins with an equal record, or with any record that its own one beats.
ReadBack(p) ==
    /\ pc[p] = "settling"
    /\ store # NoLease
    /\ IF CompareLeases(mine[p], store) >= 0
         THEN /\ pc' = [pc EXCEPT ![p] = "repairing"]
              /\ UNCHANGED <<stamp, seen, mine>>
         ELSE Return(p)
    /\ UNCHANGED <<now, store, raced>>

\* The read back fails: assume the lease is lost.
ReadBackError(p) ==
    /\ StoreErrors
    /\ pc[p] = "settling"
    /\ Return(p)
    /\ UNCHANGED <<now, store, raced>>

\* RunOnce returns after the repair.  The record stays in the store.
FinishRepair(p) ==
    /\ pc[p] = "repairing"
    /\ Return(p)
    /\ UNCHANGED <<now, store, raced>>

\* The process dies anywhere in RunOnce and starts again.
Crash(p) ==
    /\ pc[p] # "idle"
    /\ Return(p)
    /\ UNCHANGED <<now, store, raced>>

Next ==
    \/ Tick
    \/ \E p \in Peer :
         \/ BeginAcquire(p) \/ YieldToAlive(p) \/ ClaimLease(p)
         \/ ClaimAfterReadError(p) \/ PutLease(p) \/ PutError(p)
         \/ ReadBack(p) \/ ReadBackError(p) \/ FinishRepair(p) \/ Crash(p)

Spec == Init /\ [][Next]_vars

----------------------------------------------------------------------------
(* Properties                                                               *)

\* A record that has run out on nobody's clock yet.
LiveEverywhere(l) == \A q \in Peer : AliveAt(l, Clock(q))

HoldsLive(p) == pc[p] = "repairing" /\ LiveEverywhere(mine[p])

\* Two nodes repair under live leases only if some put has replaced a record
\* that its writer had not read: the interleaved read-modify-write of
\* AcquireLease (or a failed read taken for an absent lease) is the only way
\* for the arbitration to elect two.
MutexUnlessRaced ==
    ~raced => \A p, q \in Peer : HoldsLive(p) /\ HoldsLive(q) => p = q

\* The record that AcquireLease replaces is its own, or had expired when the
\* attempt began, or came (or was unreadable) after the attempt's first read:
\* whoever sees an alive foreign lease never overwrites that lease.
StealOnlyUnseen ==
    [][\A p \in Peer :
         /\ pc[p] = "putting"
         /\ pc'[p] # "putting"
         /\ store' # store
         /\ store = seen[p]
         => \/ store = NoLease
            \/ store.Owner = p
            \/ ~AliveAt(store, stamp[p])]_vars

\* As long as no put was raced, the epochs of the stored records go up by one
\* from owner to owner, so that an epoch names one lease.
EpochFences ==
    [][store' # store /\ ~raced'
         => \/ store = NoLease /\ store'.Epoch = 1
            \/ store # NoLease /\ store'.Epoch = store.Epoch + 1]_vars

\* Put back to back, all attempts amount to a lease that is held by one node at
\* a time and put by nobody while it is held, until a put is raced: what the
\* clocks, the records and the arbitration of AcquireLease are for.
Lease ==
    INSTANCE SoftLease WITH
        holders <- {p \in Peer : HoldsLive(p)},
        fence   <- IF store = NoLease THEN 0 ELSE store.Epoch

HeldByOne == Lease!Spec

\* What CHANGELOG.md and RFC-0003 promise: at most one node repairs a file.
SingleRepairer ==
    \A p, q \in Peer : pc[p] = "repairing" /\ pc[q] = "repairing" => p = q
============================================================================
