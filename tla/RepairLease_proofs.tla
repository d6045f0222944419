------------------------- MODULE RepairLease_proofs -------------------------
(***************************************************************************)
(* Proofs about the soft lease, for every set of peers, lease time, clock  *)
(* skew and bound:                                                         *)
(*   - CompareLeases orders the records linearly (LeaseOrder);             *)
(*   - the variables keep their types (TypeCorrect);                       *)
(*   - two nodes repair under live leases only after a raced put (Mutex);  *)
(*   - a put never replaces an alive foreign lease that its writer saw     *)
(*     (NeverStealsSeen), and epochs count the owners until a put is       *)
(*     raced (EpochsFence);                                                *)
(*   - the protocol implements the abstract lease of SoftLease, every step *)
(*     being a put, an acquisition, a drop or a stutter (ImplementsLease). *)
(***************************************************************************)
EXTENDS RepairLease, TLAPS

USE PeerAssumption, LeaseAssumption, SkewAssumption, BoundAssumption,
    ErrorAssumption, NoLeaseAssumption

----------------------------------------------------------------------------
(* The order of the records                                                 *)

\* CompareLeases decides between any two claims that differ, never both ways,
\* and without cycles: of any set of racing records one beats the others.
THEOREM LeaseOrder ==
    ASSUME NEW a \in RepairLeaseRecord, NEW b \in RepairLeaseRecord,
           NEW c \in RepairLeaseRecord
    PROVE  /\ Beats(a, b) => ~Beats(b, a)
           /\ Beats(a, b) /\ Beats(b, c) => Beats(a, c)
           /\ CompareLeases(a, b) = 0 <=> SameClaim(a, b)
           /\ CompareLeases(a, b) = -CompareLeases(b, a)
<1>1. /\ a.Epoch \in Nat /\ a.CreatedAt \in Nat /\ a.Owner \in Nat
      /\ b.Epoch \in Nat /\ b.CreatedAt \in Nat /\ b.Owner \in Nat
      /\ c.Epoch \in Nat /\ c.CreatedAt \in Nat /\ c.Owner \in Nat
  BY DEF RepairLeaseRecord
<1>2. Beats(a, b) => ~Beats(b, a)
  BY <1>1 DEF Beats
<1>3. Beats(a, b) /\ Beats(b, c) => Beats(a, c)
  BY <1>1 DEF Beats
<1>4. CompareLeases(a, b) = 0 <=> SameClaim(a, b)
  BY <1>1 DEF Beats, CompareLeases, SameClaim
<1>5. CompareLeases(a, b) = -CompareLeases(b, a)
  BY <1>2 DEF CompareLeases
<1>6. QED
  BY <1>2, <1>3, <1>4, <1>5

----------------------------------------------------------------------------
(* Types                                                                    *)

\* newLease is a record of the right type with the owner and epoch it was given.
LEMMA NewLeaseType ==
    ASSUME TypeOK, NEW p \in Peer, NEW e \in Nat
    PROVE  /\ NewLease(p, e) \in RepairLeaseRecord
           /\ NewLease(p, e).Owner = p
           /\ NewLease(p, e).Epoch = e
  BY DEF NewLease, RepairLeaseRecord, TypeOK

\* Only Claim builds a record, and Claim builds one of the right type.
LEMMA ClaimType ==
    ASSUME TypeOK, NEW p \in Peer, NEW e \in Nat,
           NEW found \in RepairLeaseRecord \cup {NoLease}, Claim(p, found, e)
    PROVE  TypeOK'
  BY NewLeaseType DEF Claim, TypeOK, Phase

\* The epoch of a record is a number that can be counted up.
LEMMA EpochNat == ASSUME NEW l \in RepairLeaseRecord PROVE l.Epoch \in Nat
  BY DEF RepairLeaseRecord

\* A node about to put, waiting for its read back or repairing has a record.
HasRecord ==
    \A p \in Peer : pc[p] \in {"putting", "settling", "repairing"}
                    => mine[p] \in RepairLeaseRecord /\ mine[p].Owner = p

\* Every step of AcquireLease, the clock and a crash keeps the types, and the
\* nodes that put, wait or repair keep a record of their own.
LEMMA TypeStep == TypeOK /\ HasRecord /\ [Next]_vars => TypeOK' /\ HasRecord'
<1> SUFFICES ASSUME TypeOK, HasRecord, [Next]_vars
             PROVE  TypeOK' /\ HasRecord'
  OBVIOUS
<1>1. CASE Tick
  BY <1>1 DEF Tick, TypeOK, HasRecord
<1>2. ASSUME NEW p \in Peer, BeginAcquire(p)
      PROVE  TypeOK' /\ HasRecord'
  BY <1>2 DEF BeginAcquire, Clock, TypeOK, HasRecord, Phase
<1>3. ASSUME NEW p \in Peer, Return(p), UNCHANGED now, raced' \in BOOLEAN,
             store' \in RepairLeaseRecord \cup {NoLease}
      PROVE  TypeOK' /\ HasRecord'
  BY <1>3 DEF Return, TypeOK, HasRecord, Phase
<1>4. ASSUME NEW p \in Peer, NEW e \in Nat,
             NEW found \in RepairLeaseRecord \cup {NoLease}, Claim(p, found, e)
      PROVE  TypeOK' /\ HasRecord'
  <2>1. TypeOK'
    BY <1>4, ClaimType
  <2>2. HasRecord'
    BY <1>4, NewLeaseType DEF Claim, HasRecord, TypeOK
  <2>3. QED
    BY <2>1, <2>2
<1>5. ASSUME NEW p \in Peer, ClaimLease(p) \/ ClaimAfterReadError(p)
      PROVE  TypeOK' /\ HasRecord'
  <2>1. store # NoLease => store \in RepairLeaseRecord /\ store.Epoch + 1 \in Nat
    BY EpochNat DEF TypeOK
  <2>2. QED
    BY <1>4, <1>5, <2>1 DEF ClaimLease, ClaimAfterReadError
<1>6. ASSUME NEW p \in Peer, pc[p] = "putting", Overwrite(p)
      PROVE  store' \in RepairLeaseRecord /\ raced' \in BOOLEAN
  BY <1>6 DEF Overwrite, HasRecord, TypeOK
<1>7. ASSUME NEW p \in Peer, PutLease(p)
      PROVE  TypeOK' /\ HasRecord'
  BY <1>6, <1>7 DEF PutLease, TypeOK, HasRecord, Phase
<1>8. ASSUME NEW p \in Peer,
             \/ YieldToAlive(p) \/ PutError(p) \/ ReadBackError(p)
             \/ FinishRepair(p) \/ Crash(p)
      PROVE  TypeOK' /\ HasRecord'
  <2>1. Return(p) /\ UNCHANGED now
    BY <1>8 DEF YieldToAlive, PutError, ReadBackError, FinishRepair, Crash
  <2>2. store' \in RepairLeaseRecord \cup {NoLease} /\ raced' \in BOOLEAN
    BY <1>6, <1>8
       DEF YieldToAlive, PutError, ReadBackError, FinishRepair, Crash, TypeOK
  <2>3. QED
    BY <1>3, <2>1, <2>2
<1>9. ASSUME NEW p \in Peer, ReadBack(p)
      PROVE  TypeOK' /\ HasRecord'
  <2>1. CASE CompareLeases(mine[p], store) >= 0
    BY <1>9, <2>1 DEF ReadBack, TypeOK, HasRecord, Phase
  <2>2. CASE ~(CompareLeases(mine[p], store) >= 0)
    BY <1>3, <1>9, <2>2 DEF ReadBack, TypeOK
  <2>3. QED
    BY <2>1, <2>2
<1>10. CASE UNCHANGED vars
  BY <1>10 DEF vars, TypeOK, HasRecord
<1>11. QED
  BY <1>1, <1>2, <1>5, <1>7, <1>8, <1>9, <1>10 DEF Next

\* The types and the record of every attempt in all reachable states.
LEMMA TypeInvariant == Spec => [](TypeOK /\ HasRecord)
<1>1. ASSUME Init PROVE TypeOK /\ HasRecord
  <2>1. TypeOK
    BY <1>1 DEF Init, TypeOK, Phase
  <2>2. HasRecord
    BY <1>1 DEF Init, HasRecord
  <2>3. QED
    BY <2>1, <2>2
<1>2. QED
  BY <1>1, TypeStep, PTL DEF Spec

\* Every variable keeps its type, the record of an attempt included.
THEOREM TypeCorrect == Spec => []TypeOK
  BY TypeInvariant, PTL

----------------------------------------------------------------------------
(* Mutual exclusion of live leases                                          *)

\* What an attempt knows between its first read and its put: it may replace
\* the record it saw, with the next epoch.
MayReplaceSeen ==
    \A p \in Peer : pc[p] = "putting" =>
        /\ seen[p] # NoLease /\ AliveAt(seen[p], stamp[p]) => seen[p].Owner = p
        /\ mine[p].Epoch = (IF seen[p] = NoLease THEN 1 ELSE seen[p].Epoch + 1)

\* The clock of an attempt was read in the past.
StampPast == \A p \in Peer : pc[p] # "idle" => stamp[p] <= Clock(p)

\* Until a put is raced, the store still holds the live record of whoever put
\* one and is now waiting to read it back or repairing.
LiveIsStored ==
    ~raced => \A p \in Peer : /\ pc[p] \in {"settling", "repairing"}
                              /\ LiveEverywhere(mine[p])
                              => store = mine[p]

LeaseInv == TypeOK /\ HasRecord /\ MayReplaceSeen /\ StampPast /\ LiveIsStored

\* time.Now() is a number.
LEMMA ClockNat == ASSUME TypeOK, NEW p \in Peer PROVE Clock(p) \in Nat
  BY DEF TypeOK, Clock

\* A put that is not raced leaves no other live record to wait for or to repair
\* under: the record it replaces was read by its writer, who may replace it.
LEMMA OverwriteEndsOthers ==
    ASSUME LeaseInv, NEW p \in Peer, NEW q \in Peer, p # q,
           pc[p] = "putting", store = seen[p], ~raced,
           pc[q] \in {"settling", "repairing"}
    PROVE  ~LiveEverywhere(mine[q])
<1> SUFFICES ASSUME LiveEverywhere(mine[q]) PROVE FALSE
  OBVIOUS
<1>1. store = mine[q] /\ mine[q] \in RepairLeaseRecord /\ mine[q].Owner = q
  BY DEF LeaseInv, LiveIsStored, HasRecord
<1>2. ~AliveAt(mine[q], stamp[p])
  BY <1>1 DEF LeaseInv, MayReplaceSeen
<1>3. AliveAt(mine[q], Clock(p))
  BY DEF LiveEverywhere
<1>4. stamp[p] <= Clock(p) /\ stamp[p] \in Nat /\ Clock(p) \in Nat
  BY ClockNat DEF LeaseInv, StampPast, TypeOK
<1>5. mine[q].ExpiresAt \in Nat
  BY <1>1 DEF RepairLeaseRecord
<1>6. QED
  BY <1>2, <1>3, <1>4, <1>5 DEF AliveAt

\* Whatever step ends or does not touch the attempts of the others keeps
\* the invariant as long as it leaves the store alone.
LEMMA ReturnStep ==
    ASSUME LeaseInv, TypeOK', HasRecord', NEW p \in Peer, Return(p),
           UNCHANGED <<now, store, raced>>
    PROVE  LeaseInv'
<1>1. MayReplaceSeen'
  BY DEF LeaseInv, MayReplaceSeen, Return, TypeOK
<1>2. StampPast'
  BY DEF LeaseInv, StampPast, Return, TypeOK, Clock
<1>3. LiveIsStored'
  BY DEF LeaseInv, LiveIsStored, LiveEverywhere, Clock, Return, TypeOK
<1>4. QED
  BY <1>1, <1>2, <1>3 DEF LeaseInv

\* The decision to put a record, whatever the first read found, keeps the
\* invariant: what was seen may be replaced, and the stamp is in the past.
LEMMA ClaimStep ==
    ASSUME LeaseInv, TypeOK', HasRecord', NEW p \in Peer,
           ClaimLease(p) \/ ClaimAfterReadError(p)
    PROVE  LeaseInv'
<1>1. PICK found \in RepairLeaseRecord \cup {NoLease}, e \in Nat :
        /\ pc[p] = "reading"
        /\ Claim(p, found, e)
        /\ e = IF found = NoLease THEN 1 ELSE found.Epoch + 1
        /\ found # NoLease /\ AliveAt(found, stamp[p]) => found.Owner = p
  <2>1. CASE store = NoLease \/ ClaimAfterReadError(p)
    BY <2>1 DEF ClaimLease, ClaimAfterReadError
  <2>2. CASE store # NoLease /\ ClaimLease(p)
    <3>1. store \in RepairLeaseRecord /\ store.Epoch + 1 \in Nat
      BY <2>2, EpochNat DEF LeaseInv, TypeOK
    <3>2. QED
      BY <2>2, <3>1 DEF ClaimLease
  <2>3. QED
    BY <2>1, <2>2
<1>2. MayReplaceSeen'
  BY <1>1, NewLeaseType DEF LeaseInv, MayReplaceSeen, Claim, TypeOK
<1>3. StampPast'
  BY <1>1 DEF LeaseInv, StampPast, Claim, TypeOK, Clock
<1>4. LiveIsStored'
  BY <1>1 DEF LeaseInv, LiveIsStored, LiveEverywhere, Clock, Claim, TypeOK
<1>5. QED
  BY <1>2, <1>3, <1>4 DEF LeaseInv

\* The put of one attempt, whether or not the attempt goes on afterwards.
LEMMA OverwriteStep ==
    ASSUME LeaseInv, TypeOK', HasRecord', NEW p \in Peer,
           pc[p] = "putting", Overwrite(p), UNCHANGED now,
           \/ Return(p)
           \/ /\ pc' = [pc EXCEPT ![p] = "settling"]
              /\ UNCHANGED <<stamp, seen, mine>>
    PROVE  LeaseInv'
<1>1. \A q \in Peer : q # p =>
        /\ pc'[q] = pc[q] /\ stamp'[q] = stamp[q]
        /\ seen'[q] = seen[q] /\ mine'[q] = mine[q]
  BY DEF Return, LeaseInv, TypeOK
<1>2. pc'[p] \in {"idle", "settling"} /\ (pc'[p] = "settling" => mine' = mine)
  BY DEF Return, LeaseInv, TypeOK
<1>3. MayReplaceSeen'
  BY <1>1, <1>2 DEF LeaseInv, MayReplaceSeen
<1>4. StampPast'
  <2>1. pc'[p] # "idle" => stamp'[p] = stamp[p]
    BY DEF Return, LeaseInv, TypeOK
  <2>2. QED
    BY <1>1, <2>1 DEF LeaseInv, StampPast, Clock
<1>5. LiveIsStored'
  <2> SUFFICES ASSUME ~raced', NEW q \in Peer,
                      pc'[q] \in {"settling", "repairing"}, LiveEverywhere(mine[q])'
               PROVE  store' = mine'[q]
    BY DEF LiveIsStored
  <2>1. ~raced /\ store = seen[p] /\ store' = mine[p]
    BY DEF Overwrite, LeaseInv, TypeOK
  <2>2. CASE q = p
    BY <1>2, <2>1, <2>2
  <2>3. CASE q # p
    <3>1. LiveEverywhere(mine[q])
      BY <1>1, <2>3 DEF LiveEverywhere, Clock
    <3>2. pc[q] \in {"settling", "repairing"}
      BY <1>1, <2>3
    <3>3. QED
      BY <2>1, <2>3, <3>1, <3>2, OverwriteEndsOthers
  <2>4. QED
    BY <2>2, <2>3
<1>6. QED
  BY <1>3, <1>4, <1>5 DEF LeaseInv

\* Every step keeps the inductive invariant.
LEMMA LeaseInvStep == LeaseInv /\ [Next]_vars => LeaseInv'
<1> SUFFICES ASSUME LeaseInv, [Next]_vars
             PROVE  LeaseInv'
  OBVIOUS
<1>0. TypeOK' /\ HasRecord'
  BY TypeStep DEF LeaseInv
<1>1. CASE Tick
  <2>1. now \in Nat /\ now' = now + 1 /\ UNCHANGED <<store, pc, stamp, seen, mine, raced>>
    BY <1>1 DEF Tick, LeaseInv, TypeOK
  <2>2. MayReplaceSeen'
    BY <2>1 DEF LeaseInv, MayReplaceSeen
  <2>3. StampPast'
    <3>1. \A q \in Peer : stamp[q] \in Nat /\ Skew[q] \in Nat
      BY DEF LeaseInv, TypeOK
    <3>2. QED
      BY <2>1, <3>1 DEF LeaseInv, StampPast, Clock
  <2>4. LiveIsStored'
    <3> SUFFICES ASSUME ~raced', NEW q \in Peer,
                        pc'[q] \in {"settling", "repairing"},
                        LiveEverywhere(mine[q])'
                 PROVE  store' = mine'[q]
      BY DEF LiveIsStored
    <3>1. mine[q] \in RepairLeaseRecord
      BY <2>1 DEF LeaseInv, HasRecord
    <3>2. LiveEverywhere(mine[q])
      <4>1. \A r \in Peer : AliveAt(mine[q], Clock(r)')
        BY <2>1 DEF LiveEverywhere
      <4>2. \A r \in Peer : Clock(r)' = Clock(r) + 1 /\ Clock(r) \in Nat
        BY <2>1 DEF Clock
      <4>3. QED
        BY <3>1, <4>1, <4>2 DEF LiveEverywhere, AliveAt, RepairLeaseRecord
    <3>3. QED
      BY <2>1, <3>2 DEF LeaseInv, LiveIsStored
  <2>5. QED
    BY <1>0, <2>2, <2>3, <2>4 DEF LeaseInv
<1>2. ASSUME NEW p \in Peer, BeginAcquire(p)
      PROVE  LeaseInv'
  <2>1. MayReplaceSeen'
    BY <1>2 DEF LeaseInv, MayReplaceSeen, BeginAcquire, TypeOK
  <2>2. StampPast'
    <3>1. \A q \in Peer : Clock(q)' = Clock(q) /\ Clock(q) \in Nat
      BY <1>2 DEF BeginAcquire, Clock, LeaseInv, TypeOK
    <3>2. QED
      BY <1>2, <3>1 DEF LeaseInv, StampPast, BeginAcquire, TypeOK
  <2>3. LiveIsStored'
    BY <1>2 DEF LeaseInv, LiveIsStored, LiveEverywhere, Clock, BeginAcquire, TypeOK
  <2>4. QED
    BY <1>0, <2>1, <2>2, <2>3 DEF LeaseInv
<1>3. ASSUME NEW p \in Peer, ClaimLease(p) \/ ClaimAfterReadError(p)
      PROVE  LeaseInv'
  BY <1>0, <1>3, ClaimStep
<1>4. ASSUME NEW p \in Peer, PutLease(p)
      PROVE  LeaseInv'
  BY <1>0, <1>4, OverwriteStep DEF PutLease
<1>5. ASSUME NEW p \in Peer, PutError(p)
      PROVE  LeaseInv'
  <2>1. CASE Overwrite(p)
    BY <1>0, <1>5, <2>1, OverwriteStep DEF PutError
  <2>2. CASE UNCHANGED <<store, raced>>
    BY <1>0, <1>5, <2>2, ReturnStep DEF PutError
  <2>3. QED
    BY <1>5, <2>1, <2>2 DEF PutError
<1>6. ASSUME NEW p \in Peer,
             YieldToAlive(p) \/ ReadBackError(p) \/ FinishRepair(p) \/ Crash(p)
      PROVE  LeaseInv'
  BY <1>0, <1>6, ReturnStep DEF YieldToAlive, ReadBackError, FinishRepair, Crash
<1>7. ASSUME NEW p \in Peer, ReadBack(p)
      PROVE  LeaseInv'
  <2>1. CASE CompareLeases(mine[p], store) >= 0
    <3>1. MayReplaceSeen' /\ StampPast'
      BY <1>7, <2>1 DEF ReadBack, LeaseInv, MayReplaceSeen, StampPast, TypeOK, Clock
    <3>2. LiveIsStored'
      BY <1>7, <2>1
         DEF ReadBack, LeaseInv, LiveIsStored, LiveEverywhere, Clock, TypeOK
    <3>3. QED
      BY <1>0, <3>1, <3>2 DEF LeaseInv
  <2>2. CASE ~(CompareLeases(mine[p], store) >= 0)
    BY <1>0, <1>7, <2>2, ReturnStep DEF ReadBack
  <2>3. QED
    BY <2>1, <2>2
<1>8. CASE UNCHANGED vars
  <2>1. UNCHANGED <<now, store, pc, stamp, seen, mine, raced>>
    BY <1>8 DEF vars
  <2>2. MayReplaceSeen' /\ StampPast'
    BY <2>1 DEF LeaseInv, MayReplaceSeen, StampPast, Clock
  <2>3. LiveIsStored'
    BY <2>1 DEF LeaseInv, LiveIsStored, LiveEverywhere, Clock
  <2>4. QED
    BY <1>0, <2>2, <2>3 DEF LeaseInv
<1>9. QED
  BY <1>1, <1>2, <1>3, <1>4, <1>5, <1>6, <1>7, <1>8 DEF Next

\* The inductive invariant holds in all reachable states.
LEMMA LeaseInvariant == Spec => []LeaseInv
<1>1. ASSUME Init PROVE LeaseInv
  <2>1. TypeOK
    BY <1>1 DEF Init, TypeOK, Phase
  <2>2. HasRecord /\ MayReplaceSeen /\ StampPast /\ LiveIsStored
    BY <1>1 DEF Init, HasRecord, MayReplaceSeen, StampPast, LiveIsStored
  <2>3. QED
    BY <2>1, <2>2 DEF LeaseInv
<1>2. QED
  BY <1>1, LeaseInvStep, PTL DEF Spec

\* Two live repairers only after a raced put.
THEOREM Mutex == Spec => []MutexUnlessRaced
<1>1. ASSUME LeaseInv PROVE MutexUnlessRaced
  <2> SUFFICES ASSUME ~raced, NEW p \in Peer, NEW q \in Peer,
                      HoldsLive(p), HoldsLive(q)
               PROVE  p = q
    BY DEF MutexUnlessRaced
  <2>1. store = mine[p] /\ store = mine[q]
    BY <1>1 DEF LeaseInv, LiveIsStored, HoldsLive
  <2>2. mine[p].Owner = p /\ mine[q].Owner = q
    BY <1>1 DEF LeaseInv, HasRecord, HoldsLive
  <2>3. QED
    BY <2>1, <2>2
<1>2. QED
  BY <1>1, LeaseInvariant, PTL

\* An alive foreign lease is never replaced by a node that saw it.
THEOREM NeverStealsSeen == Spec => StealOnlyUnseen
<1>1. ASSUME LeaseInv
      PROVE  \A p \in Peer :
               /\ pc[p] = "putting"
               /\ pc'[p] # "putting"
               /\ store' # store
               /\ store = seen[p]
               => \/ store = NoLease
                  \/ store.Owner = p
                  \/ ~AliveAt(store, stamp[p])
  BY <1>1 DEF LeaseInv, MayReplaceSeen
<1>2. QED
  BY <1>1, LeaseInvariant, PTL DEF StealOnlyUnseen

\* Epochs fence the owners until a put is raced.
THEOREM EpochsFence == Spec => EpochFences
<1>1. ASSUME LeaseInv, [Next]_vars, store' # store, ~raced'
      PROVE  \/ store = NoLease /\ store'.Epoch = 1
             \/ store # NoLease /\ store'.Epoch = store.Epoch + 1
  <2>1. PICK p \in Peer : pc[p] = "putting" /\ Overwrite(p)
    BY <1>1 DEF Next, vars, Tick, BeginAcquire, YieldToAlive, ClaimLease, Claim,
       ClaimAfterReadError, PutLease, PutError, ReadBack, ReadBackError,
       FinishRepair, Crash
  <2>2. store = seen[p] /\ store' = mine[p]
    BY <1>1, <2>1 DEF Overwrite, LeaseInv, TypeOK
  <2>3. QED
    BY <1>1, <2>1, <2>2 DEF LeaseInv, MayReplaceSeen
<1>2. QED
  BY <1>1, LeaseInvariant, PTL DEF EpochFences, Spec

----------------------------------------------------------------------------
(* The lease implements the abstract one                                    *)

Holders == {p \in Peer : HoldsLive(p)}
Fence   == IF store = NoLease THEN 0 ELSE store.Epoch

\* A node that reads back its own put, or holds the lease, under a live record
\* finds nobody else holding it, unless a put has been raced.
LEMMA AloneWhenLive ==
    ASSUME LeaseInv, ~raced, NEW p \in Peer, NEW q \in Peer,
           pc[p] \in {"settling", "repairing"}, LiveEverywhere(mine[p]), HoldsLive(q)
    PROVE  q = p
<1>1. store = mine[p] /\ store = mine[q]
  BY DEF LeaseInv, LiveIsStored, HoldsLive
<1>2. mine[p].Owner = p /\ mine[q].Owner = q
  BY DEF LeaseInv, HasRecord, HoldsLive
<1>3. QED
  BY <1>1, <1>2

\* A put is an abstract put: raced, or alone and one epoch further.
LEMMA OverwriteIsPut ==
    ASSUME LeaseInv, TypeOK', NEW p \in Peer, pc[p] = "putting", Overwrite(p),
           UNCHANGED now,
           \/ Return(p)
           \/ /\ pc' = [pc EXCEPT ![p] = "settling"]
              /\ UNCHANGED <<stamp, seen, mine>>
    PROVE  Lease!Put
<1>1. Holders' = Holders
  <2>1. \A q \in Peer : LiveEverywhere(mine[q])' <=> LiveEverywhere(mine'[q])
    BY DEF LiveEverywhere, Clock
  <2>2. \A q \in Peer : HoldsLive(q)' <=> HoldsLive(q)
    BY <2>1 DEF HoldsLive, LiveEverywhere, Clock, Return, LeaseInv, TypeOK
  <2>3. QED
    BY <2>2 DEF Holders
<1>2. store' = mine[p] /\ store' \in RepairLeaseRecord /\ store' # NoLease
  BY DEF Overwrite, LeaseInv, HasRecord
<1>3. Fence' = mine[p].Epoch /\ Fence' \in Nat
  BY <1>2, EpochNat DEF Fence
<1>4. raced \in BOOLEAN /\ raced' = (raced \/ store # seen[p])
  BY DEF Overwrite, LeaseInv, TypeOK
<1>5. CASE raced'
  BY <1>1, <1>3, <1>5 DEF Lease!Put, Holders, Fence
<1>6. CASE ~raced'
  <2>1. ~raced /\ store = seen[p]
    BY <1>4, <1>6
  <2>2. \A q \in Peer : ~HoldsLive(q)
    BY <2>1, OverwriteEndsOthers DEF HoldsLive
  <2>3. Holders = {}
    BY <2>2 DEF Holders
  <2>4. Fence' = Fence + 1
    BY <1>3, <2>1 DEF LeaseInv, MayReplaceSeen, Fence
  <2>5. QED
    BY <1>1, <1>4, <1>6, <2>1, <2>3, <2>4 DEF Lease!Put, Holders, Fence
<1>7. QED
  BY <1>4, <1>5, <1>6

\* A step that leaves the store alone and lets nobody begin to repair can only
\* take holders away.
LEMMA DropStep ==
    ASSUME UNCHANGED <<store, raced>>, \A q \in Peer : HoldsLive(q)' => HoldsLive(q)
    PROVE  Lease!Drop
<1>1. Holders' \subseteq Holders /\ Fence' = Fence
  BY DEF Holders, Fence
<1>2. QED
  BY <1>1 DEF Lease!Drop, Holders, Fence

\* A node that returns from RunOnce, for whatever reason, holds nothing.
LEMMA ReturnDrops ==
    ASSUME LeaseInv, NEW p \in Peer, Return(p), UNCHANGED <<now, store, raced>>
    PROVE  Lease!Drop
<1>1. \A q \in Peer : HoldsLive(q)' => HoldsLive(q)
  BY DEF HoldsLive, LiveEverywhere, Clock, Return, LeaseInv, TypeOK
<1>2. QED
  BY <1>1, DropStep

\* Every step of the lease is a step of the abstract one, or none.
LEMMA LeaseStep ==
    ASSUME LeaseInv, TypeOK', [Next]_vars PROVE [Lease!Next]_(Lease!vars)
<1>1. CASE Tick
  <2>1. now \in Nat /\ now' = now + 1 /\ UNCHANGED <<store, pc, stamp, seen, mine, raced>>
    BY <1>1 DEF Tick, LeaseInv, TypeOK
  <2>2. ASSUME NEW q \in Peer, HoldsLive(q)' PROVE HoldsLive(q)
    <3>1. mine[q] \in RepairLeaseRecord /\ pc[q] = "repairing"
      BY <2>1, <2>2 DEF HoldsLive, LeaseInv, HasRecord
    <3>2. \A r \in Peer : AliveAt(mine[q], Clock(r)')
      BY <2>1, <2>2 DEF HoldsLive, LiveEverywhere
    <3>3. \A r \in Peer : Clock(r)' = Clock(r) + 1 /\ Clock(r) \in Nat
      BY <2>1 DEF Clock
    <3>4. QED
      BY <3>1, <3>2, <3>3 DEF HoldsLive, LiveEverywhere, AliveAt, RepairLeaseRecord
  <2>3. QED
    BY <2>1, <2>2, DropStep DEF Lease!Next
<1>2. ASSUME NEW p \in Peer,
             BeginAcquire(p) \/ ClaimLease(p) \/ ClaimAfterReadError(p)
      PROVE  Lease!Drop
  <2>1. ASSUME NEW q \in Peer, HoldsLive(q)' PROVE HoldsLive(q)
    BY <1>2, <2>1 DEF BeginAcquire, ClaimLease, ClaimAfterReadError, Claim,
       HoldsLive, LiveEverywhere, Clock, LeaseInv, TypeOK
  <2>2. UNCHANGED <<store, raced>>
    BY <1>2 DEF BeginAcquire, ClaimLease, ClaimAfterReadError, Claim
  <2>3. QED
    BY <2>1, <2>2, DropStep
<1>3. ASSUME NEW p \in Peer, PutLease(p)
      PROVE  Lease!Put
  BY <1>3, OverwriteIsPut DEF PutLease
<1>4. ASSUME NEW p \in Peer, PutError(p)
      PROVE  Lease!Put \/ Lease!Drop
  BY <1>4, OverwriteIsPut, ReturnDrops DEF PutError
<1>5. ASSUME NEW p \in Peer,
             YieldToAlive(p) \/ ReadBackError(p) \/ FinishRepair(p) \/ Crash(p)
      PROVE  Lease!Drop
  BY <1>5, ReturnDrops DEF YieldToAlive, ReadBackError, FinishRepair, Crash
<1>6. ASSUME NEW p \in Peer, ReadBack(p)
      PROVE  Lease!Drop \/ Lease!Acquire(p)
  <2>1. CASE ~(CompareLeases(mine[p], store) >= 0)
    BY <1>6, <2>1, ReturnDrops DEF ReadBack
  <2>2. CASE CompareLeases(mine[p], store) >= 0
    <3>1. /\ pc[p] = "settling" /\ pc' = [pc EXCEPT ![p] = "repairing"]
          /\ UNCHANGED <<now, store, stamp, seen, mine, raced>>
      BY <1>6, <2>2 DEF ReadBack
    <3>2. \A q \in Peer : q # p => (HoldsLive(q)' <=> HoldsLive(q))
      BY <3>1 DEF HoldsLive, LiveEverywhere, Clock, LeaseInv, TypeOK
    <3>3. ~HoldsLive(p) /\ (HoldsLive(p)' <=> LiveEverywhere(mine[p]))
      BY <3>1 DEF HoldsLive, LiveEverywhere, Clock, LeaseInv, TypeOK
    <3>4. CASE ~LiveEverywhere(mine[p])
      BY <3>1, <3>2, <3>3, <3>4, DropStep
    <3>5. CASE LiveEverywhere(mine[p])
      <4>1. Holders' = Holders \cup {p} /\ Fence' = Fence
        BY <3>1, <3>2, <3>3, <3>5 DEF Holders, Fence
      <4>2. ~raced => Holders = {}
        BY <3>1, <3>3, <3>5, AloneWhenLive DEF Holders
      <4>3. QED
        BY <3>1, <4>1, <4>2 DEF Lease!Acquire, Holders, Fence
    <3>6. QED
      BY <3>4, <3>5
  <2>3. QED
    BY <2>1, <2>2
<1>7. CASE UNCHANGED vars
  <2>1. \A q \in Peer : HoldsLive(q)' <=> HoldsLive(q)
    BY <1>7 DEF vars, HoldsLive, LiveEverywhere, Clock
  <2>2. Holders' = Holders /\ Fence' = Fence /\ raced' = raced
    BY <1>7, <2>1 DEF vars, Holders, Fence
  <2>3. QED
    BY <2>2 DEF Lease!vars, Holders, Fence
<1>8. QED
  BY <1>1, <1>2, <1>3, <1>4, <1>5, <1>6, <1>7 DEF Next, Lease!Next

\* The lease of watchdog/lease.go implements the abstract lease.
THEOREM ImplementsLease == Spec => HeldByOne
<1>1. ASSUME Init PROVE Lease!Init
  BY <1>1 DEF Init, Lease!Init, HoldsLive
<1>2. LeaseInv /\ LeaseInv' => TypeOK'
  BY DEF LeaseInv
<1>3. QED
  BY <1>1, <1>2, LeaseInvariant, LeaseStep, PTL DEF Spec, HeldByOne, Lease!Spec
============================================================================
