----------------------- MODULE RepairPipeline_proofs -----------------------
(***************************************************************************)
(* Proofs about self-healing, for any number of nodes, shards and faults:  *)
(*   - what one node encodes in a bitmap another decodes (RoundTrip), and  *)
(*     the aggregation of bitmaps is the union of what went into them      *)
(*     (Aggregation);                                                      *)
(*   - the variables keep their types (TypeCorrect);                       *)
(*   - a good shard goes without a fault only if a repair puts right bytes *)
(*     in the place of what its pass has seen nowhere, or a scan moves the *)
(*     file that it had decided to move (TakesOnlyMissing);                *)
(*   - with fewer faults than nodes all shards stay there (FewFaultsKeep). *)
(***************************************************************************)
EXTENDS RepairPipeline, FiniteSetTheorems, WellFoundedInduction, TLAPS

USE PeerAssumption, ShardAssumption, FaultAssumption

----------------------------------------------------------------------------
(* The inductive invariant                                                  *)

\* A pass has seen its own shards, waits for scans only while it queries, goes
\* beyond the queries only if something is missing, and writes what is missing,
\* having enough shards of its own.
PassOK(p) ==
    /\ healthy[p] \subseteq avail[p]
    /\ \A q \in Peer :
          IF scan[p][q].wanted
            THEN step[p] = "querying"
            ELSE scan[p][q].found = {} /\ (scan[p][q].doomed => q # p)
    /\ step[p] \notin {"idle", "querying"} => avail[p] # Shard
    /\ step[p] = "writing" =>
          /\ left[p] # {} /\ left[p] \cap avail[p] = {}
          /\ Cardinality(healthy[p]) >= DataShards
          /\ sent[p] # Peer

\* Files are open only while a pass writes, and only right bytes are written.
WriteOK(p) ==
    /\ step[p] # "writing" => left[p] = {} /\ sent[p] = {} /\ target[p] = None
    /\ linked[p] => target[p] # None
    /\ target[p] # None => target[p] \notin sent[p]
    /\ made[p] = "good"

PipeInv ==
    /\ TypeOK
    /\ \A p \in Peer : PassOK(p) /\ WriteOK(p)
    /\ alive => owner # None

\* What a step costs node q.
Lost(q) == Good(q) \ Good(q)'

\* What node p writes: a shard that neither its own scan nor any node that
\* answered has vouched for, while it still has enough of its own.
Rewrites(p, q) ==
    /\ step[p] = "writing" /\ made[p] = "good"
    /\ Lost(q) = {Current(p)} /\ Current(p) \notin avail[p] /\ Lost(q) \cap healthy[p] = {}
    /\ Cardinality(healthy[p]) >= DataShards
    /\ target'[p] = q /\ linked'[p]

\* What the scan on q for the pass of p moves: the one file that it had found
\* corrupt or unreadable, whatever a push has made of it since.
Moves(p, q) == scan[p][q].doomed /\ Lost(q) = {At(p, q)} /\ scan'[p][q] # scan[p][q]

RepairTakesOnlyMissing ==
    [][faults' = faults =>
         \/ \A q \in Peer : Lost(q) = {}
         \/ \E p, q \in Peer :
               /\ Rewrites(p, q) \/ Moves(p, q)
               /\ \A r \in Peer \ {q} : Lost(r) = {}]_vars

----------------------------------------------------------------------------
(* The bitmaps                                                              *)

\* The place of a shard in the bitmap, byte and bit, and back.
LEMMA Place ==
    ASSUME NEW n \in Nat, NEW i \in Nat, i < n
    PROVE  /\ i \div 8 \in 0 .. Width(n) - 1
           /\ i % 8 \in 0 .. 7
           /\ (i \div 8) * 8 + (i % 8) = i
  BY SMT DEF Width

\* Decoding the bitmap that BitmapFromShardIndices makes of some shards gives
\* these shards back, without those out of range: no bit is lost at the end
\* of a byte, nor is one made up in the last byte.
THEOREM RoundTrip ==
    ASSUME NEW n \in Nat, NEW indices \in SUBSET Int
    PROVE  DecodeBitmap(BitmapFromShardIndices(n, indices))
             = {i \in indices : 0 <= i /\ i < n}
<1> DEFINE bitmap == BitmapFromShardIndices(n, indices)
           Bits(b) == {bit \in 0 .. 7 : b * 8 + bit \in indices /\ b * 8 + bit < n}
<1>1. /\ DOMAIN bitmap = 0 .. Width(n) - 1
      /\ \A b \in DOMAIN bitmap : bitmap[b] = Bits(b)
  BY DEF BitmapFromShardIndices
<1> HIDE DEF bitmap
<1>2. ASSUME NEW i \in DecodeBitmap(bitmap)
      PROVE  i \in indices /\ 0 <= i /\ i < n
  <2>1. PICK b \in DOMAIN bitmap : i \in {b * 8 + bit : bit \in bitmap[b]}
    BY DEF DecodeBitmap
  <2>2. PICK bit \in bitmap[b] : i = b * 8 + bit
    BY <2>1
  <2>3. bit \in 0 .. 7 /\ b * 8 + bit \in indices /\ b * 8 + bit < n
    BY <1>1
  <2>4. b \in Nat
    BY <1>1, SMT DEF Width
  <2> QED
    BY <2>2, <2>3, <2>4
<1>3. ASSUME NEW i \in indices, 0 <= i, i < n
      PROVE  i \in DecodeBitmap(bitmap)
  <2> DEFINE b == i \div 8
             bit == i % 8
  <2>1. i \in Nat
    BY <1>3
  <2>2. b \in 0 .. Width(n) - 1 /\ bit \in 0 .. 7 /\ b * 8 + bit = i
    BY <1>3, <2>1, Place
  <2>3. bit \in Bits(b)
    BY <1>3, <2>2
  <2> HIDE DEF b, bit
  <2>4. b \in DOMAIN bitmap /\ bit \in bitmap[b]
    BY <1>1, <2>2, <2>3
  <2>5. i \in {b * 8 + x : x \in bitmap[b]}
    BY <2>2, <2>4
  <2> QED
    BY <2>4, <2>5 DEF DecodeBitmap
<1> QED
  BY <1>2, <1>3 DEF bitmap

\* BuildNetworkState, from the bitmaps of any number of nodes, finds available
\* exactly the shards of the file that one of them has vouched for.
THEOREM Aggregation ==
    ASSUME NEW n \in Nat, NEW nodes, NEW vouched \in [nodes -> SUBSET Int]
    PROVE  AvailableShards(n, {BitmapFromShardIndices(n, vouched[p]) : p \in nodes})
             = {i \in 0 .. n - 1 : \E p \in nodes : i \in vouched[p]}
<1>1. \A p \in nodes : \A i \in 0 .. n - 1 :
        i \in DecodeBitmap(BitmapFromShardIndices(n, vouched[p])) <=> i \in vouched[p]
  <2>1. ASSUME NEW p \in nodes, NEW i \in 0 .. n - 1
        PROVE  i \in DecodeBitmap(BitmapFromShardIndices(n, vouched[p])) <=> i \in vouched[p]
    <3>1. vouched[p] \in SUBSET Int
      OBVIOUS
    <3>2. DecodeBitmap(BitmapFromShardIndices(n, vouched[p]))
            = {j \in vouched[p] : 0 <= j /\ j < n}
      BY <3>1, RoundTrip
    <3> QED
      BY <3>2
  <2> QED
    BY <2>1
<1> QED
  BY <1>1, Zenon DEF AvailableShards

----------------------------------------------------------------------------
(* Lemmas about the operators                                               *)

\* The shards of a set have a first one: the loops of RunOnce over the missing
\* shards write shards that are missing.
LEMMA HasFirst ==
    ASSUME NEW S, S \subseteq Nat, S # {}
    PROVE  First(S) \in S
<1> DEFINE R == {ss \in Nat \X Nat : ss[1] < ss[2]}
<1>1. OpToRel(<, Nat) = R
  BY DEF OpToRel
<1>2. IsWellFoundedOn(R, Nat)
  BY <1>1, NatLessThanWellFounded
<1>3. PICK x \in S : \A y \in S : <<y, x>> \notin R
  BY <1>2, WFMin
<1>4. ASSUME NEW y \in S
      PROVE  x <= y
  <2>1. x \in Nat /\ y \in Nat /\ ~(y < x)
    BY <1>3
  <2> HIDE DEF R
  <2> QED
    BY <2>1
<1> QED
  BY <1>4 DEF First

\* The answer to a health query adds to the bitmap what the other node has
\* vouched for, and nothing else.
LEMMA Answered ==
    ASSUME NEW S \in SUBSET Shard, NEW T \in SUBSET Shard
    PROVE  AvailableShards(TotalShards, {Vouched(S), Vouched(T)}) = S \cup T
<1> DEFINE v == [n \in {1, 2} |-> IF n = 1 THEN S ELSE T]
<1>1. v[1] = S /\ v[2] = T /\ S \in SUBSET Int /\ T \in SUBSET Int
  BY DEF Shard
<1>2. v \in [{1, 2} -> SUBSET Int]
  BY <1>1
<1>3. {BitmapFromShardIndices(TotalShards, v[n]) : n \in {1, 2}} = {Vouched(S), Vouched(T)}
  BY <1>1 DEF Vouched
<1> HIDE DEF v
<1>4. AvailableShards(TotalShards, {BitmapFromShardIndices(TotalShards, v[n]) : n \in {1, 2}})
        = {i \in 0 .. TotalShards - 1 : \E n \in {1, 2} : i \in v[n]}
  BY <1>2, Aggregation
<1>5. {i \in 0 .. TotalShards - 1 : \E n \in {1, 2} : i \in v[n]} = S \cup T
  BY <1>1 DEF Shard
<1> QED
  BY <1>3, <1>4, <1>5

\* A move takes one file, and at most cuts a writer off.
LEMMA MoveKeeps ==
    ASSUME TypeOK, NEW p \in Peer, NEW q \in Peer, Move(p, q)
    PROVE  /\ disk' \in [Peer -> [Shard -> {"absent", "good", "bad"}]]
           /\ linked' \in [Peer -> BOOLEAN]
           /\ \A r \in Peer : linked'[r] => linked[r]
           /\ \A r \in Peer \ {q} : disk'[r] = disk[r] /\ Lost(r) = {}
           /\ Lost(q) = {} \/ Lost(q) = {At(p, q)}
<1>1. scan[p][q] \in Scan /\ At(p, q) \in Shard
  BY DEF TypeOK, Scan, At
<1>2. /\ disk \in [Peer -> [Shard -> {"absent", "good", "bad"}]]
      /\ disk' = [disk EXCEPT ![q][At(p, q)] = "absent"]
  BY DEF TypeOK, Move
<1>3. linked' \in [Peer -> BOOLEAN] /\ \A r \in Peer : linked'[r] => linked[r]
  BY DEF TypeOK, Move, Unlinked
<1>4. /\ disk' \in [Peer -> [Shard -> {"absent", "good", "bad"}]]
      /\ \A r \in Peer \ {q} : disk'[r] = disk[r]
      /\ \A i \in Shard \ {At(p, q)} : disk'[q][i] = disk[q][i]
  BY <1>1, <1>2
<1>5. Lost(q) \subseteq {At(p, q)} /\ \A r \in Peer \ {q} : Lost(r) = {}
  BY <1>4 DEF Lost, Good
<1> QED
  BY <1>3, <1>4, <1>5

----------------------------------------------------------------------------
(* Steps                                                                    *)

\* While p takes a step the other passes stay where they are.
OthersKept(p) ==
    \A r \in Peer \ {p} :
        /\ step'[r] = step[r] /\ healthy'[r] = healthy[r] /\ avail'[r] = avail[r]
        /\ scan'[r] = scan[r]
        /\ made'[r] = made[r] /\ left'[r] = left[r] /\ sent'[r] = sent[r]
        /\ target'[r] = target[r] /\ (linked'[r] => linked[r])

LEMMA OneMoves ==
    ASSUME PipeInv, TypeOK', NEW p \in Peer, OthersKept(p), PassOK(p)', WriteOK(p)',
           alive' => owner' # None
    PROVE  PipeInv'
<1>1. ASSUME NEW r \in Peer \ {p}
      PROVE  PassOK(r)' /\ WriteOK(r)'
  <2>1. PassOK(r) /\ WriteOK(r)
    BY DEF PipeInv
  <2> QED
    BY <2>1 DEF OthersKept, PassOK, WriteOK
<1> QED
  BY <1>1 DEF PipeInv

LEMMA Scans ==
    /\ NoScan \in Scan /\ ~NoScan.wanted /\ NoScan.found = {} /\ ~NoScan.doomed
    /\ NewScan \in Scan /\ NewScan.wanted /\ NewScan.found = {} /\ ~NewScan.doomed
    /\ NewScan.found = 0 .. NewScan.next - 1
<1>1. 0 \in Shard
  BY DEF Shard
<1>2. NoScan \in Scan
  BY <1>1 DEF NoScan, Scan
<1>3. /\ NewScan \in Scan /\ NewScan.wanted
      /\ NewScan.found = NoScan.found /\ NewScan.doomed = NoScan.doomed
      /\ NewScan.next = NoScan.next
  BY <1>2 DEF NewScan, Scan
<1>4. NoScan.next = 0 /\ NoScan.found = {}
  BY DEF NoScan
<1>5. NewScan.found = 0 .. NewScan.next - 1
  BY <1>3, <1>4
<1> QED
  BY <1>2, <1>3, <1>5 DEF NoScan

LEMMA AbandonedScan ==
    ASSUME TypeOK, NEW p \in Peer, NEW q \in Peer
    PROVE  /\ Abandoned(p, q) \in Scan
           /\ ~Abandoned(p, q).wanted /\ Abandoned(p, q).found = {}
           /\ Abandoned(p, q).doomed => scan[p][q].doomed
<1>1. scan[p][q] \in Scan
  BY DEF TypeOK
<1> QED
  BY <1>1, Scans DEF Abandoned, Scan

\* A pass that is over waits for no scan, and what is left of its scans on
\* other nodes is the move they have decided on.
LEMMA ReturnScan ==
    ASSUME TypeOK, NEW p \in Peer, Return(p)
    PROVE  /\ scan' \in [Peer -> [Peer -> Scan]]
           /\ \A r \in Peer \ {p} : scan'[r] = scan[r]
           /\ \A q \in Peer :
                 /\ ~scan'[p][q].wanted /\ scan'[p][q].found = {}
                 /\ scan'[p][q].doomed => q # p /\ scan[p][q].doomed
<1> DEFINE now == [q \in Peer |-> IF q = p THEN NoScan ELSE Abandoned(p, q)]
<1>1. NoScan \in Scan /\ ~NoScan.wanted /\ NoScan.found = {} /\ ~NoScan.doomed
  BY Scans
<1>2. \A q \in Peer :
        /\ Abandoned(p, q) \in Scan
        /\ ~Abandoned(p, q).wanted /\ Abandoned(p, q).found = {}
        /\ Abandoned(p, q).doomed => scan[p][q].doomed
  BY AbandonedScan
<1>3. scan \in [Peer -> [Peer -> Scan]] /\ scan' = [scan EXCEPT ![p] = now]
  BY DEF TypeOK, Return
<1>4. /\ now \in [Peer -> Scan]
      /\ \A q \in Peer :
            /\ ~now[q].wanted /\ now[q].found = {}
            /\ now[q].doomed => q # p /\ scan[p][q].doomed
  BY <1>1, <1>2
<1> HIDE DEF now
<1> QED
  BY <1>3, <1>4

\* Leaving a pass that writes nothing.
LEMMA ReturnStep ==
    ASSUME PipeInv, NEW p \in Peer, step[p] # "writing",
           Return(p), UNCHANGED <<disk, sendVars, leaseVars>>, faults' \in 0 .. MaxFaults
    PROVE  PipeInv'
<1> DEFINE over == \A q \in Peer : /\ ~scan'[p][q].wanted /\ scan'[p][q].found = {}
                                   /\ scan'[p][q].doomed => q # p
<1>0. TypeOK /\ WriteOK(p)
  BY DEF PipeInv
<1>1. /\ TypeOK' /\ over
      /\ \A r \in Peer \ {p} : scan'[r] = scan[r]
  <2>1. /\ scan' \in [Peer -> [Peer -> Scan]] /\ over
        /\ \A r \in Peer \ {p} : scan'[r] = scan[r]
    BY <1>0, ReturnScan
  <2> HIDE DEF over
  <2> QED
    BY <1>0, <2>1 DEF TypeOK, Return, sendVars, leaseVars, Step
<1>3. /\ step'[p] = "idle" /\ healthy'[p] = {} /\ avail'[p] = {}
      /\ left'[p] = {} /\ sent'[p] = {} /\ target'[p] = None /\ ~linked'[p]
      /\ made'[p] = "good"
  BY <1>0 DEF TypeOK, Return, sendVars, WriteOK
<1>4. PassOK(p)' /\ WriteOK(p)'
  BY <1>1, <1>3 DEF PassOK, WriteOK
<1>5. OthersKept(p) /\ (alive' => owner' # None)
  BY <1>0, <1>1 DEF OthersKept, PipeInv, TypeOK, Return, sendVars, leaseVars
<1> QED
  BY <1>1, <1>4, <1>5, OneMoves

\* Going on with a pass from one access to the next.
LEMMA GoToStep ==
    ASSUME PipeInv, NEW p \in Peer, NEW to \in Step \ {"idle", "querying", "writing"},
           step[p] # "writing", avail[p] # Shard, \A q \in Peer : ~scan[p][q].wanted,
           GoTo(p, to), UNCHANGED <<disk, sendVars>>, faults' \in 0 .. MaxFaults,
           UNCHANGED leaseVars \/ (owner' = p /\ alive' = TRUE)
    PROVE  PipeInv'
<1>1. TypeOK /\ TypeOK' /\ (alive' => owner' # None)
  <2>1. TypeOK /\ (alive => owner # None) /\ p # None
    BY DEF PipeInv
  <2>2. owner' \in Peer \cup {None} /\ alive' \in BOOLEAN /\ (alive' => owner' # None)
    <3>1. CASE UNCHANGED leaseVars
      BY <2>1, <3>1 DEF TypeOK, leaseVars
    <3>2. CASE owner' = p /\ alive' = TRUE
      BY <2>1, <3>2
    <3> QED
      BY <3>1, <3>2
  <2>3. step' \in [Peer -> Step]
    BY <2>1 DEF TypeOK, GoTo
  <2> QED
    BY <2>1, <2>2, <2>3 DEF TypeOK, GoTo, sendVars
<1>2. WriteOK(p) /\ PassOK(p)
  BY DEF PipeInv
<1>3. /\ step'[p] = to /\ healthy' = healthy /\ avail' = avail /\ scan' = scan
      /\ UNCHANGED <<left, sent, target, linked, made>>
  BY <1>1 DEF TypeOK, GoTo, sendVars
<1>4. PassOK(p)' /\ WriteOK(p)'
  BY <1>2, <1>3 DEF PassOK, WriteOK
<1>5. OthersKept(p)
  BY <1>1 DEF OthersKept, TypeOK, GoTo, sendVars
<1> QED
  BY <1>1, <1>4, <1>5, OneMoves

----------------------------------------------------------------------------
(* Scan, query, aggregate                                                   *)

GoesOn(s) == s.wanted /\ s.next < TotalShards

\* A scan that goes on to the next shard, or ends and brings its result.
LEMMA GoOnGives ==
    ASSUME TypeOK, NEW p \in Peer, NEW q \in Peer,
           NEW s \in [wanted: BOOLEAN, next: 0 .. TotalShards, found: SUBSET Shard, doomed: BOOLEAN],
           GoOn(p, q, s)
    PROVE  /\ scan' \in [Peer -> [Peer -> Scan]]
           /\ healthy' \in [Peer -> SUBSET Shard] /\ avail' \in [Peer -> SUBSET Shard]
           /\ scan'[p][q] = IF GoesOn(s) THEN s ELSE NoScan
           /\ avail'[p] = IF GoesOn(s) THEN avail[p] ELSE avail[p] \cup s.found
           /\ healthy'[p] = healthy[p] \/ (healthy'[p] = s.found /\ s.found \subseteq avail'[p])
           /\ \A r \in Peer \ {q} : scan'[p][r] = scan[p][r]
           /\ \A r \in Peer \ {p} :
                 scan'[r] = scan[r] /\ healthy'[r] = healthy[r] /\ avail'[r] = avail[r]
           /\ healthy'[p] # healthy[p] => p = q
<1>1. /\ scan \in [Peer -> [Peer -> Scan]]
      /\ healthy \in [Peer -> SUBSET Shard] /\ avail \in [Peer -> SUBSET Shard]
  BY DEF TypeOK
<1>2. CASE GoesOn(s)
  <2>1. scan' = [scan EXCEPT ![p][q] = s] /\ healthy' = healthy /\ avail' = avail
    BY <1>2 DEF GoOn, GoesOn
  <2>2. s \in Scan
    BY <1>2 DEF Scan, Shard, GoesOn
  <2>3. /\ scan' \in [Peer -> [Peer -> Scan]] /\ scan'[p][q] = s
        /\ \A r \in Peer \ {q} : scan'[p][r] = scan[p][r]
        /\ \A r \in Peer \ {p} : scan'[r] = scan[r]
    BY <1>1, <2>1, <2>2
  <2>4. /\ healthy' \in [Peer -> SUBSET Shard] /\ avail' \in [Peer -> SUBSET Shard]
        /\ avail'[p] = avail[p] /\ healthy'[p] = healthy[p]
        /\ \A r \in Peer \ {p} : healthy'[r] = healthy[r] /\ avail'[r] = avail[r]
    BY <1>1, <2>1
  <2> QED
    BY <1>2, <2>3, <2>4
<1>3. CASE ~GoesOn(s)
  <2>1. /\ scan' = [scan EXCEPT ![p][q] = NoScan]
        /\ healthy' = IF p = q THEN [healthy EXCEPT ![p] = s.found] ELSE healthy
    BY <1>3 DEF GoOn, GoesOn
  <2>2. avail' = [avail EXCEPT ![p] = avail[p] \cup s.found]
    <3>1. avail[p] \in SUBSET Shard /\ s.found \in SUBSET Shard
      BY <1>1
    <3>2. AvailableShards(TotalShards, {Vouched(avail[p]), Vouched(s.found)})
            = avail[p] \cup s.found
      BY <3>1, Answered
    <3> QED
      BY <1>3, <3>2 DEF GoOn, GoesOn
  <2>3. NoScan \in Scan
    BY Scans
  <2>4. /\ scan' \in [Peer -> [Peer -> Scan]] /\ scan'[p][q] = NoScan
        /\ \A r \in Peer \ {q} : scan'[p][r] = scan[p][r]
        /\ \A r \in Peer \ {p} : scan'[r] = scan[r]
    BY <1>1, <2>1, <2>3
  <2>5. /\ avail' \in [Peer -> SUBSET Shard] /\ avail'[p] = avail[p] \cup s.found
        /\ \A r \in Peer \ {p} : avail'[r] = avail[r]
    BY <1>1, <2>2
  <2>6. /\ healthy' \in [Peer -> SUBSET Shard]
        /\ healthy'[p] = healthy[p] \/ healthy'[p] = s.found
        /\ \A r \in Peer \ {p} : healthy'[r] = healthy[r]
        /\ healthy'[p] # healthy[p] => p = q
    BY <1>1, <2>1
  <2> QED
    BY <1>3, <2>4, <2>5, <2>6
<1> QED
  BY <1>2, <1>3

\* The two ways past a shard.
LEMMA PassedTypes ==
    ASSUME TypeOK, NEW p \in Peer, NEW q \in Peer, NEW s \in {Passed(p, q), Counted(p, q)}
    PROVE  /\ s \in [wanted: BOOLEAN, next: 0 .. TotalShards, found: SUBSET Shard, doomed: BOOLEAN]
           /\ s.wanted = scan[p][q].wanted /\ ~s.doomed /\ s.next = At(p, q) + 1
           /\ s.found = scan[p][q].found \/ s.found = scan[p][q].found \cup {At(p, q)}
           /\ s = Counted(p, q) => s.found = scan[p][q].found \cup {At(p, q)}
           /\ s = Passed(p, q) => s.found = scan[p][q].found
           /\ At(p, q) \in Shard
<1>1. scan[p][q] \in [wanted: BOOLEAN, next: Shard, found: SUBSET Shard, doomed: BOOLEAN]
  BY DEF TypeOK, Scan
<1>2. /\ At(p, q) = scan[p][q].next /\ At(p, q) \in Shard /\ At(p, q) + 1 \in 0 .. TotalShards
  BY <1>1 DEF At, Shard
<1>3. /\ Passed(p, q) \in
            [wanted: BOOLEAN, next: 0 .. TotalShards, found: SUBSET Shard, doomed: BOOLEAN]
      /\ Passed(p, q).wanted = scan[p][q].wanted /\ ~Passed(p, q).doomed
      /\ Passed(p, q).next = At(p, q) + 1 /\ Passed(p, q).found = scan[p][q].found
  BY <1>1, <1>2 DEF Passed
<1>4. /\ Counted(p, q) \in
            [wanted: BOOLEAN, next: 0 .. TotalShards, found: SUBSET Shard, doomed: BOOLEAN]
      /\ Counted(p, q).wanted = scan[p][q].wanted /\ ~Counted(p, q).doomed
      /\ Counted(p, q).next = At(p, q) + 1
      /\ Counted(p, q).found = scan[p][q].found \cup {At(p, q)}
  BY <1>2, <1>3 DEF Counted
<1> QED
  BY <1>2, <1>3, <1>4

\* A step of the scan on q for the pass of p, whatever it does to the disk.
LEMMA GoOnStep ==
    ASSUME PipeInv, NEW p \in Peer, NEW q \in Peer, NEW s \in {Passed(p, q), Counted(p, q)},
           s = Passed(p, q) \/ scan[p][q].wanted, scan[p][q].wanted \/ scan[p][q].doomed,
           GoOn(p, q, s), UNCHANGED <<step, toAsk, made, left, sent, target, leaseVars>>,
           disk' \in [Peer -> [Shard -> {"absent", "good", "bad"}]],
           linked' \in [Peer -> BOOLEAN], faults' \in 0 .. MaxFaults,
           \A r \in Peer : linked'[r] => linked[r]
    PROVE  PipeInv'
<1>1. TypeOK /\ PassOK(p) /\ WriteOK(p)
  BY DEF PipeInv
<1>2. /\ s \in [wanted: BOOLEAN, next: 0 .. TotalShards, found: SUBSET Shard, doomed: BOOLEAN]
      /\ s.wanted = scan[p][q].wanted /\ ~s.doomed
      /\ ~s.wanted => s.found = {} /\ p # q
  <2>1. ~scan[p][q].wanted => s = Passed(p, q) /\ scan[p][q].found = {} /\ p # q
    BY <1>1 DEF PassOK
  <2>2. /\ s \in [wanted: BOOLEAN, next: 0 .. TotalShards, found: SUBSET Shard, doomed: BOOLEAN]
        /\ s.wanted = scan[p][q].wanted /\ ~s.doomed
        /\ s = Passed(p, q) => s.found = scan[p][q].found
    BY <1>1, PassedTypes
  <2> QED
    BY <2>1, <2>2
<1>3. /\ scan' \in [Peer -> [Peer -> Scan]]
      /\ healthy' \in [Peer -> SUBSET Shard] /\ avail' \in [Peer -> SUBSET Shard]
      /\ scan'[p][q] = IF GoesOn(s) THEN s ELSE NoScan
      /\ avail'[p] = IF GoesOn(s) THEN avail[p] ELSE avail[p] \cup s.found
      /\ healthy'[p] = healthy[p] \/ (healthy'[p] = s.found /\ s.found \subseteq avail'[p])
      /\ \A r \in Peer \ {q} : scan'[p][r] = scan[p][r]
      /\ \A r \in Peer \ {p} :
            scan'[r] = scan[r] /\ healthy'[r] = healthy[r] /\ avail'[r] = avail[r]
      /\ healthy'[p] # healthy[p] => p = q
  <2>1. /\ TypeOK
        /\ s \in [wanted: BOOLEAN, next: 0 .. TotalShards, found: SUBSET Shard, doomed: BOOLEAN]
    BY <1>1, <1>2
  <2> QED
    BY <2>1, GoOnGives
<1>4. TypeOK'
  BY <1>1, <1>3 DEF TypeOK, leaseVars
<1>5. PassOK(p)'
  <2>1. healthy'[p] \subseteq avail'[p]
    BY <1>1, <1>3 DEF PassOK
  <2>2. \A r \in Peer :
          IF scan'[p][r].wanted
            THEN step'[p] = "querying"
            ELSE scan'[p][r].found = {} /\ (scan'[p][r].doomed => r # p)
    <3>1. scan[p][q].wanted => step[p] = "querying"
      BY <1>1 DEF PassOK
    <3>2. IF scan'[p][q].wanted
            THEN step'[p] = "querying"
            ELSE scan'[p][q].found = {} /\ ~scan'[p][q].doomed
      <4>1. CASE GoesOn(s)
        BY <1>2, <1>3, <3>1, <4>1 DEF GoesOn
      <4>2. CASE ~GoesOn(s)
        BY <1>3, <4>2, Scans
      <4> QED
        BY <4>1, <4>2
    <3>3. \A r \in Peer \ {q} :
            IF scan'[p][r].wanted
              THEN step'[p] = "querying"
              ELSE scan'[p][r].found = {} /\ (scan'[p][r].doomed => r # p)
      BY <1>1, <1>3 DEF PassOK
    <3> QED
      BY <3>2, <3>3
  <2>3. CASE s.wanted
    BY <1>1, <1>2, <2>1, <2>2, <2>3 DEF PassOK
  <2>4. CASE ~s.wanted
    <3>1. avail'[p] = avail[p] /\ healthy'[p] = healthy[p]
      BY <1>2, <1>3, <2>4 DEF GoesOn
    <3> QED
      BY <1>1, <2>1, <2>2, <3>1 DEF PassOK
  <2> QED
    BY <2>3, <2>4
<1>6. WriteOK(p)'
  BY <1>1 DEF WriteOK
<1>7. OthersKept(p) /\ (alive' => owner' # None)
  BY <1>3 DEF OthersKept, PipeInv, leaseVars
<1> QED
  BY <1>4, <1>5, <1>6, <1>7, OneMoves

\* A step that only begins, dooms or gives up the scan on q for the pass of p.
LEMMA ScanSet ==
    ASSUME PipeInv, NEW p \in Peer, NEW q \in Peer, NEW t \in Scan,
           IF t.wanted THEN step[p] = "querying" ELSE t.found = {} /\ (t.doomed => q # p),
           scan' = [scan EXCEPT ![p][q] = t],
           toAsk' \in [Peer -> SUBSET Peer], faults' \in 0 .. MaxFaults,
           UNCHANGED <<disk, step, healthy, avail, sendVars, leaseVars>>
    PROVE  PipeInv'
<1>1. TypeOK /\ PassOK(p) /\ WriteOK(p)
  BY DEF PipeInv
<1>2. /\ scan' \in [Peer -> [Peer -> Scan]] /\ scan'[p][q] = t
      /\ \A r \in Peer \ {q} : scan'[p][r] = scan[p][r]
      /\ \A r \in Peer \ {p} : scan'[r] = scan[r]
  BY <1>1 DEF TypeOK
<1>3. TypeOK'
  BY <1>1, <1>2 DEF TypeOK, sendVars, leaseVars
<1>4. PassOK(p)' /\ WriteOK(p)'
  BY <1>1, <1>2 DEF PassOK, WriteOK, sendVars
<1>5. OthersKept(p) /\ (alive' => owner' # None)
  BY <1>2 DEF OthersKept, PipeInv, sendVars, leaseVars
<1> QED
  BY <1>3, <1>4, <1>5, OneMoves

\* The verdict against the next shard.
LEMMA DoomedSet ==
    ASSUME PipeInv, NEW p \in Peer, NEW q \in Peer, scan[p][q].wanted, scan' = Doomed(p, q),
           UNCHANGED <<disk, step, healthy, toAsk, avail, sendVars, leaseVars>>,
           faults' \in 0 .. MaxFaults
    PROVE  PipeInv'
<1> DEFINE t == [scan[p][q] EXCEPT !.doomed = TRUE]
<1>1. scan[p][q] \in Scan /\ toAsk \in [Peer -> SUBSET Peer] /\ PassOK(p)
  BY DEF PipeInv, TypeOK
<1>2. t \in Scan /\ t.wanted = scan[p][q].wanted
  BY <1>1 DEF Scan
<1>3. scan' = [scan EXCEPT ![p][q] = t]
  BY DEF Doomed
<1>4. step[p] = "querying" /\ toAsk' \in [Peer -> SUBSET Peer]
  BY <1>1 DEF PassOK
<1> HIDE DEF t
<1> QED
  BY <1>2, <1>3, <1>4, ScanSet

LEMMA JudgeStep ==
    ASSUME PipeInv, NEW p \in Peer, NEW q \in Peer, Judge(p, q)
    PROVE  PipeInv'
<1>1. /\ UNCHANGED <<disk, step, toAsk, made, left, sent, target, linked, leaseVars>>
      /\ disk' \in [Peer -> [Shard -> {"absent", "good", "bad"}]]
      /\ linked' \in [Peer -> BOOLEAN] /\ faults' \in 0 .. MaxFaults
      /\ scan[p][q].wanted
  BY DEF PipeInv, TypeOK, Judge, sendVars
<1>2. CASE GoOn(p, q, Counted(p, q))
  BY <1>1, <1>2, GoOnStep
<1>3. CASE GoOn(p, q, Passed(p, q))
  BY <1>1, <1>3, GoOnStep
<1>4. CASE scan' = Doomed(p, q) /\ UNCHANGED <<healthy, avail>>
  <2>1. UNCHANGED sendVars
    BY DEF Judge
  <2> QED
    BY <1>1, <1>4, <2>1, DoomedSet
<1> QED
  BY <1>2, <1>3, <1>4 DEF Judge

LEMMA ReadFailsStep ==
    ASSUME PipeInv, NEW p \in Peer, NEW q \in Peer, ReadFails(p, q)
    PROVE  PipeInv'
<1>1. /\ scan[p][q].wanted /\ scan' = Doomed(p, q) /\ faults' \in 0 .. MaxFaults
      /\ UNCHANGED <<disk, step, healthy, toAsk, avail, sendVars, leaseVars>>
  BY DEF PipeInv, TypeOK, ReadFails, Fault
<1> QED
  BY <1>1, DoomedSet

LEMMA MoveStep ==
    ASSUME PipeInv, NEW p \in Peer, NEW q \in Peer, Move(p, q)
    PROVE  PipeInv'
<1>1. /\ disk' \in [Peer -> [Shard -> {"absent", "good", "bad"}]]
      /\ linked' \in [Peer -> BOOLEAN] /\ \A r \in Peer : linked'[r] => linked[r]
  BY MoveKeeps DEF PipeInv
<1>2. /\ scan[p][q].doomed /\ GoOn(p, q, Passed(p, q)) /\ faults' \in 0 .. MaxFaults
      /\ UNCHANGED <<step, toAsk, made, left, sent, target, leaseVars>>
  BY DEF PipeInv, TypeOK, Move
<1> QED
  BY <1>1, <1>2, GoOnStep

LEMMA MoveFailsStep ==
    ASSUME PipeInv, NEW p \in Peer, NEW q \in Peer, MoveFails(p, q)
    PROVE  PipeInv'
<1>1. /\ disk' \in [Peer -> [Shard -> {"absent", "good", "bad"}]]
      /\ linked' \in [Peer -> BOOLEAN] /\ \A r \in Peer : linked'[r] => linked[r]
      /\ scan[p][q].doomed /\ GoOn(p, q, Passed(p, q)) /\ faults' \in 0 .. MaxFaults
      /\ UNCHANGED <<step, toAsk, made, left, sent, target, leaseVars>>
  BY DEF PipeInv, TypeOK, MoveFails, Fault, sendVars
<1> QED
  BY <1>1, GoOnStep

LEMMA StartStep ==
    ASSUME PipeInv, NEW p \in Peer, Start(p)
    PROVE  PipeInv'
<1>1. TypeOK /\ PassOK(p) /\ WriteOK(p) /\ step[p] = "idle"
  BY DEF PipeInv, Start
<1>2. NewScan \in Scan /\ NewScan.wanted
  BY Scans
<1>3. /\ scan' \in [Peer -> [Peer -> Scan]] /\ scan'[p][p] = NewScan
      /\ \A r \in Peer \ {p} : scan'[p][r] = scan[p][r] /\ scan'[r] = scan[r]
  BY <1>1, <1>2 DEF TypeOK, Start
<1>4. TypeOK' /\ step'[p] = "querying"
  BY <1>1, <1>3 DEF TypeOK, Start, sendVars, leaseVars, Step
<1>5. PassOK(p)' /\ WriteOK(p)'
  BY <1>1, <1>2, <1>3, <1>4 DEF PassOK, WriteOK, Start, sendVars
<1>6. OthersKept(p) /\ (alive' => owner' # None)
  BY <1>1, <1>3 DEF OthersKept, PipeInv, TypeOK, Start, sendVars, leaseVars
<1> QED
  BY <1>4, <1>5, <1>6, OneMoves

LEMMA QueryStep ==
    ASSUME PipeInv, NEW p \in Peer, NEW q \in Peer, Query(p, q)
    PROVE  PipeInv'
<1>1. NewScan \in Scan /\ NewScan.wanted
  BY Scans
<1>2. /\ step[p] = "querying" /\ scan' = [scan EXCEPT ![p][q] = NewScan]
      /\ toAsk' \in [Peer -> SUBSET Peer] /\ faults' \in 0 .. MaxFaults
      /\ UNCHANGED <<disk, step, healthy, avail, sendVars, leaseVars>>
  BY DEF PipeInv, TypeOK, Query, Free
<1> QED
  BY <1>1, <1>2, ScanSet

LEMMA QueryFailsStep ==
    ASSUME PipeInv, NEW p \in Peer, NEW q \in Peer, QueryFails(p, q)
    PROVE  PipeInv'
<1> DEFINE t == IF UNCHANGED scan THEN scan[p][q] ELSE Abandoned(p, q)
<1>1. TypeOK /\ PassOK(p) /\ scan[p][q] \in Scan
  BY DEF PipeInv, TypeOK
<1>2. /\ t \in Scan
      /\ IF t.wanted THEN step[p] = "querying" ELSE t.found = {} /\ (t.doomed => q # p)
  <2>1. CASE UNCHANGED scan
    BY <1>1, <2>1 DEF PassOK
  <2>2. CASE ~UNCHANGED scan
    <3>1. q # p
      BY <2>2 DEF QueryFails
    <3>2. /\ Abandoned(p, q) \in Scan
          /\ ~Abandoned(p, q).wanted /\ Abandoned(p, q).found = {}
      BY <1>1, AbandonedScan
    <3> QED
      BY <2>2, <3>1, <3>2
  <2> QED
    BY <2>1, <2>2
<1>3. scan' = [scan EXCEPT ![p][q] = t]
  <2>1. CASE UNCHANGED scan
    BY <1>1, <2>1 DEF TypeOK
  <2>2. CASE ~UNCHANGED scan
    BY <2>2 DEF QueryFails
  <2> QED
    BY <2>1, <2>2
<1>4. /\ toAsk' \in [Peer -> SUBSET Peer] /\ faults' \in 0 .. MaxFaults
      /\ UNCHANGED <<disk, step, healthy, avail, sendVars, leaseVars>>
  <2>1. toAsk \in [Peer -> SUBSET Peer] /\ faults \in 0 .. MaxFaults
    BY <1>1 DEF TypeOK
  <2>2. toAsk' \in [Peer -> SUBSET Peer]
    BY <2>1 DEF QueryFails
  <2>3. faults' \in 0 .. MaxFaults
    BY <2>1 DEF QueryFails, Fault
  <2> QED
    BY <2>2, <2>3 DEF QueryFails
<1> HIDE DEF t
<1> QED
  BY <1>2, <1>3, <1>4, ScanSet

LEMMA AggregateStep ==
    ASSUME PipeInv, NEW p \in Peer, Aggregate(p)
    PROVE  PipeInv'
<1>1. step[p] = "querying" /\ faults' \in 0 .. MaxFaults /\ UNCHANGED <<disk, sendVars, leaseVars>>
  BY DEF Aggregate, Free, PipeInv, TypeOK
<1>2. CASE avail[p] = Shard
  BY <1>1, <1>2, ReturnStep DEF Aggregate
<1>3. CASE avail[p] # Shard
  BY <1>1, <1>3, GoToStep DEF Aggregate, Free, Step
<1> QED
  BY <1>2, <1>3

----------------------------------------------------------------------------
(* The lease                                                                *)

\* Between the aggregation and the writing a pass knows of a missing shard.
LEMMA SomethingMissing ==
    ASSUME PipeInv, NEW p \in Peer, step[p] \in {"leasing", "putting", "settling", "repairing"}
    PROVE  avail[p] # Shard /\ \A q \in Peer : ~scan[p][q].wanted
  BY DEF PipeInv, PassOK

LEMMA LeaseStep ==
    ASSUME PipeInv, NEW p \in Peer,
           ReadLease(p) \/ PutLease(p) \/ ReadBack(p) \/ StoreFails(p)
    PROVE  PipeInv'
<1>1. /\ step[p] \in {"leasing", "putting", "settling"} /\ step[p] # "writing"
      /\ avail[p] # Shard /\ \A q \in Peer : ~scan[p][q].wanted
  BY SomethingMissing DEF ReadLease, PutLease, ReadBack, StoreFails
<1>2. /\ faults' \in 0 .. MaxFaults /\ UNCHANGED <<disk, sendVars>>
      /\ UNCHANGED leaseVars \/ (owner' = p /\ alive' = TRUE)
  BY DEF ReadLease, PutLease, ReadBack, StoreFails, Fault, PipeInv, TypeOK
<1>3. \/ Return(p) /\ UNCHANGED leaseVars
      \/ \E to \in {"putting", "settling", "repairing"} : GoTo(p, to)
  BY DEF ReadLease, PutLease, ReadBack, StoreFails
<1>4. CASE Return(p) /\ UNCHANGED leaseVars
  BY <1>1, <1>2, <1>4, ReturnStep
<1>5. CASE \E to \in {"putting", "settling", "repairing"} : GoTo(p, to)
  <2>1. PICK to \in {"putting", "settling", "repairing"} : GoTo(p, to)
    BY <1>5
  <2>2. to \in Step \ {"idle", "querying", "writing"}
    BY DEF Step
  <2> QED
    BY <1>1, <1>2, <2>1, <2>2, GoToStep
<1> QED
  BY <1>3, <1>4, <1>5

LEMMA LeaseExpiresStep ==
    ASSUME PipeInv, LeaseExpires
    PROVE  PipeInv'
<1>1. TypeOK'
  <2>1. TypeOK /\ faults' \in 0 .. MaxFaults /\ alive' = FALSE
    BY DEF PipeInv, TypeOK, LeaseExpires, Fault
  <2>2. UNCHANGED <<disk, step, healthy, toAsk, avail, scan, made, left, sent, target, linked, owner>>
    BY DEF LeaseExpires, passVars, sendVars
  <2> QED
    BY <2>1, <2>2 DEF TypeOK
<1>2. ~alive' /\ \A p \in Peer : PassOK(p)' /\ WriteOK(p)'
  BY DEF PipeInv, LeaseExpires, passVars, sendVars, PassOK, WriteOK
<1> QED
  BY <1>1, <1>2 DEF PipeInv

----------------------------------------------------------------------------
(* Repair                                                                   *)

\* Every pass that writes has a shard to write, and it is a missing one.
LEMMA CurrentMissing ==
    ASSUME PipeInv, NEW p \in Peer, step[p] = "writing"
    PROVE  Current(p) \in Shard /\ Current(p) \notin avail[p]
<1>1. left[p] \in SUBSET Shard /\ left[p] # {} /\ left[p] \cap avail[p] = {}
  BY DEF PipeInv, TypeOK, PassOK
<1>2. left[p] \subseteq Nat
  BY <1>1 DEF Shard
<1>3. Current(p) \in left[p]
  BY <1>1, <1>2, HasFirst DEF Current
<1> QED
  BY <1>1, <1>3

LEMMA ReconstructStep ==
    ASSUME PipeInv, NEW p \in Peer, Reconstruct(p)
    PROVE  PipeInv'
<1>1. step[p] = "repairing" /\ UNCHANGED <<disk, leaseVars, faults>> /\ TypeOK /\ PassOK(p) /\ WriteOK(p)
  BY DEF Reconstruct, PipeInv
<1>2. CASE ~Verified(p)
  <2>1. Return(p) /\ UNCHANGED sendVars /\ faults' \in 0 .. MaxFaults
    BY <1>1, <1>2 DEF Reconstruct, TypeOK
  <2> QED
    BY <1>1, <2>1, ReturnStep
<1>3. CASE Verified(p)
  <2>1. /\ GoTo(p, "writing")
        /\ made' = [made EXCEPT ![p] = "good"]
        /\ left' = [left EXCEPT ![p] = Shard \ avail[p]]
        /\ UNCHANGED <<sent, target, linked>>
        /\ Cardinality(healthy[p]) >= DataShards
    BY <1>3 DEF Reconstruct, Verified, CanRead
  <2>2. TypeOK'
    BY <1>1, <2>1 DEF TypeOK, GoTo, Step, leaseVars
  <2>3. /\ step'[p] = "writing" /\ healthy' = healthy /\ avail' = avail /\ scan' = scan
        /\ made'[p] = "good" /\ left'[p] = Shard \ avail[p]
    BY <1>1, <2>1 DEF TypeOK, GoTo
  <2>4. avail[p] # Shard /\ avail[p] \subseteq Shard
    BY <1>1 DEF PassOK, TypeOK
  <2>5. PassOK(p)' /\ WriteOK(p)'
    BY <1>1, <2>1, <2>3, <2>4 DEF PassOK, WriteOK
  <2>6. OthersKept(p) /\ (alive' => owner' # None)
    BY <1>1, <2>1 DEF OthersKept, PipeInv, TypeOK, GoTo, leaseVars
  <2> QED
    BY <2>2, <2>5, <2>6, OneMoves
<1> QED
  BY <1>2, <1>3

\* The next node is one that the shard has not been sent to.
LEMMA NextTargetNew ==
    ASSUME NEW p \in Peer, NEW q \in Peer, NextTarget(p, q)
    PROVE  step[p] = "writing" /\ target[p] = None /\ q \notin sent[p]
  BY DEF NextTarget

LEMMA OpenFileStep ==
    ASSUME PipeInv, NEW p \in Peer, NEW q \in Peer, OpenFile(p, q)
    PROVE  PipeInv'
<1>1. TypeOK /\ PassOK(p) /\ WriteOK(p) /\ step[p] = "writing" /\ q \notin sent[p] /\ q # None
  BY NextTargetNew DEF PipeInv, OpenFile
<1>2. disk' \in [Peer -> [Shard -> {"absent", "good", "bad"}]]
  BY <1>1 DEF TypeOK, OpenFile
<1>3. TypeOK'
  BY <1>1, <1>2 DEF TypeOK, OpenFile, passVars, leaseVars
<1>4. /\ target'[p] = q /\ UNCHANGED <<step, healthy, avail, scan, made, left, sent>>
  BY <1>1 DEF TypeOK, OpenFile, passVars
<1>5. PassOK(p)' /\ WriteOK(p)'
  BY <1>1, <1>4 DEF PassOK, WriteOK
<1>6. OthersKept(p) /\ (alive' => owner' # None)
  BY <1>1 DEF OthersKept, PipeInv, TypeOK, OpenFile, passVars, leaseVars
<1> QED
  BY <1>3, <1>5, <1>6, OneMoves

\* The end of a write, whatever came of it.
LEMMA ProceedStep ==
    ASSUME PipeInv, NEW p \in Peer, NEW q \in Peer, step[p] = "writing", q \notin sent[p],
           Proceed(p, q), UNCHANGED leaseVars,
           disk' \in [Peer -> [Shard -> {"absent", "good", "bad"}]],
           linked' \in [Peer -> BOOLEAN], faults' \in 0 .. MaxFaults,
           ~linked'[p], \A r \in Peer : linked'[r] => linked[r]
    PROVE  PipeInv'
<1> DEFINE done == sent[p] \cup {q} = Peer
           rest == IF done THEN left[p] \ {Current(p)} ELSE left[p]
           sentNow == IF done THEN {} ELSE sent[p] \cup {q}
<1>1. TypeOK /\ PassOK(p) /\ WriteOK(p)
  BY DEF PipeInv
<1>2. /\ left' = [left EXCEPT ![p] = rest] /\ made' = made
      /\ sent' = [sent EXCEPT ![p] = sentNow]
      /\ target' = [target EXCEPT ![p] = None]
      /\ IF rest = {} THEN Return(p) ELSE UNCHANGED passVars
  BY DEF Proceed
<1>3. /\ rest \in SUBSET Shard /\ rest \subseteq left[p]
      /\ sentNow \in SUBSET Peer /\ sentNow # Peer
      /\ rest = {} => sentNow = {}
  BY <1>1 DEF TypeOK, PassOK
<1> HIDE DEF done, rest, sentNow
<1>4. /\ left' \in [Peer -> SUBSET Shard] /\ left'[p] = rest
      /\ sent' \in [Peer -> SUBSET Peer] /\ sent'[p] = sentNow
      /\ target' \in [Peer -> Peer \cup {None}] /\ target'[p] = None
  BY <1>1, <1>2, <1>3 DEF TypeOK
<1>5. CASE rest = {}
  <2>1. Return(p)
    BY <1>2, <1>5
  <2> DEFINE over == \A r \in Peer : /\ ~scan'[p][r].wanted /\ scan'[p][r].found = {}
                                     /\ scan'[p][r].doomed => r # p
  <2>2. /\ TypeOK' /\ over
        /\ \A r \in Peer \ {p} : scan'[r] = scan[r]
    <3>1. /\ scan' \in [Peer -> [Peer -> Scan]] /\ over
          /\ \A r \in Peer \ {p} : scan'[r] = scan[r]
      BY <1>1, <2>1, ReturnScan
    <3> HIDE DEF over
    <3> QED
      BY <1>1, <1>2, <1>4, <2>1, <3>1 DEF TypeOK, Return, Step, leaseVars
  <2>3. step'[p] = "idle" /\ healthy'[p] = {} /\ avail'[p] = {}
    BY <1>1, <2>1 DEF TypeOK, Return
  <2>4. PassOK(p)' /\ WriteOK(p)'
    BY <1>1, <1>2, <1>3, <1>4, <1>5, <2>2, <2>3 DEF PassOK, WriteOK
  <2>5. OthersKept(p) /\ (alive' => owner' # None)
    BY <1>1, <1>2, <2>1, <2>2 DEF OthersKept, PipeInv, TypeOK, Return, leaseVars
  <2> QED
    BY <2>2, <2>4, <2>5, OneMoves
<1>6. CASE rest # {}
  <2>1. UNCHANGED <<step, healthy, toAsk, avail, scan>>
    BY <1>2, <1>6 DEF passVars
  <2>2. TypeOK'
    BY <1>1, <1>2, <1>4, <2>1 DEF TypeOK, leaseVars
  <2>3. PassOK(p)' /\ WriteOK(p)'
    BY <1>1, <1>2, <1>3, <1>4, <1>6, <2>1 DEF PassOK, WriteOK
  <2>4. OthersKept(p) /\ (alive' => owner' # None)
    BY <1>1, <1>2, <2>1 DEF OthersKept, PipeInv, TypeOK, leaseVars
  <2> QED
    BY <2>2, <2>3, <2>4, OneMoves
<1> QED
  BY <1>5, <1>6

\* Whoever has a file open is writing.
LEMMA OpenIsWriting ==
    ASSUME PipeInv, NEW p \in Peer, target[p] # None
    PROVE  target[p] \in Peer /\ step[p] = "writing" /\ target[p] \notin sent[p] /\ made[p] = "good"
  BY DEF PipeInv, TypeOK, WriteOK

LEMMA CloseFileStep ==
    ASSUME PipeInv, NEW p \in Peer, CloseFile(p)
    PROVE  PipeInv' /\ \A r \in Peer : Lost(r) = {}
<1> DEFINE q == target[p]
<1>1. TypeOK /\ q \in Peer /\ step[p] = "writing" /\ q \notin sent[p] /\ made[p] = "good"
  BY OpenIsWriting DEF CloseFile, PipeInv
<1>2. /\ disk' \in [Peer -> [Shard -> {"absent", "good", "bad"}]]
      /\ \A r \in Peer : \A i \in Shard : disk[r][i] = "good" => disk'[r][i] = "good"
  <2>1. CASE ~Completes(p)
    BY <1>1, <2>1 DEF CloseFile, TypeOK
  <2>2. CASE Completes(p)
    <3>1. disk' = [disk EXCEPT ![q][Current(p)] = "good"]
      BY <1>1, <2>2 DEF CloseFile
    <3>2. disk \in [Peer -> [Shard -> {"absent", "good", "bad"}]]
      BY <1>1 DEF TypeOK
    <3> QED
      BY <3>1, <3>2
  <2> QED
    BY <2>1, <2>2
<1>3. linked' \in [Peer -> BOOLEAN] /\ ~linked'[p] /\ \A r \in Peer : linked'[r] => linked[r]
  BY <1>1 DEF CloseFile, TypeOK
<1>4. Proceed(p, q) /\ UNCHANGED leaseVars /\ faults' \in 0 .. MaxFaults
  BY <1>1 DEF CloseFile, TypeOK
<1>5. PipeInv'
  BY <1>1, <1>2, <1>3, <1>4, ProceedStep
<1> QED
  BY <1>2, <1>5 DEF Lost, Good

LEMMA WriteBreaksStep ==
    ASSUME PipeInv, NEW p \in Peer, WriteBreaks(p)
    PROVE  PipeInv'
<1> DEFINE q == target[p]
<1>1. TypeOK /\ q \in Peer /\ step[p] = "writing" /\ q \notin sent[p]
  BY OpenIsWriting DEF WriteBreaks, PipeInv
<1>2. Proceed(p, q) /\ UNCHANGED leaseVars /\ faults' \in 0 .. MaxFaults
  BY <1>1 DEF WriteBreaks, Fault, TypeOK
<1>3. PICK spoilt \in BOOLEAN :
        linked' = [r \in Peer |-> linked[r] /\ r # p /\ ~(spoilt /\ SameFile(p, r))]
  BY DEF WriteBreaks
<1>4. linked' \in [Peer -> BOOLEAN] /\ ~linked'[p] /\ \A r \in Peer : linked'[r] => linked[r]
  BY <1>3
<1>5. disk' \in [Peer -> [Shard -> {"absent", "good", "bad"}]]
  BY <1>1 DEF WriteBreaks, TypeOK
<1> QED
  BY <1>1, <1>2, <1>4, <1>5, ProceedStep

LEMMA PushLostStep ==
    ASSUME PipeInv, NEW p \in Peer, NEW q \in Peer, PushLost(p, q)
    PROVE  PipeInv'
<1>1. TypeOK /\ WriteOK(p) /\ step[p] = "writing" /\ target[p] = None /\ q \notin sent[p]
  BY NextTargetNew DEF PipeInv, PushLost
<1>2. /\ Proceed(p, q) /\ UNCHANGED leaseVars /\ faults' \in 0 .. MaxFaults
      /\ disk' \in [Peer -> [Shard -> {"absent", "good", "bad"}]]
      /\ linked' = linked
  BY <1>1 DEF PushLost, Fault, TypeOK
<1>3. linked' \in [Peer -> BOOLEAN] /\ ~linked'[p] /\ \A r \in Peer : linked'[r] => linked[r]
  BY <1>1, <1>2 DEF TypeOK, WriteOK
<1> QED
  BY <1>1, <1>2, <1>3, ProceedStep

----------------------------------------------------------------------------
(* Damage                                                                   *)

\* What only touches the disks and unlinks files.
LEMMA DiskStep ==
    ASSUME PipeInv, UNCHANGED <<passVars, made, left, sent, target, leaseVars>>,
           disk' \in [Peer -> [Shard -> {"absent", "good", "bad"}]],
           linked' \in [Peer -> BOOLEAN], faults' \in 0 .. MaxFaults,
           \A r \in Peer : linked'[r] => linked[r]
    PROVE  PipeInv'
<1>1. UNCHANGED <<step, healthy, toAsk, avail, scan, made, left, sent, target, owner, alive>>
  BY DEF passVars, leaseVars
<1>2. TypeOK'
  BY <1>1 DEF PipeInv, TypeOK
<1>3. \A p \in Peer : PassOK(p)' /\ WriteOK(p)'
  BY <1>1 DEF PipeInv, PassOK, WriteOK
<1> QED
  BY <1>1, <1>2, <1>3 DEF PipeInv

LEMMA BitRotStep ==
    ASSUME PipeInv, NEW p \in Peer, NEW i \in Shard, BitRot(p, i)
    PROVE  PipeInv'
<1>1. /\ disk' \in [Peer -> [Shard -> {"absent", "good", "bad"}]]
      /\ linked' = linked /\ linked \in [Peer -> BOOLEAN] /\ faults' \in 0 .. MaxFaults
      /\ UNCHANGED <<passVars, made, left, sent, target, leaseVars>>
  BY DEF PipeInv, TypeOK, BitRot, Fault, sendVars
<1> QED
  BY <1>1, DiskStep

LEMMA ShardLostStep ==
    ASSUME PipeInv, NEW p \in Peer, NEW i \in Shard, ShardLost(p, i)
    PROVE  PipeInv'
<1>1. /\ disk' \in [Peer -> [Shard -> {"absent", "good", "bad"}]]
      /\ linked' \in [Peer -> BOOLEAN] /\ faults' \in 0 .. MaxFaults
      /\ \A r \in Peer : linked'[r] => linked[r]
      /\ UNCHANGED <<passVars, made, left, sent, target, leaseVars>>
  BY DEF PipeInv, TypeOK, ShardLost, Fault, Unlinked
<1> QED
  BY <1>1, DiskStep

LEMMA CrashStep ==
    ASSUME PipeInv, NEW p \in Peer, Crash(p)
    PROVE  PipeInv'
<1> DEFINE over == \A q \in Peer : /\ ~scan'[p][q].wanted /\ scan'[p][q].found = {}
                                   /\ scan'[p][q].doomed => q # p
<1>1. TypeOK /\ WriteOK(p)
  BY DEF PipeInv
<1>2. /\ TypeOK' /\ over
      /\ \A r \in Peer \ {p} : scan'[r] = scan[r]
  <2>1. /\ scan' \in [Peer -> [Peer -> Scan]] /\ over
        /\ \A r \in Peer \ {p} : scan'[r] = scan[r]
    BY <1>1, ReturnScan DEF Crash
  <2> HIDE DEF over
  <2> QED
    BY <1>1, <2>1 DEF TypeOK, Crash, Return, Fault, Step, leaseVars
<1>3. /\ step'[p] = "idle" /\ healthy'[p] = {} /\ avail'[p] = {}
      /\ left'[p] = {} /\ sent'[p] = {} /\ target'[p] = None /\ ~linked'[p]
      /\ made'[p] = "good"
  BY <1>1 DEF TypeOK, Crash, Return, WriteOK
<1>4. PassOK(p)' /\ WriteOK(p)'
  BY <1>2, <1>3 DEF PassOK, WriteOK
<1>5. OthersKept(p) /\ (alive' => owner' # None)
  BY <1>1, <1>2 DEF OthersKept, PipeInv, TypeOK, Crash, Return, leaseVars
<1> QED
  BY <1>2, <1>4, <1>5, OneMoves

----------------------------------------------------------------------------
(* The theorems                                                             *)

LEMMA PipeInit ==
    ASSUME Init
    PROVE  PipeInv
<1>1. TypeOK
  <2>1. disk \in [Peer -> [Shard -> {"absent", "good", "bad"}]]
    BY DEF Init
  <2>2. 0 \in 0 .. MaxFaults
    OBVIOUS
  <2> QED
    BY <2>1, <2>2, Scans DEF Init, TypeOK, Step
<1>2. \A p \in Peer : PassOK(p) /\ WriteOK(p)
  BY Scans DEF Init, PassOK, WriteOK
<1> QED
  BY <1>1, <1>2 DEF Init, PipeInv

LEMMA PipeStep ==
    ASSUME PipeInv, [Next]_vars
    PROVE  PipeInv'
<1>1. CASE LeaseExpires
  BY <1>1, LeaseExpiresStep
<1>2. ASSUME NEW p \in Peer, RunOnce(p)
      PROVE  PipeInv'
  <2>1. CASE Start(p)
    BY <2>1, StartStep
  <2>2. CASE Aggregate(p)
    BY <2>2, AggregateStep
  <2>3. CASE \E q \in Peer : Judge(p, q) \/ Move(p, q) \/ Query(p, q) \/ OpenFile(p, q)
    BY <2>3, JudgeStep, MoveStep, QueryStep, OpenFileStep
  <2>4. CASE ReadLease(p) \/ PutLease(p) \/ ReadBack(p)
    BY <2>4, LeaseStep
  <2>5. CASE Reconstruct(p)
    BY <2>5, ReconstructStep
  <2>6. CASE CloseFile(p)
    BY <2>6, CloseFileStep
  <2> QED
    BY <1>2, <2>1, <2>2, <2>3, <2>4, <2>5, <2>6 DEF RunOnce
<1>3. ASSUME NEW p \in Peer, Damage(p)
      PROVE  PipeInv'
  <2>1. CASE \E q \in Peer :
                ReadFails(p, q) \/ MoveFails(p, q) \/ QueryFails(p, q) \/ PushLost(p, q)
    BY <2>1, ReadFailsStep, MoveFailsStep, QueryFailsStep, PushLostStep
  <2>2. CASE StoreFails(p)
    BY <2>2, LeaseStep
  <2>3. CASE WriteBreaks(p)
    BY <2>3, WriteBreaksStep
  <2>4. CASE Crash(p)
    BY <2>4, CrashStep
  <2>5. CASE \E i \in Shard : BitRot(p, i) \/ ShardLost(p, i)
    BY <2>5, BitRotStep, ShardLostStep
  <2> QED
    BY <1>3, <2>1, <2>2, <2>3, <2>4, <2>5 DEF Damage
<1>4. CASE UNCHANGED vars
  <2>1. UNCHANGED <<disk, passVars, made, left, sent, target, linked, leaseVars, faults>>
    BY <1>4 DEF vars, sendVars
  <2> QED
    BY <2>1, DiskStep DEF PipeInv, TypeOK
<1> QED
  BY <1>1, <1>2, <1>3, <1>4 DEF Next

LEMMA Invariance == Spec => []PipeInv
  BY PipeInit, PipeStep, PTL DEF Spec

\* The variables of RunOnce on every node keep their types, through any number
\* of damaged shards, failed calls, crashes and repairers at once: in
\* particular the loop over the missing shards stays within the shards of the
\* file, and whoever has a file open is writing to a node.
THEOREM TypeCorrect == Spec => []TypeOK
<1>1. PipeInv => TypeOK
  BY DEF PipeInv
<1> QED
  BY <1>1, Invariance, PTL

\* What opening a file costs.
LEMMA OpenFileCosts ==
    ASSUME PipeInv, NEW p \in Peer, NEW q \in Peer, OpenFile(p, q)
    PROVE  /\ \A r \in Peer \ {q} : Lost(r) = {}
           /\ Lost(q) = {} \/ Rewrites(p, q)
<1>1. TypeOK /\ PassOK(p) /\ made[p] = "good" /\ step[p] = "writing"
  BY NextTargetNew DEF PipeInv, WriteOK, OpenFile
<1>2. Current(p) \in Shard /\ Current(p) \notin avail[p]
  BY <1>1, CurrentMissing
<1>3. /\ \A r \in Peer \ {q} : disk'[r] = disk[r]
      /\ \A i \in Shard \ {Current(p)} : disk'[q][i] = disk[q][i]
  BY <1>1 DEF OpenFile, TypeOK
<1>4. \A r \in Peer \ {q} : Lost(r) = {}
  BY <1>3 DEF Lost, Good
<1>5. Lost(q) \subseteq {Current(p)}
  BY <1>3 DEF Lost, Good
<1>6. target'[p] = q /\ linked'[p]
  BY <1>1 DEF OpenFile, TypeOK
<1>7. healthy[p] \subseteq avail[p] /\ Cardinality(healthy[p]) >= DataShards
  BY <1>1 DEF PassOK
<1>8. Lost(q) = {} \/ Lost(q) = {Current(p)}
  BY <1>5
<1> QED
  BY <1>1, <1>2, <1>4, <1>6, <1>7, <1>8 DEF Rewrites

LEMMA Damages ==
    ASSUME NEW p \in Peer, Damage(p)
    PROVE  Fault
<1>1. ASSUME NEW q \in Peer, ReadFails(p, q) \/ MoveFails(p, q) \/ QueryFails(p, q) \/ PushLost(p, q)
      PROVE  Fault
  BY <1>1 DEF ReadFails, MoveFails, QueryFails, PushLost
<1>2. ASSUME NEW i \in Shard, BitRot(p, i) \/ ShardLost(p, i)
      PROVE  Fault
  BY <1>2 DEF BitRot, ShardLost
<1>3. StoreFails(p) \/ WriteBreaks(p) \/ Crash(p) => Fault
  BY DEF StoreFails, WriteBreaks, Crash
<1> QED
  BY <1>1, <1>2, <1>3 DEF Damage

\* Apart from faults a good shard goes only in two ways.  A push truncates one
\* that the pass of the repairer has seen on no node, its own included, to write
\* the right bytes, and the repairer has enough shards for them that it does not
\* write to.  Or a scan moves the one file that it has found corrupt or could
\* not read, although a push has made it good since.  This holds for stale
\* bitmaps, leases that ran out and any number of repairers.
THEOREM TakesOnlyMissing == Spec => RepairTakesOnlyMissing
<1> DEFINE OnlyMissing ==
      faults' = faults =>
         \/ \A q \in Peer : Lost(q) = {}
         \/ \E p, q \in Peer :
               /\ Rewrites(p, q) \/ Moves(p, q)
               /\ \A r \in Peer \ {q} : Lost(r) = {}
<1>1. ASSUME PipeInv, [Next]_vars
      PROVE  [OnlyMissing]_vars
  <2>1. CASE disk' = disk
    <3>1. \A q \in Peer : Lost(q) = {}
      BY <2>1 DEF Lost, Good
    <3> QED
      BY <3>1
  <2>2. ASSUME NEW p \in Peer, NEW q \in Peer, Move(p, q)
        PROVE  OnlyMissing
    <3>1. /\ \A r \in Peer \ {q} : Lost(r) = {}
          /\ Lost(q) = {} \/ Lost(q) = {At(p, q)}
      BY <1>1, <2>2, MoveKeeps DEF PipeInv
    <3>2. scan[p][q].doomed /\ scan'[p][q] # scan[p][q]
      <4>1. TypeOK /\ scan[p][q].doomed /\ GoOn(p, q, Passed(p, q))
        BY <1>1, <2>2 DEF PipeInv, Move
      <4>2. /\ Passed(p, q) \in
                  [wanted: BOOLEAN, next: 0 .. TotalShards, found: SUBSET Shard, doomed: BOOLEAN]
            /\ ~Passed(p, q).doomed
        BY <4>1, PassedTypes
      <4>3. scan'[p][q] = IF GoesOn(Passed(p, q)) THEN Passed(p, q) ELSE NoScan
        BY <4>1, <4>2, GoOnGives
      <4> QED
        BY <4>1, <4>2, <4>3, Scans
    <3> QED
      BY <3>1, <3>2 DEF Moves
  <2>3. CASE \E p, q \in Peer : OpenFile(p, q)
    BY <1>1, <2>3, OpenFileCosts
  <2>4. CASE \E p \in Peer : CloseFile(p)
    BY <1>1, <2>4, CloseFileStep
  <2>5. CASE Fault
    <3>1. faults' # faults
      BY <1>1, <2>5 DEF PipeInv, TypeOK, Fault
    <3> QED
      BY <3>1
  <2>6. \/ disk' = disk \/ Fault
        \/ \E p, q \in Peer : Move(p, q) \/ OpenFile(p, q)
        \/ \E p \in Peer : CloseFile(p)
    <3>1. ASSUME NEW p \in Peer, RunOnce(p)
          PROVE  \/ disk' = disk \/ Fault
                 \/ \E r, q \in Peer : Move(r, q) \/ OpenFile(r, q)
                 \/ \E r \in Peer : CloseFile(r)
      BY <3>1 DEF RunOnce, Start, Judge, Aggregate, Query, ReadLease, PutLease, ReadBack, Reconstruct
    <3>2. ASSUME NEW p \in Peer, Damage(p)
          PROVE  Fault
      BY <3>2, Damages
    <3>3. CASE LeaseExpires \/ UNCHANGED vars
      BY <3>3 DEF LeaseExpires, vars
    <3> QED
      BY <1>1, <3>1, <3>2, <3>3 DEF Next
  <2> QED
    BY <2>1, <2>2, <2>3, <2>4, <2>5, <2>6
<1> QED
  BY <1>1, Invariance, PTL DEF Spec, RepairTakesOnlyMissing

----------------------------------------------------------------------------
(* Fewer faults than nodes                                                  *)

\* The scan on q has missed a shard for the pass of p, or is about to move one.
Cut(p, q) ==
    \/ scan[p][q].doomed
    \/ scan[p][q].wanted /\ scan[p][q].found # 0 .. At(p, q) - 1

\* The pass of p is through with q and still misses something.
Unheard(p, q) ==
    step[p] = "querying" /\ q \notin toAsk[p] /\ ~scan[p][q].wanted /\ avail[p] # Shard

\* A fault has happened to q, or to what it told another node.
Hurt(q) ==
    \/ \E i \in Shard : disk[q][i] # "good"
    \/ \E p \in Peer : Cut(p, q) \/ Unheard(p, q)
HurtPeers == {q \in Peer : Hurt(q)}

\* A fault hurts one node, no other step hurts any, and a pass that misses a
\* shard takes all nodes to be hurt: nobody gets to write.
QuietInv ==
    faults < Cardinality(Peer) =>
        /\ \A p \in Peer : step[p] \in {"idle", "querying"}
        /\ Cardinality(HurtPeers) <= faults

LEMMA HurtFinite ==
    /\ IsFiniteSet(HurtPeers) /\ Cardinality(HurtPeers) \in Nat
    /\ IsFiniteSet(HurtPeers)' /\ Cardinality(HurtPeers)' \in Nat
    /\ Cardinality(Peer) \in Nat
<1>1. HurtPeers \in SUBSET Peer /\ HurtPeers' \in SUBSET Peer
  BY DEF HurtPeers
<1>2. IsFiniteSet(HurtPeers) /\ IsFiniteSet(HurtPeers')
  BY <1>1, FS_Subset
<1> QED
  BY <1>2, FS_CardinalityType

\* Not all nodes are hurt, so one has every shard.
LEMMA SomebodyWhole ==
    ASSUME QuietInv, TypeOK
    PROVE  FewFaultsKeepAll
<1>1. SUFFICES ASSUME faults < Cardinality(Peer)
               PROVE  Available = Shard
  BY DEF FewFaultsKeepAll
<1>2. Cardinality(HurtPeers) < Cardinality(Peer)
  BY <1>1, HurtFinite DEF QuietInv, TypeOK
<1>3. HurtPeers \subseteq Peer /\ HurtPeers # Peer
  BY <1>2, HurtFinite DEF HurtPeers
<1>4. PICK q \in Peer : ~Hurt(q)
  BY <1>3 DEF HurtPeers
<1>5. Good(q) = Shard
  BY <1>4 DEF Hurt, Good
<1>6. \A p \in Peer : Good(p) \subseteq Shard
  BY DEF Good
<1> QED
  BY <1>5, <1>6 DEF Available

\* No step takes back a fault, and nothing but a fault may hurt a node.
LEMMA NobodyHurt ==
    ASSUME PipeInv, QuietInv, \A p \in Peer : step'[p] \in {"idle", "querying"},
           faults' \in Nat, faults <= faults', HurtPeers' \subseteq HurtPeers
    PROVE  QuietInv'
<1>1. Cardinality(HurtPeers)' <= Cardinality(HurtPeers)
  <2>1. HurtPeers' \in SUBSET HurtPeers
    OBVIOUS
  <2> QED
    BY <2>1, HurtFinite, FS_Subset
<1> QED
  BY <1>1, HurtFinite DEF QuietInv, PipeInv, TypeOK

LEMMA OneHurt ==
    ASSUME PipeInv, QuietInv, \A p \in Peer : step'[p] \in {"idle", "querying"},
           NEW q \in Peer, faults' = faults + 1, HurtPeers' \subseteq HurtPeers \cup {q}
    PROVE  QuietInv'
<1>1. Cardinality(HurtPeers)' <= Cardinality(HurtPeers) + 1
  <2>1. /\ IsFiniteSet(HurtPeers \cup {q})
        /\ Cardinality(HurtPeers \cup {q}) <= Cardinality(HurtPeers) + 1
        /\ Cardinality(HurtPeers \cup {q}) \in Nat
    <3>1. IsFiniteSet(HurtPeers \cup {q})
      BY HurtFinite, FS_AddElement
    <3> QED
      BY <3>1, HurtFinite, FS_AddElement, FS_CardinalityType
  <2>2. HurtPeers' \in SUBSET (HurtPeers \cup {q})
    OBVIOUS
  <2>3. Cardinality(HurtPeers') <= Cardinality(HurtPeers \cup {q})
    BY <2>1, <2>2, FS_Subset
  <2> QED
    BY <2>1, <2>3, HurtFinite
<1> QED
  BY <1>1, HurtFinite DEF QuietInv, PipeInv, TypeOK

\* While the faults are few nobody leaves the queries.
LEMMA AllQuiet ==
    ASSUME QuietInv, faults < Cardinality(Peer), NEW p \in Peer
    PROVE  step[p] \in {"idle", "querying"}
  BY DEF QuietInv

\* A step of the scan on q for the pass of p, or of its query, hurts only q.
LEMMA OnlyOne ==
    ASSUME PipeInv, NEW p \in Peer, NEW q \in Peer,
           step' = step, avail[p] \subseteq avail'[p], avail'[p] \subseteq Shard,
           \A r \in Peer \ {p} :
               scan'[r] = scan[r] /\ avail'[r] = avail[r] /\ toAsk'[r] = toAsk[r],
           \A r \in Peer \ {q} :
               /\ scan'[p][r] = scan[p][r] /\ disk'[r] = disk[r]
               /\ r \in toAsk[p] => r \in toAsk'[p]
    PROVE  HurtPeers' \subseteq HurtPeers \cup {q}
<1>1. ASSUME NEW r \in Peer \ {q}, Hurt(r)'
      PROVE  Hurt(r)
  <2>1. \A o \in Peer : scan'[o][r] = scan[o][r]
    OBVIOUS
  <2>2. \A o \in Peer : avail'[o] = Shard \/ avail[o] # Shard
    <3>1. ASSUME avail[p] = Shard
          PROVE  avail'[p] = Shard
      BY <3>1
    <3> QED
      BY <3>1
  <2>3. \A o \in Peer : r \in toAsk[o] => r \in toAsk'[o]
    OBVIOUS
  <2>4. \A o \in Peer : Cut(o, r)' => Cut(o, r)
    BY <2>1 DEF Cut, At
  <2>5. \A o \in Peer : Unheard(o, r)' => Unheard(o, r)
    BY <2>1, <2>2, <2>3 DEF Unheard
  <2> QED
    BY <1>1, <2>4, <2>5 DEF Hurt
<1> QED
  BY <1>1 DEF HurtPeers

LEMMA HurtOrNot ==
    ASSUME NEW q \in Peer, HurtPeers' \subseteq HurtPeers \cup {q}, Hurt(q)' => Hurt(q)
    PROVE  HurtPeers' \subseteq HurtPeers
  BY DEF HurtPeers

\* The first scan of a pass, and the ones it asks for, start whole.
LEMMA StartQuiet ==
    ASSUME PipeInv, QuietInv, NEW p \in Peer, Start(p)
    PROVE  HurtPeers' \subseteq HurtPeers
<1>1. /\ disk' = disk /\ avail' = avail
      /\ scan'[p][p] = NewScan /\ toAsk'[p] = Peer \ {p}
      /\ \A r \in Peer \ {p} :
            scan'[p][r] = scan[p][r] /\ scan'[r] = scan[r]
            /\ step'[r] = step[r] /\ toAsk'[r] = toAsk[r]
  BY DEF PipeInv, TypeOK, Start
<1>2. ASSUME NEW r \in Peer, NEW o \in Peer
      PROVE  (Cut(o, r)' => Cut(o, r)) /\ (Unheard(o, r)' => Unheard(o, r))
  <2>1. CASE o = p /\ r = p
    BY <1>1, <2>1, Scans DEF Cut, Unheard, At
  <2>2. CASE o = p /\ r # p
    BY <1>1, <2>2 DEF Cut, Unheard, At
  <2>3. CASE o # p
    BY <1>1, <2>3 DEF Cut, Unheard, At
  <2> QED
    BY <2>1, <2>2, <2>3
<1>3. \A r \in Peer : Hurt(r)' => Hurt(r)
  BY <1>1, <1>2 DEF Hurt
<1> QED
  BY <1>3 DEF HurtPeers

LEMMA QueryQuiet ==
    ASSUME PipeInv, NEW p \in Peer, NEW q \in Peer, Query(p, q)
    PROVE  HurtPeers' \subseteq HurtPeers
<1>1. /\ disk' = disk /\ avail' = avail /\ step' = step
      /\ scan'[p][q] = NewScan
      /\ \A r \in Peer \ {q} : scan'[p][r] = scan[p][r] /\ (r \in toAsk[p] => r \in toAsk'[p])
      /\ \A r \in Peer \ {p} : scan'[r] = scan[r] /\ toAsk'[r] = toAsk[r]
      /\ avail'[p] \subseteq Shard
  BY DEF PipeInv, TypeOK, Query
<1>2. HurtPeers' \subseteq HurtPeers \cup {q}
  BY <1>1, OnlyOne
<1>3. ASSUME NEW o \in Peer
      PROVE  (Cut(o, q)' => Cut(o, q)) /\ (Unheard(o, q)' => Unheard(o, q))
  <2>1. CASE o = p
    BY <1>1, <2>1, Scans DEF Cut, Unheard, At
  <2>2. CASE o # p
    BY <1>1, <2>2 DEF Cut, Unheard, At
  <2> QED
    BY <2>1, <2>2
<1>4. Hurt(q)' => Hurt(q)
  BY <1>1, <1>3 DEF Hurt
<1> QED
  BY <1>2, <1>4, HurtOrNot

\* A pass that ends waits for nobody.
LEMMA ReturnQuiet ==
    ASSUME PipeInv, NEW p \in Peer, Return(p), disk' = disk
    PROVE  /\ HurtPeers' \subseteq HurtPeers
           /\ \A r \in Peer \ {p} : step'[r] = step[r]
           /\ step'[p] = "idle"
<1>1. /\ \A r \in Peer \ {p} : scan'[r] = scan[r]
      /\ \A q \in Peer : ~scan'[p][q].wanted /\ (scan'[p][q].doomed => scan[p][q].doomed)
  BY ReturnScan DEF PipeInv
<1>2. /\ step'[p] = "idle"
      /\ \A r \in Peer \ {p} :
            step'[r] = step[r] /\ avail'[r] = avail[r] /\ toAsk'[r] = toAsk[r]
  BY DEF PipeInv, TypeOK, Return
<1>3. ASSUME NEW r \in Peer, NEW o \in Peer
      PROVE  (Cut(o, r)' => Cut(o, r)) /\ (Unheard(o, r)' => Unheard(o, r))
  <2>1. CASE o = p
    BY <1>1, <1>2, <2>1 DEF Cut, Unheard
  <2>2. CASE o # p
    BY <1>1, <1>2, <2>2 DEF Cut, Unheard, At
  <2> QED
    BY <2>1, <2>2
<1>4. \A r \in Peer : Hurt(r)' => Hurt(r)
  BY <1>3 DEF Hurt
<1> QED
  BY <1>2, <1>4 DEF HurtPeers

\* A pass that has asked everybody and still misses a shard has heard the whole
\* of nobody.
LEMMA AggregateQuiet ==
    ASSUME PipeInv, QuietInv, faults < Cardinality(Peer), NEW p \in Peer, Aggregate(p)
    PROVE  avail[p] = Shard /\ Return(p)
<1>1. step[p] = "querying" /\ toAsk[p] = {} /\ \A q \in Peer : ~scan[p][q].wanted
  BY DEF Aggregate, Free
<1>2. ASSUME avail[p] # Shard
      PROVE  FALSE
  <2>1. \A q \in Peer : Unheard(p, q)
    BY <1>1, <1>2 DEF Unheard
  <2>2. HurtPeers = Peer
    BY <2>1 DEF Hurt, HurtPeers
  <2> QED
    BY <2>2, HurtFinite DEF QuietInv, PipeInv, TypeOK
<1> QED
  BY <1>2 DEF Aggregate

\* Going on to the next shard hurts only the node that is scanned.
LEMMA GoOnHurts ==
    ASSUME PipeInv, NEW p \in Peer, NEW q \in Peer, NEW s \in {Passed(p, q), Counted(p, q)},
           GoOn(p, q, s), step' = step, toAsk' = toAsk, \A r \in Peer \ {q} : disk'[r] = disk[r]
    PROVE  HurtPeers' \subseteq HurtPeers \cup {q}
<1>1. /\ TypeOK
      /\ s \in [wanted: BOOLEAN, next: 0 .. TotalShards, found: SUBSET Shard, doomed: BOOLEAN]
  BY PassedTypes DEF PipeInv
<1>2. /\ \A r \in Peer \ {q} : scan'[p][r] = scan[p][r]
      /\ \A r \in Peer \ {p} : scan'[r] = scan[r] /\ avail'[r] = avail[r]
      /\ avail'[p] = avail[p] \/ avail'[p] = avail[p] \cup s.found
  BY <1>1, GoOnGives
<1>3. avail[p] \subseteq avail'[p] /\ avail'[p] \subseteq Shard
  BY <1>1, <1>2 DEF TypeOK
<1> QED
  BY <1>2, <1>3, OnlyOne

\* A scan that reads only good shards, to the end or so far, hurts nobody.
LEMMA JudgeQuiet ==
    ASSUME PipeInv, NEW p \in Peer, NEW q \in Peer, Judge(p, q)
    PROVE  HurtPeers' \subseteq HurtPeers
<1>1. /\ TypeOK /\ scan[p][q] \in Scan /\ At(p, q) \in Shard
      /\ scan[p][q].wanted /\ ~scan[p][q].doomed
      /\ disk' = disk /\ step' = step /\ toAsk' = toAsk
  BY DEF PipeInv, TypeOK, Judge, Scan, At
<1>2. HurtPeers' \subseteq HurtPeers \cup {q}
  <2>1. CASE scan' = Doomed(p, q) /\ UNCHANGED <<healthy, avail>>
    <3>1. /\ avail' = avail /\ avail'[p] \subseteq Shard
          /\ \A r \in Peer \ {q} : scan'[p][r] = scan[p][r]
          /\ \A r \in Peer \ {p} : scan'[r] = scan[r]
      BY <1>1, <2>1 DEF TypeOK, Doomed
    <3> QED
      BY <1>1, <3>1, OnlyOne
  <2>2. CASE GoOn(p, q, Counted(p, q))
    BY <1>1, <2>2, GoOnHurts
  <2>3. CASE GoOn(p, q, Passed(p, q))
    BY <1>1, <2>3, GoOnHurts
  <2> QED
    BY <2>1, <2>2, <2>3 DEF Judge
<1>3. CASE disk[q][At(p, q)] # "good"
  <2>1. Hurt(q)
    BY <1>1, <1>3 DEF Hurt
  <2> QED
    BY <1>2, <2>1, HurtOrNot
<1>4. CASE disk[q][At(p, q)] = "good"
  <2> DEFINE s == Counted(p, q)
  <2>1. GoOn(p, q, s)
    BY <1>4 DEF Judge
  <2>2. /\ s \in [wanted: BOOLEAN, next: 0 .. TotalShards, found: SUBSET Shard, doomed: BOOLEAN]
        /\ s.wanted = scan[p][q].wanted /\ ~s.doomed /\ s.next = At(p, q) + 1
        /\ s.found = scan[p][q].found \cup {At(p, q)}
    BY <1>1, PassedTypes
  <2> HIDE DEF s
  <2>3. /\ scan'[p][q] = IF GoesOn(s) THEN s ELSE NoScan
        /\ avail'[p] = IF GoesOn(s) THEN avail[p] ELSE avail[p] \cup s.found
        /\ \A r \in Peer \ {p} : scan'[r] = scan[r] /\ avail'[r] = avail[r]
    <3>1. /\ TypeOK
          /\ s \in [wanted: BOOLEAN, next: 0 .. TotalShards, found: SUBSET Shard, doomed: BOOLEAN]
      BY <1>1, <2>2
    <3>2. /\ scan'[p][q] = IF GoesOn(s) THEN s ELSE NoScan
          /\ avail'[p] = IF GoesOn(s) THEN avail[p] ELSE avail[p] \cup s.found
          /\ \A r \in Peer \ {p} :
                scan'[r] = scan[r] /\ healthy'[r] = healthy[r] /\ avail'[r] = avail[r]
      BY <2>1, <3>1, GoOnGives
    <3> QED
      BY <3>2, Zenon
  <2>4. ASSUME ~Hurt(q)
        PROVE  ~Hurt(q)'
    <3>1. scan[p][q].found = 0 .. At(p, q) - 1
      BY <1>1, <2>4 DEF Hurt, Cut
    <3>2. s.found = 0 .. s.next - 1
      BY <1>1, <2>2, <3>1 DEF Shard
    <3>3. ~Cut(p, q)' /\ ~Unheard(p, q)'
      <4>1. CASE s.next < TotalShards
        <5>1. scan'[p][q] = s /\ s.wanted
          BY <1>1, <2>2, <2>3, <4>1 DEF GoesOn
        <5> QED
          BY <2>2, <3>2, <5>1 DEF Cut, Unheard, At
      <4>2. CASE ~(s.next < TotalShards)
        <5>1. scan'[p][q] = NoScan /\ avail'[p] = avail[p] \cup s.found
          BY <2>3, <4>2 DEF GoesOn
        <5>2. s.found = Shard
          BY <1>1, <2>2, <3>2, <4>2 DEF Shard
        <5>3. avail'[p] = Shard
          BY <1>1, <5>1, <5>2 DEF TypeOK
        <5> QED
          BY <5>1, <5>3, Scans DEF Cut, Unheard
      <4> QED
        BY <4>1, <4>2
    <3>4. ASSUME NEW o \in Peer \ {p}
          PROVE  ~Cut(o, q)' /\ ~Unheard(o, q)'
      <4>1. ~Cut(o, q) /\ ~Unheard(o, q)
        BY <2>4 DEF Hurt
      <4> QED
        BY <1>1, <2>3, <4>1 DEF Cut, Unheard, At
    <3>5. \A i \in Shard : disk'[q][i] = "good"
      BY <1>1, <2>4 DEF Hurt
    <3> QED
      BY <3>3, <3>4, <3>5 DEF Hurt
  <2> QED
    BY <1>2, <2>4, HurtOrNot
<1> QED
  BY <1>3, <1>4

LEMMA MoveQuiet ==
    ASSUME PipeInv, NEW p \in Peer, NEW q \in Peer, Move(p, q)
    PROVE  HurtPeers' \subseteq HurtPeers
<1>1. /\ scan[p][q].doomed /\ GoOn(p, q, Passed(p, q)) /\ step' = step /\ toAsk' = toAsk
      /\ \A r \in Peer \ {q} : disk'[r] = disk[r]
  BY MoveKeeps DEF PipeInv, Move
<1>2. Hurt(q)
  BY <1>1 DEF Hurt, Cut
<1>3. HurtPeers' \subseteq HurtPeers \cup {q}
  BY <1>1, GoOnHurts
<1> QED
  BY <1>2, <1>3, HurtOrNot

\* A fault hurts at most the node it happens to.
LEMMA FaultHurtsOne ==
    ASSUME PipeInv, QuietInv, faults < Cardinality(Peer), NEW p \in Peer, Damage(p)
    PROVE  /\ \E q \in Peer : HurtPeers' \subseteq HurtPeers \cup {q}
           /\ \A r \in Peer : step'[r] \in {"idle", "querying"}
           /\ faults' = faults + 1
<1>1. TypeOK /\ \A r \in Peer : step[r] \in {"idle", "querying"} /\ target[r] = None
  BY DEF PipeInv, QuietInv, WriteOK
<1>2. ASSUME NEW q \in Peer, ReadFails(p, q)
      PROVE  HurtPeers' \subseteq HurtPeers \cup {q} /\ step' = step
  <2>1. /\ avail' = avail /\ avail'[p] \subseteq Shard /\ disk' = disk /\ toAsk' = toAsk
        /\ step' = step /\ \A r \in Peer \ {q} : scan'[p][r] = scan[p][r]
        /\ \A r \in Peer \ {p} : scan'[r] = scan[r]
    BY <1>1, <1>2 DEF TypeOK, ReadFails, Doomed
  <2> QED
    BY <2>1, OnlyOne
<1>3. ASSUME NEW q \in Peer, MoveFails(p, q)
      PROVE  HurtPeers' \subseteq HurtPeers \cup {q} /\ step' = step
  <2>1. /\ GoOn(p, q, Passed(p, q)) /\ disk' = disk /\ toAsk' = toAsk /\ step' = step
    BY <1>3 DEF MoveFails
  <2> QED
    BY <2>1, GoOnHurts
<1>4. ASSUME NEW q \in Peer, QueryFails(p, q)
      PROVE  HurtPeers' \subseteq HurtPeers \cup {q} /\ step' = step
  <2>1. /\ avail' = avail /\ avail'[p] \subseteq Shard /\ disk' = disk /\ step' = step
    BY <1>1, <1>4 DEF TypeOK, QueryFails
  <2>2. /\ \A r \in Peer \ {q} : scan'[p][r] = scan[p][r]
        /\ \A r \in Peer \ {p} : scan'[r] = scan[r]
    BY <1>1, <1>4 DEF TypeOK, QueryFails
  <2>3. /\ \A r \in Peer \ {q} : r \in toAsk[p] => r \in toAsk'[p]
        /\ \A r \in Peer \ {p} : toAsk'[r] = toAsk[r]
    BY <1>1, <1>4 DEF TypeOK, QueryFails
  <2> QED
    BY <2>1, <2>2, <2>3, OnlyOne
<1>5. ASSUME NEW i \in Shard, BitRot(p, i) \/ ShardLost(p, i)
      PROVE  HurtPeers' \subseteq HurtPeers \cup {p} /\ step' = step
  <2>1. /\ avail' = avail /\ avail'[p] \subseteq Shard /\ scan' = scan /\ toAsk' = toAsk
        /\ step' = step /\ \A r \in Peer \ {p} : disk'[r] = disk[r]
    BY <1>1, <1>5 DEF TypeOK, BitRot, ShardLost, passVars
  <2> QED
    BY <2>1, OnlyOne
<1>6. ASSUME Crash(p)
      PROVE  /\ HurtPeers' \subseteq HurtPeers
             /\ \A r \in Peer : step'[r] \in {"idle", "querying"}
  <2>1. Return(p) /\ disk' = disk
    BY <1>6 DEF Crash
  <2> QED
    BY <1>1, <2>1, ReturnQuiet
<1>7. ~StoreFails(p) /\ ~WriteBreaks(p) /\ \A q \in Peer : ~PushLost(p, q)
  BY <1>1 DEF StoreFails, WriteBreaks, PushLost, NextTarget
<1>8. faults' = faults + 1
  BY Damages DEF Fault
<1> QED
  BY <1>1, <1>2, <1>3, <1>4, <1>5, <1>6, <1>7, <1>8 DEF Damage

LEMMA QuietStep ==
    ASSUME PipeInv, QuietInv, [Next]_vars
    PROVE  QuietInv'
<1>1. faults \in Nat /\ faults' \in Nat /\ faults <= faults'
  <2>1. faults \in Nat /\ faults' \in Nat
    BY PipeStep DEF PipeInv, TypeOK
  <2>2. faults' = faults \/ Fault
    <3>1. ASSUME NEW p \in Peer, RunOnce(p)
          PROVE  faults' = faults
      BY <3>1 DEF RunOnce, Start, Judge, Move, Query, OpenFile, Aggregate,
                  ReadLease, PutLease, ReadBack, Reconstruct, CloseFile
    <3>2. ASSUME NEW p \in Peer, Damage(p)
          PROVE  Fault
      BY <3>2, Damages
    <3> QED
      BY <3>1, <3>2 DEF Next, LeaseExpires, vars
  <2> QED
    BY <2>1, <2>2 DEF Fault
<1>2. CASE ~(faults < Cardinality(Peer))
  BY <1>1, <1>2, HurtFinite DEF QuietInv
<1>3. CASE faults < Cardinality(Peer)
  <2>1. \A p \in Peer : step[p] \in {"idle", "querying"} /\ target[p] = None
    BY <1>3 DEF PipeInv, QuietInv, WriteOK
  <2>2. CASE LeaseExpires \/ UNCHANGED vars
    <3>1. UNCHANGED <<disk, step, toAsk, avail, scan>>
      BY <2>2 DEF LeaseExpires, vars, passVars
    <3>2. HurtPeers' = HurtPeers
      BY <3>1 DEF HurtPeers, Hurt, Cut, Unheard, At
    <3> QED
      BY <1>1, <2>1, <3>1, <3>2, NobodyHurt
  <2>3. ASSUME NEW p \in Peer, RunOnce(p)
        PROVE  QuietInv'
    <3>1. ~ReadLease(p) /\ ~PutLease(p) /\ ~ReadBack(p) /\ ~Reconstruct(p) /\ ~CloseFile(p)
      BY <2>1 DEF ReadLease, PutLease, ReadBack, Reconstruct, CloseFile
    <3>2. \A q \in Peer : ~OpenFile(p, q)
      BY <2>1 DEF OpenFile, NextTarget
    <3>3. /\ HurtPeers' \subseteq HurtPeers
          /\ \A r \in Peer : step'[r] \in {"idle", "querying"}
      <4>1. CASE Start(p)
        <5>1. \A r \in Peer : step'[r] \in {"idle", "querying"}
          BY <2>1, <4>1 DEF PipeInv, TypeOK, Start
        <5> QED
          BY <4>1, <5>1, StartQuiet
      <4>2. CASE Aggregate(p)
        <5>1. Return(p) /\ disk' = disk
          BY <1>3, <4>2, AggregateQuiet DEF Aggregate
        <5> QED
          BY <2>1, <5>1, ReturnQuiet
      <4>3. ASSUME NEW q \in Peer, Judge(p, q) \/ Move(p, q) \/ Query(p, q)
            PROVE  HurtPeers' \subseteq HurtPeers /\ step' = step
        BY <4>3, JudgeQuiet, MoveQuiet, QueryQuiet DEF Judge, Move, Query
      <4> QED
        BY <2>1, <2>3, <3>1, <3>2, <4>1, <4>2, <4>3 DEF RunOnce
    <3> QED
      BY <1>1, <3>3, NobodyHurt
  <2>4. ASSUME NEW p \in Peer, Damage(p)
        PROVE  QuietInv'
    <3>1. PICK q \in Peer : HurtPeers' \subseteq HurtPeers \cup {q}
      BY <1>3, <2>4, FaultHurtsOne
    <3> QED
      BY <1>3, <2>4, <3>1, FaultHurtsOne, OneHurt
  <2> QED
    BY <2>2, <2>3, <2>4 DEF Next
<1> QED
  BY <1>2, <1>3

\* With fewer faults than nodes, of any kind and at any moment, every shard is
\* on some disk in every state: a pass never gets as far as to rewrite one.  The
\* proof follows the nodes that a fault has touched, on their disks, in a scan
\* that goes on there for somebody or in what somebody has heard from them.
THEOREM FewFaultsKeep == Spec => []FewFaultsKeepAll
<1>1. Init => QuietInv
  <2>1. ASSUME Init
        PROVE  QuietInv
    <3>1. HurtPeers = {}
      <4>1. ASSUME NEW q \in Peer
            PROVE  ~Hurt(q)
        BY <2>1, Scans DEF Init, Hurt, Cut, Unheard
      <4> QED
        BY <4>1 DEF HurtPeers
    <3>2. Cardinality(HurtPeers) = 0
      BY <3>1, FS_EmptySet
    <3> QED
      BY <2>1, <3>2 DEF Init, QuietInv
  <2> QED
    BY <2>1
<1>2. PipeInv /\ QuietInv /\ [Next]_vars => QuietInv'
  BY QuietStep
<1>3. PipeInv /\ QuietInv => FewFaultsKeepAll
  BY SomebodyWhole DEF PipeInv
<1> QED
  BY <1>1, <1>2, <1>3, Invariance, PTL DEF Spec
============================================================================
