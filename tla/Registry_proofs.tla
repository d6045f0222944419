-------------------------- MODULE Registry_proofs ---------------------------
(***************************************************************************)
(* Proofs about the central registry, for any number of streams, files and *)
(* providers and any lifetime of an announcement:                          *)
(*   - the variables keep their types, the mutex is held by the handler    *)
(*     that works with it, and no file has an empty map (TypeCorrect);     *)
(*   - who was told that its announcement has arrived is found while it is *)
(*     fresh, and nobody is found for longer (FreshAreFound).              *)
(***************************************************************************)
EXTENDS Registry, TLAPS

USE TTLAssumption, WindowAssumption, ConnAssumption

----------------------------------------------------------------------------
(* The inductive invariant                                                  *)

\* The handler of a stream with its request.
Request ==
    [pc : {"idle", "queued", "answering", "answered"},
     action : {"none", "announce", "find"},
     file : File \cup {None}, provider : Provider \cup {None},
     reads : BOOLEAN, began : Int, known : [Provider -> Int], at : Int,
     answer : SUBSET Provider]

ConnInv ==
    /\ conn \in [Conn -> Request]
    /\ \A c \in Conn : conn[c].pc # "idle" =>
          /\ conn[c].file \in File /\ conn[c].action # "none"
          /\ conn[c].action = "announce" => conn[c].provider \in Provider
          /\ conn[c].pc = "answered" => conn[c].action = "announce"
          /\ conn[c].began <= now
          /\ \A p \in Provider : conn[c].known[p] <= now

\* An announcement of time t that is fresh is on record, or a later one is.
Kept(f, p, t) ==
    t >= 0 /\ now - t <= TTL => p \in DOMAIN Providers(f) /\ Providers(f)[p] >= t

\* This holds of the announcements that were acknowledged, of those that have
\* been stored and not yet acknowledged, and of those that a find that waits for
\* the mutex counts on.
KeptInv ==
    /\ \A f \in File, p \in Provider : Kept(f, p, acked[f][p])
    /\ \A c \in Conn :
          conn[c].action = "announce" /\ conn[c].pc \in {"answering", "answered"} =>
              Kept(conn[c].file, conn[c].provider, conn[c].began)
    /\ \A c \in Conn :
          conn[c].action = "find" /\ conn[c].pc = "queued" =>
              \A p \in Provider : Kept(conn[c].file, p, conn[c].known[p])

RegistryInv == TypeOK /\ ConnInv /\ KeptInv /\ FoundWhileFresh

----------------------------------------------------------------------------
(* The records                                                              *)

LEMMA ProvidersType ==
    ASSUME TypeOK, NEW f \in File
    PROVE  /\ DOMAIN Providers(f) \subseteq Provider
           /\ \A p \in DOMAIN Providers(f) : Providers(f)[p] \in 0 .. now
  BY DEF TypeOK, Providers

\* An announcement stores its own provider and touches nobody else.
LEMMA Stored ==
    ASSUME NEW f \in File, NEW p \in Provider, records' = WithProvider(f, p)
    PROVE  /\ DOMAIN Providers(f)' = DOMAIN Providers(f) \cup {p}
           /\ Providers(f)'[p] = now
           /\ \A q \in DOMAIN Providers(f) : q # p => Providers(f)'[q] = Providers(f)[q]
           /\ \A g \in File : g # f => Providers(g)' = Providers(g)
<1> DEFINE new == [q \in DOMAIN Providers(f) \cup {p} |->
                      IF q = p THEN now ELSE Providers(f)[q]]
<1>1. /\ DOMAIN records' = DOMAIN records \cup {f}
      /\ records'[f] = new
      /\ \A g \in DOMAIN records : g # f => records'[g] = records[g]
  BY DEF WithProvider
<1> HIDE DEF new
<1>2. Providers(f)' = new
  BY <1>1 DEF Providers
<1>3. \A g \in File : g # f => Providers(g)' = Providers(g)
  BY <1>1 DEF Providers
<1>4. QED
  BY <1>2, <1>3 DEF new

\* Pruning leaves every file exactly its fresh records.
LEMMA PrunedRecords ==
    ASSUME NEW f \in File, records' = Pruned
    PROVE  /\ DOMAIN Providers(f)' = Fresh(f)
           /\ Fresh(f) \subseteq DOMAIN Providers(f)
           /\ \A p \in Fresh(f) : Providers(f)'[p] = Providers(f)[p]
<1>1. Fresh(f) # {} => f \in DOMAIN records
  BY DEF Fresh, Providers
<1>2. Fresh(f) \subseteq DOMAIN Providers(f)
  BY DEF Fresh
<1>3. CASE Fresh(f) # {}
  <2>1. f \in DOMAIN records' /\ records'[f] = Restrict(records[f], Fresh(f))
    BY <1>1, <1>3 DEF Pruned
  <2>2. Providers(f)' = Restrict(records[f], Fresh(f)) /\ Providers(f) = records[f]
    BY <1>1, <1>3, <2>1 DEF Providers
  <2>3. QED
    BY <1>2, <2>2 DEF Restrict
<1>4. CASE Fresh(f) = {}
  <2>1. f \notin DOMAIN records'
    BY <1>4 DEF Pruned
  <2>2. Providers(f)' = [p \in {} |-> 0]
    BY <2>1 DEF Providers
  <2>3. QED
    BY <1>4, <2>2
<1>5. QED
  BY <1>3, <1>4

\* An announcement on record is kept by other announcements, which are later,
\* and by the finds, which prune it only once it is stale.
LEMMA KeptByAnnounce ==
    ASSUME TypeOK, ConnInv, NEW f \in File, NEW p \in Provider, NEW t \in Int,
           t <= now, Kept(f, p, t), NEW c \in Conn, Announce(c)
    PROVE  Kept(f, p, t)'
<1>1. PICK g \in File, q \in Provider : records' = WithProvider(g, q) /\ now' = now
  BY DEF Announce, ConnInv
<1>2. CASE f = g /\ p = q
  <2>1. records' = WithProvider(f, p)
    BY <1>1, <1>2
  <2>2. DOMAIN Providers(f)' = DOMAIN Providers(f) \cup {p} /\ Providers(f)'[p] = now
    BY <2>1, Stored, Zenon
  <2>3. QED
    BY <1>1, <2>2 DEF Kept
<1>3. CASE f = g /\ p # q
  <2>1. p \in DOMAIN Providers(f) => /\ p \in DOMAIN Providers(f)'
                                     /\ Providers(f)'[p] = Providers(f)[p]
    BY <1>1, <1>3, Stored
  <2>2. QED
    BY <1>1, <2>1 DEF Kept
<1>4. CASE f # g
  <2>1. Providers(f)' = Providers(f)
    BY <1>1, <1>4, Stored
  <2>2. QED
    BY <1>1, <2>1 DEF Kept
<1>5. QED
  BY <1>2, <1>3, <1>4

LEMMA KeptByFind ==
    ASSUME TypeOK, NEW f \in File, NEW p \in Provider, NEW t \in Int,
           Kept(f, p, t), NEW c \in Conn, Find(c)
    PROVE  Kept(f, p, t)'
<1> SUFFICES ASSUME t >= 0, now - t <= TTL
             PROVE  p \in DOMAIN Providers(f)' /\ Providers(f)'[p] >= t
  BY DEF Kept, Find
<1>1. records' = Pruned /\ now \in Int
  BY DEF Find, TypeOK
<1>2. p \in DOMAIN Providers(f) /\ Providers(f)[p] >= t
  BY DEF Kept
<1>3. Providers(f)[p] \in Int
  BY <1>1, <1>2, ProvidersType
<1>4. p \in Fresh(f)
  BY <1>1, <1>2, <1>3 DEF Fresh
<1>5. QED
  BY <1>1, <1>2, <1>4, PrunedRecords

----------------------------------------------------------------------------
(* The types and the mutex                                                  *)

LEMMA IdleRequest ==
    /\ Idle \in Request /\ Idle.pc = "idle" /\ Idle.action = "none"
    /\ Idle.began = 0 /\ Idle.known = Nobody /\ Idle.answer = {}
  BY DEF Idle, Request, Nobody

LEMMA InitRegistry == Init => RegistryInv
<1> SUFFICES ASSUME Init PROVE RegistryInv
  OBVIOUS
<1>1. \A c \in Conn : conn[c] = Idle
  BY DEF Init
<1>2. DOMAIN records = {}
  BY DEF Init, NoRecords
<1>3. \A f \in File, p \in Provider : acked[f][p] = -1
  BY DEF Init, Nobody
<1>4. TypeOK
  <2>1. acked \in [File -> [Provider -> -1 .. now]] /\ now \in 0 .. MaxTime
    BY DEF Init, Nobody
  <2>2. mu = None
    BY DEF Init
  <2>3. QED
    BY <1>1, <1>2, <2>1, <2>2, IdleRequest DEF TypeOK
<1>5. ConnInv
  <2>1. conn \in [Conn -> Request]
    BY IdleRequest DEF Init
  <2>2. QED
    BY <1>1, <2>1, IdleRequest DEF ConnInv
<1>6. KeptInv
  BY <1>1, <1>3, IdleRequest DEF KeptInv, Kept
<1>7. FoundWhileFresh
  BY <1>1, IdleRequest DEF FoundWhileFresh, Answering
<1>8. QED
  BY <1>4, <1>5, <1>6, <1>7 DEF RegistryInv

\* The clock and the clock alone.
LEMMA TickStep == ASSUME RegistryInv, Tick PROVE RegistryInv'
<1> USE DEF RegistryInv
<1>1. now' = now + 1 /\ now' \in 0 .. MaxTime /\ now \in Nat
      /\ UNCHANGED <<records, mu, conn, acked>>
  BY DEF Tick, TypeOK
<1>2. TypeOK'
  <2>1. \A f \in DOMAIN records : \A p \in DOMAIN records[f] : records[f][p] \in 0 .. now'
    BY <1>1 DEF TypeOK
  <2>2. acked \in [File -> [Provider -> -1 .. now']]
    <3>1. -1 .. now \subseteq -1 .. now'
      BY <1>1
    <3>2. QED
      BY <3>1 DEF TypeOK
  <2>3. QED
    BY <1>1, <2>1, <2>2 DEF TypeOK
<1>3. ConnInv'
  <2>1. ASSUME NEW c \in Conn PROVE conn[c].began \in Int /\ \A p \in Provider : conn[c].known[p] \in Int
    BY DEF ConnInv, Request
  <2>2. QED
    BY <1>1, <2>1 DEF ConnInv
<1>4. KeptInv'
  <2>1. ASSUME NEW f, NEW p, NEW t \in Int, Kept(f, p, t) PROVE Kept(f, p, t)'
    BY <1>1, <2>1 DEF Kept, Providers
  <2>2. \A f \in File, p \in Provider : acked[f][p] \in Int
    BY <1>1 DEF TypeOK
  <2>3. \A c \in Conn : conn[c].began \in Int /\ \A p \in Provider : conn[c].known[p] \in Int
    BY DEF ConnInv, Request
  <2>4. \A f \in File, p \in Provider : Kept(f, p, acked[f][p])'
    BY <1>1, <2>1, <2>2 DEF KeptInv
  <2>5. ASSUME NEW c \in Conn, conn[c].action = "announce",
               conn[c].pc \in {"answering", "answered"}
        PROVE  Kept(conn[c].file, conn[c].provider, conn[c].began)'
    BY <1>1, <2>1, <2>3, <2>5 DEF KeptInv
  <2>6. ASSUME NEW c \in Conn, conn[c].action = "find", conn[c].pc = "queued",
               NEW p \in Provider
        PROVE  Kept(conn[c].file, p, conn[c].known[p])'
    BY <1>1, <2>1, <2>3, <2>6 DEF KeptInv
  <2>7. QED
    BY <1>1, <2>4, <2>5, <2>6 DEF KeptInv
<1>5. FoundWhileFresh'
  BY <1>1 DEF FoundWhileFresh, Answering, Providers
<1>6. QED
  BY <1>2, <1>3, <1>4, <1>5

\* What holds of an acknowledged announcement goes on holding as long as the
\* records keep it, and so for the requests.
KeepsKept == \A f \in File, p \in Provider, t \in Int : t <= now /\ Kept(f, p, t) => Kept(f, p, t)'

LEMMA HandleKeeps ==
    ASSUME TypeOK, ConnInv, NEW c \in Conn, Announce(c) \/ Find(c)
    PROVE  KeepsKept
  BY KeptByAnnounce, KeptByFind DEF KeepsKept

LEMMA QuietKeeps ==
    ASSUME UNCHANGED <<now, records>>
    PROVE  KeepsKept
  BY DEF KeepsKept, Kept, Providers

\* A step of one stream that keeps the records of everybody keeps the invariant
\* of all other streams; so it has only to be shown of its own.
LEMMA OneStream ==
    ASSUME TypeOK, ConnInv, KeptInv, NEW c \in Conn, KeepsKept, now' = now,
           acked' = acked, conn' \in [Conn -> Request],
           \A d \in Conn : d # c => conn'[d] = conn[d],
           conn'[c].pc # "idle" =>
               /\ conn'[c].file \in File /\ conn'[c].action # "none"
               /\ conn'[c].action = "announce" => conn'[c].provider \in Provider
               /\ conn'[c].pc = "answered" => conn'[c].action = "announce"
               /\ conn'[c].began <= now
               /\ \A p \in Provider : conn'[c].known[p] <= now,
           conn'[c].action = "announce" /\ conn'[c].pc \in {"answering", "answered"} =>
               Kept(conn[c].file, conn[c].provider, conn[c].began)',
           conn'[c].action = "find" /\ conn'[c].pc = "queued" =>
               \A p \in Provider : Kept(conn[c].file, p, conn[c].known[p])'
    PROVE  ConnInv' /\ KeptInv'
<1>1. ConnInv'
  BY DEF ConnInv
<1>2. ASSUME NEW f \in File, NEW p \in Provider PROVE Kept(f, p, acked[f][p])'
  <2>1. acked[f][p] \in Int /\ acked[f][p] <= now
    BY DEF TypeOK
  <2>2. PICK t \in Int : t = acked[f][p]
    BY <2>1
  <2>3. Kept(f, p, t) /\ t <= now
    BY <2>1, <2>2 DEF KeptInv
  <2>4. Kept(f, p, t)'
    BY <2>3 DEF KeepsKept
  <2>5. QED
    BY <2>2, <2>4 DEF Kept
<1>3. ASSUME NEW d \in Conn, d # c, conn[d].action = "announce",
             conn[d].pc \in {"answering", "answered"}
      PROVE  Kept(conn[d].file, conn[d].provider, conn[d].began)'
  <2>1. PICK f \in File, p \in Provider, t \in Int :
             f = conn[d].file /\ p = conn[d].provider /\ t = conn[d].began
    BY <1>3 DEF ConnInv, Request
  <2>2. Kept(f, p, t) /\ t <= now
    BY <1>3, <2>1 DEF KeptInv, ConnInv
  <2>3. Kept(f, p, t)'
    BY <2>2 DEF KeepsKept
  <2>4. conn'[d] = conn[d]
    BY <1>3
  <2>5. QED
    BY <2>1, <2>3, <2>4 DEF Kept
<1>4. ASSUME NEW d \in Conn, d # c, conn[d].action = "find", conn[d].pc = "queued",
             NEW p \in Provider
      PROVE  Kept(conn[d].file, p, conn[d].known[p])'
  <2>1. PICK f \in File, t \in Int : f = conn[d].file /\ t = conn[d].known[p]
    BY <1>4 DEF ConnInv, Request
  <2>2. Kept(f, p, t) /\ t <= now
    BY <1>4, <2>1 DEF KeptInv, ConnInv
  <2>3. Kept(f, p, t)'
    BY <2>2 DEF KeepsKept
  <2>4. conn'[d] = conn[d]
    BY <1>4
  <2>5. QED
    BY <2>1, <2>3, <2>4 DEF Kept
<1>5. KeptInv'
  <2>1. ASSUME NEW d \in Conn, conn'[d].action = "announce",
               conn'[d].pc \in {"answering", "answered"}
        PROVE  Kept(conn[d].file, conn[d].provider, conn[d].began)'
    BY <1>3, <2>1
  <2>2. ASSUME NEW d \in Conn, conn'[d].action = "find", conn'[d].pc = "queued"
        PROVE  \A p \in Provider : Kept(conn[d].file, p, conn[d].known[p])'
    BY <1>4, <2>2
  <2>3. QED
    BY <1>2, <2>1, <2>2 DEF KeptInv
<1>6. QED
  BY <1>1, <1>5

\* The types, after a step of one stream.
LEMMA OneStreamTypes ==
    ASSUME TypeOK, NEW c \in Conn, now' = now, conn' \in [Conn -> Request],
           \A d \in Conn : d # c => conn'[d] = conn[d] /\ (mu' = d <=> mu = d),
           mu' \in Conn \cup {None}, conn'[c].pc = "answering" <=> mu' = c,
           DOMAIN records' \subseteq File,
           \A f \in DOMAIN records' :
               /\ DOMAIN records'[f] \in (SUBSET Provider) \ {{}}
               /\ \A p \in DOMAIN records'[f] : records'[f][p] \in 0 .. now,
           acked' \in [File -> [Provider -> -1 .. now]]
    PROVE  TypeOK'
<1>1. ASSUME NEW d \in Conn
      PROVE  /\ conn'[d].pc \in {"idle", "queued", "answering", "answered"}
             /\ conn'[d].answer \subseteq Provider
  BY DEF Request
<1>2. ASSUME NEW d \in Conn PROVE conn'[d].pc = "answering" <=> mu' = d
  BY DEF TypeOK
<1>3. QED
  BY <1>1, <1>2 DEF TypeOK

\* A stream that does not answer leaves what the others have found.
LEMMA OneStreamFound ==
    ASSUME TypeOK, FoundWhileFresh, NEW c \in Conn, records' = records \/ mu = None,
           \A d \in Conn : d # c => conn'[d] = conn[d],
           Answering(c)' =>
               \A p \in Provider :
                   /\ conn'[c].known[p] >= 0 /\ conn'[c].at - conn'[c].known[p] <= TTL
                      => p \in conn'[c].answer
                   /\ p \in conn'[c].answer
                      => conn'[c].at - Providers(conn[c].file)'[p] <= TTL
    PROVE  FoundWhileFresh'
<1> SUFFICES ASSUME NEW d \in Conn, d # c, Answering(d)', NEW p \in Provider
             PROVE  /\ conn'[d].known[p] >= 0 /\ conn'[d].at - conn'[d].known[p] <= TTL
                       => p \in conn'[d].answer
                    /\ p \in conn'[d].answer
                       => conn'[d].at - Providers(conn[d].file)'[p] <= TTL
  BY DEF FoundWhileFresh
<1>1. conn'[d] = conn[d] /\ Answering(d)
  BY DEF Answering
<1>2. mu = d
  BY <1>1 DEF Answering, TypeOK
<1>3. records' = records
  BY <1>2
<1>4. Providers(conn[d].file)' = Providers(conn[d].file)
  BY <1>1, <1>3 DEF Providers
<1>5. QED
  BY <1>1, <1>4 DEF FoundWhileFresh

LEMMA SendStep ==
    ASSUME RegistryInv, NEW c \in Conn, SendAnnounce(c) \/ SendFind(c)
    PROVE  RegistryInv'
<1> USE DEF RegistryInv
<1>1. UNCHANGED <<now, records, mu, acked>> /\ conn[c].pc = "idle" /\ KeepsKept
  BY QuietKeeps DEF SendAnnounce, SendFind, Send
<1>2. now \in Nat /\ \A f \in File, p \in Provider : acked[f][p] \in Int /\ acked[f][p] <= now
  BY DEF TypeOK
<1>3. PICK r \in Request :
         /\ conn' = [conn EXCEPT ![c] = r]
         /\ r.pc = "queued" /\ r.file \in File /\ r.action \in {"announce", "find"}
         /\ r.action = "announce" => r.provider \in Provider
         /\ r.began <= now
         /\ \A p \in Provider : r.known[p] <= now
         /\ r.action = "find" => r.known = acked[r.file]
  <2>1. CASE SendAnnounce(c)
    <3>1. PICK f \in File, p \in Provider :
             Send(c, [Idle EXCEPT !.pc = "queued", !.action = "announce",
                                  !.file = f, !.provider = p, !.began = now])
      BY <2>1 DEF SendAnnounce
    <3> DEFINE r == [Idle EXCEPT !.pc = "queued", !.action = "announce",
                                 !.file = f, !.provider = p, !.began = now]
    <3>2. r \in Request /\ r.pc = "queued" /\ r.file = f /\ r.action = "announce"
          /\ r.provider = p /\ r.began = now /\ r.known = Nobody
      <4>1. r \in Request
        <5>1. now \in Int /\ f \in File \cup {None} /\ p \in Provider \cup {None}
          BY <1>2
        <5>2. \A i \in Request :
                 [i EXCEPT !.pc = "queued", !.action = "announce",
                           !.file = f, !.provider = p, !.began = now] \in Request
          BY <5>1 DEF Request
        <5>3. QED
          BY <5>2, IdleRequest
      <4>2. r.pc = "queued" /\ r.file = f /\ r.action = "announce"
        BY <1>2, IdleRequest DEF Request
      <4>3. r.provider = p /\ r.began = now /\ r.known = Nobody
        BY <1>2, IdleRequest DEF Request
      <4>4. QED
        BY <4>1, <4>2, <4>3
    <3>3. \A q \in Provider : r.known[q] <= now
      BY <1>2, <3>2 DEF Nobody
    <3>4. conn' = [conn EXCEPT ![c] = r]
      BY <3>1 DEF Send
    <3> HIDE DEF r
    <3>5. /\ r.pc = "queued" /\ r.file \in File /\ r.action \in {"announce", "find"}
          /\ r.action = "announce" => r.provider \in Provider
          /\ r.began <= now
          /\ r.action = "find" => r.known = acked[r.file]
      BY <1>2, <3>2
    <3>6. QED
      BY <3>2, <3>3, <3>4, <3>5
  <2>2. CASE SendFind(c)
    <3>1. PICK f \in File, reads \in BOOLEAN :
             Send(c, [Idle EXCEPT !.pc = "queued", !.action = "find",
                                  !.file = f, !.reads = reads, !.known = acked[f]])
      BY <2>2 DEF SendFind
    <3> DEFINE r == [Idle EXCEPT !.pc = "queued", !.action = "find",
                                 !.file = f, !.reads = reads, !.known = acked[f]]
    <3>2. acked[f] \in [Provider -> Int]
      <4>1. acked[f] \in [Provider -> -1 .. now]
        BY DEF TypeOK
      <4>2. -1 .. now \subseteq Int
        BY <1>2
      <4>3. QED
        BY <4>1, <4>2
    <3>3. r \in Request /\ r.pc = "queued" /\ r.file = f /\ r.action = "find"
          /\ r.began = 0 /\ r.known = acked[f]
      BY <3>2, IdleRequest DEF Request
    <3>4. conn' = [conn EXCEPT ![c] = r]
      BY <3>1 DEF Send
    <3> HIDE DEF r
    <3>5. /\ r.pc = "queued" /\ r.file \in File /\ r.action \in {"announce", "find"}
          /\ r.action = "announce" => r.provider \in Provider
          /\ r.began <= now
          /\ r.action = "find" => r.known = acked[r.file]
          /\ \A q \in Provider : r.known[q] <= now
      BY <1>2, <3>3
    <3>6. QED
      BY <3>3, <3>4, <3>5
  <2>3. QED
    BY <2>1, <2>2
<1>4. /\ conn' \in [Conn -> Request] /\ conn'[c] = r
      /\ \A d \in Conn : d # c => conn'[d] = conn[d]
  BY <1>3 DEF ConnInv
<1>5. mu # c
  BY <1>1 DEF TypeOK
<1>6. TypeOK'
  <2>1. conn'[c].pc = "answering" <=> mu' = c
    BY <1>1, <1>3, <1>4, <1>5
  <2>2. /\ mu' \in Conn \cup {None} /\ DOMAIN records' \subseteq File
        /\ acked' \in [File -> [Provider -> -1 .. now]]
        /\ \A f \in DOMAIN records' :
               /\ DOMAIN records'[f] \in (SUBSET Provider) \ {{}}
               /\ \A p \in DOMAIN records'[f] : records'[f][p] \in 0 .. now
    BY <1>1 DEF TypeOK
  <2>3. QED
    BY <1>1, <1>4, <2>1, <2>2, OneStreamTypes
<1>7. ConnInv' /\ KeptInv'
  <2>1. ASSUME conn'[c].action = "find", NEW p \in Provider
        PROVE  Kept(conn[c].file, p, conn[c].known[p])'
    <3>1. PICK f \in File : f = r.file
      BY <1>3
    <3>2. r.known = acked[f]
      BY <1>3, <1>4, <2>1, <3>1
    <3>3. Kept(f, p, acked[f][p])
      BY DEF KeptInv
    <3>4. QED
      BY <1>1, <1>4, <3>1, <3>2, <3>3 DEF Kept, Providers
  <2>2. QED
    BY <1>1, <1>3, <1>4, <2>1, OneStream
<1>8. FoundWhileFresh'
  <2>1. ~Answering(c)'
    BY <1>3, <1>4 DEF Answering
  <2>2. QED
    BY <1>1, <1>4, <2>1, OneStreamFound
<1>9. QED
  BY <1>6, <1>7, <1>8

\* The records that an announcement or a find leaves have their types.
LEMMA StoredTypes ==
    ASSUME TypeOK, NEW f \in File, NEW p \in Provider, records' = WithProvider(f, p)
    PROVE  /\ DOMAIN records' \subseteq File
           /\ \A g \in DOMAIN records' :
                  /\ DOMAIN records'[g] \in (SUBSET Provider) \ {{}}
                  /\ \A q \in DOMAIN records'[g] : records'[g][q] \in 0 .. now
<1> DEFINE new == [q \in DOMAIN Providers(f) \cup {p} |->
                      IF q = p THEN now ELSE Providers(f)[q]]
<1>1. /\ DOMAIN records' = DOMAIN records \cup {f}
      /\ records'[f] = new
      /\ \A g \in DOMAIN records : g # f => records'[g] = records[g]
  BY DEF WithProvider
<1>2. now \in 0 .. now /\ DOMAIN Providers(f) \subseteq Provider
      /\ \A q \in DOMAIN Providers(f) : Providers(f)[q] \in 0 .. now
  BY ProvidersType DEF TypeOK
<1>3. /\ DOMAIN new \in (SUBSET Provider) \ {{}}
      /\ \A q \in DOMAIN new : new[q] \in 0 .. now
  BY <1>2
<1> HIDE DEF new
<1>4. ASSUME NEW g \in DOMAIN records'
      PROVE  /\ DOMAIN records'[g] \in (SUBSET Provider) \ {{}}
             /\ \A q \in DOMAIN records'[g] : records'[g][q] \in 0 .. now
  <2>1. CASE g = f
    BY <1>1, <1>3, <2>1
  <2>2. CASE g # f
    BY <1>1, <2>2 DEF TypeOK
  <2>3. QED
    BY <2>1, <2>2
<1>5. DOMAIN records' \subseteq File
  BY <1>1 DEF TypeOK
<1>6. QED
  BY <1>4, <1>5

LEMMA PrunedTypes ==
    ASSUME TypeOK, records' = Pruned
    PROVE  /\ DOMAIN records' \subseteq File
           /\ \A g \in DOMAIN records' :
                  /\ DOMAIN records'[g] \in (SUBSET Provider) \ {{}}
                  /\ \A q \in DOMAIN records'[g] : records'[g][q] \in 0 .. now
<1>1. /\ DOMAIN records' = {g \in DOMAIN records : Fresh(g) # {}}
      /\ \A g \in DOMAIN records' : records'[g] = Restrict(records[g], Fresh(g))
  BY DEF Pruned
<1>2. ASSUME NEW g \in DOMAIN records'
      PROVE  /\ DOMAIN records'[g] \in (SUBSET Provider) \ {{}}
             /\ \A q \in DOMAIN records'[g] : records'[g][q] \in 0 .. now
  <2>1. g \in DOMAIN records /\ Fresh(g) # {} /\ g \in File
    BY <1>1 DEF TypeOK
  <2>2. Providers(g) = records[g]
    BY <2>1 DEF Providers
  <2>3. Fresh(g) \subseteq DOMAIN records[g]
    BY <2>2 DEF Fresh
  <2>4. /\ DOMAIN records'[g] = Fresh(g)
        /\ \A q \in Fresh(g) : records'[g][q] = records[g][q]
    <3>1. records'[g] = Restrict(records[g], Fresh(g))
      BY <1>1
    <3>2. QED
      BY <3>1 DEF Restrict
  <2>5. DOMAIN records[g] \subseteq Provider /\ \A q \in DOMAIN records[g] : records[g][q] \in 0 .. now
    BY <2>1 DEF TypeOK
  <2>6. QED
    BY <2>1, <2>3, <2>4, <2>5
<1>3. QED
  BY <1>1, <1>2 DEF TypeOK

\* The records and the acknowledgments keep their types when nobody writes them.
LEMMA SameRecords ==
    ASSUME TypeOK, UNCHANGED <<records, acked>>
    PROVE  /\ DOMAIN records' \subseteq File
           /\ acked' \in [File -> [Provider -> -1 .. now]]
           /\ \A f \in DOMAIN records' :
                  /\ DOMAIN records'[f] \in (SUBSET Provider) \ {{}}
                  /\ \A p \in DOMAIN records'[f] : records'[f][p] \in 0 .. now
  BY DEF TypeOK

\* A step that sets the request of one stream leaves those of the others.
LEMMA SetRequest ==
    ASSUME conn \in [Conn -> Request], NEW c \in Conn, NEW r \in Request,
           conn' = [conn EXCEPT ![c] = r]
    PROVE  /\ conn' \in [Conn -> Request] /\ conn'[c] = r
           /\ \A d \in Conn : d # c => conn'[d] = conn[d]
  OBVIOUS

\* From the announcement on the record is there for its acknowledgment.
LEMMA AnnounceStep ==
    ASSUME RegistryInv, NEW c \in Conn, Announce(c)
    PROVE  RegistryInv'
<1> USE DEF RegistryInv
<1>1. /\ conn[c].pc = "queued" /\ conn[c].action = "announce" /\ mu = None /\ mu' = c
      /\ UNCHANGED <<now, acked>> /\ KeepsKept
  BY HandleKeeps DEF Announce
<1>2. PICK f \in File, p \in Provider :
         /\ f = conn[c].file /\ p = conn[c].provider
         /\ records' = WithProvider(f, p)
  BY <1>1 DEF Announce, ConnInv
<1>3. /\ conn' \in [Conn -> Request] /\ conn'[c] = [conn[c] EXCEPT !.pc = "answering"]
      /\ \A d \in Conn : d # c => conn'[d] = conn[d]
  <2>1. conn[c] \in Request /\ conn \in [Conn -> Request]
    BY DEF ConnInv
  <2>2. conn' = [conn EXCEPT ![c] = [conn[c] EXCEPT !.pc = "answering"]]
    BY <2>1 DEF Announce
  <2>3. [conn[c] EXCEPT !.pc = "answering"] \in Request
    BY <2>1 DEF Request
  <2>4. QED
    BY <2>1, <2>2, <2>3, SetRequest
<1>4. /\ conn'[c].pc = "answering" /\ conn'[c].action = "announce"
      /\ conn'[c].file = f /\ conn'[c].provider = p /\ conn'[c].began = conn[c].began
      /\ conn'[c].known = conn[c].known
  BY <1>1, <1>2, <1>3 DEF ConnInv, Request
<1>5. TypeOK'
  <2>1. /\ DOMAIN records' \subseteq File
        /\ \A g \in DOMAIN records' :
               /\ DOMAIN records'[g] \in (SUBSET Provider) \ {{}}
               /\ \A q \in DOMAIN records'[g] : records'[g][q] \in 0 .. now
    BY <1>2, StoredTypes
  <2>2. /\ mu' \in Conn \cup {None} /\ acked' \in [File -> [Provider -> -1 .. now]]
        /\ \A d \in Conn : d # c => (mu' = d <=> mu = d)
    BY <1>1 DEF TypeOK
  <2>3. QED
    BY <1>1, <1>3, <1>4, <2>1, <2>2, OneStreamTypes
<1>6. ConnInv' /\ KeptInv'
  <2>1. conn[c].began <= now /\ conn[c].began \in Int /\ \A q \in Provider : conn[c].known[q] <= now
    BY <1>1 DEF ConnInv, Request
  <2>2. DOMAIN Providers(f)' = DOMAIN Providers(f) \cup {p} /\ Providers(f)'[p] = now
    BY <1>2, Stored, Zenon
  <2>3. Kept(conn[c].file, conn[c].provider, conn[c].began)'
    <3>1. now >= conn'[c].began
      BY <1>4, <2>1 DEF TypeOK
    <3>2. p \in DOMAIN Providers(f)' /\ Providers(f)'[p] >= conn'[c].began
      BY <2>2, <3>1
    <3>3. QED
      BY <1>4, <3>2 DEF Kept, Providers
  <2>4. QED
    BY <1>1, <1>3, <1>4, <2>1, <2>3, OneStream
<1>7. FoundWhileFresh'
  <2>1. ~Answering(c)'
    BY <1>4 DEF Answering
  <2>2. QED
    BY <1>1, <1>3, <2>1, OneStreamFound
<1>8. QED
  BY <1>5, <1>6, <1>7

\* A find answers exactly with the fresh records of its file.
LEMMA FindStep ==
    ASSUME RegistryInv, NEW c \in Conn, Find(c)
    PROVE  RegistryInv'
<1> USE DEF RegistryInv
<1>1. /\ conn[c].pc = "queued" /\ conn[c].action = "find" /\ mu = None /\ mu' = c
      /\ records' = Pruned /\ UNCHANGED <<now, acked>> /\ KeepsKept
  BY HandleKeeps DEF Find
<1>2. PICK f \in File : f = conn[c].file
  BY <1>1 DEF ConnInv
<1>3. (IF f \in DOMAIN Pruned THEN DOMAIN Pruned[f] ELSE {}) = Fresh(f)
  <2>1. Fresh(f) # {} => f \in DOMAIN records
    BY DEF Fresh, Providers
  <2>2. CASE Fresh(f) # {}
    BY <2>1, <2>2 DEF Pruned, Restrict
  <2>3. CASE Fresh(f) = {}
    BY <2>3 DEF Pruned
  <2>4. QED
    BY <2>2, <2>3
<1>4. Fresh(f) \subseteq Provider /\ now \in Int
  BY ProvidersType DEF Fresh, TypeOK
<1>5. conn' = [conn EXCEPT ![c] = [conn[c] EXCEPT !.pc = "answering", !.at = now,
                                                  !.answer = Fresh(f)]]
  <2>1. conn' = [conn EXCEPT ![c].pc = "answering", ![c].at = now, ![c].answer = Fresh(f)]
    BY <1>2, <1>3 DEF Find
  <2>2. QED
    BY <2>1 DEF ConnInv
<1>6. ASSUME NEW r \in Request
      PROVE  /\ [r EXCEPT !.pc = "answering", !.at = now, !.answer = Fresh(f)] \in Request
             /\ [r EXCEPT !.pc = "answering", !.at = now, !.answer = Fresh(f)].pc = "answering"
             /\ [r EXCEPT !.pc = "answering", !.at = now, !.answer = Fresh(f)].action = r.action
             /\ [r EXCEPT !.pc = "answering", !.at = now, !.answer = Fresh(f)].file = r.file
             /\ [r EXCEPT !.pc = "answering", !.at = now, !.answer = Fresh(f)].began = r.began
             /\ [r EXCEPT !.pc = "answering", !.at = now, !.answer = Fresh(f)].known = r.known
             /\ [r EXCEPT !.pc = "answering", !.at = now, !.answer = Fresh(f)].at = now
             /\ [r EXCEPT !.pc = "answering", !.at = now, !.answer = Fresh(f)].answer = Fresh(f)
  BY <1>4 DEF Request
<1>7. /\ conn' \in [Conn -> Request]
      /\ \A d \in Conn : d # c => conn'[d] = conn[d]
      /\ conn'[c].pc = "answering" /\ conn'[c].action = "find" /\ conn'[c].file = f
      /\ conn'[c].began = conn[c].began /\ conn'[c].known = conn[c].known
      /\ conn'[c].at = now /\ conn'[c].answer = Fresh(f)
  <2>1. conn \in [Conn -> Request] /\ conn[c] \in Request
    BY DEF ConnInv
  <2> DEFINE r == [conn[c] EXCEPT !.pc = "answering", !.at = now, !.answer = Fresh(f)]
  <2>2. /\ r \in Request /\ r.pc = "answering" /\ r.action = "find" /\ r.file = f
        /\ r.began = conn[c].began /\ r.known = conn[c].known
        /\ r.at = now /\ r.answer = Fresh(f)
    BY <1>1, <1>2, <1>6, <2>1
  <2>3. conn' = [conn EXCEPT ![c] = r]
    BY <1>5
  <2> HIDE DEF r
  <2>4. QED
    BY <2>1, <2>2, <2>3
<1>8. TypeOK'
  <2>1. /\ DOMAIN records' \subseteq File
        /\ \A g \in DOMAIN records' :
               /\ DOMAIN records'[g] \in (SUBSET Provider) \ {{}}
               /\ \A q \in DOMAIN records'[g] : records'[g][q] \in 0 .. now
    BY <1>1, PrunedTypes
  <2>2. /\ mu' \in Conn \cup {None} /\ acked' \in [File -> [Provider -> -1 .. now]]
        /\ \A d \in Conn : d # c => (mu' = d <=> mu = d)
    BY <1>1 DEF TypeOK
  <2>3. QED
    BY <1>1, <1>7, <2>1, <2>2, OneStreamTypes
<1>9. ConnInv' /\ KeptInv'
  <2>1. conn[c].began <= now /\ \A q \in Provider : conn[c].known[q] <= now
    BY <1>1 DEF ConnInv
  <2>2. QED
    BY <1>1, <1>7, <2>1, OneStream
<1>10. FoundWhileFresh'
  <2>1. ASSUME NEW p \in Provider, conn[c].known[p] >= 0, now - conn[c].known[p] <= TTL
        PROVE  p \in Fresh(f)
    <3>1. PICK t \in Int : t = conn[c].known[p]
      BY DEF ConnInv, Request
    <3>2. Kept(f, p, t)
      BY <1>1, <1>2, <3>1 DEF KeptInv
    <3>3. p \in DOMAIN Providers(f) /\ Providers(f)[p] >= t
      BY <2>1, <3>1, <3>2 DEF Kept
    <3>4. Providers(f)[p] \in Int
      BY <1>4, <3>3, ProvidersType
    <3>5. now - Providers(f)[p] <= TTL
      BY <1>4, <2>1, <3>1, <3>3, <3>4
    <3>6. QED
      BY <3>3, <3>5 DEF Fresh
  <2>2. ASSUME NEW p \in Fresh(f) PROVE now - Providers(conn[c].file)'[p] <= TTL
    <3>1. Providers(f)'[p] = Providers(f)[p]
      BY <1>1, PrunedRecords
    <3>2. now - Providers(f)'[p] <= TTL
      BY <3>1 DEF Fresh
    <3>3. QED
      BY <1>7, <3>2 DEF Providers
  <2>3. QED
    BY <1>1, <1>7, <2>1, <2>2, OneStreamFound
<1>11. QED
  BY <1>8, <1>9, <1>10

\* The mutex is free again; the acknowledgment of an announcement is on its way.
LEMMA AnswerStep ==
    ASSUME RegistryInv, NEW c \in Conn, Answer(c)
    PROVE  RegistryInv'
<1> USE DEF RegistryInv
<1>1. /\ conn[c].pc = "answering" /\ mu = c /\ mu' = None
      /\ UNCHANGED <<now, records, acked>> /\ KeepsKept
  BY QuietKeeps DEF Answer, TypeOK
<1>2. conn[c] \in Request /\ conn' = [conn EXCEPT ![c] = Answered(c)]
  BY DEF Answer, ConnInv
<1>3. /\ conn' \in [Conn -> Request] /\ conn'[c] = Answered(c)
      /\ \A d \in Conn : d # c => conn'[d] = conn[d]
  <2>1. Answered(c) \in Request
    BY <1>2, IdleRequest DEF Answered, Request
  <2>2. QED
    BY <1>2, <2>1 DEF ConnInv
<1>4. \/ /\ conn[c].action = "announce" /\ conn'[c].action = "announce"
         /\ conn'[c].pc = "answered"
         /\ conn'[c].file = conn[c].file /\ conn'[c].provider = conn[c].provider
         /\ conn'[c].began = conn[c].began /\ conn'[c].known = conn[c].known
      \/ conn'[c].pc = "idle" /\ conn'[c].action = "none"
  <2>1. CASE conn[c].action = "announce"
    BY <1>2, <1>3, <2>1 DEF Answered, Request
  <2>2. CASE conn[c].action # "announce"
    BY <1>3, <2>2, IdleRequest DEF Answered
  <2>3. QED
    BY <2>1, <2>2
<1>5. TypeOK'
  <2>1. /\ mu' \in Conn \cup {None} /\ mu' # c
        /\ \A d \in Conn : d # c => (mu' = d <=> mu = d)
    BY <1>1 DEF TypeOK
  <2>2. QED
    BY <1>1, <1>3, <1>4, <2>1, SameRecords, OneStreamTypes
<1>6. ConnInv' /\ KeptInv'
  <2>1. ASSUME conn'[c].action = "announce"
        PROVE  Kept(conn[c].file, conn[c].provider, conn[c].began)'
    <3>1. Kept(conn[c].file, conn[c].provider, conn[c].began)
      BY <1>1, <1>4, <2>1 DEF KeptInv
    <3>2. QED
      BY <1>1, <1>4, <2>1, <3>1 DEF Kept, Providers
  <2>2. conn[c].file \in File /\ conn[c].began <= now
        /\ (conn[c].action = "announce" => conn[c].provider \in Provider)
        /\ \A p \in Provider : conn[c].known[p] <= now
    BY <1>1 DEF ConnInv
  <2>3. QED
    BY <1>1, <1>3, <1>4, <2>1, <2>2, OneStream
<1>7. FoundWhileFresh'
  <2>1. ~Answering(c)'
    BY <1>4 DEF Answering
  <2>2. QED
    BY <1>1, <1>3, <2>1, OneStreamFound
<1>8. QED
  BY <1>5, <1>6, <1>7

\* The provider learns of its announcement while the registry keeps it.
LEMMA AcknowledgeStep ==
    ASSUME RegistryInv, NEW c \in Conn, Acknowledge(c)
    PROVE  RegistryInv'
<1> USE DEF RegistryInv
<1>1. /\ conn[c].pc = "answered" /\ conn' = [conn EXCEPT ![c] = Idle]
      /\ UNCHANGED <<now, records, mu>>
  BY DEF Acknowledge
<1>2. PICK f \in File, p \in Provider, t \in Int :
         f = conn[c].file /\ p = conn[c].provider /\ t = conn[c].began /\ t <= now
  BY <1>1 DEF ConnInv, Request
<1>3. Kept(f, p, t)
  BY <1>1, <1>2 DEF KeptInv, ConnInv
<1>4. /\ conn' \in [Conn -> Request] /\ conn'[c] = Idle
      /\ \A d \in Conn : d # c => conn'[d] = conn[d]
  BY <1>1, IdleRequest DEF ConnInv
<1>5. acked' = [acked EXCEPT ![f][p] = IF t > @ THEN t ELSE @]
  BY <1>2 DEF Acknowledge
<1>6. /\ acked \in [File -> [Provider -> -1 .. now]] /\ now \in Nat
  BY DEF TypeOK
<1>7. ASSUME NEW g \in File, NEW q \in Provider
      PROVE  acked'[g][q] = acked[g][q] \/ (g = f /\ q = p /\ acked'[g][q] = t)
  BY <1>5, <1>6
<1>8. acked' \in [File -> [Provider -> -1 .. now]]
  <2>1. (IF t > acked[f][p] THEN t ELSE acked[f][p]) \in -1 .. now
    <3>1. acked[f][p] \in -1 .. now
      BY <1>2, <1>6
    <3>2. QED
      BY <1>2, <1>6, <3>1
  <2> PICK v \in -1 .. now : v = IF t > acked[f][p] THEN t ELSE acked[f][p]
    BY <2>1
  <2>2. acked' = [acked EXCEPT ![f] = [acked[f] EXCEPT ![p] = v]]
    BY <1>5
  <2>3. acked[f] \in [Provider -> -1 .. now]
    BY <1>2, <1>6
  <2>4. [acked[f] EXCEPT ![p] = v] \in [Provider -> -1 .. now]
    BY <2>3
  <2>5. QED
    BY <1>6, <2>2, <2>4
<1>9. TypeOK'
  <2>1. conn'[c].pc # "answering" /\ mu # c
    BY <1>1, <1>4, IdleRequest DEF TypeOK
  <2>2. mu' = mu /\ mu' \in Conn \cup {None}
    BY <1>1 DEF TypeOK
  <2>3. /\ DOMAIN records' \subseteq File
        /\ \A g \in DOMAIN records' :
               /\ DOMAIN records'[g] \in (SUBSET Provider) \ {{}}
               /\ \A q \in DOMAIN records'[g] : records'[g][q] \in 0 .. now
    BY <1>1 DEF TypeOK
  <2>4. QED
    BY <1>1, <1>4, <1>8, <2>1, <2>2, <2>3, OneStreamTypes
<1>10. ConnInv'
  BY <1>1, <1>4, IdleRequest DEF ConnInv
<1>11. KeptInv'
  <2>1. ASSUME NEW g \in File, NEW q \in Provider PROVE Kept(g, q, acked[g][q])'
    <3>1. Kept(g, q, acked[g][q])
      BY DEF KeptInv
    <3>2. CASE acked'[g][q] = acked[g][q]
      BY <1>1, <3>1, <3>2 DEF Kept, Providers
    <3>3. CASE g = f /\ q = p /\ acked'[g][q] = t
      BY <1>1, <1>3, <3>3 DEF Kept, Providers
    <3>4. QED
      BY <1>7, <3>2, <3>3
  <2>2. ASSUME NEW d \in Conn, conn'[d].action = "announce",
               conn'[d].pc \in {"answering", "answered"}
        PROVE  Kept(conn[d].file, conn[d].provider, conn[d].began)'
    <3>1. conn'[d] = conn[d]
      BY <1>4, <2>2, IdleRequest
    <3>2. Kept(conn[d].file, conn[d].provider, conn[d].began)
      BY <2>2, <3>1 DEF KeptInv
    <3>3. QED
      BY <1>1, <3>1, <3>2 DEF Kept, Providers
  <2>3. ASSUME NEW d \in Conn, conn'[d].action = "find", conn'[d].pc = "queued",
               NEW q \in Provider
        PROVE  Kept(conn[d].file, q, conn[d].known[q])'
    <3>1. conn'[d] = conn[d]
      BY <1>4, <2>3, IdleRequest
    <3>2. Kept(conn[d].file, q, conn[d].known[q])
      BY <2>3, <3>1 DEF KeptInv
    <3>3. QED
      BY <1>1, <3>1, <3>2 DEF Kept, Providers
  <2>4. QED
    BY <2>1, <2>2, <2>3 DEF KeptInv
<1>12. FoundWhileFresh'
  <2>1. ~Answering(c)'
    BY <1>4, IdleRequest DEF Answering
  <2>2. QED
    BY <1>1, <1>4, <2>1, OneStreamFound
<1>13. QED
  BY <1>9, <1>10, <1>11, <1>12

LEMMA WakeUpStep ==
    ASSUME RegistryInv, NEW c \in Conn, WakeUp(c)
    PROVE  RegistryInv'
<1> USE DEF RegistryInv
<1>1. /\ conn[c].pc = "answering" /\ conn' = [conn EXCEPT ![c].reads = TRUE]
      /\ UNCHANGED <<now, records, mu, acked>> /\ KeepsKept
  BY QuietKeeps DEF WakeUp, Blocked
<1>2. /\ conn' \in [Conn -> Request] /\ conn'[c] = [conn[c] EXCEPT !.reads = TRUE]
      /\ \A d \in Conn : d # c => conn'[d] = conn[d]
  <2>1. conn[c] \in Request /\ conn \in [Conn -> Request]
    BY DEF ConnInv
  <2>2. conn' = [conn EXCEPT ![c] = [conn[c] EXCEPT !.reads = TRUE]]
    BY <1>1, <2>1
  <2>3. [conn[c] EXCEPT !.reads = TRUE] \in Request
    BY <2>1 DEF Request
  <2>4. QED
    BY <2>1, <2>2, <2>3, SetRequest
<1>3. /\ conn'[c].pc = conn[c].pc /\ conn'[c].action = conn[c].action
      /\ conn'[c].file = conn[c].file /\ conn'[c].provider = conn[c].provider
      /\ conn'[c].began = conn[c].began /\ conn'[c].known = conn[c].known
      /\ conn'[c].at = conn[c].at /\ conn'[c].answer = conn[c].answer
  BY <1>2 DEF ConnInv, Request
<1>4. TypeOK'
  <2>1. mu = c /\ mu' \in Conn \cup {None}
    BY <1>1 DEF TypeOK
  <2>2. QED
    BY <1>1, <1>2, <1>3, <2>1, SameRecords, OneStreamTypes
<1>5. ConnInv' /\ KeptInv'
  <2>1. ASSUME conn'[c].action = "announce"
        PROVE  Kept(conn[c].file, conn[c].provider, conn[c].began)'
    <3>1. Kept(conn[c].file, conn[c].provider, conn[c].began)
      BY <1>1, <1>3, <2>1 DEF KeptInv
    <3>2. QED
      BY <1>1, <1>3, <3>1 DEF Kept, Providers
  <2>2. /\ conn[c].file \in File /\ conn[c].action # "none" /\ conn[c].began <= now
        /\ (conn[c].action = "announce" => conn[c].provider \in Provider)
        /\ \A p \in Provider : conn[c].known[p] <= now
    BY <1>1 DEF ConnInv
  <2>3. QED
    BY <1>1, <1>2, <1>3, <2>1, <2>2, OneStream
<1>6. FoundWhileFresh'
  <2>1. Answering(c)' => Answering(c)
    BY <1>3 DEF Answering
  <2>2. Providers(conn[c].file)' = Providers(conn[c].file)
    BY <1>1, <1>3 DEF Providers
  <2>3. ASSUME Answering(c)', NEW p \in Provider
        PROVE  /\ conn'[c].known[p] >= 0 /\ conn'[c].at - conn'[c].known[p] <= TTL
                  => p \in conn'[c].answer
               /\ p \in conn'[c].answer
                  => conn'[c].at - Providers(conn[c].file)'[p] <= TTL
    BY <1>3, <2>1, <2>2, <2>3 DEF FoundWhileFresh
  <2>4. QED
    BY <1>1, <1>2, <2>3, OneStreamFound
<1>7. QED
  BY <1>4, <1>5, <1>6

\* With the process everything is gone, the streams of those who knew included.
LEMMA RestartStep == ASSUME RegistryInv, Restart PROVE RegistryInv'
<1> USE DEF RegistryInv
<1>1. /\ now' = now /\ records' = NoRecords /\ mu' = None
      /\ conn' = [c \in Conn |-> Idle] /\ acked' = [f \in File |-> Nobody]
  BY DEF Restart
<1>2. DOMAIN records' = {}
  BY <1>1 DEF NoRecords
<1>3. \A c \in Conn : conn'[c] = Idle
  BY <1>1
<1>4. \A f \in File, p \in Provider : acked'[f][p] = -1
  BY <1>1 DEF Nobody
<1>5. acked' \in [File -> [Provider -> -1 .. now']] /\ now' \in 0 .. MaxTime
  BY <1>1 DEF Nobody, TypeOK
<1>6. TypeOK'
  BY <1>1, <1>2, <1>3, <1>5, IdleRequest DEF TypeOK
<1>7. ConnInv'
  BY <1>1, <1>3, IdleRequest DEF ConnInv
<1>8. KeptInv'
  BY <1>3, <1>4, IdleRequest DEF KeptInv, Kept
<1>9. FoundWhileFresh'
  BY <1>3, IdleRequest DEF FoundWhileFresh, Answering
<1>10. QED
  BY <1>6, <1>7, <1>8, <1>9

LEMMA RegistryCorrect == Spec => []RegistryInv
<1>1. RegistryInv /\ [Next]_vars => RegistryInv'
  <2> SUFFICES ASSUME RegistryInv, [Next]_vars PROVE RegistryInv'
    OBVIOUS
  <2>1. ASSUME NEW c \in Conn,
               SendAnnounce(c) \/ SendFind(c) \/ Handle(c) \/ Answer(c)
                   \/ Acknowledge(c) \/ WakeUp(c)
        PROVE  RegistryInv'
    BY <2>1, SendStep, AnnounceStep, FindStep, AnswerStep, AcknowledgeStep, WakeUpStep
       DEF Handle
  <2>2. CASE UNCHANGED vars
    BY <2>2 DEF vars, RegistryInv, TypeOK, ConnInv, KeptInv, Kept, FoundWhileFresh,
       Answering, Providers
  <2>3. QED
    BY <2>1, <2>2, TickStep, RestartStep DEF Next
<1>2. QED
  BY <1>1, InitRegistry, PTL DEF Spec

----------------------------------------------------------------------------
(* The theorems                                                             *)

\* The variables keep their types; a handler has the mutex exactly while it
\* works on the records and writes its answer; a file whose last provider was
\* pruned has no entry left.
THEOREM TypeCorrect == Spec => []TypeOK
<1>1. RegistryInv => TypeOK
  BY DEF RegistryInv
<1>2. QED
  BY <1>1, RegistryCorrect, PTL

\* Who knew of an announcement when the request was sent finds its provider if
\* the answer is made within the TTL, whatever the other streams did between;
\* nobody is in an answer that did not announce itself within the TTL.
THEOREM FreshAreFound == Spec => []FoundWhileFresh
<1>1. RegistryInv => FoundWhileFresh
  BY DEF RegistryInv
<1>2. QED
  BY <1>1, RegistryCorrect, PTL
=============================================================================
