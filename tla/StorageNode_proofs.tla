------------------------ MODULE StorageNode_proofs ------------------------
(***************************************************************************)
(* Proofs about the storage node, for any number of pushes and scans at a  *)
(* time, any requests and any number of faults:                            *)
(*   - the variables keep their types (TypeCorrect);                       *)
(*   - the health bitmap is right unless the shard was harmed during the   *)
(*     scan (BitmapTruthful);                                              *)
(*   - a shard pushed without interference is stored when the push is      *)
(*     acknowledged (AckTruthful);                                         *)
(*   - a scan quarantines a good shard only after a push has written to it *)
(*     or an error in reading it (QuarantineSafe).                         *)
(***************************************************************************)
EXTENDS StorageNode, TLAPS

USE ActorAssumption, RequestAssumption, FaultAssumption, NoneAssumption

----------------------------------------------------------------------------
(* Types                                                                    *)

\* The local variables of handlers and scans fit to where these stand.
Consistent ==
    /\ \A s \in Stream :
         /\ stage[s] = "idle" => fd[s] = None /\ during[s] = {}
         /\ stage[s] = "writing" =>
              /\ request[s] \in Request /\ fd[s] \in File
              /\ at[s] <= request[s].to + 1
    /\ \A x \in Scanner :
         /\ stance[x] = "hashing" <=> hashing[x] # None
         /\ stance[x] \in {"idle", "found"} => read[x] = 0 /\ intact[x]
         /\ stance[x] = "idle" => during[x] = {}

TypeInv == TypeOK /\ Consistent

\* What is in a request.
LEMMA RequestType ==
    ASSUME NEW r \in Request
    PROVE  /\ r.version \in {1, 2} /\ r.from \in {0, 1} /\ r.to \in {0, 1}
           /\ r.right \in BOOLEAN /\ r # None
  BY DEF AnyRequest, Chunk

\* What a push that writes has in its hands.
LEMMA WritingHas ==
    ASSUME TypeInv, NEW s \in Stream, stage[s] = "writing"
    PROVE  request[s] \in Request /\ fd[s] \in File /\ at[s] \in Int /\ at[s] >= 0
<1>1. at \in [Stream -> 0 .. 2]
  BY DEF TypeInv, TypeOK
<1>2. request[s] \in Request /\ fd[s] \in File
  BY DEF TypeInv, Consistent
<1>3. QED
  BY <1>1, <1>2

\* O_CREATE makes a file that nobody has open.
LEMMA NewFileUnused ==
    ASSUME CanOpen, name = None
    PROVE  NewFile \in File /\ NewFile \notin Used
  BY DEF CanOpen, NewFile

\* Note adds an event to the history of the others that are busy.
LEMMA NoteType ==
    ASSUME TypeInv, NEW actor, NEW e \in Event, Note(actor, e)
    PROVE  /\ during' \in [Actor -> SUBSET Event]
           /\ \A b \in Actor : ~Busy(b) => during'[b] = during[b]
           /\ actor \in Actor => during'[actor] = during[actor]
           /\ \A b \in Actor : Busy(b) /\ b # actor => during'[b] = during[b] \cup {e}
  BY DEF Note, TypeInv, TypeOK

\* Who is idle is not busy.
LEMMA BusyActor ==
    /\ \A s \in Stream : s \in Actor /\ (Busy(s) <=> stage[s] # "idle")
    /\ \A x \in Scanner : x \in Actor /\ (Busy(x) <=> stance[x] # "idle")
  BY DEF Busy, Actor

\* Freeing the files that nobody uses keeps the others, and makes none good.
LEMMA ReclaimStep ==
    ASSUME TypeInv, Reclaim
    PROVE  /\ content' \in [File -> [Chunk -> {"empty", "good", "bad"}]]
           /\ \A f \in File : f \in Used' => content'[f] = content[f]
           /\ \A f \in File : Good(f)' => Good(f)
<1>1. Empty \in [Chunk -> {"empty", "good", "bad"}] /\ Empty[0] # "good"
  BY DEF Empty, Chunk
<1>2. \A f \in File : content'[f] = IF f \in Used' THEN content[f] ELSE Empty
  BY DEF Reclaim
<1>3. \A f \in File : Good(f)' => Good(f)
  BY <1>1, <1>2 DEF Good, Chunk
<1>4. QED
  BY <1>1, <1>2, <1>3 DEF Reclaim, TypeInv, TypeOK

\* The end of a push leaves its stream as it was before.
LEMMA EndPushStep ==
    ASSUME TypeInv, NEW s \in Stream, EndPush(s)
    PROVE  /\ stage' \in [Stream -> {"idle", "writing"}]
           /\ request' \in [Stream -> Request \cup {None}]
           /\ fd' \in [Stream -> File \cup {None}]
           /\ at' \in [Stream -> 0 .. 2]
           /\ during' \in [Actor -> SUBSET Event]
           /\ stage'[s] = "idle" /\ fd'[s] = None /\ during'[s] = {}
           /\ \A q \in Stream : q # s =>
                /\ stage'[q] = stage[q] /\ request'[q] = request[q]
                /\ fd'[q] = fd[q] /\ at'[q] = at[q]
           /\ \A b \in Actor : b # s => during'[b] = during[b]
  BY BusyActor DEF EndPush, TypeInv, TypeOK

\* The steps of a push keep the types.
LEMMA PushTypes ==
    ASSUME TypeInv, NEW s \in Stream,
           \/ WriteChunk(s) \/ FinishPush(s) \/ BreakPush(s)
           \/ \E r \in Request : OpenPush(s, r) \/ RefusePush(s, r)
    PROVE  TypeInv'
<1>1. CASE WriteChunk(s)
  <2>1. request[s] \in Request /\ fd[s] \in File /\ at[s] \in 0 .. 1
    <3>1. stage[s] = "writing" /\ at[s] <= request[s].to /\ at[s] \in 0 .. 2
      BY <1>1 DEF WriteChunk, TypeInv, TypeOK
    <3>2. request[s] \in Request /\ fd[s] \in File
      BY <3>1 DEF TypeInv, Consistent
    <3>3. request[s].to \in {0, 1}
      BY <3>2, RequestType
    <3>4. QED
      BY <3>1, <3>2, <3>3
  <2>2. content' \in [File -> [Chunk -> {"empty", "good", "bad"}]]
    BY <1>1, <2>1 DEF WriteChunk, TypeInv, TypeOK
  <2>3. PICK e \in Event : Note(s, e)
    BY <1>1 DEF WriteChunk, Event
  <2>4. TypeOK'
    BY <1>1, <2>1, <2>2, <2>3, NoteType
       DEF WriteChunk, scanVars, TypeInv, TypeOK
  <2>5. Consistent'
    <3>1. /\ at' = [at EXCEPT ![s] = @ + 1] /\ at[s] <= request[s].to /\ stage[s] = "writing"
          /\ UNCHANGED <<stage, request, fd, stance, hashing, read, intact>>
      BY <1>1 DEF WriteChunk, scanVars
    <3>2. \A b \in Actor : ~Busy(b) => during'[b] = during[b]
      BY <2>3, NoteType
    <3>3. ASSUME NEW q \in Stream
          PROVE  /\ stage'[q] = "idle" => fd'[q] = None /\ during'[q] = {}
                 /\ stage'[q] = "writing" => /\ request'[q] \in Request /\ fd'[q] \in File
                                             /\ at'[q] <= request'[q].to + 1
      <4>1. stage'[q] = "idle" => fd'[q] = None /\ during'[q] = {}
        BY <3>1, <3>2, BusyActor DEF TypeInv, Consistent
      <4>2. at[s] \in 0 .. 1 /\ at \in [Stream -> 0 .. 2] /\ request[s].to \in {0, 1}
        BY <2>1, RequestType DEF TypeInv, TypeOK
      <4>3. CASE q = s
        BY <2>1, <3>1, <4>1, <4>2, <4>3
      <4>4. CASE q # s
        BY <3>1, <4>1, <4>2, <4>4 DEF TypeInv, Consistent
      <4>5. QED
        BY <4>3, <4>4
    <3>4. ASSUME NEW x \in Scanner
          PROVE  /\ stance'[x] = "hashing" <=> hashing'[x] # None
                 /\ stance'[x] \in {"idle", "found"} => read'[x] = 0 /\ intact'[x]
                 /\ stance'[x] = "idle" => during'[x] = {}
      BY <3>1, <3>2, BusyActor DEF TypeInv, Consistent
    <3>5. QED
      BY <3>3, <3>4 DEF Consistent
  <2>6. QED
    BY <2>4, <2>5 DEF TypeInv
<1>2. CASE FinishPush(s) \/ BreakPush(s)
  <2>1. EndPush(s) /\ Reclaim /\ UNCHANGED <<name, manifest, scanVars>>
    BY <1>2 DEF FinishPush, BreakPush
  <2>2. announced' \in BOOLEAN /\ faults' \in 0 .. MaxFaults
    <3>1. announced' \in BOOLEAN
      BY <1>2 DEF FinishPush, BreakPush, TypeInv, TypeOK
    <3>2. faults' \in 0 .. MaxFaults
      BY <1>2 DEF FinishPush, BreakPush, Fault, TypeInv, TypeOK
    <3>3. QED
      BY <3>1, <3>2
  <2>3. TypeOK'
    BY <2>1, <2>2, EndPushStep, ReclaimStep DEF scanVars, TypeInv, TypeOK
  <2>4. Consistent'
    BY <2>1, EndPushStep, BusyActor DEF scanVars, TypeInv, Consistent
  <2>5. QED
    BY <2>3, <2>4 DEF TypeInv
<1>3. ASSUME NEW r \in Request, OpenPush(s, r)
      PROVE  TypeInv'
  <2>1. name' \in File /\ fd' = [fd EXCEPT ![s] = name']
    BY <1>3, NewFileUnused DEF OpenPush, TypeInv, TypeOK
  <2>2. content' \in [File -> [Chunk -> {"empty", "good", "bad"}]]
    BY <1>3, NewFileUnused DEF OpenPush, Empty, TypeInv, TypeOK
  <2>3. \/ Note(s, "harmed") \/ during' = during
    BY <1>3 DEF OpenPush
  <2>4. /\ during' \in [Actor -> SUBSET Event]
        /\ \A b \in Actor : ~Busy(b) => during'[b] = during[b]
    BY <2>3, NoteType DEF Event, TypeInv, TypeOK
  <2>5. r.from \in 0 .. 2 /\ r.from <= r.to + 1 /\ r \in Request
    <3>1. r \in Request /\ r.from \in {0, 1} /\ r.to \in {0, 1}
      BY RequestType
    <3>2. QED
      BY <3>1
  <2>6. TypeOK'
    <3>1. /\ stage' = [stage EXCEPT ![s] = "writing"] /\ request' = [request EXCEPT ![s] = r]
          /\ at' = [at EXCEPT ![s] = r.from]
          /\ UNCHANGED <<manifest, announced, stance, hashing, read, intact, faults>>
      BY <1>3 DEF OpenPush, scanVars
    <3>2. /\ stage' \in [Stream -> {"idle", "writing"}]
          /\ request' \in [Stream -> Request \cup {None}]
      BY <2>5, <3>1 DEF TypeInv, TypeOK
    <3>3. fd' \in [Stream -> File \cup {None}] /\ at' \in [Stream -> 0 .. 2]
      BY <2>1, <2>5, <3>1 DEF TypeInv, TypeOK
    <3>4. QED
      BY <2>1, <2>2, <2>4, <3>1, <3>2, <3>3 DEF TypeInv, TypeOK
  <2>7. Consistent'
    <3>1. /\ stage' = [stage EXCEPT ![s] = "writing"] /\ request' = [request EXCEPT ![s] = r]
          /\ at' = [at EXCEPT ![s] = r.from]
          /\ UNCHANGED <<stance, hashing, read, intact>>
      BY <1>3 DEF OpenPush, scanVars
    <3>2. /\ stage'[s] = "writing" /\ request'[s] = r /\ at'[s] = r.from /\ fd'[s] = name'
          /\ \A q \in Stream : q # s =>
                stage'[q] = stage[q] /\ request'[q] = request[q] /\ at'[q] = at[q] /\ fd'[q] = fd[q]
      BY <2>1, <3>1 DEF TypeInv, TypeOK
    <3>3. ASSUME NEW q \in Stream
          PROVE  /\ stage'[q] = "idle" => fd'[q] = None /\ during'[q] = {}
                 /\ stage'[q] = "writing" => /\ request'[q] \in Request /\ fd'[q] \in File
                                             /\ at'[q] <= request'[q].to + 1
      <4>1. CASE q = s
        BY <2>1, <2>5, <3>2, <4>1
      <4>2. CASE q # s
        <5>1. stage[q] = "idle" => during'[q] = during[q]
          BY <2>4, BusyActor
        <5>2. QED
          BY <3>2, <4>2, <5>1 DEF TypeInv, Consistent
      <4>3. QED
        BY <4>1, <4>2
    <3>4. ASSUME NEW x \in Scanner
          PROVE  /\ stance'[x] = "hashing" <=> hashing'[x] # None
                 /\ stance'[x] \in {"idle", "found"} => read'[x] = 0 /\ intact'[x]
                 /\ stance'[x] = "idle" => during'[x] = {}
      <4>1. stance[x] = "idle" => during'[x] = during[x]
        BY <2>4, BusyActor
      <4>2. QED
        BY <3>1, <4>1 DEF TypeInv, Consistent
    <3>5. QED
      BY <3>3, <3>4 DEF Consistent
  <2>8. QED
    BY <2>6, <2>7 DEF TypeInv
<1>4. ASSUME NEW r \in Request, RefusePush(s, r)
      PROVE  TypeInv'
  <2>1. TypeOK'
    <3>1. announced' \in BOOLEAN
      BY <1>4 DEF RefusePush, TypeInv, TypeOK
    <3>2. faults' \in 0 .. MaxFaults
      BY <1>4 DEF RefusePush, Fault, TypeInv, TypeOK
    <3>3. QED
      BY <1>4, <3>1, <3>2 DEF RefusePush, pushVars, scanVars, TypeInv, TypeOK
  <2>2. Consistent'
    BY <1>4 DEF RefusePush, pushVars, scanVars, TypeInv, Consistent
  <2>3. QED
    BY <2>1, <2>2 DEF TypeInv
<1>5. QED
  BY <1>1, <1>2, <1>3, <1>4

\* What every step of a scan leaves alone, and where it stands afterwards.
LEMMA ScanStepTypes ==
    ASSUME TypeInv, NEW x \in Scanner, NEW from, NEW to, ScanStep(x, from, to),
           to \in {"idle", "found", "hashing", "moving"}
    PROVE  /\ stance[x] = from
           /\ stance' \in [Scanner -> {"idle", "found", "hashing", "moving"}]
           /\ stance'[x] = to
           /\ \A y \in Scanner : y # x => stance'[y] = stance[y]
           /\ UNCHANGED <<manifest, announced, stage, request, fd, at, faults>>
  BY DEF ScanStep, pushVars, TypeInv, TypeOK

\* Who is idle has no history.
LEMMA IdleHistory ==
    ASSUME Consistent, NEW b \in Actor, ~Busy(b)
    PROVE  during[b] = {}
  BY BusyActor DEF Consistent, Actor

\* A step of a scan leaves the handlers and the other scans as they fit.
LEMMA ScanFits ==
    ASSUME Consistent, NEW x \in Scanner, UNCHANGED <<stage, request, fd, at>>,
           \A y \in Scanner : y # x =>
               /\ stance'[y] = stance[y] /\ hashing'[y] = hashing[y]
               /\ read'[y] = read[y] /\ intact'[y] = intact[y],
           \A b \in Actor : b # x /\ ~Busy(b) => during'[b] = {},
           stance'[x] = "hashing" <=> hashing'[x] # None,
           stance'[x] \in {"idle", "found"} => read'[x] = 0 /\ intact'[x],
           stance'[x] = "idle" => during'[x] = {}
    PROVE  Consistent'
<1>1. ASSUME NEW s \in Stream
      PROVE  /\ stage'[s] = "idle" => fd'[s] = None /\ during'[s] = {}
             /\ stage'[s] = "writing" => /\ request'[s] \in Request /\ fd'[s] \in File
                                         /\ at'[s] <= request'[s].to + 1
  <2>1. s # x
    BY ActorAssumption
  <2>2. stage[s] = "idle" => during'[s] = {}
    BY <2>1, BusyActor
  <2>3. QED
    BY <2>2 DEF Consistent
<1>2. ASSUME NEW y \in Scanner
      PROVE  /\ stance'[y] = "hashing" <=> hashing'[y] # None
             /\ stance'[y] \in {"idle", "found"} => read'[y] = 0 /\ intact'[y]
             /\ stance'[y] = "idle" => during'[y] = {}
  <2>1. CASE y = x
    BY <2>1
  <2>2. CASE y # x
    <3>1. stance[y] = "idle" => during'[y] = {}
      BY <2>2, BusyActor
    <3>2. QED
      BY <2>2, <3>1 DEF Consistent
  <2>3. QED
    BY <2>1, <2>2
<1>3. QED
  BY <1>1, <1>2 DEF Consistent

\* The steps of a scan keep the types.
LEMMA ScanTypes ==
    ASSUME TypeInv, NEW x \in Scanner, Scan(x)
    PROVE  TypeInv'
<1> USE DEF TypeInv
<1>1. CASE FindShard(x)
  <2>1. /\ ScanStep(x, "idle", "found")
        /\ UNCHANGED <<content, name, hashing, read, intact, during>>
    BY <1>1 DEF FindShard
  <2>2. TypeOK'
    BY <2>1, ScanStepTypes DEF TypeOK
  <2>3. stance[x] = "idle" /\ hashing[x] = None /\ read[x] = 0 /\ intact[x]
    BY <2>1, ScanStepTypes DEF Consistent
  <2>4. \A b \in Actor : b # x /\ ~Busy(b) => during'[b] = {}
    BY <2>1, IdleHistory
  <2>5. Consistent'
    BY <2>1, <2>3, <2>4, ScanStepTypes, ScanFits
  <2>6. QED
    BY <2>2, <2>5
<1>2. CASE OpenShard(x)
  <2>1. \A b \in Actor : b # x /\ ~Busy(b) => during'[b] = {}
    BY <1>2, IdleHistory DEF OpenShard
  <2>2. CASE name = None
    <3>1. /\ ScanStep(x, "found", "moving")
          /\ UNCHANGED <<content, name, hashing, read, intact, during>>
      BY <1>2, <2>2 DEF OpenShard
    <3>2. TypeOK'
      BY <3>1, ScanStepTypes DEF TypeOK
    <3>3. hashing[x] = None
      BY <3>1, ScanStepTypes DEF Consistent
    <3>4. Consistent'
      BY <2>1, <3>1, <3>3, ScanStepTypes, ScanFits
    <3>5. QED
      BY <3>2, <3>4
  <2>3. CASE name # None
    <3>1. /\ ScanStep(x, "found", "hashing") /\ hashing' = [hashing EXCEPT ![x] = name]
          /\ UNCHANGED <<content, name, read, intact, during>>
      BY <1>2, <2>3 DEF OpenShard
    <3>2. /\ hashing' \in [Scanner -> File \cup {None}] /\ hashing'[x] = name
          /\ \A y \in Scanner : y # x => hashing'[y] = hashing[y]
      BY <3>1 DEF TypeOK
    <3>3. TypeOK'
      BY <3>1, <3>2, ScanStepTypes DEF TypeOK
    <3>4. Consistent'
      BY <2>1, <2>3, <3>1, <3>2, ScanStepTypes, ScanFits
    <3>5. QED
      BY <3>3, <3>4
  <2>4. QED
    BY <2>2, <2>3
<1>3. CASE ReadChunk(x)
  <2>1. ScanStep(x, "hashing", "hashing") /\ read[x] \in 0 .. 1
    BY <1>3 DEF ReadChunk, TypeOK
  <2>2. /\ intact' \in [Scanner -> BOOLEAN] /\ read' \in [Scanner -> 0 .. 2]
        /\ \A y \in Scanner : y # x => read'[y] = read[y] /\ intact'[y] = intact[y]
        /\ UNCHANGED <<content, name, hashing, during>>
    BY <1>3, <2>1 DEF ReadChunk, TypeOK
  <2>3. TypeOK'
    BY <2>1, <2>2, ScanStepTypes DEF TypeOK
  <2>4. \A b \in Actor : b # x /\ ~Busy(b) => during'[b] = {}
    BY <2>2, IdleHistory
  <2>5. hashing[x] # None
    BY <2>1, ScanStepTypes DEF Consistent
  <2>6. Consistent'
    BY <2>1, <2>2, <2>4, <2>5, ScanStepTypes, ScanFits
  <2>7. QED
    BY <2>3, <2>6
<1>4. CASE ReportHealthy(x)
  <2>1. ScanStep(x, "hashing", "idle") /\ Reclaim /\ UNCHANGED name
    BY <1>4 DEF ReportHealthy, EndScan
  <2>2. /\ read' \in [Scanner -> 0 .. 2] /\ intact' \in [Scanner -> BOOLEAN]
        /\ hashing' \in [Scanner -> File \cup {None}]
        /\ read'[x] = 0 /\ intact'[x] /\ hashing'[x] = None
        /\ \A y \in Scanner : y # x =>
              read'[y] = read[y] /\ intact'[y] = intact[y] /\ hashing'[y] = hashing[y]
    BY <1>4 DEF ReportHealthy, EndScan, TypeOK
  <2>3. /\ during' \in [Actor -> SUBSET Event] /\ during'[x] = {}
        /\ \A b \in Actor : b # x => during'[b] = during[b]
    BY <1>4, BusyActor DEF ReportHealthy, TypeOK
  <2>4. TypeOK'
    BY <2>1, <2>2, <2>3, ScanStepTypes, ReclaimStep DEF TypeOK
  <2>5. \A b \in Actor : b # x /\ ~Busy(b) => during'[b] = {}
    BY <2>3, IdleHistory
  <2>6. Consistent'
    BY <2>1, <2>2, <2>3, <2>5, ScanStepTypes, ScanFits
  <2>7. QED
    BY <2>4, <2>6
<1>5. CASE FindCorrupt(x)
  <2>1. /\ ScanStep(x, "hashing", "moving") /\ Reclaim
        /\ UNCHANGED <<name, read, intact, during>>
    BY <1>5 DEF FindCorrupt
  <2>2. /\ hashing' \in [Scanner -> File \cup {None}] /\ hashing'[x] = None
        /\ \A y \in Scanner : y # x => hashing'[y] = hashing[y]
    BY <1>5 DEF FindCorrupt, TypeOK
  <2>3. TypeOK'
    BY <2>1, <2>2, ScanStepTypes, ReclaimStep DEF TypeOK
  <2>4. \A b \in Actor : b # x /\ ~Busy(b) => during'[b] = {}
    BY <2>1, IdleHistory
  <2>5. Consistent'
    BY <2>1, <2>2, <2>4, ScanStepTypes, ScanFits
  <2>6. QED
    BY <2>3, <2>5
<1>6. CASE Quarantine(x)
  <2>1. /\ during' \in [Actor -> SUBSET Event]
        /\ during'[x] = {}
        /\ \A b \in Actor : ~Busy(b) => during'[b] = {}
    BY <1>6, BusyActor DEF Quarantine, TypeOK, Event
  <2>2. ScanStep(x, "moving", "idle") /\ name' = None /\ hashing' = hashing /\ Reclaim
    BY <1>6 DEF Quarantine, EndScan
  <2>3. /\ read' \in [Scanner -> 0 .. 2] /\ intact' \in [Scanner -> BOOLEAN]
        /\ read'[x] = 0 /\ intact'[x]
        /\ \A y \in Scanner : y # x => read'[y] = read[y] /\ intact'[y] = intact[y]
    BY <1>6 DEF Quarantine, EndScan, TypeOK
  <2>4. TypeOK'
    BY <2>1, <2>2, <2>3, ScanStepTypes, ReclaimStep DEF TypeOK
  <2>5. hashing[x] = None
    BY <2>2, ScanStepTypes DEF Consistent
  <2>6. Consistent'
    BY <2>1, <2>2, <2>3, <2>5, ScanStepTypes, ScanFits
  <2>7. QED
    BY <2>4, <2>6
<1>7. QED
  BY <1>1, <1>2, <1>3, <1>4, <1>5, <1>6 DEF Scan

\* So do the failures of a scan.
LEMMA ScanFaultTypes ==
    ASSUME TypeInv, NEW x \in Scanner, ReadFails(x) \/ MoveFails(x)
    PROVE  TypeInv'
<1> USE DEF TypeInv
<1>1. CASE ReadFails(x)
  <2>1. /\ stance' = [stance EXCEPT ![x] = "moving"]
        /\ hashing' = [hashing EXCEPT ![x] = None]
        /\ during' = [during EXCEPT ![x] = @ \cup {"unread"}]
        /\ UNCHANGED <<name, manifest, announced, stage, request, fd, at, read, intact>>
        /\ Reclaim /\ faults' \in 0 .. MaxFaults
    BY <1>1 DEF ReadFails, Fault, pushVars, TypeOK
  <2>2. TypeOK'
    BY <2>1, ReclaimStep, BusyActor DEF TypeOK, Event
  <2>3. \A b \in Actor : b # x /\ ~Busy(b) => during'[b] = {}
    BY <2>1, IdleHistory DEF TypeOK
  <2>4. Consistent'
    BY <2>1, <2>3, ScanFits DEF TypeOK
  <2>5. QED
    BY <2>2, <2>4
<1>2. CASE MoveFails(x)
  <2>1. /\ stance' = [stance EXCEPT ![x] = "idle"] /\ stance[x] = "moving"
        /\ read' = [read EXCEPT ![x] = 0] /\ intact' = [intact EXCEPT ![x] = TRUE]
        /\ during' = [during EXCEPT ![x] = {}]
        /\ UNCHANGED <<content, name, manifest, announced, stage, request, fd, at, hashing>>
        /\ faults' \in 0 .. MaxFaults
    BY <1>2 DEF MoveFails, Fault, pushVars, TypeOK
  <2>2. TypeOK'
    BY <2>1, BusyActor DEF TypeOK
  <2>3. \A b \in Actor : b # x /\ ~Busy(b) => during'[b] = {}
    BY <2>1, IdleHistory DEF TypeOK
  <2>4. hashing[x] = None /\ during'[x] = {}
    BY <2>1, BusyActor DEF Consistent, TypeOK
  <2>5. Consistent'
    BY <2>1, <2>3, <2>4, ScanFits DEF TypeOK
  <2>6. QED
    BY <2>2, <2>5
<1>3. QED
  BY <1>1, <1>2

\* Manifest pushes, decay and restarts keep the types.
LEMMA OtherTypes ==
    ASSUME TypeInv, TruncateManifest \/ WriteManifest \/ BitRot \/ Restart
    PROVE  TypeInv'
<1> USE DEF TypeInv
<1>1. CASE TruncateManifest \/ WriteManifest
  BY <1>1 DEF TruncateManifest, WriteManifest, pushVars, scanVars, TypeOK, Consistent
<1>2. CASE BitRot
  <2>1. /\ during' \in [Actor -> SUBSET Event]
        /\ \A b \in Actor : ~Busy(b) => during'[b] = during[b]
    BY <1>2, NoteType DEF BitRot, Event
  <2>2. content' \in [File -> [Chunk -> {"empty", "good", "bad"}]]
    BY <1>2 DEF BitRot, Hosted, TypeOK
  <2>3. TypeOK'
    BY <1>2, <2>1, <2>2 DEF BitRot, Fault, pushVars, scanVars, TypeOK
  <2>4. Consistent'
    BY <1>2, <2>1, BusyActor DEF BitRot, pushVars, scanVars, Consistent
  <2>5. QED
    BY <2>3, <2>4
<1>3. CASE Restart
  <2>1. TypeOK'
    BY <1>3, ReclaimStep DEF Restart, Fault, TypeOK
  <2>2. Consistent'
    BY <1>3, BusyActor DEF Restart, TypeOK, Consistent
  <2>3. QED
    BY <2>1, <2>2
<1>4. QED
  BY <1>1, <1>2, <1>3

\* Every step keeps the types.
LEMMA TypeStep == TypeInv /\ [Next]_vars => TypeInv'
<1> SUFFICES ASSUME TypeInv, [Next]_vars
             PROVE  TypeInv'
  OBVIOUS
<1>1. CASE UNCHANGED vars
  BY <1>1 DEF vars, pushVars, scanVars, TypeInv, TypeOK, Consistent
<1>2. CASE Next
  BY <1>2, PushTypes, ScanTypes, ScanFaultTypes, OtherTypes DEF Next, Push
<1>3. QED
  BY <1>1, <1>2

\* The types and the fit of the local variables in all reachable states.
LEMMA TypeInvariant == Spec => []TypeInv
<1>1. ASSUME Init PROVE TypeInv
  <2>1. TypeOK
    <3>1. Empty \in [Chunk -> {"empty", "good", "bad"}]
      BY DEF Empty
    <3>2. faults \in 0 .. MaxFaults
      BY <1>1 DEF Init
    <3>3. announced \in BOOLEAN
      BY <1>1 DEF Init
    <3>4. QED
      BY <1>1, <3>1, <3>2, <3>3 DEF Init, TypeOK
  <2>2. Consistent
    BY <1>1, BusyActor DEF Init, Consistent
  <2>3. QED
    BY <2>1, <2>2 DEF TypeInv
<1>2. QED
  BY <1>1, TypeStep, PTL DEF Spec

\* Every variable keeps its type.
THEOREM TypeCorrect == Spec => []TypeOK
<1>1. TypeInv => TypeOK
  BY DEF TypeInv
<1>2. QED
  BY <1>1, TypeInvariant, PTL

----------------------------------------------------------------------------
(* What a busy actor can miss                                               *)

\* A scan's local variables change in its own steps and in restarts only, and
\* so do those of a push.
LEMMA LocalStep ==
    ASSUME TypeInv, [Next]_vars
    PROVE  /\ \A x \in Scanner :
                \/ Scan(x) \/ ReadFails(x) \/ MoveFails(x) \/ Restart
                \/ /\ stance'[x] = stance[x] /\ hashing'[x] = hashing[x]
                   /\ read'[x] = read[x] /\ intact'[x] = intact[x]
           /\ \A s \in Stream :
                \/ Push(s) \/ BreakPush(s) \/ Restart
                \/ \E r \in Request : OpenPush(s, r)
                \/ /\ stage'[s] = stage[s] /\ request'[s] = request[s]
                   /\ fd'[s] = fd[s] /\ at'[s] = at[s]
<1>1. CASE UNCHANGED vars
  BY <1>1 DEF vars, pushVars, scanVars
<1>2. ASSUME NEW s \in Stream, WriteChunk(s) \/ FinishPush(s) \/ BreakPush(s)
      PROVE  /\ UNCHANGED scanVars
             /\ \A q \in Stream : q # s =>
                  /\ stage'[q] = stage[q] /\ request'[q] = request[q]
                  /\ fd'[q] = fd[q] /\ at'[q] = at[q]
  BY <1>2, EndPushStep
     DEF WriteChunk, FinishPush, BreakPush, TypeInv, TypeOK
<1>3. ASSUME NEW s \in Stream, NEW r \in Request, OpenPush(s, r)
      PROVE  /\ UNCHANGED scanVars
             /\ \A q \in Stream : q # s =>
                  /\ stage'[q] = stage[q] /\ request'[q] = request[q]
                  /\ fd'[q] = fd[q] /\ at'[q] = at[q]
  BY <1>3 DEF OpenPush, TypeInv, TypeOK
<1>4. ASSUME NEW x \in Scanner, Scan(x) \/ ReadFails(x) \/ MoveFails(x)
      PROVE  /\ UNCHANGED pushVars
             /\ \A y \in Scanner : y # x =>
                  /\ stance'[y] = stance[y] /\ hashing'[y] = hashing[y]
                  /\ read'[y] = read[y] /\ intact'[y] = intact[y]
  BY <1>4 DEF Scan, FindShard, OpenShard, ReadChunk, ReportHealthy, FindCorrupt,
              Quarantine, EndScan, ScanStep, ReadFails, MoveFails, TypeInv, TypeOK
<1>5. ASSUME \/ \E s \in Stream, r \in Request : RefusePush(s, r)
             \/ TruncateManifest \/ WriteManifest \/ BitRot
      PROVE  UNCHANGED pushVars /\ UNCHANGED scanVars
  BY <1>5 DEF RefusePush, TruncateManifest, WriteManifest, BitRot
<1>6. QED
  BY <1>1, <1>2, <1>3, <1>4, <1>5 DEF Next, Push, pushVars, scanVars

\* The file under the shard's name keeps it, and the good chunks that it has.
Unharmed ==
    /\ name' = name
    /\ \A c \in Chunk : content[name][c] = "good" => content'[name][c] = "good"

\* No file becomes good, and no good file gets the name.
Unwritten ==
    /\ \A f \in File : Good(f)' => Good(f)
    /\ name' = name \/ (name # None => ~Good(name))'

\* What is done to the shard while b is busy is in b's history.
Noted(b) ==
    /\ during[b] \subseteq during'[b]
    /\ "harmed" \notin during'[b] /\ name # None => Unharmed
    /\ "written" \notin during'[b] => Unwritten

\* Every step is noted by those who are busy, but for what a push itself writes.
LEMMA StepNoted ==
    ASSUME TypeInv, [Next]_vars, NEW b \in Actor, Busy(b), Busy(b)',
           ~(b \in Stream /\ WriteChunk(b))
    PROVE  Noted(b)
<1>a. /\ Event = {"written", "harmed", "unread"} /\ name \in File \cup {None}
      /\ content \in [File -> [Chunk -> {"empty", "good", "bad"}]]
      /\ Chunk = {0, 1}
  BY DEF Event, Chunk, TypeInv, TypeOK
<1>b. ASSUME UNCHANGED name, Reclaim,
             during'[b] = during[b] \/ during'[b] = during[b] \cup {"unread"}
      PROVE  Noted(b)
  BY <1>b, <1>a, ReclaimStep DEF Noted, Unwritten, Unharmed, Used
<1>c. ASSUME UNCHANGED <<content, name>>, during'[b] = during[b]
      PROVE  Noted(b)
  BY <1>c DEF Noted, Unharmed, Unwritten, Good
<1>1. ASSUME NEW s \in Stream, WriteChunk(s)
      PROVE  Noted(b)
  <2>1. s # b /\ request[s] \in Request /\ fd[s] \in File /\ at[s] \in Chunk
    <3>1. s # b
      BY <1>1
    <3>2. request[s] \in Request /\ fd[s] \in File /\ at[s] \in Int /\ at[s] >= 0
      BY <1>1, WritingHas DEF WriteChunk
    <3>3. request[s].to \in {0, 1} /\ at[s] <= request[s].to
      BY <1>1, <3>2, RequestType DEF WriteChunk
    <3>4. at[s] \in Chunk
      BY <3>2, <3>3 DEF Chunk
    <3>5. QED
      BY <3>1, <3>2, <3>4
  <2>2. CASE request[s].right
    <3>1. during'[b] = during[b] \cup {"written"}
      BY <1>1, <2>1, <2>2, <1>a, NoteType DEF WriteChunk
    <3>2. name' = name /\ content' = [content EXCEPT ![fd[s]][at[s]] = "good"]
      BY <1>1, <2>2 DEF WriteChunk
    <3>3. name # None => Unharmed
      BY <3>2, <2>1, <1>a DEF Unharmed
    <3>4. QED
      BY <3>1, <3>3 DEF Noted
  <2>3. CASE ~request[s].right
    <3>1. during'[b] = during[b] \cup {"harmed"}
      BY <1>1, <2>1, <2>3, <1>a, NoteType DEF WriteChunk
    <3>2. name' = name /\ content' = [content EXCEPT ![fd[s]][at[s]] = "bad"]
      BY <1>1, <2>3 DEF WriteChunk
    <3>3. Unwritten
      BY <3>2, <2>1, <1>a DEF Unwritten, Good
    <3>4. QED
      BY <3>1, <3>3 DEF Noted
  <2>4. QED
    BY <2>2, <2>3
<1>2. ASSUME NEW s \in Stream, FinishPush(s) \/ BreakPush(s)
      PROVE  Noted(b)
  <2>1. EndPush(s) /\ Reclaim /\ UNCHANGED name
    BY <1>2 DEF FinishPush, BreakPush
  <2>2. s # b
    BY <2>1, EndPushStep, BusyActor DEF Busy
  <2>3. QED
    BY <2>1, <2>2, <1>b, EndPushStep
<1>3. ASSUME NEW s \in Stream, NEW r \in Request, OpenPush(s, r)
      PROVE  Noted(b)
  <2>1. s # b
    BY <1>3, BusyActor DEF OpenPush
  <2>2. Empty \in [Chunk -> {"empty", "good", "bad"}] /\ \A c \in Chunk : Empty[c] # "good"
    BY DEF Empty
  <2>3. CASE name = None
    <3>1. name' \in File /\ content' = [content EXCEPT ![name'] = Empty]
      BY <1>3, <2>3, NewFileUnused DEF OpenPush
    <3>2. Unwritten
      BY <3>1, <2>2, <1>a DEF Unwritten, Good
    <3>3. during[b] \subseteq during'[b]
      BY <1>3, <2>1, <1>a, NoteType DEF OpenPush
    <3>4. QED
      BY <2>3, <3>2, <3>3 DEF Noted
  <2>4. CASE name # None /\ r.from = 0
    <3>1. name' = name /\ content' = [content EXCEPT ![name] = Empty]
      BY <1>3, <2>4 DEF OpenPush
    <3>2. Unwritten
      BY <3>1, <2>2, <2>4, <1>a DEF Unwritten, Good
    <3>3. during'[b] = during[b] \cup {"harmed"}
      BY <1>3, <2>1, <2>4, <1>a, NoteType DEF OpenPush
    <3>4. QED
      BY <3>2, <3>3 DEF Noted
  <2>5. CASE name # None /\ r.from # 0
    BY <1>3, <2>5, <1>c DEF OpenPush
  <2>6. QED
    BY <2>3, <2>4, <2>5
<1>4. ASSUME NEW x \in Scanner, Scan(x)
      PROVE  Noted(b)
  <2>1. CASE FindShard(x) \/ OpenShard(x) \/ ReadChunk(x)
    BY <2>1, <1>c DEF FindShard, OpenShard, ReadChunk
  <2>2. CASE FindCorrupt(x)
    BY <2>2, <1>b DEF FindCorrupt
  <2>3. CASE ReportHealthy(x)
    <3>1. x # b
      BY <2>3, BusyActor, ScanStepTypes DEF ReportHealthy, EndScan, Busy
    <3>2. QED
      BY <2>3, <3>1, <1>b DEF ReportHealthy, TypeInv, TypeOK
  <2>4. CASE Quarantine(x)
    <3>1. x # b
      BY <2>4, BusyActor, ScanStepTypes DEF Quarantine, EndScan, Busy
    <3>2. name' = None /\ Reclaim
      BY <2>4 DEF Quarantine
    <3>3. during'[b] = IF name = None THEN during[b] ELSE during[b] \cup {"harmed"}
      BY <2>4, <3>1 DEF Quarantine
    <3>4. Unwritten
      BY <3>2, ReclaimStep DEF Unwritten
    <3>5. QED
      BY <3>3, <3>4 DEF Noted
  <2>5. QED
    BY <1>4, <2>1, <2>2, <2>3, <2>4 DEF Scan
<1>9. ASSUME NEW x \in Scanner, ReadFails(x)
      PROVE  Noted(b)
  <2>1. during'[b] = during[b] \/ during'[b] = during[b] \cup {"unread"}
    BY <1>9 DEF ReadFails, TypeInv, TypeOK
  <2>2. QED
    BY <1>9, <2>1, <1>b DEF ReadFails
<1>10. ASSUME NEW x \in Scanner, MoveFails(x)
       PROVE  Noted(b)
  <2>1. x # b
    BY <1>10, BusyActor, ActorAssumption DEF MoveFails, Busy, TypeInv, TypeOK
  <2>2. during'[b] = during[b]
    BY <1>10, <2>1 DEF MoveFails, TypeInv, TypeOK
  <2>3. QED
    BY <1>10, <2>2, <1>c DEF MoveFails
<1>5. CASE BitRot
  <2>1. name \in File /\ name' = name
    BY <1>5, <1>a DEF BitRot, Hosted
  <2>2. PICK c \in Chunk : content' = [content EXCEPT ![name][c] = "bad"]
    BY <1>5 DEF BitRot
  <2>3. Unwritten
    BY <2>1, <2>2, <1>a DEF Unwritten, Good
  <2>4. None # b
    BY DEF Actor
  <2>5. during'[b] = during[b] \cup {"harmed"}
    BY <1>5, <2>4, <1>a, NoteType DEF BitRot
  <2>6. QED
    BY <2>3, <2>5 DEF Noted
<1>6. ASSUME \/ \E s \in Stream, r \in Request : RefusePush(s, r)
             \/ TruncateManifest \/ WriteManifest \/ UNCHANGED vars
      PROVE  Noted(b)
  BY <1>6, <1>c DEF RefusePush, TruncateManifest, WriteManifest, vars
<1>7. CASE Restart
  BY <1>7 DEF Restart, Busy
<1>8. QED
  BY <1>1, <1>2, <1>3, <1>4, <1>5, <1>6, <1>7, <1>9, <1>10 DEF Next, Push

----------------------------------------------------------------------------
(* Health bitmap                                                            *)

\* A scan that nobody has disturbed reads the file under the shard's name, and
\* while no chunk was wrong, those it has read are right to this day.
ReadsHosted ==
    \A x \in Scanner :
        stance[x] = "hashing" /\ "harmed" \notin during[x] =>
          /\ name = hashing[x]
          /\ intact[x] => \A c \in Chunk : c < read[x] => content[name][c] = "good"

\* Every step keeps it.
LEMMA ReadsHostedStep == TypeInv /\ ReadsHosted /\ [Next]_vars => ReadsHosted'
<1> SUFFICES ASSUME TypeInv, ReadsHosted, [Next]_vars, NEW x \in Scanner,
                    stance'[x] = "hashing", "harmed" \notin during'[x]
             PROVE  /\ name' = hashing'[x]
                    /\ intact'[x] => \A c \in Chunk :
                                       c < read'[x] => content'[name'][c] = "good"
  BY DEF ReadsHosted
<1>1. TypeInv' /\ Busy(x)' /\ x \in Actor /\ x \notin Stream
  BY TypeStep, BusyActor DEF Busy
<1>2. CASE OpenShard(x)
  <2>1. name # None /\ hashing'[x] = name /\ name' = name /\ read' = read /\ stance[x] = "found"
    BY <1>2, ScanStepTypes DEF OpenShard, TypeInv, TypeOK
  <2>2. \A c \in Chunk : ~(c < read'[x])
    BY <2>1 DEF TypeInv, Consistent, Chunk
  <2>3. QED
    BY <2>1, <2>2
<1>3. CASE ReadChunk(x)
  <2>1. /\ stance[x] = "hashing" /\ UNCHANGED <<content, name, hashing, during>>
        /\ read[x] \in 0 .. 1 /\ read'[x] = read[x] + 1
        /\ intact'[x] = (intact[x] /\ content[hashing[x]][read[x]] = "good")
    BY <1>3, ScanStepTypes DEF ReadChunk, TypeInv, TypeOK
  <2>2. /\ name = hashing[x]
        /\ intact[x] => \A c \in Chunk : c < read[x] => content[name][c] = "good"
    BY <2>1 DEF ReadsHosted
  <2>3. \A c \in Chunk : c < read'[x] => c < read[x] \/ c = read[x]
    BY <2>1 DEF Chunk
  <2>4. intact'[x] => intact[x] /\ content[hashing[x]][read[x]] = "good"
    BY <2>1, Zenon
  <2>5. QED
    BY <2>1, <2>2, <2>3, <2>4
<1>4. CASE stance'[x] = stance[x] /\ hashing'[x] = hashing[x]
           /\ read'[x] = read[x] /\ intact'[x] = intact[x]
  <2>1. Noted(x)
    BY <1>1, <1>4, StepNoted, BusyActor
  <2>2. /\ name = hashing[x] /\ name # None
        /\ intact[x] => \A c \in Chunk : c < read[x] => content[name][c] = "good"
    BY <1>4, <2>1 DEF Noted, ReadsHosted, TypeInv, Consistent
  <2>3. Unharmed
    BY <2>1, <2>2 DEF Noted
  <2>4. QED
    BY <1>4, <2>2, <2>3 DEF Unharmed
<1>5. CASE FindShard(x) \/ ReportHealthy(x) \/ FindCorrupt(x) \/ Quarantine(x) \/ Restart
  BY <1>5, ScanStepTypes
     DEF FindShard, ReportHealthy, FindCorrupt, Quarantine, EndScan, Restart
<1>6. CASE ReadFails(x) \/ MoveFails(x)
  BY <1>6 DEF ReadFails, MoveFails, TypeInv, TypeOK
<1>7. QED
  BY <1>2, <1>3, <1>4, <1>5, <1>6, LocalStep DEF Scan

\* A set bit in the health bitmap is right, unless the shard was truncated,
\* moved or damaged while it was being hashed.
THEOREM BitmapTruthful == Spec => []HealthyIsHosted
<1>1. Init => ReadsHosted
  BY DEF Init, ReadsHosted
<1>2. TypeInv /\ ReadsHosted => HealthyIsHosted
  BY DEF ReadsHosted, HealthyIsHosted, HashMatches, Hosted, Good, Chunk, TypeInv, Consistent
<1>3. QED
  BY <1>1, <1>2, TypeInvariant, ReadsHostedStep, PTL DEF Spec

----------------------------------------------------------------------------
(* Acknowledged pushes                                                      *)

\* A push of a whole shard that nobody has disturbed writes to the file under
\* the shard's name, and what it has written is there.
WritesHosted ==
    \A s \in Stream :
        /\ stage[s] = "writing" /\ request[s].right /\ request[s].from = 0
        /\ during[s] = {}
        => /\ name = fd[s]
           /\ \A c \in Chunk : c < at[s] => content[name][c] = "good"

\* Every step keeps it.
LEMMA WritesHostedStep == TypeInv /\ WritesHosted /\ [Next]_vars => WritesHosted'
<1> SUFFICES ASSUME TypeInv, WritesHosted, [Next]_vars, NEW s \in Stream,
                    stage'[s] = "writing", request'[s].right, request'[s].from = 0,
                    during'[s] = {}
             PROVE  /\ name' = fd'[s]
                    /\ \A c \in Chunk : c < at'[s] => content'[name'][c] = "good"
  BY DEF WritesHosted
<1>1. Busy(s)' /\ s \in Actor
  BY BusyActor DEF Busy
<1>2. CASE WriteChunk(s)
  <2>1. /\ request[s] \in Request /\ fd[s] \in File /\ at[s] \in Chunk
        /\ stage[s] = "writing" /\ fd' = fd /\ name' = name /\ request' = request
        /\ at'[s] = at[s] + 1
    BY <1>2, RequestType DEF WriteChunk, TypeInv, TypeOK, Consistent, Chunk
  <2>2. during'[s] = during[s]
    BY <1>2, BusyActor, NoteType DEF WriteChunk, Event
  <2>3. content' = [content EXCEPT ![fd[s]][at[s]] = "good"]
    BY <1>2, <2>1 DEF WriteChunk
  <2>4. name = fd[s] /\ \A c \in Chunk : c < at[s] => content[name][c] = "good"
    BY <2>1, <2>2 DEF WritesHosted
  <2>5. QED
    BY <2>1, <2>3, <2>4 DEF TypeInv, TypeOK, Chunk
<1>3. ASSUME NEW r \in Request, OpenPush(s, r)
      PROVE  /\ name' = fd'[s]
             /\ \A c \in Chunk : c < at'[s] => content'[name'][c] = "good"
  <2>1. name' = fd'[s] /\ request'[s] = r /\ at'[s] = r.from
    BY <1>3 DEF OpenPush, TypeInv, TypeOK
  <2>2. QED
    BY <2>1 DEF Chunk
<1>4. CASE stage'[s] = stage[s] /\ request'[s] = request[s]
           /\ fd'[s] = fd[s] /\ at'[s] = at[s] /\ ~WriteChunk(s)
  <2>1. Noted(s)
    BY <1>1, <1>4, StepNoted, BusyActor
  <2>2. /\ name = fd[s] /\ name # None
        /\ \A c \in Chunk : c < at[s] => content[name][c] = "good"
    BY <1>4, <2>1 DEF Noted, WritesHosted, TypeInv, Consistent
  <2>3. Unharmed
    BY <2>1, <2>2 DEF Noted
  <2>4. QED
    BY <1>4, <2>2, <2>3 DEF Unharmed
<1>5. CASE FinishPush(s) \/ BreakPush(s) \/ Restart
  <2>1. stage'[s] = "idle"
    BY <1>5, EndPushStep DEF FinishPush, BreakPush, Restart
  <2>2. QED
    BY <2>1
<1>6. QED
  BY <1>2, <1>3, <1>4, <1>5, LocalStep DEF Push

\* A shard that is pushed whole and right, with nobody interfering, is stored
\* when the push is answered with "ok".
THEOREM AckTruthful == Spec => []AckedIsStored
<1>1. Init => WritesHosted
  BY DEF Init, WritesHosted
<1>2. TypeInv /\ WritesHosted => AckedIsStored
  <2> SUFFICES ASSUME TypeInv, WritesHosted, NEW s \in Stream,
                      Acked(s), request[s].right,
                      request[s].from = 0, request[s].to = 1, during[s] = {}
               PROVE  Hosted
    BY DEF AckedIsStored
  <2>1. name = fd[s] /\ fd[s] \in File /\ \A c \in Chunk : content[name][c] = "good"
    BY DEF Acked, WritesHosted, TypeInv, TypeOK, Consistent, Chunk
  <2>2. QED
    BY <2>1 DEF Hosted, Good
<1>3. QED
  BY <1>1, <1>2, TypeInvariant, WritesHostedStep, PTL DEF Spec

----------------------------------------------------------------------------
(* Quarantine                                                               *)

\* When the scan could read the shard and nobody has written to it since the
\* scan found it, a wrong hash
\* means that neither the file that was read nor any that has got the name
\* since is good.
ReadsWrong ==
    \A x \in Scanner :
        during[x] \cap {"written", "unread"} = {} =>
          /\ stance[x] = "hashing" =>
               /\ ~intact[x] => ~Good(hashing[x])
               /\ name # hashing[x] /\ name # None => ~Good(name)
          /\ stance[x] = "moving" /\ name # None => ~Good(name)

\* Every step keeps it.
LEMMA ReadsWrongStep == TypeInv /\ ReadsWrong /\ [Next]_vars => ReadsWrong'
<1> SUFFICES ASSUME TypeInv, ReadsWrong, [Next]_vars, NEW x \in Scanner,
                    during'[x] \cap {"written", "unread"} = {}
             PROVE  (/\ stance[x] = "hashing" =>
                          /\ ~intact[x] => ~Good(hashing[x])
                          /\ name # hashing[x] /\ name # None => ~Good(name)
                     /\ stance[x] = "moving" /\ name # None => ~Good(name))'
  BY DEF ReadsWrong
<1>1. TypeInv' /\ x \in Actor /\ x \notin Stream
  BY TypeStep, BusyActor
<1>2. CASE OpenShard(x)
  BY <1>2, ScanStepTypes DEF OpenShard, TypeInv, TypeOK, Consistent
<1>3. CASE ReadChunk(x)
  <2>1. /\ stance[x] = "hashing" /\ stance'[x] = "hashing"
        /\ UNCHANGED <<content, name, hashing, during>>
        /\ read[x] \in Chunk
        /\ intact'[x] = (intact[x] /\ content[hashing[x]][read[x]] = "good")
    BY <1>3, ScanStepTypes DEF ReadChunk, TypeInv, TypeOK, Chunk
  <2>2. QED
    BY <2>1 DEF ReadsWrong, Good
<1>4. CASE FindCorrupt(x)
  <2>1. /\ stance[x] = "hashing" /\ stance'[x] = "moving" /\ ~intact[x]
        /\ UNCHANGED <<name, during>> /\ Reclaim
    BY <1>4, ScanStepTypes DEF FindCorrupt
  <2>2. name # None => ~Good(name)
    BY <2>1 DEF ReadsWrong
  <2>3. name # None => name \in File
    BY DEF TypeInv, TypeOK
  <2>4. QED
    BY <2>1, <2>2, <2>3, ReclaimStep DEF Used, Good
<1>5. CASE stance'[x] = stance[x] /\ hashing'[x] = hashing[x]
           /\ read'[x] = read[x] /\ intact'[x] = intact[x]
  <2>1. CASE stance[x] \in {"idle", "found"}
    BY <1>5, <2>1
  <2>2. CASE stance[x] \in {"hashing", "moving"}
    <3>1. Noted(x)
      BY <1>1, <1>5, <2>2, StepNoted, BusyActor DEF Busy
    <3>2. Unwritten /\ during[x] \cap {"written", "unread"} = {}
      BY <3>1 DEF Noted
    <3>3. \A f \in File : ~Good(f) => ~Good(f)'
      BY <3>2 DEF Unwritten
    <3>4. name' = name \/ (name' # None => ~Good(name)')
      BY <3>2 DEF Unwritten, Good
    <3>5. /\ name \in File \cup {None}
          /\ stance[x] = "hashing" => hashing[x] \in File
      BY DEF TypeInv, TypeOK, Consistent
    <3>6. /\ stance[x] = "hashing" =>
                /\ ~intact[x] => ~Good(hashing[x])
                /\ name # hashing[x] /\ name # None => ~Good(name)
          /\ stance[x] = "moving" /\ name # None => ~Good(name)
      BY <3>2 DEF ReadsWrong
    <3>7. stance[x] = "hashing" /\ ~intact[x] => ~Good(hashing[x])'
      BY <1>5, <3>3, <3>5, <3>6 DEF Good
    <3>8. CASE name' = name
      BY <1>5, <3>3, <3>5, <3>6, <3>7, <3>8 DEF Good
    <3>9. CASE name' # None => ~Good(name)'
      BY <1>5, <3>6, <3>7, <3>9 DEF Good
    <3>10. QED
      BY <3>4, <3>8, <3>9
  <2>3. QED
    BY <2>1, <2>2 DEF TypeInv, TypeOK
<1>6. CASE FindShard(x) \/ ReportHealthy(x) \/ Quarantine(x) \/ Restart
  BY <1>6, ScanStepTypes
     DEF FindShard, ReportHealthy, Quarantine, EndScan, Restart
<1>7. CASE ReadFails(x)
  <2>1. "unread" \in during'[x]
    BY <1>1, <1>7 DEF ReadFails, TypeInv, TypeOK
  <2>2. QED
    BY <2>1
<1>8. CASE MoveFails(x)
  BY <1>8 DEF MoveFails, TypeInv, TypeOK
<1>9. QED
  BY <1>2, <1>3, <1>4, <1>5, <1>6, <1>7, <1>8, LocalStep DEF Scan

\* A scan takes a good shard to quarantine only if a push has written to it
\* since the scan found the file, or the scan failed to read it.
THEOREM QuarantineSafe == Spec => GoodMovedForAReason
<1>1. Init => ReadsWrong
  BY DEF Init, ReadsWrong
<1>2. ReadsWrong /\ [Next]_vars
      => [\A x \in Scanner :
            /\ stance[x] = "moving" /\ name # None /\ Good(name)
            /\ name' = None /\ stance'[x] = "idle"
            => during[x] \cap {"written", "unread"} # {}]_vars
  BY DEF ReadsWrong
<1>3. QED
  BY <1>1, <1>2, TypeInvariant, ReadsWrongStep, PTL DEF Spec, GoodMovedForAReason
============================================================================
