---------------------------- MODULE StorageNode ----------------------------
(***************************************************************************)
(* One shard of one file on one storage node: the push handlers of both    *)
(* protocol versions and the manifest handler of node/node.go, the scans   *)
(* of the health handler and of the own watchdog (watchdog/scanner.go),    *)
(* and ScanAndAnnounce after a restart.                                    *)
(*                                                                         *)
(* Handlers and scans run concurrently and take no lock.  A push writes    *)
(* the file in place; a scan looks for the file, opens it, reads it, and   *)
(* renames whatever then has its name, each in a step of its own.  An open *)
(* file stays open when it is renamed, so files are told apart from the    *)
(* two names they can have: the shard's own and the one in quarantine.     *)
(*                                                                         *)
(* A shard has two chunks: the least with which a push can be torn, and    *)
(* chunked pushes can come out of order.                                   *)
(***************************************************************************)
EXTENDS Integers

CONSTANTS
    Stream,    \* push streams that the node serves at a time
    Scanner,   \* scans that run at a time
    File,      \* bound: inodes
    Request,   \* the headers and payloads that clients send
    MaxFaults, \* bound: broken pushes, failed I/O, damage and crashes
    None       \* no file, no request

Chunk == {0, 1}

\* The protocol, the chunks sent, and whether they are those of the shard.
\* Version 1 has whole shards only.
AnyRequest ==
    {r \in [version: {1, 2}, from: Chunk, to: Chunk, right: BOOLEAN] :
        r.from <= r.to /\ (r.version = 1 => r.from = 0 /\ r.to = 1)}

ASSUME RequestAssumption == Request \subseteq AnyRequest
ASSUME ActorAssumption == Stream \cap Scanner = {}
ASSUME FaultAssumption == MaxFaults \in Nat
ASSUME NoneAssumption == None \notin File \cup Request \cup Stream \cup Scanner

VARIABLES
    content,   \* what is in each file
    name,      \* the file called <store>/<file id>/shard.NN
    manifest,  \* manifest.json: absent, torn (truncated) or whole
    announced, \* AdvertiseFileID has been called for the file
    stage,     \* where each push stands
    request,   \* its header
    fd,        \* the file it has open
    at,        \* the next chunk it writes
    stance,    \* where each scan stands
    hashing,   \* the file it has open
    read,      \* chunks it has read
    intact,    \* all of them were right
    during,    \* history: what others did to the shard during a push or a scan,
               \* and whether the scan could not read it
    faults

pushVars == <<stage, request, fd, at>>
scanVars == <<stance, hashing, read, intact>>
vars == <<content, name, manifest, announced, pushVars, scanVars, during, faults>>

Actor == Stream \cup Scanner
Event == {"written", "harmed", "unread"}

TypeOK ==
    /\ content \in [File -> [Chunk -> {"empty", "good", "bad"}]]
    /\ name \in File \cup {None}
    /\ manifest \in {"absent", "torn", "whole"}
    /\ announced \in BOOLEAN
    /\ stage \in [Stream -> {"idle", "writing"}]
    /\ request \in [Stream -> Request \cup {None}]
    /\ fd \in [Stream -> File \cup {None}]
    /\ at \in [Stream -> 0 .. 2]
    /\ stance \in [Scanner -> {"idle", "found", "hashing", "moving"}]
    /\ hashing \in [Scanner -> File \cup {None}]
    /\ read \in [Scanner -> 0 .. 2]
    /\ intact \in [Scanner -> BOOLEAN]
    /\ during \in [Actor -> SUBSET Event]
    /\ faults \in 0 .. MaxFaults

----------------------------------------------------------------------------
Empty == [c \in Chunk |-> "empty"]
Good(f) == \A c \in Chunk : content[f][c] = "good"
Hosted == name # None /\ Good(name)

\* Files under the shard's name or open somewhere.  What is in any other file,
\* in quarantine or not, is never looked at again.
Used == {name} \cup {fd[s] : s \in Stream} \cup {hashing[x] : x \in Scanner}
Reclaim == content' = [f \in File |-> IF f \in Used' THEN content[f] ELSE Empty]
NewFile == CHOOSE f \in File : f \notin Used
CanOpen == name # None \/ \E f \in File : f \notin Used

Fault == faults < MaxFaults /\ faults' = faults + 1

Busy(b) ==
    \/ b \in Stream /\ stage[b] # "idle"
    \/ b \in Scanner /\ stance[b] # "idle"

\* The actor writes right bytes to the shard, or harms it (truncates, moves or
\* damages it), while others are busy.
Note(actor, event) ==
    during' = [b \in Actor |->
                 IF b = actor \/ ~Busy(b) THEN during[b] ELSE during[b] \cup {event}]

Init ==
    /\ content = [f \in File |-> Empty]
    /\ name = None
    /\ manifest = "absent"
    /\ announced = FALSE
    /\ stage = [s \in Stream |-> "idle"]
    /\ request = [s \in Stream |-> None]
    /\ fd = [s \in Stream |-> None]
    /\ at = [s \in Stream |-> 0]
    /\ stance = [x \in Scanner |-> "idle"]
    /\ hashing = [x \in Scanner |-> None]
    /\ read = [x \in Scanner |-> 0]
    /\ intact = [x \in Scanner |-> TRUE]
    /\ during = [b \in Actor |-> {}]
    /\ faults = 0

----------------------------------------------------------------------------
(* Pushes                                                                   *)

\* The request is read, and the file opened: created if it is not there, and
\* truncated by every request that starts at offset 0.
OpenPush(s, r) ==
    /\ stage[s] = "idle" /\ CanOpen
    /\ stage' = [stage EXCEPT ![s] = "writing"]
    /\ request' = [request EXCEPT ![s] = r]
    /\ at' = [at EXCEPT ![s] = r.from]
    /\ LET f == IF name = None THEN NewFile ELSE name
       IN  /\ fd' = [fd EXCEPT ![s] = f]
           /\ name' = f
           /\ content' = IF name = None \/ r.from = 0
                           THEN [content EXCEPT ![f] = Empty] ELSE content
    /\ IF r.from = 0 THEN Note(s, "harmed") ELSE UNCHANGED during
    /\ UNCHANGED <<manifest, announced, scanVars, faults>>

\* Variant: the loop over the bytes runs on.
WriteChunkOn(s) ==
    /\ stage[s] = "writing"
    /\ content' = [content EXCEPT ![fd[s]][at[s]] =
                     IF request[s].right THEN "good" ELSE "bad"]
    /\ at' = [at EXCEPT ![s] = @ + 1]
    /\ Note(s, IF request[s].right THEN "written" ELSE "harmed")
    /\ UNCHANGED <<name, manifest, announced, stage, request, fd, scanVars, faults>>

\* io.CopyN or os.WriteFile goes on with the file it has, whatever its name is
\* by now.
WriteChunk(s) ==
    /\ stage[s] = "writing"
    /\ at[s] <= request[s].to
    /\ content' = [content EXCEPT ![fd[s]][at[s]] =
                     IF request[s].right THEN "good" ELSE "bad"]
    /\ at' = [at EXCEPT ![s] = @ + 1]
    /\ Note(s, IF request[s].right THEN "written" ELSE "harmed")
    /\ UNCHANGED <<name, manifest, announced, stage, request, fd, scanVars, faults>>

EndPush(s) ==
    /\ stage' = [stage EXCEPT ![s] = "idle"]
    /\ request' = [request EXCEPT ![s] = None]
    /\ fd' = [fd EXCEPT ![s] = None]
    /\ at' = [at EXCEPT ![s] = 0]
    /\ during' = [during EXCEPT ![s] = {}]

\* Variant: the last chunk does not count.
AckedEarly(s) == stage[s] = "writing" /\ at[s] >= request[s].to

\* All bytes are written, and the handler is about to answer "ok".
Acked(s) == stage[s] = "writing" /\ at[s] > request[s].to

\* The handler answers.  The last chunk of a shard has the file announced,
\* whether or not the others are there.
FinishPush(s) ==
    /\ Acked(s)
    /\ announced' = (announced \/ request[s].to = 1)
    /\ EndPush(s)
    /\ UNCHANGED <<name, manifest, scanVars, faults>>
    /\ Reclaim

\* The stream breaks, its deadline passes, or the disk is full.  Version 1 has
\* all bytes before it opens the file, so only the disk can fail; it ignores
\* the error, announces the file and answers "ok".
BreakPush(s) ==
    /\ stage[s] = "writing"
    /\ at[s] <= request[s].to
    /\ Fault
    /\ announced' = (announced \/ request[s].version = 1)
    /\ EndPush(s)
    /\ UNCHANGED <<name, manifest, scanVars>>
    /\ Reclaim

\* The directory or the file cannot be created.  Version 1 does not notice the
\* latter.
RefusePush(s, r) ==
    /\ stage[s] = "idle"
    /\ Fault
    /\ announced' \in {announced, announced \/ r.version = 1}
    /\ UNCHANGED <<content, name, manifest, pushVars, scanVars, during>>

\* The manifest handler truncates the stored manifest and writes the new one.
TruncateManifest ==
    /\ manifest' = "torn"
    /\ UNCHANGED <<content, name, announced, pushVars, scanVars, during, faults>>

WriteManifest ==
    /\ manifest = "torn"
    /\ manifest' = "whole"
    /\ UNCHANGED <<content, name, announced, pushVars, scanVars, during, faults>>

----------------------------------------------------------------------------
(* Scans                                                                    *)

ScanStep(x, from, to) ==
    /\ stance[x] = from
    /\ stance' = [stance EXCEPT ![x] = to]
    /\ UNCHANGED <<manifest, announced, pushVars, faults>>

\* Variant: the verdict outlives the scan.
EndScanOnly(x, from) ==
    /\ ScanStep(x, from, "idle")
    /\ read' = [read EXCEPT ![x] = 0]
    /\ UNCHANGED intact

\* The scan is over.
EndScan(x, from) ==
    /\ ScanStep(x, from, "idle")
    /\ read' = [read EXCEPT ![x] = 0]
    /\ intact' = [intact EXCEPT ![x] = TRUE]

\* LoadManifest succeeds and Stat finds the shard.  (Without the manifest the
\* scan is an error, without the shard there is nothing to do.)
FindShard(x) ==
    /\ manifest = "whole"
    /\ name # None
    /\ ScanStep(x, "idle", "found")
    /\ UNCHANGED <<content, name, hashing, read, intact, during>>

\* hashFile opens the shard; when it is gone by now it counts as corrupted.
OpenShard(x) ==
    /\ IF name = None
         THEN ScanStep(x, "found", "moving") /\ UNCHANGED <<hashing, read, intact>>
         ELSE /\ ScanStep(x, "found", "hashing")
              /\ hashing' = [hashing EXCEPT ![x] = name]
              /\ UNCHANGED <<read, intact>>
    /\ UNCHANGED <<content, name, during>>

\* Variant: only the first chunk is hashed.
ReadFirstChunk(x) ==
    /\ read[x] < 2
    /\ ScanStep(x, "hashing", "hashing")
    /\ read' = [read EXCEPT ![x] = @ + 1]
    /\ intact' = [intact EXCEPT ![x] = @ /\ content[hashing[x]][0] = "good"]
    /\ UNCHANGED <<content, name, hashing, during>>

ReadChunk(x) ==
    /\ read[x] < 2
    /\ ScanStep(x, "hashing", "hashing")
    /\ read' = [read EXCEPT ![x] = @ + 1]
    /\ intact' = [intact EXCEPT ![x] = @ /\ content[hashing[x]][read[x]] = "good"]
    /\ UNCHANGED <<content, name, hashing, during>>

HashMatches(x) == stance[x] = "hashing" /\ read[x] = 2 /\ intact[x]

\* The hash is that of the manifest: the bit of the shard is set in the answer
\* of the health handler, or the shard is among the sources of a repair.
ReportHealthy(x) ==
    /\ HashMatches(x)
    /\ EndScan(x, "hashing")
    /\ hashing' = [hashing EXCEPT ![x] = None]
    /\ during' = [during EXCEPT ![x] = {}]
    /\ UNCHANGED name
    /\ Reclaim

\* Variant: the corrupt shard is reported and stays where it is.
ReportCorrupt(x) ==
    /\ read[x] = 2 /\ ~intact[x]
    /\ EndScan(x, "hashing")
    /\ hashing' = [hashing EXCEPT ![x] = None]
    /\ during' = [during EXCEPT ![x] = {}]
    /\ UNCHANGED name
    /\ Reclaim

\* It is not.
FindCorrupt(x) ==
    /\ read[x] = 2 /\ ~intact[x]
    /\ ScanStep(x, "hashing", "moving")
    /\ hashing' = [hashing EXCEPT ![x] = None]
    /\ UNCHANGED <<name, read, intact, during>>
    /\ Reclaim

\* The shard cannot be opened or read: it counts as corrupted.
ReadFails(x) ==
    /\ stance[x] = "hashing" \/ (stance[x] = "found" /\ name # None)
    /\ Fault
    /\ stance' = [stance EXCEPT ![x] = "moving"]
    /\ hashing' = [hashing EXCEPT ![x] = None]
    /\ during' = [during EXCEPT ![x] = @ \cup {"unread"}]
    /\ UNCHANGED <<name, manifest, announced, pushVars, read, intact>>
    /\ Reclaim

\* MkdirAll or Rename fails: the shard stays where it is.
MoveFails(x) ==
    /\ stance[x] = "moving"
    /\ Fault
    /\ stance' = [stance EXCEPT ![x] = "idle"]
    /\ read' = [read EXCEPT ![x] = 0]
    /\ intact' = [intact EXCEPT ![x] = TRUE]
    /\ during' = [during EXCEPT ![x] = {}]
    /\ UNCHANGED <<content, name, manifest, announced, pushVars, hashing>>

\* os.Rename moves what has the name now, if anything.
Quarantine(x) ==
    /\ EndScan(x, "moving")
    /\ UNCHANGED hashing
    /\ name' = None
    /\ during' = [b \in Actor |->
                    IF b = x \/ ~Busy(b) THEN {}
                    ELSE IF name = None THEN during[b] ELSE during[b] \cup {"harmed"}]
    /\ Reclaim

----------------------------------------------------------------------------
(* Damage                                                                   *)

BitRot ==
    /\ Hosted
    /\ Fault
    /\ \E c \in Chunk : content' = [content EXCEPT ![name][c] = "bad"]
    /\ Note(None, "harmed")
    /\ UNCHANGED <<name, manifest, announced, pushVars, scanVars>>

\* The process dies, and with it every handler and scan.  When it is up again,
\* ScanAndAnnounce announces every directory that is not empty.
Restart ==
    /\ Fault
    /\ announced' = (announced \/ name # None \/ manifest # "absent")
    /\ stage' = [s \in Stream |-> "idle"]
    /\ request' = [s \in Stream |-> None]
    /\ fd' = [s \in Stream |-> None]
    /\ at' = [s \in Stream |-> 0]
    /\ stance' = [x \in Scanner |-> "idle"]
    /\ hashing' = [x \in Scanner |-> None]
    /\ read' = [x \in Scanner |-> 0]
    /\ intact' = [x \in Scanner |-> TRUE]
    /\ during' = [b \in Actor |-> {}]
    /\ UNCHANGED <<name, manifest>>
    /\ Reclaim

Push(s) == WriteChunk(s) \/ FinishPush(s)
Scan(x) ==
    \/ FindShard(x) \/ OpenShard(x) \/ ReadChunk(x)
    \/ ReportHealthy(x) \/ FindCorrupt(x) \/ Quarantine(x)

Next ==
    \/ \E s \in Stream :
         Push(s) \/ BreakPush(s) \/ \E r \in Request : OpenPush(s, r) \/ RefusePush(s, r)
    \/ TruncateManifest \/ WriteManifest
    \/ \E x \in Scanner : Scan(x) \/ ReadFails(x) \/ MoveFails(x)
    \/ BitRot \/ Restart

\* Handlers run on, and the watchdog scans again and again.
Fairness ==
    /\ \A s \in Stream : WF_vars(Push(s))
    /\ \A x \in Scanner : WF_vars(Scan(x))

Spec == Init /\ [][Next]_vars /\ Fairness

----------------------------------------------------------------------------
(* Properties                                                               *)

\* A scan takes a good shard to quarantine only if a push has been writing
\* since the scan found the file, or this scan could not read it: two scans of
\* the same corrupt file, files that vanish between Stat and Open, files that
\* rot, read errors of other scans and moves that failed before are no danger
\* to what is right.
GoodMovedForAReason ==
    [][\A x \in Scanner :
         /\ stance[x] = "moving" /\ name # None /\ Good(name)
         /\ name' = None /\ stance'[x] = "idle"
         => during[x] \cap {"written", "unread"} # {}]_vars

\* The bit of the health bitmap is right when it is set, unless the shard was
\* truncated, moved or damaged while the scan was reading: writes alone, also
\* those of several pushes at once, never make a scan see a shard that is not
\* there.
HealthyIsHosted ==
    \A x \in Scanner :
        HashMatches(x) /\ "harmed" \notin during[x] => Hosted

\* A push that has written all of a whole shard when it answers "ok" has stored
\* it, unless another push, a scan or damage came in between.
AckedIsStored ==
    \A s \in Stream :
        /\ Acked(s) /\ request[s].right
        /\ request[s].from = 0 /\ request[s].to = 1
        /\ during[s] = {}
        => Hosted

\* Once the pushes are over, what is left of broken, crashed, out-of-order and
\* overlapping ones does not stay under the name of the shard.
EventuallyClean ==
    <>[](manifest = "whole" /\ \A s \in Stream : stage[s] = "idle")
    => <>[](name = None \/ Good(name))
============================================================================
