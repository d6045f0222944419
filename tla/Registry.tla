------------------------------ MODULE Registry ------------------------------
(***************************************************************************)
(* The central registry of discovery/discovery.go: who announced which     *)
(* file, for as long as the announcement is fresh.                         *)
(*                                                                         *)
(* The handler of a stream decodes one request, takes the only mutex,      *)
(* works on the records and writes its answer to the stream before the     *)
(* deferred unlock.  No stream has a deadline: an answer that does not fit *)
(* into the window of the stream waits for its reader with the mutex held. *)
(* Requests with empty fields or unknown actions are answered without the  *)
(* mutex and change nothing; they are left out, and so are the addresses   *)
(* and shard indices, which the registry only stores.                      *)
(***************************************************************************)
EXTENDS Integers, FiniteSets, Functions

CONSTANTS
    Conn,      \* streams that are open at the same time
    File, Provider,
    TTL,       \* the 5 minutes of NewRegistry, in ticks
    Window,    \* providers in an answer that fits into the stream's window
    MaxTime,   \* bound: the clock stops here
    None       \* nobody holds the mutex

ASSUME TTLAssumption    == TTL \in Nat
ASSUME WindowAssumption == Window \in Nat /\ MaxTime \in Nat
ASSUME ConnAssumption   == None \notin Conn

VARIABLES
    now,
    records, \* records[f][p]: LastSeen; both maps have only what was put
    mu,      \* who holds the mutex
    conn,    \* the handler of each stream, with its request and its answer
    acked    \* history: when the last acknowledged announcement was sent, or -1

vars == <<now, records, mu, conn, acked>>

Nobody == [p \in Provider |-> -1]

\* began: when an announcement was sent.  known: what the sender of a find could
\* know of the announcements of its file.  at: when a find had the mutex.
Idle == [pc |-> "idle", action |-> "none", file |-> None, provider |-> None,
         reads |-> TRUE, began |-> 0, known |-> Nobody, at |-> 0, answer |-> {}]

TypeOK ==
    /\ now \in 0 .. MaxTime
    /\ DOMAIN records \subseteq File
    /\ \A f \in DOMAIN records :
          /\ DOMAIN records[f] \in (SUBSET Provider) \ {{}}
          /\ \A p \in DOMAIN records[f] : records[f][p] \in 0 .. now
    /\ mu \in Conn \cup {None}
    /\ \A c \in Conn :
          /\ conn[c].pc \in {"idle", "queued", "answering", "answered"}
          /\ conn[c].answer \subseteq Provider
          /\ conn[c].pc = "answering" <=> mu = c
    /\ acked \in [File -> [Provider -> -1 .. now]]

----------------------------------------------------------------------------
NoRecords == [f \in {} |-> Nobody]

Init ==
    /\ now = 0
    /\ records = NoRecords
    /\ mu = None
    /\ conn = [c \in Conn |-> Idle]
    /\ acked = [f \in File |-> Nobody]

Tick ==
    /\ now < MaxTime
    /\ now' = now + 1
    /\ UNCHANGED <<records, mu, conn, acked>>

Providers(f) == IF f \in DOMAIN records THEN records[f] ELSE [p \in {} |-> 0]

\* Variant: who is registered already keeps the record.
WithProviderOnce(f, p) ==
    [g \in DOMAIN records \cup {f} |->
        IF g # f \/ p \in DOMAIN Providers(f) THEN records[g]
        ELSE [q \in DOMAIN Providers(f) \cup {p} |->
                 IF q = p THEN now ELSE Providers(f)[q]]]

\* r.records[fileID][providerID] = record, in a map that is made when needed.
WithProvider(f, p) ==
    [g \in DOMAIN records \cup {f} |->
        IF g # f THEN records[g]
        ELSE [q \in DOMAIN Providers(f) \cup {p} |->
                 IF q = p THEN now ELSE Providers(f)[q]]]

Fresh(f) == {p \in DOMAIN Providers(f) : now - Providers(f)[p] <= TTL}

\* Variant: a file keeps its map when the last provider has gone.
PrunedKeepingEmpty == [f \in DOMAIN records |-> Restrict(records[f], Fresh(f))]

\* pruneLocked: over the providers of every file.
Pruned ==
    [f \in {g \in DOMAIN records : Fresh(g) # {}} |-> Restrict(records[f], Fresh(f))]

----------------------------------------------------------------------------
(* One stream                                                               *)

Send(c, request) ==
    /\ conn[c].pc = "idle"
    /\ conn' = [conn EXCEPT ![c] = request]
    /\ UNCHANGED <<now, records, mu, acked>>

\* Announce and FindProviders on the other side send one request.
SendAnnounce(c) ==
    \E f \in File, p \in Provider :
        Send(c, [Idle EXCEPT !.pc = "queued", !.action = "announce",
                             !.file = f, !.provider = p, !.began = now])

SendFind(c) ==
    \E f \in File, reads \in BOOLEAN :
        Send(c, [Idle EXCEPT !.pc = "queued", !.action = "find",
                             !.file = f, !.reads = reads, !.known = acked[f]])

\* handleAnnounce with the mutex.
Announce(c) ==
    /\ conn[c].pc = "queued" /\ conn[c].action = "announce" /\ mu = None
    /\ mu' = c
    /\ records' = WithProvider(conn[c].file, conn[c].provider)
    /\ conn' = [conn EXCEPT ![c].pc = "answering"]
    /\ UNCHANGED <<now, acked>>

\* handleFind with the mutex.
Find(c) ==
    /\ conn[c].pc = "queued" /\ conn[c].action = "find" /\ mu = None
    /\ mu' = c
    /\ records' = Pruned
    /\ conn' = [conn EXCEPT ![c].pc = "answering", ![c].at = now,
                  ![c].answer = IF conn[c].file \in DOMAIN Pruned
                                  THEN DOMAIN Pruned[conn[c].file] ELSE {}]
    /\ UNCHANGED <<now, acked>>

\* An answer that the stream does not take before it is read.
Blocked(c) ==
    /\ conn[c].pc = "answering"
    /\ Cardinality(conn[c].answer) > Window
    /\ ~conn[c].reads

\* What is left of a stream after the answer: an acknowledgment on its way.
Answered(c) ==
    IF conn[c].action = "announce" THEN [conn[c] EXCEPT !.pc = "answered"] ELSE Idle

\* Variant: whoever finds the stream broken returns without the unlock.
AnswerLeaking(c) ==
    /\ conn[c].pc = "answering" /\ ~Blocked(c)
    /\ conn' = [conn EXCEPT ![c] = Answered(c)]
    /\ mu' = IF conn[c].reads THEN None ELSE mu
    /\ UNCHANGED <<now, records, acked>>

\* Encode returns, with an error or without, and the deferred unlock runs.
Answer(c) ==
    /\ conn[c].pc = "answering" /\ ~Blocked(c)
    /\ conn' = [conn EXCEPT ![c] = Answered(c)]
    /\ mu' = None
    /\ UNCHANGED <<now, records, acked>>

\* The provider has its acknowledgment.
Acknowledge(c) ==
    /\ conn[c].pc = "answered"
    /\ conn' = [conn EXCEPT ![c] = Idle]
    /\ acked' = [acked EXCEPT ![conn[c].file][conn[c].provider] =
                    IF conn[c].began > @ THEN conn[c].began ELSE @]
    /\ UNCHANGED <<now, records, mu>>

\* A reader that did not read comes back to it, or resets the stream.
WakeUp(c) ==
    /\ Blocked(c)
    /\ conn' = [conn EXCEPT ![c].reads = TRUE]
    /\ UNCHANGED <<now, records, mu, acked>>

\* The process ends and starts again, with no record of anybody.
Restart ==
    /\ records # NoRecords
    /\ records' = NoRecords
    /\ mu' = None
    /\ conn' = [c \in Conn |-> Idle]
    /\ acked' = [f \in File |-> Nobody]
    /\ UNCHANGED now

Handle(c) == Announce(c) \/ Find(c)

Next ==
    \/ Tick
    \/ \E c \in Conn :
          \/ SendAnnounce(c) \/ SendFind(c) \/ Handle(c) \/ Answer(c) \/ Acknowledge(c) \/ WakeUp(c)
    \/ Restart

\* A goroutine runs on, and a sync.Mutex does not starve who waits for it; that
\* a blocked reader ever reads is not assumed.
Fairness == \A c \in Conn : SF_vars(Handle(c)) /\ WF_vars(Answer(c))

Spec == Init /\ [][Next]_vars /\ Fairness

----------------------------------------------------------------------------
(* Properties                                                               *)

Answering(c) == conn[c].pc = "answering" /\ conn[c].action = "find"

\* Who was told before a request was sent that its announcement has arrived is
\* in the answer, if the answer is made within the TTL of the announcement:
\* whatever other announcements, finds and prunes were in between, and however
\* long the request waited for the mutex.  And nobody is in the answer whose
\* last announcement was older than the TTL by then.
FoundWhileFresh ==
    \A c \in Conn : Answering(c) =>
        \A p \in Provider :
            /\ conn[c].known[p] >= 0 /\ conn[c].at - conn[c].known[p] <= TTL
               => p \in conn[c].answer
            /\ p \in conn[c].answer
               => conn[c].at - Providers(conn[c].file)[p] <= TTL

\* Every request is handled, unless some reader ends up blocking the registry
\* for good.
HandledOrBlocked ==
    \/ <>[](\E c \in Conn : Blocked(c))
    \/ \A c \in Conn : conn[c].pc = "queued" ~> conn[c].pc # "queued"
============================================================================
