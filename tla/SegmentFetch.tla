--------------------------- MODULE SegmentFetch ----------------------------
(***************************************************************************)
(* How RunV2 (retrieval/orchestrator_v2.go) gets the chunks of one segment *)
(* from the providers: DataShards workers over a queue of one task per     *)
(* shard, and goroutines that put failed tasks back.                       *)
(*                                                                         *)
(* Unlike the workers of RunV1 these never wait: a worker that finds the   *)
(* queue empty leaves, although a failed task may be on its way back.  A   *)
(* worker that finds no provider sleeps half a second and puts its task    *)
(* back as it was.  The orchestrator with its blacklist and the context    *)
(* are shared with the other segments, which appear here as a blacklist    *)
(* that may be filled before and during the fetch, and as cancellations.   *)
(***************************************************************************)
EXTENDS Integers, Sequences, FiniteSets

CONSTANTS
    Provider,
    Holds,       \* the shards that each provider can serve a chunk of
    DataShards, ParityShards,
    MaxAttempts, \* the 5 of "task.attempts >= 5"
    NoTask, NoProvider

Total  == DataShards + ParityShards
Shard  == 0 .. Total - 1
Worker == 1 .. DataShards

ASSUME ShardAssumption == DataShards \in Nat \ {0} /\ ParityShards \in Nat \ {0}
ASSUME ProviderAssumption ==
    Holds \in [Provider -> SUBSET Shard] /\ NoProvider \notin Provider
ASSUME TaskAssumption == MaxAttempts \in Nat \ {0} /\ NoTask \notin Shard

VARIABLES
    outcome,     \* how the goroutine of the segment ends
    cancelled,   \* ctxCancel is done
    blacklisted, \* by this segment or another
    taskQueue,   \* the buffered channel
    attempts,    \* of the task of each shard
    requeuing,   \* tasks in the hands of a requeueing goroutine
    pc,          \* where each worker stands
    task,        \* the task it holds
    asked,       \* its bestProvider
    shards,      \* the indices i with shards[i] # nil
    got          \* the atomic counter

poolVars == <<taskQueue, attempts, requeuing, pc, task, asked>>
vars == <<outcome, cancelled, blacklisted, poolVars, shards, got>>

TypeOK ==
    /\ outcome \in {"fetching", "decoded", "short", "aborted"}
    /\ cancelled \in BOOLEAN
    /\ blacklisted \in SUBSET Provider
    /\ taskQueue \in Seq(Shard) /\ Len(taskQueue) <= Total
    /\ attempts \in [Shard -> 0 .. MaxAttempts]
    /\ requeuing \in SUBSET Shard
    /\ pc \in [Worker -> {"looping", "polling", "choosing", "asking", "sleeping", "gone"}]
    /\ task \in [Worker -> Shard \cup {NoTask}]
    /\ asked \in [Worker -> Provider \cup {NoProvider}]
    /\ shards \in SUBSET Shard
    /\ got \in 0 .. Total

----------------------------------------------------------------------------
Candidates == Provider \ blacklisted

Init ==
    /\ outcome = "fetching"
    /\ cancelled = FALSE
    /\ blacklisted \in SUBSET Provider
    /\ taskQueue = [i \in 1 .. Total |-> i - 1]
    /\ attempts = [s \in Shard |-> 0]
    /\ requeuing = {}
    /\ pc = [w \in Worker |-> "looping"]
    /\ task = [w \in Worker |-> NoTask]
    /\ asked = [w \in Worker |-> NoProvider]
    /\ shards = {} /\ got = 0

Enough == got >= DataShards

\* The worker goes back to the top of its loop or returns.
Drop(w, to) ==
    /\ pc' = [pc EXCEPT ![w] = to]
    /\ task' = [task EXCEPT ![w] = NoTask]
    /\ asked' = [asked EXCEPT ![w] = NoProvider]

\* The counter is looked at before the select, and may change in between.
CheckCount(w) ==
    /\ pc[w] = "looping"
    /\ Drop(w, IF Enough THEN "gone" ELSE "polling")
    /\ UNCHANGED <<outcome, cancelled, blacklisted, taskQueue, attempts, requeuing,
                   shards, got>>

\* Variant: the select has no branch for the context.
LeaveWhenEmpty(w) ==
    /\ pc[w] = "polling" /\ taskQueue = <<>>
    /\ Drop(w, "gone")
    /\ UNCHANGED <<outcome, cancelled, blacklisted, taskQueue, attempts, requeuing,
                   shards, got>>

\* The context is done, or the default of the select: no task right now.
Leave(w) ==
    /\ pc[w] = "polling"
    /\ cancelled \/ taskQueue = <<>>
    /\ Drop(w, "gone")
    /\ UNCHANGED <<outcome, cancelled, blacklisted, taskQueue, attempts, requeuing,
                   shards, got>>

\* Variant: no limit to the attempts.
TakeTaskForever(w) ==
    /\ pc[w] = "polling" /\ taskQueue # <<>>
    /\ taskQueue' = Tail(taskQueue)
    /\ pc' = [pc EXCEPT ![w] = "choosing"]
    /\ task' = [task EXCEPT ![w] = Head(taskQueue)]
    /\ UNCHANGED <<outcome, cancelled, blacklisted, attempts, requeuing, asked,
                   shards, got>>

\* When the context is done too, the select takes either branch.  A task that
\* has failed too often is dropped.
TakeTask(w) ==
    /\ pc[w] = "polling" /\ taskQueue # <<>>
    /\ taskQueue' = Tail(taskQueue)
    /\ IF attempts[Head(taskQueue)] >= MaxAttempts
         THEN Drop(w, "looping")
         ELSE /\ pc' = [pc EXCEPT ![w] = "choosing"]
              /\ task' = [task EXCEPT ![w] = Head(taskQueue)]
              /\ UNCHANGED asked
    /\ UNCHANGED <<outcome, cancelled, blacklisted, attempts, requeuing, shards, got>>

\* GetBestProvider; the scores that order the candidates are left out.
ChooseProvider(w) ==
    /\ pc[w] = "choosing"
    /\ \/ \E q \in Candidates :
            /\ pc' = [pc EXCEPT ![w] = "asking"]
            /\ asked' = [asked EXCEPT ![w] = q]
       \/ /\ Candidates = {}
          /\ pc' = [pc EXCEPT ![w] = "sleeping"]
          /\ UNCHANGED asked
    /\ UNCHANGED <<outcome, cancelled, blacklisted, taskQueue, attempts, requeuing,
                   task, shards, got>>

\* Variant: a task without a provider is not put back.
ForgetTask(w) ==
    /\ pc[w] = "sleeping"
    /\ Drop(w, "looping")
    /\ UNCHANGED <<outcome, cancelled, blacklisted, taskQueue, attempts, requeuing,
                   shards, got>>

\* The half second is over.  This send to the queue has no way out.
PutBack(w) ==
    /\ pc[w] = "sleeping"
    /\ Len(taskQueue) < Total
    /\ taskQueue' = Append(taskQueue, task[w])
    /\ Drop(w, "looping")
    /\ UNCHANGED <<outcome, cancelled, blacklisted, attempts, requeuing, shards, got>>

\* Variant: the task of a chunk that has arrived is put back as well.
ChunkArrivesAgain(w) ==
    /\ pc[w] = "asking"
    /\ task[w] \in Holds[asked[w]]
    /\ shards' = shards \cup {task[w]}
    /\ got' = got + 1
    /\ requeuing' = requeuing \cup {task[w]}
    /\ Drop(w, IF got' >= DataShards THEN "gone" ELSE "looping")
    /\ UNCHANGED <<outcome, cancelled, blacklisted, taskQueue, attempts>>

\* fetchChunk returns the chunk, which nothing verifies but its length.
ChunkArrives(w) ==
    /\ pc[w] = "asking"
    /\ task[w] \in Holds[asked[w]]
    /\ shards' = shards \cup {task[w]}
    /\ got' = got + 1
    /\ Drop(w, IF got' >= DataShards THEN "gone" ELSE "looping")
    /\ UNCHANGED <<outcome, cancelled, blacklisted, taskQueue, attempts, requeuing>>

\* fetchChunk fails, because of the provider, the network or the context, or
\* since the provider does not have the shard.  Only timeouts and EOFs do not
\* blacklist it.
FetchFails(w) ==
    /\ pc[w] = "asking"
    /\ \/ blacklisted' = blacklisted \cup {asked[w]}
       \/ task[w] \in Holds[asked[w]] /\ UNCHANGED blacklisted
    /\ requeuing' = requeuing \cup {task[w]}
    /\ Drop(w, "looping")
    /\ UNCHANGED <<outcome, cancelled, taskQueue, attempts, shards, got>>

\* The goroutine of a failed task: its select may take either branch when the
\* context is done.  It may still be there when the segment has ended.
Requeue(s) ==
    /\ s \in requeuing
    /\ requeuing' = requeuing \ {s}
    /\ attempts' = [attempts EXCEPT ![s] = @ + 1]
    /\ \/ Len(taskQueue) < Total /\ taskQueue' = Append(taskQueue, s)
       \/ cancelled /\ UNCHANGED taskQueue
    /\ UNCHANGED <<outcome, cancelled, blacklisted, pc, task, asked, shards, got>>

\* fetchWg.Wait is over.  An error is stored, and everybody cancelled, unless
\* somebody else has cancelled.
Finish ==
    /\ outcome = "fetching"
    /\ \A w \in Worker : pc[w] = "gone"
    /\ outcome' = IF Enough THEN "decoded" ELSE IF cancelled THEN "aborted" ELSE "short"
    /\ cancelled' = (cancelled \/ outcome' = "short")
    /\ UNCHANGED <<blacklisted, poolVars, shards, got>>

----------------------------------------------------------------------------
(* The rest of RunV2                                                        *)

\* Another segment has met a bad provider.
OtherReports ==
    /\ \E q \in Candidates : blacklisted' = blacklisted \cup {q}
    /\ UNCHANGED <<outcome, cancelled, poolVars, shards, got>>

\* The caller, the writer, another segment or the watchdog.
Cancel ==
    /\ ~cancelled
    /\ cancelled' = TRUE
    /\ UNCHANGED <<outcome, blacklisted, poolVars, shards, got>>

\* No chunk can arrive any more: everybody is blacklisted, for longer than the
\* 30 s of the watchdog.
Starved == Candidates = {} /\ \A w \in Worker : pc[w] # "asking"

WorkerStep(w) ==
    \/ CheckCount(w) \/ Leave(w) \/ TakeTask(w) \/ ChooseProvider(w) \/ PutBack(w)
    \/ ChunkArrives(w) \/ FetchFails(w)

Next ==
    \/ \E w \in Worker : WorkerStep(w)
    \/ \E s \in Shard : Requeue(s)
    \/ Finish \/ OtherReports \/ Cancel

\* Goroutines run and streams have deadlines; the watchdog cancels a starved
\* run; and a select with two ready branches does not take the same one for ever.
Fairness ==
    /\ \A w \in Worker : WF_vars(WorkerStep(w)) /\ SF_vars(cancelled /\ Leave(w))
    /\ \A s \in Shard : WF_vars(Requeue(s))
    /\ WF_vars(Finish)
    /\ WF_vars(Starved /\ Cancel)

Spec == Init /\ [][Next]_vars /\ Fairness

----------------------------------------------------------------------------
(* Properties                                                               *)

Places(s) ==
    Cardinality({i \in DOMAIN taskQueue : taskQueue[i] = s})
    + Cardinality({w \in Worker : task[w] = s})
    + Cardinality(requeuing \cap {s})

\* A shard whose chunk is missing has its task in exactly one place, unless it
\* has used up its attempts or the run is cancelled; one whose chunk has
\* arrived has none.  Otherwise two workers could fetch the same shard, whose
\* chunk would count twice, and the unguarded send of PutBack could block.
TasksAccounted ==
    \A s \in Shard :
        \/ Places(s) = 1 /\ s \notin shards
        \/ Places(s) = 0 /\ (s \in shards \/ cancelled \/ attempts[s] >= MaxAttempts)

\* A fetch has failed for this shard.
Failed(s) == attempts[s] > 0 \/ s \in requeuing

\* Although workers leave while tasks are on their way back, and although tasks
\* go back untried when everybody is blacklisted, a segment ends short only
\* when the fetches of more shards have failed than the code has parity for.
ShortForAReason ==
    outcome = "short" => Cardinality({s \in Shard : Failed(s)}) > ParityShards

\* The fetch keeps what RetrievalV2 takes for granted: it ends; decoded means
\* chunks of DataShards distinct shards; short means fewer and that the run is
\* cancelled by it; aborted means fewer and that somebody else has cancelled.
Contract == INSTANCE SegmentOutcome WITH chunks <- shards
FetchContract == Contract!Spec
============================================================================
