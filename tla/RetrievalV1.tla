---------------------------- MODULE RetrievalV1 ----------------------------
(***************************************************************************)
(* RunV1 (retrieval/orchestrator_v1.go): whole shards from several         *)
(* providers by a pool of workers.                                         *)
(*                                                                         *)
(* There is one task per shard.  A worker takes a task, asks a provider    *)
(* that is not blacklisted, verifies what it gets and keeps it; after an   *)
(* error it blacklists the provider, unless the error was a timeout or an  *)
(* EOF, and a goroutine of its own puts the task back.  The first worker   *)
(* to see MinShards verified shards cancels the common context; so do the  *)
(* caller, a watchdog when nothing has arrived for 15 s, and a worker that *)
(* finds everybody blacklisted.                                            *)
(*                                                                         *)
(* Providers speak the streaming protocol, where the shard goes to disk    *)
(* before it is verified, or the older one, where it is verified first.    *)
(* Blacklists outlast the run here: the shortest is a minute.  The scores, *)
(* which only order the choice among the others, are left out: any of them *)
(* may be asked.                                                           *)
(***************************************************************************)
EXTENDS Integers, Sequences, FiniteSets

CONSTANTS
    Provider,    \* the providers that were discovered
    Streaming,   \* those that support /meshweb/storage/2.0.0
    Worker,      \* the goroutines, `concurrency` of them
    Total,       \* DataShards + ParityShards
    MinShards,
    MaxAttempts, \* the 5 of "task.attempts >= 5"
    Holds,       \* the shards that each provider can serve
    NoTask, NoProvider

Shard == 0 .. Total - 1

ASSUME ProviderAssumption ==
    /\ IsFiniteSet(Provider) /\ Streaming \subseteq Provider
    /\ NoProvider \notin Provider
    /\ Holds \in [Provider -> SUBSET Shard]
ASSUME TaskAssumption ==
    /\ Total \in Nat \ {0} /\ MinShards \in 1 .. Total
    /\ MaxAttempts \in Nat \ {0}
    /\ NoTask \notin Shard

VARIABLES
    main,      \* RunV1: running, or what it returned
    cancelled, \* ctxCancel is done
    taskQueue, \* the buffered channel
    attempts,  \* of the task of each shard
    requeuing, \* tasks in the hands of a requeueing goroutine
    pc,        \* where each worker stands
    task,      \* the task a worker holds
    asked,     \* its providerInfo
    blacklisted,
    verified,  \* verifiedUniqueShards; its size is successCount
    disk,      \* the shard files in storeDir
    fault      \* history: a provider or the disk failed, or the run was cancelled

poolVars == <<taskQueue, attempts, requeuing, pc, task, asked>>
vars == <<main, cancelled, poolVars, blacklisted, verified, disk, fault>>

Phase == {"waiting", "choosing", "asking", "receiving", "counted", "gone"}

TypeOK ==
    /\ main \in {"running", "ok", "err"}
    /\ cancelled \in BOOLEAN /\ fault \in BOOLEAN
    /\ taskQueue \in Seq(Shard) /\ Len(taskQueue) <= Total
    /\ attempts \in [Shard -> 0 .. MaxAttempts]
    /\ requeuing \in SUBSET Shard
    /\ pc \in [Worker -> Phase]
    /\ task \in [Worker -> Shard \cup {NoTask}]
    /\ asked \in [Worker -> Provider \cup {NoProvider}]
    /\ blacklisted \in SUBSET Provider
    /\ verified \in SUBSET Shard
    /\ disk \in [Shard -> {"absent", "partial", "whole"}]

----------------------------------------------------------------------------
(* The orchestrator                                                         *)

\* GetBestProvider: whichever of these has the highest score.
Candidates == Provider \ blacklisted

\* ReportError: timeouts and EOFs are forgiven.  Everything else blacklists the
\* provider, for an hour when the chain of string matches does not know the
\* error, "provider error: not found" and "context canceled" included.
Errors == {"transient", "grave"}
ReportError(q, kind) ==
    blacklisted' = IF kind = "transient" THEN blacklisted ELSE blacklisted \cup {q}

----------------------------------------------------------------------------
Init ==
    /\ main = "running" /\ cancelled = FALSE
    /\ taskQueue = [i \in 1 .. Total |-> i - 1]
    /\ attempts = [s \in Shard |-> 0]
    /\ requeuing = {}
    /\ pc = [w \in Worker |-> "waiting"]
    /\ task = [w \in Worker |-> NoTask]
    /\ asked = [w \in Worker |-> NoProvider]
    /\ blacklisted = {}
    /\ verified = {}
    /\ disk = [s \in Shard |-> "absent"]
    /\ fault = FALSE

Enough(set) == Cardinality(set) >= MinShards

Go(w, to) ==
    /\ pc' = [pc EXCEPT ![w] = to]
    /\ IF to \in {"waiting", "counted", "gone"}
         THEN /\ task' = [task EXCEPT ![w] = NoTask]
              /\ asked' = [asked EXCEPT ![w] = NoProvider]
         ELSE UNCHANGED <<task, asked>>

\* Variant: a worker looks at the count and not at the context.
LeaveWhenDone(w) ==
    /\ pc[w] = "waiting" /\ Enough(verified)
    /\ Go(w, "gone")
    /\ UNCHANGED <<main, cancelled, taskQueue, attempts, requeuing, blacklisted,
                   verified, disk, fault>>

\* The two branches of the worker's select.
Leave(w) ==
    /\ pc[w] = "waiting" /\ cancelled
    /\ Go(w, "gone")
    /\ UNCHANGED <<main, cancelled, taskQueue, attempts, requeuing, blacklisted,
                   verified, disk, fault>>

\* Variant: no limit to the attempts.
TakeTaskForever(w) ==
    /\ pc[w] = "waiting" /\ taskQueue # <<>>
    /\ taskQueue' = Tail(taskQueue)
    /\ IF Enough(verified) THEN Go(w, "gone")
       ELSE /\ pc' = [pc EXCEPT ![w] = "choosing"]
            /\ task' = [task EXCEPT ![w] = Head(taskQueue)]
            /\ UNCHANGED asked
    /\ UNCHANGED <<main, cancelled, attempts, requeuing, blacklisted, verified,
                   disk, fault>>

\* A task that failed too often is dropped, and a worker that sees enough
\* shards leaves with its task, whether the run is cancelled by then or not.
TakeTask(w) ==
    /\ pc[w] = "waiting" /\ taskQueue # <<>>
    /\ taskQueue' = Tail(taskQueue)
    /\ IF Enough(verified) THEN Go(w, "gone")
       ELSE IF attempts[Head(taskQueue)] >= MaxAttempts THEN Go(w, "waiting")
       ELSE /\ pc' = [pc EXCEPT ![w] = "choosing"]
            /\ task' = [task EXCEPT ![w] = Head(taskQueue)]
            /\ UNCHANGED asked
    /\ UNCHANGED <<main, cancelled, attempts, requeuing, blacklisted, verified,
                   disk, fault>>

ChooseProvider(w) ==
    /\ pc[w] = "choosing"
    /\ \E q \in Candidates :
          /\ pc' = [pc EXCEPT ![w] = "asking"]
          /\ asked' = [asked EXCEPT ![w] = q]
    /\ UNCHANGED <<main, cancelled, taskQueue, attempts, requeuing, task,
                   blacklisted, verified, disk, fault>>

\* Everybody is blacklisted: give up for all workers.
GiveUp(w) ==
    /\ pc[w] = "choosing" /\ Candidates = {}
    /\ cancelled' = TRUE
    /\ Go(w, "gone")
    /\ UNCHANGED <<main, taskQueue, attempts, requeuing, blacklisted, verified,
                   disk, fault>>

----------------------------------------------------------------------------
(* Fetching one shard                                                       *)

\* Variant: the task of a blacklisted provider is forgotten.
FailForgetting(w, kind) ==
    /\ ReportError(asked[w], kind)
    /\ requeuing' = IF kind = "grave" THEN requeuing ELSE requeuing \cup {task[w]}
    /\ Go(w, "waiting")
    /\ UNCHANGED <<main, cancelled, taskQueue, attempts, verified>>

\* The error path of the worker: report, hand the task to a goroutine.
Fail(w, kind) ==
    /\ ReportError(asked[w], kind)
    /\ requeuing' = requeuing \cup {task[w]}
    /\ Go(w, "waiting")
    /\ UNCHANGED <<main, cancelled, taskQueue, attempts, verified>>

\* NewStream fails once the context is done; otherwise it is the provider.
StreamFails(w) ==
    /\ pc[w] = "asking"
    /\ \/ cancelled /\ Fail(w, "grave") /\ UNCHANGED fault
       \/ /\ \E kind \in Errors : Fail(w, kind)
          /\ fault' = TRUE
    /\ UNCHANGED disk

\* Variant: a refusal is forgiven, and the same provider is asked again.
NotFoundForgiven(w) ==
    /\ pc[w] = "asking"
    /\ task[w] \notin Holds[asked[w]]
    /\ Fail(w, "transient")
    /\ UNCHANGED <<disk, fault>>

\* The provider answers that it does not have the shard.
NotFound(w) ==
    /\ pc[w] = "asking"
    /\ task[w] \notin Holds[asked[w]]
    /\ Fail(w, "grave")
    /\ UNCHANGED <<disk, fault>>

\* The answer begins.  From here on the context is not looked at again.  A
\* streamed shard goes straight to its file, which is truncated.
Receive(w) ==
    /\ pc[w] = "asking"
    /\ task[w] \in Holds[asked[w]]
    /\ Go(w, "receiving")
    /\ disk' = IF asked[w] \in Streaming THEN [disk EXCEPT ![task[w]] = "partial"] ELSE disk
    /\ UNCHANGED <<main, cancelled, taskQueue, attempts, requeuing, blacklisted,
                   verified, fault>>

\* The stream breaks.  A partial file stays where it is.
BreakOff(w) ==
    /\ pc[w] = "receiving"
    /\ \E kind \in Errors : Fail(w, kind)
    /\ fault' = TRUE
    /\ UNCHANGED disk

\* The hash is wrong.  Only the streamed shard is on disk, and is removed.
Mismatch(w) ==
    /\ pc[w] = "receiving"
    /\ Fail(w, "grave")
    /\ disk' = IF asked[w] \in Streaming THEN [disk EXCEPT ![task[w]] = "absent"] ELSE disk
    /\ fault' = TRUE

\* The write of a shard from the older protocol fails, and is undone.
WriteFails(w) ==
    /\ pc[w] = "receiving" /\ asked[w] \notin Streaming
    /\ Fail(w, "grave")
    /\ disk' = [disk EXCEPT ![task[w]] = "absent"]
    /\ fault' = TRUE

\* Variant: the task goes back to the queue after a success too.
KeepShardRequeuing(w) ==
    /\ pc[w] = "receiving"
    /\ verified' = verified \cup {task[w]}
    /\ disk' = [disk EXCEPT ![task[w]] = "whole"]
    /\ requeuing' = requeuing \cup {task[w]}
    /\ Go(w, "counted")
    /\ UNCHANGED <<main, cancelled, taskQueue, attempts, blacklisted, fault>>

\* The shard is right: keep it and count it.
KeepShard(w) ==
    /\ pc[w] = "receiving"
    /\ verified' = verified \cup {task[w]}
    /\ disk' = [disk EXCEPT ![task[w]] = "whole"]
    /\ Go(w, "counted")
    /\ UNCHANGED <<main, cancelled, taskQueue, attempts, requeuing, blacklisted, fault>>

\* Whoever sees that the count is reached cancels everybody.
CancelWhenEnough(w) ==
    /\ pc[w] = "counted"
    /\ cancelled' = (cancelled \/ Enough(verified))
    /\ Go(w, IF Enough(verified) THEN "gone" ELSE "waiting")
    /\ UNCHANGED <<main, taskQueue, attempts, requeuing, blacklisted, verified, disk, fault>>

----------------------------------------------------------------------------
(* The other goroutines                                                     *)

\* The goroutine of a failed task: its select may take either branch when the
\* context is done, and the channel has room for every task.
Requeue(s) ==
    /\ s \in requeuing
    /\ requeuing' = requeuing \ {s}
    /\ attempts' = [attempts EXCEPT ![s] = @ + 1]
    /\ \/ taskQueue' = Append(taskQueue, s)
       \/ cancelled /\ UNCHANGED taskQueue
    /\ UNCHANGED <<main, cancelled, pc, task, asked, blacklisted, verified, disk,
                   fault>>

\* Nobody has a task or is about to put one back: all that can happen is that
\* the watchdog ends the run.
Stuck == taskQueue = <<>> /\ requeuing = {} /\ \A w \in Worker : task[w] = NoTask

\* The caller, or the watchdog after 15 s without a shard: that is a fault from
\* outside unless the run was stuck by itself.
Cancel ==
    /\ main = "running" /\ ~cancelled
    /\ cancelled' = TRUE
    /\ fault' = (fault \/ ~Stuck)
    /\ UNCHANGED <<main, poolVars, blacklisted, verified, disk>>

\* wg.Wait is over.  ReconstructFromManifest decodes the files of the verified
\* shards and compares the hash of the result.
Finish ==
    /\ main = "running"
    /\ \A w \in Worker : pc[w] = "gone"
    /\ main' = IF Enough(verified) /\ \A s \in verified : disk[s] = "whole"
                 THEN "ok" ELSE "err"
    /\ cancelled' = TRUE
    /\ UNCHANGED <<poolVars, blacklisted, verified, disk, fault>>

WorkerStep(w) ==
    \/ Leave(w) \/ TakeTask(w) \/ ChooseProvider(w) \/ GiveUp(w)
    \/ StreamFails(w) \/ NotFound(w) \/ Receive(w)
    \/ BreakOff(w) \/ Mismatch(w) \/ WriteFails(w) \/ KeepShard(w) \/ CancelWhenEnough(w)

Next ==
    \/ \E w \in Worker : WorkerStep(w)
    \/ \E s \in Shard : Requeue(s)
    \/ Cancel \/ Finish

\* Goroutines run, streams have deadlines, and the watchdog never sleeps.
Fairness ==
    /\ \A w \in Worker : WF_vars(WorkerStep(w))
    /\ \A s \in Shard : WF_vars(Requeue(s))
    /\ WF_vars(Cancel) /\ WF_vars(Finish)

Spec == Init /\ [][Next]_vars /\ Fairness

----------------------------------------------------------------------------
(* Properties                                                               *)

InQueue(s) == \E i \in DOMAIN taskQueue : taskQueue[i] = s
Held(s) == \E w \in Worker : task[w] = s

\* What has been verified stays verified: no other worker ever opens, and
\* truncates, the file of a shard that counts towards MinShards.
VerifiedStays == \A s \in verified : disk[s] = "whole"

\* Until there are enough shards or the run is cancelled no task is lost or
\* doubled between the queue, the workers and the requeueing goroutines: a
\* shard that is not verified is in exactly one of these places, or has used up
\* its attempts.  (Between the last count and the cancellation a worker may
\* leave with a task.)
TasksAccounted ==
    ~cancelled /\ ~Enough(verified) =>
        \A s \in Shard :
            \/ s \in verified \/ attempts[s] >= MaxAttempts
            \/ /\ InQueue(s) \/ Held(s) \/ s \in requeuing
               /\ Cardinality({w \in Worker : task[w] = s})
                  + Cardinality({i \in DOMAIN taskQueue : taskQueue[i] = s})
                  + Cardinality(requeuing \cap {s}) = 1

\* The providers that can serve every shard.
Complete == {q \in Provider : Holds[q] = Shard}

\* One provider that has everything suffices: unless something failed, the run
\* was cancelled from outside or there is no worker at all, RunV1 succeeds,
\* however many tasks the others refuse on the way, as long as they cannot use
\* up the attempts of a task by refusing it one after the other.
FailsForAReason ==
    main = "err" => \/ fault
                    \/ Complete = {}
                    \/ Cardinality(Provider \ Complete) >= MaxAttempts
                    \/ Worker = {}

\* RunV1 returns, whoever cancels and whatever becomes of the tasks.
Returns == main = "running" ~> main # "running"
============================================================================
