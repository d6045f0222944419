------------------------- MODULE RetrievalV1_proofs -------------------------
(***************************************************************************)
(* Proofs about the worker pool of RunV1, for any number of workers and    *)
(* shards, any providers and whatever they hold:                           *)
(*   - the variables keep their types (TypeCorrect);                       *)
(*   - no task is lost or doubled while it is needed (NoTaskLost);         *)
(*   - the file of a verified shard is not touched again (VerifiedSafe);   *)
(*   - a call fails for a reason (FailureExplained).                       *)
(***************************************************************************)
EXTENDS RetrievalV1, FiniteSetTheorems, TLAPS

USE ProviderAssumption, TaskAssumption

----------------------------------------------------------------------------
(* The inductive invariant                                                  *)

\* The tasks in the channel.
Queued == {taskQueue[i] : i \in 1 .. Len(taskQueue)}

NoRepeat == \A i, j \in 1 .. Len(taskQueue) : taskQueue[i] = taskQueue[j] => i = j

\* What a worker holds fits to where it stands.
WorkersOK ==
    \A w \in Worker :
        /\ task[w] # NoTask <=> pc[w] \in {"choosing", "asking", "receiving"}
        /\ asked[w] # NoProvider <=> pc[w] \in {"asking", "receiving"}

\* A task is in one place at most, and nowhere once its shard is verified.
Disjoint ==
    /\ NoRepeat
    /\ \A v, w \in Worker : task[v] = task[w] /\ task[v] # NoTask => v = w
    /\ \A w \in Worker : task[w] \notin Queued \cup requeuing \cup verified
    /\ Queued \cap requeuing = {}
    /\ (Queued \cup requeuing) \cap verified = {}

\* A task that is not dropped when it is taken has an attempt left.
AttemptLeft ==
    /\ \A w \in Worker : task[w] # NoTask => attempts[task[w]] < MaxAttempts
    /\ \A s \in requeuing : attempts[s] < MaxAttempts

PoolInv ==
    /\ TypeOK
    /\ WorkersOK /\ Disjoint /\ AttemptLeft
    /\ VerifiedStays

\* Until somebody cancels or there are enough shards no worker has left, and
\* every task that is needed is somewhere.
Somewhere(s) ==
    \/ s \in verified \/ attempts[s] >= MaxAttempts
    \/ s \in Queued \/ s \in requeuing \/ Held(s)

OpenInv ==
    ~cancelled /\ ~Enough(verified) =>
        /\ \A w \in Worker : pc[w] # "gone"
        /\ \A s \in Shard : Somewhere(s)

\* The case in which RunV1 must succeed.
NoExcuse ==
    /\ ~fault /\ Complete # {}
    /\ Cardinality(Provider \ Complete) < MaxAttempts
    /\ Worker # {}

\* The attempts of a task that are used up, or will be if the provider that is
\* being asked refuses, although another worker has blacklisted it already.
AskedInVain(s) == \E w \in Worker : task[w] = s /\ asked[w] \in blacklisted
Used(s) ==
    attempts[s] + (IF s \in requeuing THEN 1 ELSE 0) + (IF AskedInVain(s) THEN 1 ELSE 0)

\* In that case only providers that lack a shard are blacklisted, each of them
\* costs a task one attempt at most, and whoever cancels has enough.
ReasonInv ==
    NoExcuse =>
        /\ main # "err"
        /\ main = "running" /\ cancelled => Enough(verified)
        /\ ~cancelled =>
             /\ blacklisted \cap Complete = {}
             /\ \A s \in Shard : Used(s) <= Cardinality(blacklisted)

----------------------------------------------------------------------------
(* The channel and the workers                                              *)

LEMMA ShardFinite == IsFiniteSet(Shard) /\ Cardinality(Shard) = Total
  BY FS_Interval DEF Shard

\* Taking the first task of a channel without repetitions removes it.
LEMMA QueueTail ==
    ASSUME taskQueue \in Seq(Shard), taskQueue # <<>>, NoRepeat, taskQueue' = Tail(taskQueue)
    PROVE  /\ taskQueue' \in Seq(Shard)
           /\ Head(taskQueue) \in Shard /\ Head(taskQueue) \in Queued
           /\ Queued' = Queued \ {Head(taskQueue)}
           /\ NoRepeat'
<1>1. /\ Len(taskQueue) \in Nat \ {0} /\ Len(taskQueue') = Len(taskQueue) - 1
      /\ taskQueue' \in Seq(Shard)
      /\ Head(taskQueue) = taskQueue[1] /\ taskQueue[1] \in Shard
      /\ \A i \in 1 .. Len(taskQueue') : taskQueue'[i] = taskQueue[i + 1]
  OBVIOUS
<1>2. Head(taskQueue) \in Queued
  BY <1>1 DEF Queued
<1>3. Queued' \subseteq Queued \ {Head(taskQueue)}
  <2> SUFFICES ASSUME NEW i \in 1 .. Len(taskQueue')
               PROVE  taskQueue'[i] \in Queued \ {Head(taskQueue)}
    BY DEF Queued
  <2>1. i + 1 \in 1 .. Len(taskQueue) /\ 1 \in 1 .. Len(taskQueue) /\ i + 1 # 1
    BY <1>1
  <2>2. taskQueue[i + 1] # taskQueue[1]
    BY <2>1 DEF NoRepeat
  <2>3. QED
    BY <1>1, <2>1, <2>2 DEF Queued
<1>4. Queued \ {Head(taskQueue)} \subseteq Queued'
  <2> SUFFICES ASSUME NEW i \in 1 .. Len(taskQueue), taskQueue[i] # Head(taskQueue)
               PROVE  taskQueue[i] \in Queued'
    BY DEF Queued
  <2>1. i - 1 \in 1 .. Len(taskQueue') /\ taskQueue'[i - 1] = taskQueue[i]
    BY <1>1
  <2>2. QED
    BY <2>1 DEF Queued
<1>5. NoRepeat'
  <2> SUFFICES ASSUME NEW i \in 1 .. Len(taskQueue'), NEW j \in 1 .. Len(taskQueue'),
                      taskQueue'[i] = taskQueue'[j]
               PROVE  i = j
    BY DEF NoRepeat
  <2>1. i + 1 \in 1 .. Len(taskQueue) /\ j + 1 \in 1 .. Len(taskQueue)
        /\ taskQueue[i + 1] = taskQueue[j + 1]
    BY <1>1
  <2>2. i + 1 = j + 1
    BY <2>1 DEF NoRepeat
  <2>3. QED
    BY <2>2
<1>6. QED
  BY <1>1, <1>2, <1>3, <1>4, <1>5

\* Putting back a task that is not in the channel adds it.
LEMMA QueueAppend ==
    ASSUME taskQueue \in Seq(Shard), NEW s \in Shard, s \notin Queued, NoRepeat,
           taskQueue' = Append(taskQueue, s)
    PROVE  /\ taskQueue' \in Seq(Shard)
           /\ Queued' = Queued \cup {s}
           /\ NoRepeat'
<1>1. /\ Len(taskQueue) \in Nat /\ Len(taskQueue') = Len(taskQueue) + 1
      /\ taskQueue' \in Seq(Shard)
      /\ taskQueue'[Len(taskQueue) + 1] = s
      /\ \A i \in 1 .. Len(taskQueue) : taskQueue'[i] = taskQueue[i]
  OBVIOUS
<1>2. \A i \in 1 .. Len(taskQueue') :
          i = Len(taskQueue) + 1 \/ i \in 1 .. Len(taskQueue)
  BY <1>1
<1>3. Queued' \subseteq Queued \cup {s}
  BY <1>1, <1>2 DEF Queued
<1>4. Queued \subseteq Queued'
  <2> SUFFICES ASSUME NEW i \in 1 .. Len(taskQueue) PROVE taskQueue[i] \in Queued'
    BY DEF Queued
  <2>1. i \in 1 .. Len(taskQueue') /\ taskQueue'[i] = taskQueue[i]
    BY <1>1
  <2>2. QED
    BY <2>1 DEF Queued
<1>5. s \in Queued'
  <2>1. Len(taskQueue) + 1 \in 1 .. Len(taskQueue')
    BY <1>1
  <2>2. QED
    BY <1>1, <2>1 DEF Queued
<1>6. NoRepeat'
  <2> SUFFICES ASSUME NEW i \in 1 .. Len(taskQueue'), NEW j \in 1 .. Len(taskQueue'),
                      taskQueue'[i] = taskQueue'[j]
               PROVE  i = j
    BY DEF NoRepeat
  <2>1. \A k \in 1 .. Len(taskQueue) : taskQueue'[k] # s
    BY <1>1 DEF Queued
  <2>2. i \in 1 .. Len(taskQueue) <=> j \in 1 .. Len(taskQueue)
    BY <1>1, <1>2, <2>1
  <2>3. QED
    BY <1>1, <1>2, <2>2 DEF NoRepeat
<1>7. QED
  BY <1>1, <1>3, <1>4, <1>5, <1>6

\* Without repetitions the channel never holds more tasks than there are
\* shards: the send of a requeueing goroutine does not block.
LEMMA QueueBound ==
    ASSUME NEW q \in Seq(Shard), \A i, j \in 1 .. Len(q) : q[i] = q[j] => i = j
    PROVE  Len(q) <= Total
<1> DEFINE S == 1 .. Len(q)
<1>1. Len(q) \in Nat /\ q \in [S -> Shard]
  OBVIOUS
<1>2. IsFiniteSet(S) /\ Cardinality(S) = Len(q)
  <2>1. 1 \in Int /\ Len(q) \in Int
    BY <1>1
  <2>2. IsFiniteSet(S) /\ Cardinality(S) = IF 1 > Len(q) THEN 0 ELSE Len(q) - 1 + 1
    BY <2>1, FS_Interval
  <2>3. QED
    BY <1>1, <2>2
<1>3. SUFFICES ASSUME Total < Len(q) PROVE FALSE
  BY <1>1
<1>4. Cardinality(Shard) < Cardinality(S) /\ IsFiniteSet(Shard)
  BY <1>2, <1>3, ShardFinite
<1> HIDE DEF S
<1>5. ASSUME NEW f \in [S -> Shard]
      PROVE  \E i, j \in S : i # j /\ f[i] = f[j]
  BY <1>2, <1>4, <1>5, FS_PigeonHole, SMTT(30)
<1>6. \E i, j \in S : i # j /\ q[i] = q[j]
  BY <1>1, <1>5
<1>7. QED
  BY <1>6 DEF S

\* Where a worker goes, and what it takes along.
LEMMA GoStep ==
    ASSUME TypeOK, NEW w \in Worker, NEW to \in Phase, Go(w, to)
    PROVE  /\ pc' \in [Worker -> Phase]
           /\ task' \in [Worker -> Shard \cup {NoTask}]
           /\ asked' \in [Worker -> Provider \cup {NoProvider}]
           /\ pc'[w] = to
           /\ to \in {"waiting", "counted", "gone"} => task'[w] = NoTask /\ asked'[w] = NoProvider
           /\ to \notin {"waiting", "counted", "gone"} => task'[w] = task[w] /\ asked'[w] = asked[w]
           /\ \A v \in Worker : v # w =>
                 pc'[v] = pc[v] /\ task'[v] = task[v] /\ asked'[v] = asked[v]
<1>1. /\ pc \in [Worker -> Phase] /\ task \in [Worker -> Shard \cup {NoTask}]
      /\ asked \in [Worker -> Provider \cup {NoProvider}]
  BY DEF TypeOK
<1>2. CASE to \in {"waiting", "counted", "gone"}
  <2>1. /\ pc' = [pc EXCEPT ![w] = to] /\ task' = [task EXCEPT ![w] = NoTask]
        /\ asked' = [asked EXCEPT ![w] = NoProvider]
    BY <1>2 DEF Go
  <2>2. QED
    BY <1>1, <1>2, <2>1
<1>3. CASE to \notin {"waiting", "counted", "gone"}
  <2>1. /\ pc' = [pc EXCEPT ![w] = to] /\ task' = task /\ asked' = asked
    BY <1>3 DEF Go
  <2>2. QED
    BY <1>1, <1>3, <2>1
<1>4. QED
  BY <1>2, <1>3

----------------------------------------------------------------------------
(* The pool                                                                 *)

\* The parts of the type invariant that the channel and the pool share.
PoolTypes ==
    /\ taskQueue \in Seq(Shard) /\ attempts \in [Shard -> 0 .. MaxAttempts]
    /\ requeuing \in SUBSET Shard
    /\ pc \in [Worker -> Phase]
    /\ task \in [Worker -> Shard \cup {NoTask}]
    /\ asked \in [Worker -> Provider \cup {NoProvider}]

RestTypes ==
    /\ main \in {"running", "ok", "err"}
    /\ cancelled \in BOOLEAN /\ fault \in BOOLEAN
    /\ blacklisted \in SUBSET Provider
    /\ verified \in SUBSET Shard
    /\ disk \in [Shard -> {"absent", "partial", "whole"}]

LEMMA InitPool == Init => PoolInv
<1> SUFFICES ASSUME Init PROVE PoolInv
  OBVIOUS
<1>1. /\ taskQueue \in Seq(Shard) /\ Len(taskQueue) = Total
      /\ \A i \in 1 .. Total : taskQueue[i] = i - 1
  BY DEF Init, Shard
<1>2. attempts \in [Shard -> 0 .. MaxAttempts]
  BY DEF Init
<1>3. /\ pc \in [Worker -> Phase] /\ task \in [Worker -> Shard \cup {NoTask}]
      /\ asked \in [Worker -> Provider \cup {NoProvider}]
      /\ disk \in [Shard -> {"absent", "partial", "whole"}]
  BY DEF Init, Phase
<1>4. TypeOK
  <2>1. PoolTypes
    BY <1>1, <1>2, <1>3 DEF Init, PoolTypes
  <2>2. RestTypes
    BY <1>3 DEF Init, RestTypes
  <2>3. QED
    BY <1>1, <2>1, <2>2 DEF PoolTypes, RestTypes, TypeOK
<1>5. WorkersOK /\ AttemptLeft /\ VerifiedStays
  BY DEF Init, WorkersOK, AttemptLeft, VerifiedStays
<1>6. NoRepeat /\ Queued \subseteq Shard
  BY <1>1 DEF NoRepeat, Queued
<1>7. Disjoint
  BY <1>6 DEF Init, Disjoint
<1>8. QED
  BY <1>4, <1>5, <1>7 DEF PoolInv

\* The bound on the channel follows from the tasks being distinct.
LEMMA TypesFromParts ==
    ASSUME PoolTypes', RestTypes', NoRepeat'
    PROVE  TypeOK'
<1>1. Len(taskQueue') <= Total
  BY QueueBound DEF PoolTypes, NoRepeat
<1>2. QED
  BY <1>1 DEF PoolTypes, RestTypes, TypeOK

LEMMA PartsFromTypes ==
    ASSUME TypeOK
    PROVE  PoolTypes /\ RestTypes /\ Queued \subseteq Shard
<1>1. PoolTypes /\ RestTypes
  BY DEF TypeOK, PoolTypes, RestTypes
<1>2. \A i \in 1 .. Len(taskQueue) : taskQueue[i] \in Shard
  BY DEF TypeOK
<1>3. QED
  BY <1>1, <1>2 DEF Queued

\* A worker that lets go of its task, or had none, and goes on or leaves.
LEMMA LetGo ==
    ASSUME PoolInv, NEW w \in Worker, NEW to \in {"waiting", "gone"}, Go(w, to),
           UNCHANGED <<taskQueue, attempts, requeuing, verified>>
    PROVE  PoolTypes' /\ WorkersOK' /\ Disjoint' /\ AttemptLeft'
<1>1. to \in Phase /\ PoolTypes /\ Queued \subseteq Shard
  BY PartsFromTypes DEF Phase, PoolInv
<1>2. /\ pc' \in [Worker -> Phase] /\ task' \in [Worker -> Shard \cup {NoTask}]
      /\ asked' \in [Worker -> Provider \cup {NoProvider}]
      /\ pc'[w] = to /\ task'[w] = NoTask /\ asked'[w] = NoProvider
      /\ \A v \in Worker : v # w =>
            pc'[v] = pc[v] /\ task'[v] = task[v] /\ asked'[v] = asked[v]
  BY <1>1, GoStep DEF PoolInv
<1>3. PoolTypes'
  BY <1>1, <1>2 DEF PoolTypes
<1>4. WorkersOK'
  BY <1>2 DEF PoolInv, WorkersOK
<1>5. Queued' = Queued /\ NoRepeat'
  BY DEF Queued, NoRepeat, PoolInv, Disjoint
<1>6. NoTask \notin Queued \cup requeuing \cup verified
  BY <1>1 DEF PoolInv, TypeOK
<1>7. Disjoint'
  BY <1>2, <1>5, <1>6 DEF PoolInv, Disjoint
<1>8. AttemptLeft'
  BY <1>2 DEF PoolInv, AttemptLeft
<1>9. QED
  BY <1>3, <1>4, <1>7, <1>8

\* A worker takes the first task, drops it, or leaves.
LEMMA TakeTaskPool ==
    ASSUME PoolInv, NEW w \in Worker, TakeTask(w)
    PROVE  PoolInv'
<1> USE DEF PoolInv
<1>1. PoolTypes /\ RestTypes /\ Queued \subseteq Shard
  BY PartsFromTypes
<1>2. /\ taskQueue' \in Seq(Shard) /\ NoRepeat'
      /\ Head(taskQueue) \in Shard /\ Head(taskQueue) \in Queued
      /\ Queued' = Queued \ {Head(taskQueue)}
  BY <1>1, QueueTail DEF TakeTask, PoolTypes, Disjoint
<1>3. task[w] = NoTask /\ pc[w] = "waiting" /\ asked[w] = NoProvider
  BY DEF TakeTask, WorkersOK, TypeOK
<1>4. RestTypes' /\ VerifiedStays'
  BY <1>1 DEF TakeTask, RestTypes, VerifiedStays
<1>5. UNCHANGED <<attempts, requeuing, verified>>
  BY DEF TakeTask
<1>6. ASSUME NEW to \in {"waiting", "gone"}, Go(w, to)
      PROVE  PoolTypes' /\ WorkersOK' /\ Disjoint' /\ AttemptLeft'
  <2>1. to \in Phase
    BY DEF Phase
  <2>2. /\ pc' \in [Worker -> Phase] /\ task' \in [Worker -> Shard \cup {NoTask}]
        /\ asked' \in [Worker -> Provider \cup {NoProvider}]
        /\ pc'[w] = to /\ task'[w] = NoTask /\ asked'[w] = NoProvider
        /\ \A v \in Worker : v # w =>
              pc'[v] = pc[v] /\ task'[v] = task[v] /\ asked'[v] = asked[v]
    BY <1>6, <2>1, GoStep
  <2>3. \A v \in Worker : task'[v] = task[v]
    BY <1>3, <2>2
  <2>4. PoolTypes'
    BY <1>1, <1>2, <1>5, <2>2 DEF PoolTypes
  <2>5. WorkersOK' /\ AttemptLeft'
    BY <1>5, <2>2, <2>3 DEF WorkersOK, AttemptLeft
  <2>6. Disjoint'
    BY <1>2, <1>5, <2>3 DEF Disjoint
  <2>7. QED
    BY <2>4, <2>5, <2>6
<1>7. ASSUME pc' = [pc EXCEPT ![w] = "choosing"], task' = [task EXCEPT ![w] = Head(taskQueue)],
             asked' = asked, attempts[Head(taskQueue)] < MaxAttempts
      PROVE  PoolTypes' /\ WorkersOK' /\ Disjoint' /\ AttemptLeft'
  <2>1. PoolTypes'
    BY <1>1, <1>2, <1>5, <1>7 DEF PoolTypes, Phase
  <2>2. WorkersOK'
    BY <1>1, <1>2, <1>3, <1>7 DEF PoolTypes, WorkersOK
  <2>3. AttemptLeft'
    BY <1>1, <1>5, <1>7 DEF PoolTypes, AttemptLeft
  <2>4. /\ task'[w] = Head(taskQueue)
        /\ \A v \in Worker : v # w => task'[v] = task[v] /\ task[v] # Head(taskQueue)
    BY <1>1, <1>2, <1>7 DEF PoolTypes, Disjoint
  <2>5. Disjoint'
    BY <1>2, <1>5, <2>4 DEF Disjoint
  <2>6. QED
    BY <2>1, <2>2, <2>3, <2>5
<1>8. PoolTypes' /\ WorkersOK' /\ Disjoint' /\ AttemptLeft'
  <2>1. attempts[Head(taskQueue)] \in Nat /\ MaxAttempts \in Nat
    BY <1>1, <1>2 DEF PoolTypes
  <2>2. CASE Go(w, "gone") \/ Go(w, "waiting")
    BY <1>6, <2>2
  <2>3. CASE ~(Go(w, "gone") \/ Go(w, "waiting"))
    BY <1>7, <2>1, <2>3 DEF TakeTask
  <2>4. QED
    BY <2>2, <2>3
<1>9. TypeOK'
  BY <1>4, <1>8, TypesFromParts DEF Disjoint
<1>10. QED
  BY <1>4, <1>8, <1>9

\* The steps of a worker that keep its task, or let it go without a trace.
LEMMA QuietPool ==
    ASSUME PoolInv, NEW w \in Worker,
           Leave(w) \/ ChooseProvider(w) \/ GiveUp(w) \/ Receive(w) \/ CancelWhenEnough(w)
    PROVE  PoolInv'
<1> USE DEF PoolInv
<1>1. PoolTypes /\ RestTypes
  BY PartsFromTypes
<1>2. UNCHANGED <<main, taskQueue, attempts, requeuing, blacklisted, verified, fault>>
  BY DEF Leave, ChooseProvider, GiveUp, Receive, CancelWhenEnough
<1>3. CASE Leave(w) \/ GiveUp(w) \/ CancelWhenEnough(w)
  <2>1. /\ UNCHANGED disk /\ cancelled' \in BOOLEAN
        /\ \E to \in {"waiting", "gone"} : Go(w, to)
    BY <1>1, <1>3 DEF Leave, GiveUp, CancelWhenEnough, RestTypes
  <2>2. PoolTypes' /\ WorkersOK' /\ Disjoint' /\ AttemptLeft'
    BY <1>2, <2>1, LetGo
  <2>3. RestTypes' /\ VerifiedStays'
    BY <1>1, <1>2, <2>1 DEF RestTypes, VerifiedStays
  <2>4. QED
    BY <2>2, <2>3, TypesFromParts DEF Disjoint
<1>4. ASSUME \A v \in Worker : task'[v] = task[v]
      PROVE  Disjoint' /\ AttemptLeft'
  <2>1. Queued' = Queued /\ NoRepeat'
    BY <1>2 DEF Queued, NoRepeat, Disjoint
  <2>2. QED
    BY <1>2, <1>4, <2>1 DEF Disjoint, AttemptLeft
<1>5. CASE ChooseProvider(w)
  <2>1. PICK q \in Provider : /\ pc' = [pc EXCEPT ![w] = "asking"]
                              /\ asked' = [asked EXCEPT ![w] = q]
    BY <1>5 DEF ChooseProvider, Candidates
  <2>2. task' = task /\ UNCHANGED <<disk, cancelled>> /\ pc[w] = "choosing"
    BY <1>5 DEF ChooseProvider
  <2>3. PoolTypes'
    BY <1>1, <1>2, <2>1, <2>2 DEF PoolTypes, Phase
  <2>4. WorkersOK'
    BY <1>1, <2>1, <2>2 DEF PoolTypes, WorkersOK
  <2>5. RestTypes' /\ VerifiedStays'
    BY <1>1, <1>2, <2>2 DEF RestTypes, VerifiedStays
  <2>6. QED
    BY <1>4, <2>2, <2>3, <2>4, <2>5, TypesFromParts DEF Disjoint
<1>6. CASE Receive(w)
  <2>1. Go(w, "receiving") /\ cancelled' = cancelled /\ pc[w] = "asking"
    BY <1>6 DEF Receive
  <2>2. /\ pc' \in [Worker -> Phase] /\ task' \in [Worker -> Shard \cup {NoTask}]
        /\ asked' \in [Worker -> Provider \cup {NoProvider}]
        /\ pc'[w] = "receiving"
        /\ \A v \in Worker : v # w => pc'[v] = pc[v]
        /\ \A v \in Worker : task'[v] = task[v] /\ asked'[v] = asked[v]
    BY <2>1, GoStep DEF Phase
  <2>3. PoolTypes' /\ WorkersOK'
    BY <1>1, <1>2, <2>1, <2>2 DEF PoolTypes, WorkersOK
  <2>4. task[w] \in Shard /\ task[w] \notin verified
    BY <1>1, <2>1 DEF PoolTypes, WorkersOK, Disjoint
  <2>5. \/ disk' = disk
        \/ disk' = [disk EXCEPT ![task[w]] = "partial"]
    BY <1>6 DEF Receive
  <2>6. RestTypes' /\ VerifiedStays'
    BY <1>1, <1>2, <2>1, <2>4, <2>5 DEF RestTypes, VerifiedStays
  <2>7. QED
    BY <1>4, <2>2, <2>3, <2>6, TypesFromParts DEF Disjoint
<1>7. QED
  BY <1>3, <1>5, <1>6

\* A failed task goes to its goroutine; on disk only its own file may change.
LEMMA FailPool ==
    ASSUME PoolInv, NEW w \in Worker, pc[w] \in {"asking", "receiving"},
           NEW kind \in Errors, Fail(w, kind), fault' \in BOOLEAN,
           \/ disk' = disk
           \/ disk' = [disk EXCEPT ![task[w]] = "absent"]
    PROVE  PoolInv'
<1> USE DEF PoolInv
<1>1. PoolTypes /\ RestTypes /\ Queued \subseteq Shard
  BY PartsFromTypes
<1>2. /\ task[w] \in Shard /\ task[w] # NoTask /\ task[w] \notin verified
      /\ asked[w] \in Provider
      /\ task[w] \notin Queued /\ attempts[task[w]] < MaxAttempts
  BY <1>1 DEF PoolTypes, WorkersOK, Disjoint, AttemptLeft
<1>3. /\ Go(w, "waiting") /\ requeuing' = requeuing \cup {task[w]}
      /\ UNCHANGED <<main, cancelled, taskQueue, attempts, verified>>
      /\ blacklisted' \in {blacklisted, blacklisted \cup {asked[w]}}
  BY DEF Fail, ReportError
<1>4. /\ pc' \in [Worker -> Phase] /\ task' \in [Worker -> Shard \cup {NoTask}]
      /\ asked' \in [Worker -> Provider \cup {NoProvider}]
      /\ pc'[w] = "waiting" /\ task'[w] = NoTask /\ asked'[w] = NoProvider
      /\ \A v \in Worker : v # w =>
            pc'[v] = pc[v] /\ task'[v] = task[v] /\ asked'[v] = asked[v]
  BY <1>3, GoStep DEF Phase
<1>5. PoolTypes'
  BY <1>1, <1>2, <1>3, <1>4 DEF PoolTypes
<1>6. WorkersOK'
  BY <1>4 DEF WorkersOK
<1>7. Disjoint'
  <2>1. Queued' = Queued /\ NoRepeat'
    BY <1>3 DEF Queued, NoRepeat, Disjoint
  <2>2. NoTask \notin Queued \cup requeuing' \cup verified
    BY <1>1, <1>2, <1>3 DEF PoolTypes, RestTypes
  <2>3. \A v \in Worker : v # w => task[v] # task[w]
    BY <1>2 DEF Disjoint
  <2>4. \A v \in Worker : task'[v] \notin Queued' \cup requeuing' \cup verified'
    BY <1>3, <1>4, <2>1, <2>2, <2>3 DEF Disjoint
  <2>5. \A u, v \in Worker : task'[v] = task'[u] /\ task'[v] # NoTask => v = u
    BY <1>4 DEF Disjoint
  <2>6. Queued' \cap requeuing' = {} /\ (Queued' \cup requeuing') \cap verified' = {}
    BY <1>2, <1>3, <2>1 DEF Disjoint
  <2>7. QED
    BY <2>1, <2>4, <2>5, <2>6 DEF Disjoint
<1>8. AttemptLeft'
  BY <1>2, <1>3, <1>4 DEF AttemptLeft
<1>9. RestTypes'
  BY <1>1, <1>2, <1>3 DEF RestTypes
<1>10. VerifiedStays'
  BY <1>1, <1>2, <1>3 DEF VerifiedStays, RestTypes
<1>11. TypeOK'
  BY <1>5, <1>7, <1>9, TypesFromParts DEF Disjoint
<1>12. QED
  BY <1>6, <1>7, <1>8, <1>10, <1>11

\* The steps in which fetching a shard fails.
FailStep(w) ==
    StreamFails(w) \/ NotFound(w) \/ BreakOff(w) \/ Mismatch(w) \/ WriteFails(w)

LEMMA FailSteps ==
    ASSUME NEW w \in Worker, FailStep(w), TypeOK
    PROVE  /\ pc[w] \in {"asking", "receiving"}
           /\ \E kind \in Errors : Fail(w, kind)
           /\ fault' \in BOOLEAN
           /\ \/ disk' = disk
              \/ disk' = [disk EXCEPT ![task[w]] = "absent"]
<1>1. fault \in BOOLEAN /\ "grave" \in Errors
  BY DEF TypeOK, Errors
<1>2. CASE StreamFails(w)
  BY <1>1, <1>2 DEF StreamFails
<1>3. CASE NotFound(w)
  BY <1>1, <1>3 DEF NotFound
<1>4. CASE BreakOff(w)
  BY <1>1, <1>4 DEF BreakOff
<1>5. CASE Mismatch(w)
  BY <1>1, <1>5 DEF Mismatch
<1>6. CASE WriteFails(w)
  BY <1>1, <1>6 DEF WriteFails
<1>7. QED
  BY <1>2, <1>3, <1>4, <1>5, <1>6 DEF FailStep

\* A shard that is kept leaves the worker's hands and is whole on disk.
LEMMA KeepShardPool ==
    ASSUME PoolInv, NEW w \in Worker, KeepShard(w)
    PROVE  PoolInv'
<1> USE DEF PoolInv
<1>1. PoolTypes /\ RestTypes /\ Queued \subseteq Shard
  BY PartsFromTypes
<1>2. /\ task[w] \in Shard /\ task[w] # NoTask
      /\ task[w] \notin Queued /\ task[w] \notin requeuing
  BY <1>1 DEF PoolTypes, WorkersOK, Disjoint, KeepShard
<1>3. /\ verified' = verified \cup {task[w]}
      /\ disk' = [disk EXCEPT ![task[w]] = "whole"]
      /\ UNCHANGED <<main, taskQueue, attempts, requeuing, blacklisted, fault>>
      /\ cancelled' \in BOOLEAN
  BY <1>1 DEF KeepShard, RestTypes
<1>4. Go(w, "counted")
  BY DEF KeepShard
<1>5. /\ pc' \in [Worker -> Phase] /\ task' \in [Worker -> Shard \cup {NoTask}]
      /\ asked' \in [Worker -> Provider \cup {NoProvider}]
      /\ pc'[w] = "counted" /\ task'[w] = NoTask /\ asked'[w] = NoProvider
      /\ \A v \in Worker : v # w =>
            pc'[v] = pc[v] /\ task'[v] = task[v] /\ asked'[v] = asked[v]
  BY <1>4, GoStep DEF Phase
<1>6. PoolTypes'
  BY <1>1, <1>3, <1>5 DEF PoolTypes
<1>7. WorkersOK'
  BY <1>4, <1>5 DEF WorkersOK
<1>8. Disjoint'
  <2>1. Queued' = Queued /\ NoRepeat'
    BY <1>3 DEF Queued, NoRepeat, Disjoint
  <2>2. NoTask \notin Queued \cup requeuing \cup verified'
    BY <1>1, <1>2, <1>3 DEF PoolTypes, RestTypes
  <2>3. \A v \in Worker : v # w => task[v] # task[w]
    BY <1>2 DEF Disjoint
  <2>4. \A v \in Worker : task'[v] \notin Queued' \cup requeuing' \cup verified'
    BY <1>3, <1>5, <2>1, <2>2, <2>3 DEF Disjoint
  <2>5. \A u, v \in Worker : task'[v] = task'[u] /\ task'[v] # NoTask => v = u
    BY <1>5 DEF Disjoint
  <2>6. Queued' \cap requeuing' = {} /\ (Queued' \cup requeuing') \cap verified' = {}
    BY <1>2, <1>3, <2>1 DEF Disjoint
  <2>7. QED
    BY <2>1, <2>4, <2>5, <2>6 DEF Disjoint
<1>9. AttemptLeft'
  BY <1>3, <1>5 DEF AttemptLeft
<1>10. RestTypes'
  BY <1>1, <1>2, <1>3 DEF RestTypes
<1>11. VerifiedStays'
  BY <1>1, <1>2, <1>3 DEF VerifiedStays, RestTypes
<1>12. QED
  BY <1>6, <1>7, <1>8, <1>9, <1>10, <1>11, TypesFromParts DEF Disjoint

\* A task is put back with one attempt more, or let go once all is cancelled.
LEMMA RequeuePool ==
    ASSUME PoolInv, NEW s \in Shard, Requeue(s)
    PROVE  PoolInv'
<1> USE DEF PoolInv
<1>1. PoolTypes /\ RestTypes /\ Queued \subseteq Shard
  BY PartsFromTypes
<1>2. /\ s \in requeuing /\ requeuing' = requeuing \ {s}
      /\ attempts' = [attempts EXCEPT ![s] = @ + 1]
      /\ UNCHANGED <<main, cancelled, pc, task, asked, blacklisted, verified, disk, fault>>
  BY DEF Requeue
<1>3. attempts[s] < MaxAttempts /\ s \notin Queued /\ s \notin verified
      /\ \A w \in Worker : task[w] # s
  BY <1>2 DEF AttemptLeft, Disjoint
<1>4. attempts' \in [Shard -> 0 .. MaxAttempts]
  BY <1>1, <1>2, <1>3 DEF PoolTypes
<1>5. /\ taskQueue' \in Seq(Shard) /\ NoRepeat'
      /\ Queued' \subseteq Queued \cup {s}
  <2>1. CASE taskQueue' = Append(taskQueue, s)
    BY <1>1, <1>3, <2>1, QueueAppend DEF PoolTypes, Disjoint
  <2>2. CASE taskQueue' = taskQueue
    BY <1>1, <2>2 DEF PoolTypes, Disjoint, NoRepeat, Queued
  <2>3. QED
    BY <2>1, <2>2 DEF Requeue
<1>6. PoolTypes' /\ RestTypes'
  BY <1>1, <1>2, <1>4, <1>5 DEF PoolTypes, RestTypes
<1>7. Disjoint'
  BY <1>2, <1>3, <1>5 DEF Disjoint
<1>8. AttemptLeft'
  <2>1. \A r \in Shard : r # s => attempts'[r] = attempts[r]
    BY <1>1, <1>2 DEF PoolTypes
  <2>2. QED
    BY <1>1, <1>2, <1>3, <2>1 DEF AttemptLeft, PoolTypes
<1>9. WorkersOK' /\ VerifiedStays'
  BY <1>2 DEF WorkersOK, VerifiedStays
<1>10. QED
  BY <1>5, <1>6, <1>7, <1>8, <1>9, TypesFromParts

LEMMA NextPool ==
    ASSUME PoolInv, [Next]_vars
    PROVE  PoolInv'
<1>1. ASSUME NEW w \in Worker, WorkerStep(w)
      PROVE  PoolInv'
  <2>1. CASE FailStep(w)
    BY <2>1, FailSteps, FailPool DEF PoolInv
  <2>2. CASE TakeTask(w)
    BY <2>2, TakeTaskPool
  <2>3. CASE KeepShard(w)
    BY <2>3, KeepShardPool
  <2>4. CASE Leave(w) \/ ChooseProvider(w) \/ GiveUp(w) \/ Receive(w) \/ CancelWhenEnough(w)
    BY <2>4, QuietPool
  <2>5. QED
    BY <1>1, <2>1, <2>2, <2>3, <2>4 DEF WorkerStep, FailStep
<1>2. ASSUME NEW s \in Shard, Requeue(s)
      PROVE  PoolInv'
  BY <1>2, RequeuePool
<1>3. CASE Cancel \/ Finish \/ UNCHANGED vars
  <2>1. /\ UNCHANGED <<taskQueue, attempts, requeuing, pc, task, asked, blacklisted,
                       verified, disk>>
        /\ fault' \in BOOLEAN
    BY <1>3 DEF PoolInv, TypeOK, Cancel, Finish, vars, poolVars
  <2>2. main' \in {"running", "ok", "err"} /\ cancelled' \in BOOLEAN
    BY <1>3 DEF PoolInv, TypeOK, Cancel, Finish, vars
  <2>3. TypeOK'
    BY <2>1, <2>2 DEF PoolInv, TypeOK
  <2>4. WorkersOK' /\ AttemptLeft' /\ VerifiedStays'
    BY <2>1 DEF PoolInv, WorkersOK, AttemptLeft, VerifiedStays
  <2>5. Disjoint'
    BY <2>1 DEF PoolInv, Disjoint, NoRepeat, Queued
  <2>6. QED
    BY <2>3, <2>4, <2>5 DEF PoolInv
<1>4. QED
  BY <1>1, <1>2, <1>3 DEF Next

LEMMA PoolCorrect == Spec => []PoolInv
  BY InitPool, NextPool, PTL DEF Spec

\* Every variable of the pool keeps its type; in particular the channel never
\* holds more than the Total tasks it has room for, so that the goroutine that
\* puts a task back is never blocked by a full channel.
THEOREM TypeCorrect == Spec => []TypeOK
<1>1. PoolInv => TypeOK
  BY DEF PoolInv
<1>2. QED
  BY <1>1, PoolCorrect, PTL

\* The file of a shard that has been verified stays whole: no second worker is
\* ever given the task, opens the file and truncates it.
THEOREM VerifiedSafe == Spec => []VerifiedStays
<1>1. PoolInv => VerifiedStays
  BY DEF PoolInv
<1>2. QED
  BY <1>1, PoolCorrect, PTL

----------------------------------------------------------------------------
(* No task is lost                                                          *)

\* More verified shards are still enough.
LEMMA EnoughStays ==
    ASSUME TypeOK, NEW set \in SUBSET Shard, verified \subseteq set, Enough(verified)
    PROVE  Enough(set)
<1>1. IsFiniteSet(set) /\ IsFiniteSet(verified)
  BY ShardFinite, FS_Subset
<1>2. Cardinality(verified) <= Cardinality(set)
  BY <1>1, FS_Subset
<1>3. Cardinality(set) \in Nat /\ Cardinality(verified) \in Nat
  BY <1>1, FS_CardinalityType
<1>4. QED
  BY <1>2, <1>3 DEF Enough

LEMMA InitOpen == Init => OpenInv
<1> SUFFICES ASSUME Init PROVE OpenInv
  OBVIOUS
<1>3. \A w \in Worker : pc[w] # "gone"
  BY DEF Init
<1>4. ASSUME NEW s \in Shard PROVE s \in Queued
  <2>1. s + 1 \in 1 .. Total /\ Len(taskQueue) = Total /\ taskQueue[s + 1] = s
    BY DEF Init, Shard
  <2>2. QED
    BY <2>1 DEF Queued
<1>5. QED
  BY <1>3, <1>4 DEF OpenInv, Somewhere

\* A worker that fails hands its task on before it takes another.
LEMMA FailOpen ==
    ASSUME PoolInv, OpenInv, NEW w \in Worker, FailStep(w)
    PROVE  OpenInv'
<1> SUFFICES ASSUME ~cancelled', ~Enough(verified') PROVE OpenInv'
  BY DEF OpenInv, Enough
<1>1. PICK kind \in Errors : Fail(w, kind)
  BY FailSteps DEF PoolInv
<1>2. /\ Go(w, "waiting") /\ requeuing' = requeuing \cup {task[w]}
      /\ UNCHANGED <<main, cancelled, taskQueue, attempts, verified>>
  BY <1>1 DEF Fail
<1>3. /\ \A v \in Worker : pc[v] # "gone"
      /\ \A s \in Shard : Somewhere(s)
  BY <1>1, <1>2 DEF OpenInv
<1>4. /\ pc'[w] = "waiting"
      /\ \A v \in Worker : v # w => pc'[v] = pc[v] /\ task'[v] = task[v]
  BY <1>2, GoStep DEF Phase, PoolInv
<1>5. \A v \in Worker : pc'[v] # "gone"
  BY <1>2, <1>3, <1>4
<1>6. ASSUME NEW s \in Shard PROVE Somewhere(s)'
  <2>1. CASE Held(s)
    BY <1>2, <1>4, <2>1 DEF Held, Somewhere
  <2>2. CASE ~Held(s)
    BY <1>2, <1>3, <2>2 DEF Somewhere, Queued
  <2>3. QED
    BY <2>1, <2>2
<1>7. QED
  BY <1>5, <1>6 DEF OpenInv, Enough

LEMMA TakeTaskOpen ==
    ASSUME PoolInv, OpenInv, NEW w \in Worker, TakeTask(w)
    PROVE  OpenInv'
<1> SUFFICES ASSUME ~cancelled', ~Enough(verified') PROVE OpenInv'
  BY DEF OpenInv, Enough
<1>1. /\ PoolTypes /\ WorkersOK
      /\ UNCHANGED <<main, cancelled, attempts, requeuing, verified>>
  BY PartsFromTypes DEF PoolInv, TakeTask
<1>2. /\ \A v \in Worker : pc[v] # "gone"
      /\ \A s \in Shard : Somewhere(s)
  BY <1>1 DEF OpenInv
<1>3. Head(taskQueue) \in Shard /\ Queued' = Queued \ {Head(taskQueue)}
  BY <1>1, QueueTail DEF TakeTask, PoolTypes, PoolInv, Disjoint
<1>4. task[w] = NoTask /\ NoTask \notin Shard
  BY <1>1 DEF TakeTask, WorkersOK
<1>5. /\ pc'[w] \in {"waiting", "choosing"}
      /\ \A v \in Worker : v # w => pc'[v] = pc[v] /\ task'[v] = task[v]
      /\ attempts[Head(taskQueue)] >= MaxAttempts \/ task'[w] = Head(taskQueue)
  <2>1. CASE attempts[Head(taskQueue)] >= MaxAttempts
    <3>1. Go(w, "waiting")
      BY <1>1, <2>1 DEF TakeTask
    <3>2. QED
      BY <2>1, <3>1, GoStep DEF PoolInv, Phase
  <2>2. CASE ~(attempts[Head(taskQueue)] >= MaxAttempts)
    <3>1. /\ pc' = [pc EXCEPT ![w] = "choosing"]
          /\ task' = [task EXCEPT ![w] = Head(taskQueue)]
      BY <1>1, <2>2 DEF TakeTask
    <3>2. QED
      BY <1>1, <3>1 DEF PoolTypes
  <2>3. QED
    BY <2>1, <2>2
<1>6. \A v \in Worker : pc'[v] # "gone"
  BY <1>2, <1>5
<1>7. ASSUME NEW s \in Shard PROVE Somewhere(s)'
  <2>1. CASE s = Head(taskQueue)
    BY <1>1, <1>5, <2>1 DEF Somewhere, Held
  <2>2. CASE Held(s)
    BY <1>4, <1>5, <2>2 DEF Held, Somewhere
  <2>3. CASE s # Head(taskQueue) /\ ~Held(s)
    BY <1>1, <1>2, <1>3, <2>3 DEF Somewhere
  <2>4. QED
    BY <2>1, <2>2, <2>3
<1>8. QED
  BY <1>6, <1>7 DEF OpenInv, Enough

LEMMA KeepShardOpen ==
    ASSUME PoolInv, OpenInv, NEW w \in Worker, KeepShard(w)
    PROVE  OpenInv'
<1> SUFFICES ASSUME ~cancelled', ~Enough(verified') PROVE OpenInv'
  BY DEF OpenInv, Enough
<1>1. /\ verified' = verified \cup {task[w]}
      /\ UNCHANGED <<taskQueue, attempts, requeuing>>
      /\ ~cancelled /\ Go(w, "counted")
  BY DEF KeepShard
<1>0. ~Enough(verified)
  <2>1. TypeOK /\ verified' \in SUBSET Shard /\ verified \subseteq verified'
    BY <1>1, KeepShardPool DEF PoolInv, TypeOK
  <2>2. QED
    BY <2>1, EnoughStays
<1>2. /\ \A v \in Worker : pc[v] # "gone"
      /\ \A s \in Shard : Somewhere(s)
  BY <1>0, <1>1 DEF OpenInv
<1>3. /\ pc'[w] = "counted"
      /\ \A v \in Worker : v # w => pc'[v] = pc[v] /\ task'[v] = task[v]
  BY <1>1, GoStep DEF Phase, PoolInv
<1>4. ASSUME NEW s \in Shard PROVE Somewhere(s)'
  <2>1. CASE Held(s)
    BY <1>1, <1>3, <2>1 DEF Held, Somewhere
  <2>2. CASE ~Held(s)
    BY <1>1, <1>2, <2>2 DEF Somewhere, Queued
  <2>3. QED
    BY <2>1, <2>2
<1>5. QED
  BY <1>1, <1>2, <1>3, <1>4 DEF OpenInv, Enough

\* The other steps of a worker keep its task, or need a cancelled context.
LEMMA QuietOpen ==
    ASSUME PoolInv, OpenInv, NEW w \in Worker,
           Leave(w) \/ ChooseProvider(w) \/ GiveUp(w) \/ Receive(w) \/ CancelWhenEnough(w)
    PROVE  OpenInv'
<1> SUFFICES ASSUME ~cancelled', ~Enough(verified') PROVE OpenInv'
  BY DEF OpenInv, Enough
<1>1. UNCHANGED <<taskQueue, attempts, requeuing, verified>>
  BY DEF Leave, ChooseProvider, GiveUp, Receive, CancelWhenEnough
<1>2. /\ ~cancelled
      /\ \A v \in Worker : task'[v] = task[v] /\ (pc'[v] = pc[v] \/ pc'[v] # "gone")
  <2>1. CASE Leave(w) \/ GiveUp(w)
    BY <2>1 DEF Leave, GiveUp
  <2>2. CASE ChooseProvider(w)
    BY <2>2 DEF ChooseProvider, PoolInv, TypeOK
  <2>3. CASE Receive(w)
    BY <2>3, GoStep DEF Receive, PoolInv, Phase
  <2>4. CASE CancelWhenEnough(w)
    <3>1. ~cancelled /\ Go(w, "waiting") /\ task[w] = NoTask
      BY <1>1, <2>4 DEF CancelWhenEnough, PoolInv, WorkersOK
    <3>2. QED
      BY <3>1, GoStep DEF PoolInv, Phase
  <2>5. QED
    BY <2>1, <2>2, <2>3, <2>4
<1>3. /\ \A v \in Worker : pc[v] # "gone"
      /\ \A s \in Shard : Somewhere(s)
  BY <1>1, <1>2 DEF OpenInv
<1>4. ASSUME NEW s \in Shard PROVE Somewhere(s)'
  BY <1>1, <1>2, <1>3 DEF Somewhere, Held, Queued
<1>5. QED
  BY <1>1, <1>2, <1>3, <1>4 DEF OpenInv, Enough

LEMMA RequeueOpen ==
    ASSUME PoolInv, OpenInv, NEW s \in Shard, Requeue(s)
    PROVE  OpenInv'
<1> SUFFICES ASSUME ~cancelled', ~Enough(verified') PROVE OpenInv'
  BY DEF OpenInv, Enough
<1>1. /\ s \in requeuing /\ requeuing' = requeuing \ {s}
      /\ attempts' = [attempts EXCEPT ![s] = @ + 1]
      /\ taskQueue' = Append(taskQueue, s)
      /\ UNCHANGED <<cancelled, pc, task, verified>>
  BY DEF Requeue
<1>2. PoolTypes /\ s \notin Queued
  BY <1>1, PartsFromTypes DEF PoolInv, Disjoint
<1>3. Queued' = Queued \cup {s}
  BY <1>1, <1>2, QueueAppend DEF PoolTypes, PoolInv, Disjoint
<1>4. \A r \in Shard : r # s => attempts'[r] = attempts[r]
  BY <1>1, <1>2 DEF PoolTypes
<1>5. /\ \A v \in Worker : pc[v] # "gone"
      /\ \A r \in Shard : Somewhere(r)
  BY <1>1 DEF OpenInv
<1>6. ASSUME NEW r \in Shard PROVE Somewhere(r)'
  BY <1>1, <1>3, <1>4, <1>5 DEF Somewhere, Held
<1>7. QED
  BY <1>1, <1>5, <1>6 DEF OpenInv, Enough

LEMMA NextOpen ==
    ASSUME PoolInv, OpenInv, [Next]_vars
    PROVE  OpenInv'
<1>1. ASSUME NEW w \in Worker, WorkerStep(w)
      PROVE  OpenInv'
  BY <1>1, FailOpen, TakeTaskOpen, KeepShardOpen, QuietOpen DEF WorkerStep, FailStep
<1>2. ASSUME NEW s \in Shard, Requeue(s)
      PROVE  OpenInv'
  BY <1>2, RequeueOpen
<1>3. CASE Cancel \/ Finish
  BY <1>3 DEF Cancel, Finish, OpenInv
<1>4. CASE UNCHANGED vars
  BY <1>4 DEF vars, poolVars, OpenInv, Enough, Somewhere, Held, Queued
<1>5. QED
  BY <1>1, <1>2, <1>3, <1>4 DEF Next

LEMMA OpenCorrect == Spec => [](PoolInv /\ OpenInv)
<1>1. Init => PoolInv /\ OpenInv
  BY InitPool, InitOpen
<1>2. PoolInv /\ OpenInv /\ [Next]_vars => (PoolInv /\ OpenInv)'
  BY NextPool, NextOpen
<1>3. QED
  BY <1>1, <1>2, PTL DEF Spec

\* A task is counted once, wherever it is.
LEMMA OnePlace ==
    ASSUME PoolInv, OpenInv
    PROVE  TasksAccounted
<1> SUFFICES ASSUME ~cancelled, ~Enough(verified), NEW s \in Shard,
                    s \notin verified, ~(attempts[s] >= MaxAttempts)
             PROVE  /\ InQueue(s) \/ Held(s) \/ s \in requeuing
                    /\ Cardinality({w \in Worker : task[w] = s})
                       + Cardinality({i \in DOMAIN taskQueue : taskQueue[i] = s})
                       + Cardinality(requeuing \cap {s}) = 1
  BY DEF TasksAccounted
<1> DEFINE W == {w \in Worker : task[w] = s}
           Q == {i \in DOMAIN taskQueue : taskQueue[i] = s}
           R == requeuing \cap {s}
<1>1. DOMAIN taskQueue = 1 .. Len(taskQueue)
  BY DEF PoolInv, TypeOK
<1>2. s \in Queued \/ s \in requeuing \/ Held(s)
  BY DEF OpenInv, Somewhere
<1>3. /\ s \in Queued <=> Q # {}
      /\ s \in Queued <=> InQueue(s)
      /\ Held(s) <=> W # {}
      /\ s \in requeuing <=> R # {}
  BY <1>1 DEF Queued, InQueue, Held
<1>4. ~(s \in Queued /\ s \in requeuing) /\ ~(Held(s) /\ (s \in Queued \/ s \in requeuing))
  BY DEF PoolInv, Disjoint, Held
<1>5. Cardinality(W) = IF Held(s) THEN 1 ELSE 0
  <2>1. CASE Held(s)
    <3>1. PICK w \in Worker : task[w] = s
      BY <2>1 DEF Held
    <3>2. W = {w}
      BY <3>1 DEF PoolInv, Disjoint
    <3>3. QED
      BY <2>1, <3>2, FS_Singleton
  <2>2. CASE ~Held(s)
    BY <1>3, <2>2, FS_EmptySet
  <2>3. QED
    BY <2>1, <2>2
<1>6. Cardinality(Q) = IF s \in Queued THEN 1 ELSE 0
  <2>1. CASE s \in Queued
    <3>1. PICK i \in 1 .. Len(taskQueue) : taskQueue[i] = s
      BY <2>1 DEF Queued
    <3>2. Q = {i}
      BY <1>1, <3>1 DEF PoolInv, Disjoint, NoRepeat
    <3>3. QED
      BY <2>1, <3>2, FS_Singleton
  <2>2. CASE s \notin Queued
    BY <1>3, <2>2, FS_EmptySet
  <2>3. QED
    BY <2>1, <2>2
<1>7. Cardinality(R) = IF s \in requeuing THEN 1 ELSE 0
  <2>1. CASE s \in requeuing
    BY <2>1, FS_Singleton, R = {s}
  <2>2. CASE s \notin requeuing
    BY <2>2, FS_EmptySet, R = {}
  <2>3. QED
    BY <2>1, <2>2
<1>8. QED
  BY <1>2, <1>3, <1>4, <1>5, <1>6, <1>7

\* While the run is neither cancelled nor has enough shards every task is in
\* exactly one place: in the channel, with a worker or with the goroutine that
\* puts it back; or its shard is verified, or it has used up its attempts.
THEOREM NoTaskLost == Spec => []TasksAccounted
  BY OpenCorrect, OnePlace, PTL

----------------------------------------------------------------------------
(* A call fails for a reason                                                *)

\* A call keeps its excuses.
LEMMA ExcusesStay ==
    ASSUME PoolInv, [Next]_vars, NoExcuse'
    PROVE  NoExcuse
<1>1. fault => fault'
  BY DEF Next, WorkerStep, Leave, TakeTask, ChooseProvider, GiveUp, StreamFails,
         NotFound, Receive, BreakOff, Mismatch, WriteFails, KeepShard,
         CancelWhenEnough, Requeue,
         Cancel, Finish, vars
<1>2. QED
  BY <1>1 DEF NoExcuse

\* The providers that lack a shard cannot use up the attempts of a task.
LEMMA Budget ==
    ASSUME TypeOK, NoExcuse, blacklisted \cap Complete = {}
    PROVE  /\ IsFiniteSet(blacklisted) /\ Cardinality(blacklisted) \in Nat
           /\ Cardinality(blacklisted) < MaxAttempts
<1>1. IsFiniteSet(Provider \ Complete)
  BY FS_Subset DEF Complete
<1>2. blacklisted \subseteq Provider \ Complete
  BY DEF TypeOK, Complete
<1>3. /\ IsFiniteSet(blacklisted)
      /\ Cardinality(blacklisted) <= Cardinality(Provider \ Complete)
  BY <1>1, <1>2, FS_Subset
<1>4. Cardinality(blacklisted) \in Nat /\ Cardinality(Provider \ Complete) \in Nat
  BY <1>1, <1>3, FS_CardinalityType
<1>5. QED
  BY <1>3, <1>4 DEF NoExcuse

LEMMA UsedType ==
    ASSUME TypeOK, NEW s \in Shard
    PROVE  Used(s) \in Nat /\ attempts[s] <= Used(s)
  BY DEF TypeOK, Used

\* What does not add to the attempts that are used up.
LEMMA UsedNoMore ==
    ASSUME TypeOK, NEW s \in Shard, attempts'[s] = attempts[s],
           s \in requeuing' => s \in requeuing,
           AskedInVain(s)' => AskedInVain(s)
    PROVE  Used(s)' <= Used(s)
<1>1. attempts[s] \in Nat
  BY DEF TypeOK
<1>2. QED
  BY <1>1 DEF Used

LEMMA InitReason == Init => ReasonInv
<1> SUFFICES ASSUME Init, NoExcuse PROVE ReasonInv
  BY DEF ReasonInv
<1>1. Cardinality(blacklisted) = 0
  BY FS_EmptySet DEF Init
<1>2. ASSUME NEW s \in Shard PROVE Used(s) = 0
  BY DEF Init, Used, AskedInVain
<1>3. QED
  BY <1>1, <1>2 DEF Init, ReasonInv

\* A refusal costs its task an attempt, and every other worker that asks the
\* same provider at most one.
LEMMA NotFoundReason ==
    ASSUME PoolInv, ReasonInv, NoExcuse, ~cancelled, NEW w \in Worker, NotFound(w)
    PROVE  /\ blacklisted' \cap Complete = {}
           /\ \A s \in Shard : Used(s)' <= Cardinality(blacklisted')
<1> DEFINE q == asked[w]
<1>1. PoolTypes /\ RestTypes
  BY PartsFromTypes DEF PoolInv
<1>2. /\ blacklisted \cap Complete = {}
      /\ \A s \in Shard : Used(s) <= Cardinality(blacklisted)
  BY DEF ReasonInv
<1>3. /\ q \in Provider /\ task[w] \in Shard /\ task[w] \notin Holds[q]
      /\ task[w] # NoTask
      /\ task[w] \notin requeuing /\ \A v \in Worker : task[v] = task[w] => v = w
  BY <1>1 DEF NotFound, PoolInv, PoolTypes, WorkersOK, Disjoint
<1>4. /\ blacklisted' = blacklisted \cup {q}
      /\ requeuing' = requeuing \cup {task[w]}
      /\ attempts' = attempts /\ Go(w, "waiting")
  BY DEF NotFound, Fail, ReportError
<1>5. /\ task'[w] = NoTask
      /\ \A v \in Worker : v # w => task'[v] = task[v] /\ asked'[v] = asked[v]
  BY <1>4, GoStep DEF Phase, PoolInv
<1>6. blacklisted' \cap Complete = {}
  BY <1>2, <1>3, <1>4 DEF Complete
<1>7. IsFiniteSet(blacklisted) /\ Cardinality(blacklisted) \in Nat
  BY <1>2, Budget DEF PoolInv
<1>8. Cardinality(blacklisted') =
          IF q \in blacklisted THEN Cardinality(blacklisted) ELSE Cardinality(blacklisted) + 1
  BY <1>4, <1>7, FS_AddElement
<1> HIDE DEF q
<1>9. ASSUME NEW s \in Shard PROVE Used(s)' <= Cardinality(blacklisted')
  <2>1. attempts[s] \in Nat /\ Used(s) <= Cardinality(blacklisted)
    BY <1>1, <1>2 DEF PoolTypes
  <2>2. CASE s = task[w]
    <3>1. ~AskedInVain(s)' /\ (q \in blacklisted => AskedInVain(s))
      BY <1>3, <1>5, <2>2 DEF AskedInVain, q
    <3>2. Used(s)' = attempts[s] + 1
      BY <1>4, <2>1, <2>2, <3>1 DEF Used
    <3>3. Used(s) = IF AskedInVain(s) THEN attempts[s] + 1 ELSE attempts[s]
      BY <1>3, <2>1, <2>2 DEF Used
    <3>4. QED
      BY <1>7, <1>8, <2>1, <3>1, <3>2, <3>3
  <2>3. CASE s # task[w]
    <3>1. s \in requeuing' <=> s \in requeuing
      BY <1>4, <2>3
    <3>2. q \in blacklisted /\ AskedInVain(s)' => AskedInVain(s)
      BY <1>3, <1>4, <1>5 DEF AskedInVain
    <3>3. Used(s) \in Nat /\ Used(s)' \in Nat
      BY <1>4, <2>1 DEF Used
    <3>4. Used(s)' <= Used(s) + (IF q \in blacklisted THEN 0 ELSE 1)
      BY <1>4, <2>1, <3>1, <3>2 DEF Used
    <3>5. QED
      BY <1>7, <1>8, <2>1, <3>3, <3>4
  <2>4. QED
    BY <2>2, <2>3
<1>10. QED
  BY <1>6, <1>9

\* A run that is stuck by itself has every shard: no task was given up.
LEMMA StuckHasAll ==
    ASSUME PoolInv, OpenInv, ReasonInv, NoExcuse, ~cancelled, Stuck
    PROVE  Enough(verified)
<1>1. PoolTypes /\ RestTypes
  BY PartsFromTypes DEF PoolInv
<1>2. /\ blacklisted \cap Complete = {}
      /\ \A s \in Shard : Used(s) <= Cardinality(blacklisted)
      /\ ~Enough(verified) => \A s \in Shard : Somewhere(s)
  BY DEF ReasonInv, OpenInv
<1>3. Cardinality(blacklisted) \in Nat /\ Cardinality(blacklisted) < MaxAttempts
  BY <1>2, Budget DEF PoolInv
<1> SUFFICES ASSUME ~Enough(verified) PROVE FALSE
  OBVIOUS
<1>4. ASSUME NEW s \in Shard PROVE s \in verified
  <2>1. attempts[s] \in Nat /\ attempts[s] <= Used(s) /\ Used(s) \in Nat
    BY <1>1, UsedType DEF PoolTypes, PoolInv
  <2>2. attempts[s] < MaxAttempts
    BY <1>2, <1>3, <2>1
  <2>3. s \notin Queued /\ s \notin requeuing /\ ~Held(s)
    BY DEF Stuck, Queued, Held
  <2>4. QED
    BY <1>2, <2>1, <2>2, <2>3 DEF Somewhere
<1>5. verified = Shard
  BY <1>1, <1>4 DEF RestTypes
<1>6. QED
  BY <1>5, ShardFinite DEF Enough

\* The steps of a worker: only a refusal blacklists, and only a worker with
\* enough shards cancels.
LEMMA WorkerReason ==
    ASSUME PoolInv, PoolInv', OpenInv, ReasonInv, NoExcuse, NoExcuse',
           NEW w \in Worker, WorkerStep(w)
    PROVE  ReasonInv'
<1>1. PoolTypes /\ RestTypes /\ main' = main
  BY PartsFromTypes DEF PoolInv, WorkerStep, Leave, TakeTask, ChooseProvider, GiveUp,
     StreamFails, NotFound, Receive, BreakOff, Mismatch, WriteFails, KeepShard, CancelWhenEnough, Fail
<1>2. main # "err" /\ (main = "running" /\ cancelled => Enough(verified))
  BY DEF ReasonInv
<1>3. verified \subseteq verified' /\ verified' \in SUBSET Shard
  BY DEF WorkerStep, Leave, TakeTask, ChooseProvider, GiveUp,
     StreamFails, NotFound, Receive, BreakOff, Mismatch, WriteFails, KeepShard, CancelWhenEnough, Fail,
     PoolInv, TypeOK
<1>4. Enough(verified) => Enough(verified')
  BY <1>3, EnoughStays DEF PoolInv
<1>5. CASE cancelled
  <2>1. cancelled'
    BY <1>5 DEF WorkerStep, Leave, TakeTask, ChooseProvider, GiveUp,
       StreamFails, NotFound, Receive, BreakOff, Mismatch, WriteFails, KeepShard, CancelWhenEnough, Fail
  <2>2. QED
    BY <1>1, <1>2, <1>4, <1>5, <2>1 DEF ReasonInv, Enough
<1>6. CASE ~cancelled
  <2>1. /\ blacklisted \cap Complete = {}
        /\ \A s \in Shard : Used(s) <= Cardinality(blacklisted)
    BY <1>6 DEF ReasonInv
  <2>2. Cardinality(blacklisted) \in Nat
    BY <2>1, Budget DEF PoolInv
  <2>3. cancelled' => Enough(verified')
    <3>1. ~GiveUp(w)
      BY <2>1 DEF GiveUp, Candidates, NoExcuse, Complete
    <3>2. CASE CancelWhenEnough(w)
      BY <1>6, <3>2 DEF CancelWhenEnough
    <3>3. CASE ~CancelWhenEnough(w)
      <4>1. ~cancelled'
        BY <1>6, <3>1, <3>3 DEF WorkerStep, Leave, TakeTask, ChooseProvider,
           StreamFails, NotFound, Receive, BreakOff, Mismatch, WriteFails, KeepShard, Fail
      <4>2. QED
        BY <4>1
    <3>4. QED
      BY <3>2, <3>3
  <2>4. ASSUME blacklisted' = blacklisted, attempts' = attempts, requeuing' = requeuing,
               \A v \in Worker : \/ task'[v] = task[v] /\ asked'[v] = asked[v]
                                 \/ asked'[v] \notin blacklisted
        PROVE  /\ blacklisted' \cap Complete = {}
               /\ \A s \in Shard : Used(s)' <= Cardinality(blacklisted')
    <3>1. ASSUME NEW s \in Shard PROVE Used(s)' <= Used(s)
      <4>1. AskedInVain(s)' => AskedInVain(s)
        BY <2>4 DEF AskedInVain
      <4>2. QED
        BY <2>4, <4>1, UsedNoMore DEF PoolInv
    <3>2. ASSUME NEW s \in Shard PROVE Used(s) \in Nat /\ Used(s)' \in Nat
      BY <1>1, <2>4 DEF PoolTypes, Used
    <3>3. QED
      BY <2>1, <2>2, <2>4, <3>1, <3>2
  <2>5. /\ blacklisted' \cap Complete = {}
        /\ \A s \in Shard : Used(s)' <= Cardinality(blacklisted')
    <3>1. CASE NotFound(w)
      BY <1>6, <3>1, NotFoundReason
    <3>2. ~Leave(w) /\ ~GiveUp(w)
      BY <1>6, <2>1 DEF Leave, GiveUp, Candidates, NoExcuse, Complete
    <3>3. ~(StreamFails(w) \/ BreakOff(w) \/ Mismatch(w) \/ WriteFails(w))
      BY <1>6 DEF StreamFails, BreakOff, Mismatch, WriteFails, NoExcuse
    <3>4. NoProvider \notin blacklisted
      BY <1>1 DEF RestTypes
    <3>5. ASSUME NEW to \in Phase, Go(w, to)
          PROVE  \A v \in Worker : \/ task'[v] = task[v] /\ asked'[v] = asked[v]
                                   \/ asked'[v] \notin blacklisted
      BY <3>4, <3>5, GoStep DEF PoolInv
    <3>6. CASE KeepShard(w) \/ CancelWhenEnough(w)
      <4>1. PICK to \in Phase : Go(w, to)
        BY <3>6 DEF KeepShard, CancelWhenEnough, Phase
      <4>2. QED
        BY <2>4, <3>5, <3>6, <4>1 DEF KeepShard, CancelWhenEnough
    <3>7. CASE Receive(w)
      <4>1. PICK to \in Phase : Go(w, to)
        BY <3>7 DEF Receive, Phase
      <4>2. QED
        BY <2>4, <3>5, <3>7, <4>1 DEF Receive
    <3>8. CASE ChooseProvider(w)
      <4>1. PICK q \in Candidates : asked' = [asked EXCEPT ![w] = q]
        BY <3>8 DEF ChooseProvider
      <4>2. task' = task /\ q \notin blacklisted
        BY <3>8, <4>1 DEF ChooseProvider, Candidates
      <4>3. QED
        BY <1>1, <2>4, <3>8, <4>1, <4>2 DEF ChooseProvider, PoolTypes
    <3>9. CASE TakeTask(w)
      <4>1. CASE asked' = asked
        <5>1. /\ asked'[w] = NoProvider
              /\ task' = [task EXCEPT ![w] = Head(taskQueue)]
                 \/ \E to \in Phase : Go(w, to)
          BY <3>9, <4>1 DEF TakeTask, PoolInv, WorkersOK, Phase
        <5>2. \A v \in Worker : \/ task'[v] = task[v] /\ asked'[v] = asked[v]
                                \/ asked'[v] \notin blacklisted
          BY <1>1, <3>4, <3>5, <4>1, <5>1 DEF PoolTypes
        <5>3. QED
          BY <2>4, <3>9, <5>2 DEF TakeTask
      <4>2. CASE asked' # asked
        <5>1. PICK to \in Phase : Go(w, to)
          BY <3>9, <4>2 DEF TakeTask, Phase
        <5>2. QED
          BY <2>4, <3>5, <3>9, <5>1 DEF TakeTask
      <4>3. QED
        BY <4>1, <4>2
    <3>10. QED
      BY <3>1, <3>2, <3>3, <3>6, <3>7, <3>8, <3>9 DEF WorkerStep
  <2>6. QED
    BY <1>1, <1>2, <2>3, <2>5 DEF ReasonInv, Enough
<1>7. QED
  BY <1>5, <1>6

LEMMA RequeueReason ==
    ASSUME PoolInv, ReasonInv, NoExcuse, NEW s \in Shard, Requeue(s)
    PROVE  ReasonInv'
<1>1. PoolTypes
  BY PartsFromTypes DEF PoolInv
<1>2. /\ s \in requeuing /\ requeuing' = requeuing \ {s}
      /\ attempts' = [attempts EXCEPT ![s] = @ + 1]
      /\ UNCHANGED <<main, cancelled, task, asked, blacklisted, verified, fault>>
  BY DEF Requeue
<1>3. \A r \in Shard : AskedInVain(r)' <=> AskedInVain(r)
  BY <1>2 DEF AskedInVain
<1>4. ASSUME NEW r \in Shard PROVE Used(r)' = Used(r)
  <2>1. attempts[r] \in Nat
    BY <1>1 DEF PoolTypes
  <2>2. CASE r = s
    BY <1>1, <1>2, <1>3, <2>1, <2>2 DEF Used, PoolTypes
  <2>3. CASE r # s
    BY <1>1, <1>2, <1>3, <2>1, <2>3 DEF Used, PoolTypes
  <2>4. QED
    BY <2>2, <2>3
<1>5. QED
  BY <1>2, <1>4 DEF ReasonInv, Enough

LEMMA NextReason ==
    ASSUME PoolInv, PoolInv', OpenInv, ReasonInv, [Next]_vars
    PROVE  ReasonInv'
<1> SUFFICES ASSUME NoExcuse' PROVE ReasonInv'
  BY DEF ReasonInv
<1>1. NoExcuse
  BY ExcusesStay
<1>2. ASSUME NEW w \in Worker, WorkerStep(w)
      PROVE  ReasonInv'
  BY <1>1, <1>2, WorkerReason
<1>3. ASSUME NEW s \in Shard, Requeue(s)
      PROVE  ReasonInv'
  BY <1>1, <1>3, RequeueReason
<1>4. CASE Cancel
  <2>1. /\ main' = main /\ main = "running" /\ ~cancelled /\ verified' = verified
        /\ cancelled' = TRUE /\ Stuck
    BY <1>4 DEF Cancel, NoExcuse
  <2>2. Enough(verified)
    BY <1>1, <2>1, StuckHasAll
  <2>3. QED
    BY <2>1, <2>2 DEF ReasonInv, Enough
<1>5. CASE Finish
  <2>1. cancelled \/ Enough(verified)
    BY <1>1, <1>5 DEF Finish, OpenInv, NoExcuse
  <2>2. Enough(verified) /\ VerifiedStays
    BY <1>1, <1>5, <2>1 DEF Finish, ReasonInv, PoolInv
  <2>3. main' = "ok" /\ cancelled'
    BY <1>5, <2>2 DEF Finish, VerifiedStays
  <2>4. QED
    BY <2>3 DEF ReasonInv
<1>6. CASE UNCHANGED vars
  BY <1>1, <1>6 DEF vars, poolVars, ReasonInv, Used, AskedInVain, Enough
<1>7. QED
  BY <1>2, <1>3, <1>4, <1>5, <1>6 DEF Next

\* RunV1 fails for a reason: a provider or the disk failed, somebody outside
\* cancelled, nobody has the whole file, those that refuse can use up the
\* attempts of a task, or there is no worker.
THEOREM FailureExplained == Spec => []FailsForAReason
<1>1. Init => PoolInv /\ OpenInv /\ ReasonInv
  BY InitPool, InitOpen, InitReason
<1>2. PoolInv /\ OpenInv /\ ReasonInv /\ [Next]_vars => (PoolInv /\ OpenInv /\ ReasonInv)'
  BY NextPool, NextOpen, NextReason
<1>3. ReasonInv => FailsForAReason
  <2> SUFFICES ASSUME ReasonInv, main = "err", ~fault, Complete # {}, Worker # {},
                      ~(Cardinality(Provider \ Complete) >= MaxAttempts)
               PROVE  FALSE
    BY DEF FailsForAReason
  <2>1. IsFiniteSet(Provider \ Complete)
    BY FS_Subset DEF Complete
  <2>2. Cardinality(Provider \ Complete) \in Nat
    BY <2>1, FS_CardinalityType
  <2>3. NoExcuse
    BY <2>2 DEF NoExcuse
  <2>4. QED
    BY <2>3 DEF ReasonInv
<1>4. QED
  BY <1>1, <1>2, <1>3, PTL DEF Spec
=============================================================================
