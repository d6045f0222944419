------------------------- MODULE RetrievalV2_proofs -------------------------
(***************************************************************************)
(* Proofs about the segment pipeline of RunV2, for any number of segments, *)
(* any window, any checkpoint interval and any number of calls:            *)
(*   - the variables keep their types (TypeCorrect);                       *)
(*   - a segment is only written to its own place (InOrder);               *)
(*   - a checkpoint never claims bytes that the output does not hold       *)
(*     (CkptTruthful);                                                     *)
(*   - a call in which nothing fails succeeds, whatever it resumes         *)
(*     (ResumeSafe).                                                       *)
(***************************************************************************)
EXTENDS RetrievalV2, SequenceTheorems, TLAPS

USE SizeAssumption

----------------------------------------------------------------------------
(* The inductive invariants                                                 *)

\* Where the writer stands in the file and in the segments: one segment ahead
\* in the file while it saves a checkpoint, and level otherwise.
WriterLevel ==
    /\ totalWritten = expectedSegment + (IF wpc = "save" THEN 1 ELSE 0)
    /\ wpc = "save" => expectedSegment \in buffer
    /\ ckpt.BytesWritten = ckpt.LastSegment + 1

TypeInv == TypeOK /\ WriterLevel

\* Decoding yields the segment that was asked for, or wrong bytes.
DataInPlace == \A s \in Segment : data[s] \in {s, Bad}

OrderInv == TypeInv /\ DataInPlace /\ OutputInOrder

\* The first n entries of the output are right.
Right(n) == n <= Len(out) /\ \A i \in 1 .. n : out[i] = i - 1

\* A writer that has ended without an error has written every segment.
EndedComplete == wpc = "exited" /\ writeErr = "none" => expectedSegment = Total

\* As long as nobody has tampered: what the checkpoint claims is there, the
\* writer only works behind it, and what the writer has counted is there too.
FileRight ==
    /\ \A s \in Segment : data[s] = s
    /\ Len(out) <= Total
    /\ Right(ckpt.BytesWritten)
    /\ main = "running" => ckpt.BytesWritten <= totalWritten /\ Right(totalWritten)

FileInv == ~tampered => FileRight

CkptInv == TypeInv /\ EndedComplete /\ FileInv

\* A segment that was launched and not written yet is on its way to the writer.
OnItsWay(s) ==
    \/ seg[s] \in {"fetching", "decoded"}
    \/ \E i \in 1 .. Len(results) : results[i] = s
    \/ s \in buffer

\* No error without a fault, and the writer waits only for what it has not got.
ErrInv ==
    /\ writeErr # "none" => fault
    /\ \A s \in Segment : seg[s] = "failing" => fault
    /\ wpc = "recv" => expectedSegment \notin buffer

\* While a call runs without a fault nobody has cancelled, no segment gets
\* lost, and the channel is closed only when all of them have gone through.
RunInv ==
    main = "running" /\ ~fault =>
        /\ ~cancelled
        /\ \A s \in Segment : expectedSegment <= s /\ s < next => OnItsWay(s)
        /\ closed => next = Total /\ InWindow = {}

ResumeInv == CkptInv /\ ErrInv /\ RunInv /\ ResumeSucceeds

----------------------------------------------------------------------------
(* Types                                                                    *)

Entry == Segment \cup {Bad, Hole}

\* Writing one segment where the writer stands keeps what is before it, puts
\* the segment at its place and fills a gap with zeros.
LEMMA WriteHere ==
    ASSUME TypeOK, NEW x \in Entry, NEW g, g = WriteAt(out, totalWritten, x)
    PROVE  /\ g \in Seq(Entry)
           /\ Len(out) \in Nat /\ Len(g) \in Nat
           /\ Len(g) = IF Len(out) > totalWritten THEN Len(out) ELSE totalWritten + 1
           /\ \A i \in 1 .. Len(g) :
                 g[i] = IF i = totalWritten + 1 THEN x
                        ELSE IF i <= Len(out) THEN out[i] ELSE Hole
<1> DEFINE n == IF Len(out) > totalWritten THEN Len(out) ELSE totalWritten + 1
           e(i) == IF i = totalWritten + 1 THEN x ELSE IF i <= Len(out) THEN out[i] ELSE Hole
<1>1. Hole \in Entry /\ out \in Seq(Entry) /\ totalWritten \in Nat
  BY DEF TypeOK, Entry
<1> HIDE DEF Entry
<1>2. n \in Nat /\ Len(out) \in Nat
  BY <1>1
<1>3. \A i \in 1 .. n : e(i) \in Entry
  BY <1>1
<1>4. g = [i \in 1 .. n |-> e(i)]
  BY DEF WriteAt
<1> HIDE DEF n, e
<1>5. g \in Seq(Entry) /\ Len(g) = n /\ \A i \in 1 .. n : g[i] = e(i)
  BY <1>2, <1>3, <1>4
<1>6. QED
  BY <1>2, <1>5 DEF n, e

\* A torn write leaves the output or ends in wrong bytes at the writer's place.
LEMMA TornWriteType ==
    ASSUME TypeOK, TornWrite
    PROVE  out' \in Seq(Entry)
<1>1. Bad \in Entry
  BY DEF Entry
<1>2. WriteAt(out, totalWritten, Bad) \in Seq(Entry)
  BY <1>1, WriteHere
<1>3. QED
  BY <1>2 DEF TornWrite, TypeOK, Entry

\* Where a call starts.
LEMMA FreshRunType ==
    ASSUME TypeInv, NEW first \in 0 .. Total, NEW bytes \in 0 .. Total,
           FreshRun(first, bytes)
    PROVE  /\ cancelled' \in BOOLEAN /\ closed' \in BOOLEAN /\ fault' \in BOOLEAN
           /\ next' \in 0 .. Total
           /\ seg' \in [Segment -> SegState]
           /\ data' \in [Segment -> Segment \cup {Bad}]
           /\ results' \in Seq(Segment)
           /\ wpc' = "recv" /\ buffer' = {}
           /\ expectedSegment' = first /\ totalWritten' = bytes
           /\ writeErr' = "none"
<1>1. seg' \in [Segment -> SegState]
  BY DEF FreshRun, SegState
<1>2. data' \in [Segment -> Segment \cup {Bad}]
  BY DEF FreshRun
<1>3. cancelled' \in BOOLEAN /\ closed' \in BOOLEAN /\ fault' \in BOOLEAN
  BY DEF FreshRun
<1>4. results' \in Seq(Segment)
  BY DEF FreshRun
<1>5. QED
  BY <1>1, <1>2, <1>3, <1>4 DEF FreshRun

\* What the checkpoint says of the place to resume from.
LEMMA CkptBounds ==
    ASSUME TypeInv
    PROVE  /\ ckpt.LastSegment + 1 \in 0 .. Total
           /\ ckpt.BytesWritten = ckpt.LastSegment + 1
           /\ ckpt.BytesWritten \in 0 .. Total
  BY DEF TypeInv, TypeOK, WriterLevel, Segment

\* The initial state is of the right types.
LEMMA InitTypes == Init => TypeInv
<1> SUFFICES ASSUME Init PROVE TypeInv
  OBVIOUS
<1>1. ckpt \in [LastSegment: Segment \cup {-1}, BytesWritten: 0 .. Total]
  BY DEF Init, NoCkpt
<1>2. out \in Seq(Segment \cup {Bad, Hole}) /\ results \in Seq(Segment)
  BY DEF Init
<1>3. seg \in [Segment -> SegState] /\ data \in [Segment -> Segment \cup {Bad}]
  BY DEF Init, SegState
<1>4. cancelled \in BOOLEAN /\ closed \in BOOLEAN /\ fault \in BOOLEAN /\ tampered \in BOOLEAN
  BY DEF Init
<1>5. TypeOK
  BY <1>1, <1>2, <1>3, <1>4 DEF Init, TypeOK
<1>6. WriterLevel
  BY DEF Init, WriterLevel, NoCkpt
<1>7. QED
  BY <1>5, <1>6 DEF TypeInv

\* A goroutine that goes from one state to the next leaves the writer alone.
LEMMA SegmentStepTypes ==
    ASSUME TypeInv, NEW s \in Segment, NEW from, NEW to \in SegState,
           SegmentStep(s, from, to),
           cancelled' \in BOOLEAN, fault' \in BOOLEAN, tampered' \in BOOLEAN,
           data' \in [Segment -> Segment \cup {Bad}], results' \in Seq(Segment),
           writeErr' \in {"none", "PathError", "errorString"}
    PROVE  TypeInv'
<1>1. seg' \in [Segment -> SegState]
  BY DEF SegmentStep, TypeInv, TypeOK
<1>2. UNCHANGED <<main, runs, next, closed, wpc, buffer, expectedSegment, totalWritten,
                  out, ckpt>>
  BY DEF SegmentStep, diskVars
<1>3. TypeOK'
  BY <1>1, <1>2 DEF TypeInv, TypeOK
<1>4. WriterLevel'
  BY <1>2 DEF TypeInv, WriterLevel
<1>5. QED
  BY <1>3, <1>4 DEF TypeInv

\* The producer and the goroutines of the segments keep the types.
LEMMA ProducerTypes ==
    ASSUME TypeInv,
           \/ Launch \/ Close \/ Cancel
           \/ \E s \in Segment : SegmentGoroutine(s)
    PROVE  TypeInv'
<1>1. CASE Launch
  <2>1. next \in Segment /\ next' \in 0 .. Total
    BY <1>1 DEF Launch, TypeInv, TypeOK, Segment
  <2>2. seg' \in [Segment -> SegState]
    BY <1>1, <2>1 DEF Launch, TypeInv, TypeOK, SegState
  <2>3. TypeOK'
    BY <1>1, <2>1, <2>2 DEF Launch, TypeInv, TypeOK, diskVars
  <2>4. WriterLevel'
    BY <1>1 DEF Launch, TypeInv, WriterLevel, diskVars
  <2>5. QED
    BY <2>3, <2>4 DEF TypeInv
<1>2. CASE Close \/ Cancel
  <2>1. /\ UNCHANGED <<main, runs, next, seg, data, results, wpc, buffer, expectedSegment,
                       totalWritten, writeErr, out, ckpt, tampered>>
        /\ (closed' = TRUE \/ closed' = closed) /\ (fault' = TRUE \/ fault' = fault)
        /\ (cancelled' = TRUE \/ cancelled' = cancelled)
    BY <1>2 DEF Close, Cancel, diskVars
  <2>2. TypeOK'
    <3>1. TypeOK
      BY DEF TypeInv
    <3>2. closed' \in BOOLEAN /\ fault' \in BOOLEAN /\ cancelled' \in BOOLEAN
      BY <2>1, <3>1 DEF TypeOK
    <3>3. QED
      BY <2>1, <3>1, <3>2, SMT DEF TypeOK
  <2>3. WriterLevel'
    BY <2>1 DEF TypeInv, WriterLevel
  <2>4. QED
    BY <2>2, <2>3 DEF TypeInv
<1>3. ASSUME NEW s \in Segment, SegmentGoroutine(s) PROVE TypeInv'
  <2>1. /\ cancelled \in BOOLEAN /\ fault \in BOOLEAN /\ tampered \in BOOLEAN
        /\ data \in [Segment -> Segment \cup {Bad}] /\ results \in Seq(Segment)
        /\ writeErr \in {"none", "PathError", "errorString"}
    BY DEF TypeInv, TypeOK
  <2>2. {"decoded", "done", "failing"} \subseteq SegState
    BY DEF SegState
  <2>3. CASE Decode(s)
    <3>1. /\ SegmentStep(s, "fetching", "decoded")
          /\ UNCHANGED <<cancelled, results, writeErr, fault>>
      BY <2>3 DEF Decode
    <3>2. data' \in [Segment -> Segment \cup {Bad}] /\ tampered' \in BOOLEAN
      BY <2>1, <2>3 DEF Decode
    <3>3. QED
      BY <2>1, <2>2, <3>1, <3>2, SegmentStepTypes
  <2>4. CASE FetchAborted(s)
    BY <2>1, <2>2, <2>4, SegmentStepTypes DEF FetchAborted
  <2>5. CASE FetchShort(s)
    BY <2>1, <2>2, <2>5, SegmentStepTypes DEF FetchShort
  <2>6. CASE FetchFailed(s)
    BY <2>1, <2>2, <2>6, SegmentStepTypes DEF FetchFailed
  <2>7. CASE Send(s)
    <3>1. /\ SegmentStep(s, "decoded", "done") /\ results' = Append(results, s)
          /\ UNCHANGED <<cancelled, data, writeErr, fault, tampered>>
      BY <2>7 DEF Send
    <3>2. results' \in Seq(Segment)
      BY <2>1, <3>1
    <3>3. QED
      BY <2>1, <2>2, <3>1, <3>2, SegmentStepTypes
  <2>8. CASE SendAborted(s)
    BY <2>1, <2>2, <2>8, SegmentStepTypes DEF SendAborted
  <2>9. QED
    BY <1>3, <2>3, <2>4, <2>5, <2>6, <2>7, <2>8 DEF SegmentGoroutine
<1>4. QED
  BY <1>1, <1>2, <1>3

\* So does the writer.
LEMMA WriterTypes ==
    ASSUME TypeInv, Writer
    PROVE  TypeInv'
<1>1. CASE Receive
  <2>1. Head(results) \in Segment /\ Tail(results) \in Seq(Segment)
    BY <1>1 DEF Receive, TypeInv, TypeOK
  <2>2. QED
    BY <1>1, <2>1 DEF Receive, WriterStep, TypeInv, TypeOK, WriterLevel, diskVars
<1>2. CASE WriteSegment
  <2>1. /\ expectedSegment \in buffer /\ expectedSegment \in Segment
        /\ wpc = "drain" /\ totalWritten = expectedSegment
    BY <1>2 DEF WriteSegment, WriterStep, TypeInv, TypeOK, WriterLevel
  <2>2. out' \in Seq(Segment \cup {Bad, Hole})
    <3>1. data[expectedSegment] \in Entry
      BY <2>1 DEF TypeInv, TypeOK, Entry
    <3>2. WriteAt(out, totalWritten, data[expectedSegment]) \in Seq(Entry)
      BY <3>1, WriteHere DEF TypeInv
    <3>3. QED
      BY <1>2, <3>2 DEF WriteSegment, Entry
  <2>3. totalWritten' = expectedSegment + 1 /\ totalWritten' \in 0 .. Total
    BY <1>2, <2>1 DEF WriteSegment, Segment
  <2>4. \/ wpc' = "save" /\ UNCHANGED <<buffer, expectedSegment>>
        \/ wpc' = "drain" /\ Advance
    BY <1>2 DEF WriteSegment, WriterStep
  <2>5. /\ buffer' \in SUBSET Segment /\ expectedSegment' \in 0 .. Total
        /\ wpc' \in {"recv", "drain", "save", "exited"}
    <3>1. expectedSegment \in 0 .. Total /\ expectedSegment + 1 \in 0 .. Total
      BY <2>1 DEF Segment
    <3>2. buffer \in SUBSET Segment
      BY DEF TypeInv, TypeOK
    <3>3. QED
      BY <2>4, <3>1, <3>2 DEF Advance
  <2>6. UNCHANGED <<main, runs, next, seg, data, closed, tampered, cancelled, results,
                    writeErr, fault, ckpt>>
    BY <1>2 DEF WriteSegment, WriterStep
  <2>7. TypeOK'
    BY <2>2, <2>3, <2>5, <2>6 DEF TypeInv, TypeOK
  <2>8. WriterLevel'
    BY <2>1, <2>3, <2>4, <2>6 DEF Advance, TypeInv, TypeOK, WriterLevel
  <2>9. QED
    BY <2>7, <2>8 DEF TypeInv
<1>3. CASE SaveCheckpoint
  <2>1. /\ expectedSegment \in Segment /\ totalWritten = expectedSegment + 1
        /\ wpc' = "drain" /\ totalWritten' = totalWritten
        /\ expectedSegment' = expectedSegment + 1
    BY <1>3 DEF SaveCheckpoint, WriterStep, Advance, TypeInv, TypeOK, WriterLevel
  <2>2. expectedSegment + 1 \in 0 .. Total
    BY <2>1 DEF Segment
  <2>3. /\ ckpt' \in [LastSegment: Segment \cup {-1}, BytesWritten: 0 .. Total]
        /\ ckpt'.BytesWritten = ckpt'.LastSegment + 1
    BY <1>3, <2>1, <2>2 DEF SaveCheckpoint, NoCkpt, TypeInv, TypeOK, WriterLevel
  <2>4. /\ UNCHANGED <<main, runs, next, seg, data, closed, tampered, cancelled, results,
                       writeErr, fault, out>>
        /\ buffer' \in SUBSET Segment
    BY <1>3 DEF SaveCheckpoint, WriterStep, Advance, TypeInv, TypeOK
  <2>5. TypeOK'
    BY <2>1, <2>2, <2>3, <2>4 DEF TypeInv, TypeOK
  <2>6. WriterLevel'
    BY <2>1, <2>3 DEF TypeInv, TypeOK, WriterLevel
  <2>7. QED
    BY <2>5, <2>6 DEF TypeInv
<1>4. CASE NothingReady \/ WriterEnds
  <2>1. CASE NothingReady
    BY <2>1 DEF NothingReady, WriterStep, TypeInv, TypeOK, WriterLevel, diskVars
  <2>2. CASE WriterEnds
    BY <2>2 DEF WriterEnds, WriterStep, TypeInv, TypeOK, WriterLevel, diskVars
  <2>3. QED
    BY <1>4, <2>1, <2>2
<1>5. CASE WriteFails
  <2>1. out' \in Seq(Segment \cup {Bad, Hole})
    BY <1>5, TornWriteType DEF WriteFails, TypeInv, Entry
  <2>2. QED
    BY <1>5, <2>1 DEF WriteFails, WriterStep, TypeInv, TypeOK, WriterLevel
<1>6. QED
  BY <1>1, <1>2, <1>3, <1>4, <1>5 DEF Writer

\* And so do the beginning and the end of a call, and what happens in between.
LEMMA CallTypes ==
    ASSUME TypeInv, Start \/ Finish \/ StorePanics \/ Crash \/ MoveOutput
    PROVE  TypeInv'
<1>1. CASE Start
  <2>1. /\ FreshRun(ckpt.LastSegment + 1, ckpt.BytesWritten)
        /\ runs' \in 0 .. MaxRuns /\ main' = "running" /\ tampered' \in BOOLEAN
        /\ out' \in Seq(Segment \cup {Bad, Hole}) /\ ckpt' = ckpt
    BY <1>1 DEF Start, TypeInv, TypeOK
  <2>2. TypeOK'
    BY <2>1, CkptBounds, FreshRunType DEF TypeInv, TypeOK
  <2>3. WriterLevel'
    BY <2>1, CkptBounds, FreshRunType DEF TypeInv, TypeOK, WriterLevel
  <2>4. QED
    BY <2>2, <2>3 DEF TypeInv
<1>2. CASE Finish
  <2>1. main' \in {"ok", "err"} /\ out' \in Seq(Segment \cup {Bad, Hole})
    <3>1. main' \in {"ok", "err"} /\ out' \in {out, <<>>}
      BY <1>2 DEF Finish
    <3>2. out \in Seq(Segment \cup {Bad, Hole})
      BY DEF TypeInv, TypeOK
    <3>3. <<>> \in Seq(Segment \cup {Bad, Hole})
      OBVIOUS
    <3>4. QED
      BY <3>1, <3>2, <3>3
  <2>2. TypeOK'
    BY <1>2, <2>1 DEF Finish, TypeInv, TypeOK
  <2>3. WriterLevel'
    BY <1>2 DEF Finish, TypeInv, WriterLevel
  <2>4. QED
    BY <2>2, <2>3 DEF TypeInv
<1>3. CASE StorePanics
  BY <1>3 DEF StorePanics, TypeInv, TypeOK, WriterLevel, SegState, diskVars
<1>4. CASE Crash
  <2>1. out' \in Seq(Segment \cup {Bad, Hole})
    BY <1>4, TornWriteType DEF Crash, TypeInv, TypeOK, Entry
  <2>2. /\ ckpt' \in [LastSegment: Segment \cup {-1}, BytesWritten: 0 .. Total]
        /\ ckpt'.BytesWritten = ckpt'.LastSegment + 1
    BY <1>4 DEF Crash, NoCkpt, TypeInv, TypeOK, WriterLevel
  <2>3. FreshRun(0, 0) /\ main' = "down" /\ runs' = runs /\ tampered' = tampered
    BY <1>4 DEF Crash
  <2>4. TypeOK'
    BY <2>1, <2>2, <2>3, FreshRunType DEF TypeInv, TypeOK
  <2>5. WriterLevel'
    BY <2>1, <2>2, <2>3, FreshRunType DEF TypeInv, TypeOK, WriterLevel
  <2>6. QED
    BY <2>4, <2>5 DEF TypeInv
<1>5. CASE MoveOutput
  BY <1>5 DEF MoveOutput, TypeInv, TypeOK, WriterLevel, runVars
<1>6. QED
  BY <1>1, <1>2, <1>3, <1>4, <1>5

\* Every step of RunV2, its goroutines and its surroundings keeps the types,
\* and the writer level with what it has counted.
LEMMA NextTypes == TypeInv /\ [Next]_vars => TypeInv'
<1> SUFFICES ASSUME TypeInv, [Next]_vars PROVE TypeInv'
  OBVIOUS
<1>1. CASE UNCHANGED vars
  BY <1>1 DEF vars, runVars, diskVars, TypeInv, TypeOK, WriterLevel
<1>2. CASE Next
  BY <1>2, ProducerTypes, WriterTypes, CallTypes DEF Next, Producer
<1>3. QED
  BY <1>1, <1>2

\* The variables of RunV2 keep their types: the loop counters never run past
\* the last segment, nor does the writer past the end of the file.
THEOREM TypeCorrect == Spec => []TypeOK
<1>1. TypeInv => TypeOK
  BY DEF TypeInv
<1>2. QED
  BY <1>1, InitTypes, NextTypes, PTL DEF Spec

----------------------------------------------------------------------------
(* Every segment in its place                                               *)

\* The writer is about to write the segment it waited for: it stands at the
\* end of what it has counted, inside the file.
WriterReady ==
    /\ wpc = "drain" /\ expectedSegment \in buffer
    /\ expectedSegment \in Segment /\ totalWritten = expectedSegment

\* All that a step may do to the output: nothing, empty it, or write the
\* expected segment or wrong bytes where the writer stands.
LEMMA OutputStep ==
    ASSUME TypeInv, [Next]_vars
    PROVE  \/ out' \in {out, <<>>}
           \/ /\ WriterReady
              /\ \/ out' = WriteAt(out, totalWritten, data[expectedSegment])
                 \/ out' = WriteAt(out, totalWritten, Bad)
<1>1. CASE Start \/ Finish \/ StorePanics \/ MoveOutput \/ UNCHANGED vars
  BY <1>1 DEF Start, Finish, StorePanics, MoveOutput, vars, diskVars
<1>2. CASE Producer \/ Cancel \/ \E s \in Segment : SegmentGoroutine(s)
  BY <1>2 DEF Producer, Launch, Close, Cancel, SegmentGoroutine, Decode, FetchAborted,
              FetchShort, FetchFailed, Send, SendAborted, SegmentStep, diskVars
<1>3. CASE Receive \/ SaveCheckpoint \/ NothingReady \/ WriterEnds
  BY <1>3 DEF Receive, SaveCheckpoint, NothingReady, WriterEnds, diskVars
<1>4. wpc = "drain" /\ expectedSegment \in buffer => WriterReady
  BY DEF WriterReady, TypeInv, TypeOK, WriterLevel
<1>5. CASE WriteSegment \/ WriteFails
  BY <1>4, <1>5 DEF WriteSegment, WriteFails, WriterStep, TornWrite
<1>6. CASE Crash
  BY <1>4, <1>6 DEF Crash, TornWrite
<1>7. QED
  BY <1>1, <1>2, <1>3, <1>5, <1>6 DEF Next, Writer

\* All that a step may do to the decoded segments.
LEMMA DataStep ==
    ASSUME TypeInv, [Next]_vars
    PROVE  \/ data' = data
           \/ data' = [s \in Segment |-> s]
           \/ \E s \in Segment, x \in Segment \cup {Bad} :
                 /\ data' = [data EXCEPT ![s] = x]
                 /\ x \in {s, Bad} /\ tampered' = (tampered \/ x = Bad)
<1>1. CASE Start \/ Crash
  BY <1>1 DEF Start, Crash, FreshRun
<1>2. CASE Finish \/ StorePanics \/ MoveOutput \/ UNCHANGED vars
  BY <1>2 DEF Finish, StorePanics, MoveOutput, vars, runVars
<1>3. CASE Producer \/ Cancel
  BY <1>3 DEF Producer, Launch, Close, Cancel
<1>4. CASE Writer
  BY <1>4 DEF Writer, Receive, WriteSegment, SaveCheckpoint, NothingReady, WriteFails,
              WriterEnds, WriterStep
<1>5. ASSUME NEW s \in Segment, SegmentGoroutine(s), ~Decode(s) PROVE data' = data
  BY <1>5 DEF SegmentGoroutine, FetchAborted, FetchShort, FetchFailed, Send, SendAborted
<1>6. ASSUME NEW s \in Segment, Decode(s)
      PROVE  \E x \in Segment \cup {Bad} :
                 /\ data' = [data EXCEPT ![s] = x]
                 /\ x \in {s, Bad} /\ tampered' = (tampered \/ x = Bad)
  BY <1>6 DEF Decode
<1>7. QED
  BY <1>1, <1>2, <1>3, <1>4, <1>5, <1>6 DEF Next

\* A step leaves every decoded segment right or recognisably wrong.
LEMMA DataInPlaceStep ==
    ASSUME TypeInv, DataInPlace, [Next]_vars
    PROVE  DataInPlace'
<1>1. CASE data' = data
  BY <1>1 DEF DataInPlace
<1>2. CASE data' = [s \in Segment |-> s]
  BY <1>2 DEF DataInPlace
<1>3. ASSUME NEW s \in Segment, NEW x \in {s, Bad}, data' = [data EXCEPT ![s] = x]
      PROVE  DataInPlace'
  BY <1>3 DEF DataInPlace, TypeInv, TypeOK
<1>4. QED
  BY <1>1, <1>2, <1>3, DataStep

\* Writing where the writer stands keeps the output in order.
LEMMA OutputInOrderStep ==
    ASSUME OrderInv, [Next]_vars
    PROVE  OutputInOrder'
<1> USE DEF OrderInv
<1>1. CASE out' \in {out, <<>>}
  BY <1>1 DEF OutputInOrder
<1>2. ASSUME WriterReady, NEW x \in {expectedSegment, Bad}, out' = WriteAt(out, totalWritten, x)
      PROVE  OutputInOrder'
  <2>1. x \in Entry /\ x \in {totalWritten, Bad} /\ totalWritten \in Nat
    BY <1>2 DEF WriterReady, TypeInv, TypeOK, Entry
  <2>2. /\ Len(out') \in Nat /\ Len(out) \in Nat
        /\ \A i \in 1 .. Len(out') :
              out'[i] = IF i = totalWritten + 1 THEN x
                        ELSE IF i <= Len(out) THEN out[i] ELSE Hole
    BY <1>2, <2>1, WriteHere DEF TypeInv
  <2>3. QED
    BY <2>1, <2>2 DEF OutputInOrder
<1>3. CASE WriterReady /\ out' = WriteAt(out, totalWritten, data[expectedSegment])
  <2>1. data[expectedSegment] \in {expectedSegment, Bad}
    BY <1>3 DEF WriterReady, DataInPlace
  <2>2. QED
    BY <1>2, <1>3, <2>1
<1>4. CASE WriterReady /\ out' = WriteAt(out, totalWritten, Bad)
  BY <1>2, <1>4
<1>5. QED
  BY <1>1, <1>3, <1>4, OutputStep

\* Whatever order the segments arrive in, and wherever a call resumes, the
\* writer goroutine of RunV2 writes every segment to its own place.
THEOREM InOrder == Spec => []OutputInOrder
<1>1. Init => OrderInv
  BY InitTypes DEF OrderInv, Init, DataInPlace, OutputInOrder
<1>2. OrderInv /\ [Next]_vars => OrderInv'
  BY NextTypes, DataInPlaceStep, OutputInOrderStep DEF OrderInv
<1>3. OrderInv => OutputInOrder
  BY DEF OrderInv
<1>4. QED
  BY <1>1, <1>2, <1>3, PTL DEF Spec

----------------------------------------------------------------------------
(* Checkpoints                                                              *)

\* What was tampered with stays so.
LEMMA TamperedStays ==
    ASSUME TypeInv, [Next]_vars, tampered
    PROVE  tampered'
<1>1. CASE Start \/ Finish \/ StorePanics \/ Crash \/ MoveOutput \/ UNCHANGED vars
  BY <1>1 DEF Start, Finish, StorePanics, Crash, MoveOutput, vars
<1>2. CASE Producer \/ Cancel \/ \E s \in Segment : SegmentGoroutine(s)
  BY <1>2 DEF Producer, Launch, Close, Cancel, SegmentGoroutine, Decode, FetchAborted,
              FetchShort, FetchFailed, Send, SendAborted
<1>3. CASE Writer
  BY <1>3 DEF Writer, Receive, WriteSegment, SaveCheckpoint, NothingReady, WriteFails,
              WriterEnds, WriterStep
<1>4. QED
  BY <1>1, <1>2, <1>3 DEF Next

\* Unless a step decodes wrong bytes, every segment stays right.
LEMMA DataRightStep ==
    ASSUME TypeInv, [Next]_vars, \A s \in Segment : data[s] = s, ~tampered'
    PROVE  \A s \in Segment : data'[s] = s
<1>1. CASE data' = data \/ data' = [s \in Segment |-> s]
  BY <1>1
<1>2. ASSUME NEW s \in Segment, NEW x \in Segment \cup {Bad},
             data' = [data EXCEPT ![s] = x], x \in {s, Bad}, tampered' = (tampered \/ x = Bad)
      PROVE  \A q \in Segment : data'[q] = q
  <2>1. x = s
    BY <1>2
  <2>2. QED
    BY <1>2, <2>1 DEF TypeInv, TypeOK
<1>3. QED
  BY <1>1, <1>2, DataStep

\* A writer that ends has either written everything or stored an error.
LEMMA EndedStep ==
    ASSUME TypeInv, EndedComplete, [Next]_vars
    PROVE  EndedComplete'
<1> USE DEF EndedComplete
<1>1. CASE Start \/ Crash
  BY <1>1 DEF Start, Crash, FreshRun
<1>2. CASE Finish \/ StorePanics \/ MoveOutput \/ UNCHANGED vars
  BY <1>2 DEF Finish, StorePanics, MoveOutput, vars, runVars
<1>3. CASE Producer \/ Cancel \/ \E s \in Segment : SegmentGoroutine(s)
  BY <1>3 DEF Producer, Launch, Close, Cancel, SegmentGoroutine, Decode, FetchAborted,
              FetchShort, FetchFailed, Send, SendAborted, SegmentStep
<1>4. CASE Writer
  BY <1>4 DEF Writer, Receive, WriteSegment, SaveCheckpoint, NothingReady, WriteFails,
              WriterEnds, WriterStep
<1>5. QED
  BY <1>1, <1>2, <1>3, <1>4 DEF Next

\* A write where the writer stands keeps what is right before it, and stays
\* inside the file.
LEMMA WriteKeepsRight ==
    ASSUME TypeInv, WriterReady, Right(totalWritten), Len(out) <= Total,
           NEW x \in Entry, NEW g, g = WriteAt(out, totalWritten, x)
    PROVE  /\ totalWritten + 1 <= Len(g) /\ Len(g) <= Total
           /\ \A i \in 1 .. totalWritten : g[i] = i - 1
           /\ g[totalWritten + 1] = x
<1>1. /\ totalWritten \in Nat /\ Total \in Nat /\ totalWritten + 1 <= Total
      /\ expectedSegment = totalWritten
  BY DEF WriterReady, Segment
<1>2. /\ Len(out) \in Nat /\ Len(g) \in Nat
      /\ Len(g) = IF Len(out) > totalWritten THEN Len(out) ELSE totalWritten + 1
      /\ \A i \in 1 .. Len(g) :
            g[i] = IF i = totalWritten + 1 THEN x
                   ELSE IF i <= Len(out) THEN out[i] ELSE Hole
  BY WriteHere DEF TypeInv
<1>3. totalWritten + 1 <= Len(g) /\ Len(g) <= Total
  BY <1>1, <1>2
<1>4. ASSUME NEW i \in 1 .. totalWritten
      PROVE  g[i] = i - 1
  <2>1. totalWritten <= Len(out) /\ out[i] = i - 1
    BY <1>4 DEF Right
  <2>2. i \in 1 .. Len(g) /\ i # totalWritten + 1 /\ i <= Len(out)
    BY <1>1, <1>2, <1>3, <2>1
  <2>3. QED
    BY <1>2, <2>1, <2>2
<1>5. g[totalWritten + 1] = x
  BY <1>1, <1>2, <1>3
<1>6. QED
  BY <1>3, <1>4, <1>5

\* A step that leaves the files and the position of the writer alone, and
\* starts no call, keeps what is right.
LEMMA QuietKeepsFile ==
    ASSUME FileRight, UNCHANGED <<out, ckpt, totalWritten>>,
           main' = main \/ main' # "running",
           \A s \in Segment : data'[s] = s
    PROVE  FileRight'
  BY DEF FileRight, Right

\* The steps of the writer keep it right.
LEMMA WriterKeepsFile ==
    ASSUME TypeInv, FileRight, Writer, \A s \in Segment : data'[s] = s
    PROVE  FileRight'
<1>1. CASE Receive \/ NothingReady \/ WriterEnds
  BY <1>1, QuietKeepsFile DEF Receive, NothingReady, WriterEnds, WriterStep, diskVars
<1>2. main = "running" /\ main' = main
  BY DEF Writer, Receive, WriteSegment, SaveCheckpoint, NothingReady, WriteFails,
         WriterEnds, WriterStep
<1>3. /\ totalWritten \in Nat /\ Len(out) \in Nat
      /\ ckpt.BytesWritten \in Nat /\ ckpt.BytesWritten <= totalWritten
      /\ Right(totalWritten) /\ Len(out) <= Total
  BY <1>2, CkptBounds DEF FileRight, TypeInv, TypeOK
<1>4. CASE WriteSegment
  <2>1. WriterReady /\ totalWritten' = totalWritten + 1 /\ ckpt' = ckpt
    BY <1>4 DEF WriteSegment, WriterStep, WriterReady, TypeInv, TypeOK, WriterLevel
  <2>2. /\ out' = WriteAt(out, totalWritten, totalWritten)
        /\ totalWritten \in Entry
    BY <1>4, <2>1 DEF WriteSegment, WriterReady, FileRight, Entry
  <2>3. /\ totalWritten + 1 <= Len(out') /\ Len(out') <= Total
        /\ \A i \in 1 .. totalWritten : out'[i] = i - 1
        /\ out'[totalWritten + 1] = totalWritten
    BY <1>3, <2>1, <2>2, WriteKeepsRight
  <2>4. out' \in Seq(Entry)
    BY <2>2, WriteHere DEF TypeInv
  <2>5. Len(out') \in Nat
    BY <2>4
  <2>6. Right(totalWritten)' /\ Right(ckpt.BytesWritten)'
    BY <1>3, <2>1, <2>3, <2>5 DEF Right
  <2>7. QED
    BY <1>3, <2>1, <2>3, <2>6 DEF FileRight
<1>5. CASE SaveCheckpoint
  <2>1. out' = out /\ totalWritten' = totalWritten
    BY <1>5 DEF SaveCheckpoint
  <2>2. ckpt'.BytesWritten \in {totalWritten, 0, ckpt.BytesWritten}
    BY <1>5 DEF SaveCheckpoint, NoCkpt
  <2>3. Right(totalWritten)' /\ Right(ckpt.BytesWritten)'
    BY <1>3, <2>1, <2>2 DEF Right
  <2>4. QED
    BY <1>3, <2>1, <2>2, <2>3 DEF FileRight
<1>6. CASE WriteFails
  <2>1. WriterReady /\ UNCHANGED <<totalWritten, ckpt>> /\ TornWrite
    BY <1>6 DEF WriteFails, WriterStep, WriterReady, TypeInv, TypeOK, WriterLevel
  <2>2. CASE out' = out
    BY <1>2, <2>1, <2>2, QuietKeepsFile
  <2>3. CASE out' = WriteAt(out, totalWritten, Bad)
    <3>1. /\ totalWritten + 1 <= Len(out') /\ Len(out') <= Total
          /\ \A i \in 1 .. totalWritten : out'[i] = i - 1
      BY <1>3, <2>1, <2>3, WriteKeepsRight DEF Entry
    <3>2. out' \in Seq(Entry)
      BY <2>3, WriteHere DEF TypeInv, Entry
    <3>3. Len(out') \in Nat
      BY <3>2
    <3>4. Right(totalWritten)' /\ Right(ckpt.BytesWritten)'
      BY <1>3, <2>1, <3>1, <3>3 DEF Right
    <3>5. QED
      BY <1>3, <2>1, <3>1, <3>4 DEF FileRight
  <2>4. QED
    BY <2>1, <2>2, <2>3 DEF TornWrite
<1>7. QED
  BY <1>1, <1>4, <1>5, <1>6 DEF Writer

\* A call that ends without an error, and without tampering, finds the
\* original when it hashes the output.
LEMMA EndsWithOriginal ==
    ASSUME TypeInv, EndedComplete, FileRight,
           main = "running", wpc = "exited", writeErr = "none"
    PROVE  out = Original
<1>1. totalWritten = Total /\ Total \in Nat /\ out \in Seq(Entry)
  BY DEF TypeInv, TypeOK, WriterLevel, EndedComplete, Entry
<1>2. Len(out) = Total /\ \A i \in 1 .. Total : out[i] = i - 1
  BY <1>1 DEF FileRight, Right
<1>3. out = [i \in 1 .. Total |-> out[i]]
  BY <1>1, <1>2
<1>4. QED
  BY <1>2, <1>3 DEF Original

\* Starting, ending and dying keep the files right.
LEMMA CallKeepsFile ==
    ASSUME TypeInv, EndedComplete, FileRight, Start \/ Finish \/ StorePanics \/ Crash,
           \A s \in Segment : data'[s] = s
    PROVE  FileRight'
<1>1. /\ totalWritten \in Nat /\ Len(out) \in Nat /\ Total \in Nat
      /\ ckpt.BytesWritten \in 0 .. Total /\ ckpt.BytesWritten = ckpt.LastSegment + 1
      /\ Right(ckpt.BytesWritten) /\ Len(out) <= Total
  BY CkptBounds DEF FileRight, TypeInv, TypeOK
<1>2. CASE Start
  <2>1. /\ out' = IF ckpt.LastSegment + 1 > 0 THEN out ELSE <<>>
        /\ ckpt' = ckpt /\ totalWritten' = ckpt.BytesWritten
    BY <1>2 DEF Start, FreshRun
  <2>2. Right(ckpt.BytesWritten)' /\ Len(out') <= Total
    BY <1>1, <2>1 DEF Right
  <2>3. QED
    BY <1>1, <2>1, <2>2 DEF FileRight, Right
<1>3. CASE Finish
  <2>1. out' = out /\ ckpt' = ckpt /\ main' # "running" /\ totalWritten' = totalWritten
    BY <1>3, EndsWithOriginal DEF Finish
  <2>2. QED
    BY <2>1, QuietKeepsFile
<1>4. CASE StorePanics
  BY <1>4, QuietKeepsFile DEF StorePanics, diskVars
<1>5. CASE Crash
  <2>1. /\ main = "running" /\ main' = "down"
        /\ ckpt' \in {ckpt, NoCkpt}
        /\ \/ out' = out
           \/ WriterReady /\ out' = WriteAt(out, totalWritten, Bad)
    BY <1>5 DEF Crash, TornWrite, WriterReady, TypeInv, TypeOK, WriterLevel
  <2>2. ckpt'.BytesWritten \in Nat /\ ckpt'.BytesWritten <= ckpt.BytesWritten
    BY <1>1, <2>1 DEF NoCkpt
  <2>3. Right(totalWritten) /\ ckpt.BytesWritten <= totalWritten
    BY <2>1 DEF FileRight
  <2>4. CASE out' = out
    <3>1. Right(ckpt.BytesWritten)'
      BY <1>1, <2>2, <2>4 DEF Right
    <3>2. QED
      BY <1>1, <2>1, <2>4, <3>1 DEF FileRight
  <2>5. CASE WriterReady /\ out' = WriteAt(out, totalWritten, Bad)
    <3>1. /\ totalWritten + 1 <= Len(out') /\ Len(out') <= Total
          /\ \A i \in 1 .. totalWritten : out'[i] = i - 1
      BY <1>1, <2>3, <2>5, WriteKeepsRight DEF Entry
    <3>2. out' \in Seq(Entry)
      BY <2>5, WriteHere DEF TypeInv, Entry
    <3>3. Len(out') \in Nat
      BY <3>2
    <3>4. Right(ckpt.BytesWritten)'
      BY <1>1, <2>2, <2>3, <3>1, <3>3 DEF Right
    <3>5. QED
      BY <2>1, <3>1, <3>4 DEF FileRight
  <2>6. QED
    BY <2>1, <2>4, <2>5
<1>6. QED
  BY <1>2, <1>3, <1>4, <1>5

\* Every step keeps the files right, unless it tampers with them.
LEMMA FileStep ==
    ASSUME CkptInv, [Next]_vars
    PROVE  FileInv'
<1> SUFFICES ASSUME ~tampered' PROVE FileRight'
  BY DEF FileInv
<1> USE DEF CkptInv
<1>1. FileRight
  BY TamperedStays DEF FileInv, TypeInv, TypeOK
<1>2. \A s \in Segment : data'[s] = s
  BY <1>1, DataRightStep DEF FileRight
<1>3. CASE Start \/ Finish \/ StorePanics \/ Crash
  BY <1>1, <1>2, <1>3, CallKeepsFile
<1>4. CASE Writer
  BY <1>1, <1>2, <1>4, WriterKeepsFile
<1>5. CASE Producer \/ Cancel \/ \E s \in Segment : SegmentGoroutine(s)
  <2>1. UNCHANGED <<out, ckpt, totalWritten, main>>
    BY <1>5 DEF Producer, Launch, Close, Cancel, SegmentGoroutine, Decode, FetchAborted,
                FetchShort, FetchFailed, Send, SendAborted, SegmentStep, diskVars
  <2>2. QED
    BY <1>1, <1>2, <2>1, QuietKeepsFile
<1>6. CASE MoveOutput
  BY <1>6 DEF MoveOutput
<1>7. CASE UNCHANGED vars
  BY <1>1, <1>2, <1>7, QuietKeepsFile DEF vars, runVars, diskVars
<1>8. QED
  BY <1>3, <1>4, <1>5, <1>6, <1>7 DEF Next

LEMMA InitCkpt == Init => CkptInv
<1> SUFFICES ASSUME Init PROVE CkptInv
  OBVIOUS
<1>1. EndedComplete
  BY DEF Init, EndedComplete
<1>2. FileInv
  BY DEF Init, FileInv, FileRight, Right, NoCkpt
<1>3. QED
  BY <1>1, <1>2, InitTypes DEF CkptInv

LEMMA NextCkpt == CkptInv /\ [Next]_vars => CkptInv'
  BY NextTypes, EndedStep, FileStep DEF CkptInv

\* Through crashes between the two writes, torn writes and lost checkpoints,
\* the checkpoint that the writer goroutine saves claims only bytes that the
\* output holds, as long as every segment is decoded right and nobody takes
\* the output away.
THEOREM CkptTruthful == Spec => []CkptWithinFile
<1>1. CkptInv => CkptWithinFile
  BY DEF CkptInv, FileInv, FileRight, Right, CkptWithinFile, TypeInv, WriterLevel
<1>2. QED
  BY <1>1, InitCkpt, NextCkpt, PTL DEF Spec

----------------------------------------------------------------------------
(* Resuming                                                                 *)

\* A fault is remembered until the next call.
LEMMA FaultStays ==
    ASSUME TypeInv, [Next]_vars, fault
    PROVE  fault' \/ Start \/ Crash
<1>1. CASE Finish \/ StorePanics \/ MoveOutput \/ UNCHANGED vars
  BY <1>1 DEF Finish, StorePanics, MoveOutput, vars, runVars
<1>2. CASE Producer \/ Cancel \/ \E s \in Segment : SegmentGoroutine(s)
  BY <1>2 DEF Producer, Launch, Close, Cancel, SegmentGoroutine, Decode, FetchAborted,
              FetchShort, FetchFailed, Send, SendAborted
<1>3. CASE Writer
  BY <1>3 DEF Writer, Receive, WriteSegment, SaveCheckpoint, NothingReady, WriteFails,
              WriterEnds
<1>4. QED
  BY <1>1, <1>2, <1>3 DEF Next

\* Without a fault the writer ends only after the last segment: the channel is
\* closed and empty, and what it waits for is on its way nowhere.
LEMMA EndsComplete ==
    ASSUME TypeInv, ErrInv, RunInv, main = "running", ~fault,
           closed, results = <<>>, wpc = "recv"
    PROVE  expectedSegment = Total
<1> SUFFICES ASSUME expectedSegment # Total PROVE FALSE
  OBVIOUS
<1>1. expectedSegment \in Segment /\ expectedSegment < Total
  BY DEF TypeInv, TypeOK, Segment
<1>2. next = Total /\ InWindow = {}
  BY DEF RunInv
<1>3. OnItsWay(expectedSegment)
  <2>1. expectedSegment <= expectedSegment /\ expectedSegment < next
    BY <1>1, <1>2 DEF Segment
  <2>2. QED
    BY <1>1, <2>1 DEF RunInv
<1>4. seg[expectedSegment] \notin {"fetching", "decoded"}
  BY <1>1, <1>2 DEF InWindow
<1>5. QED
  BY <1>3, <1>4 DEF OnItsWay, ErrInv

\* No step stores an error without a fault.
LEMMA ErrStep ==
    ASSUME TypeInv, ErrInv, RunInv, [Next]_vars
    PROVE  ErrInv'
<1>1. CASE Start \/ Crash
  BY <1>1 DEF Start, Crash, FreshRun, ErrInv
<1>2. CASE StorePanics
  BY <1>2 DEF StorePanics, ErrInv
<1>3. CASE Finish \/ MoveOutput \/ UNCHANGED vars
  BY <1>3 DEF Finish, MoveOutput, vars, runVars, ErrInv
<1>4. CASE Launch
  <2>1. next \in Segment
    BY <1>4 DEF Launch, TypeInv, TypeOK, Segment
  <2>2. QED
    BY <1>4, <2>1 DEF Launch, ErrInv, TypeInv, TypeOK
<1>5. CASE Close \/ Cancel
  BY <1>5 DEF Close, Cancel, ErrInv
<1>6. ASSUME NEW s \in Segment, SegmentGoroutine(s) PROVE ErrInv'
  <2>1. /\ UNCHANGED <<wpc, buffer, expectedSegment>>
        /\ \E to \in {"decoded", "failing", "done"} :
              seg' = [seg EXCEPT ![s] = to] /\ (to = "failing" => fault')
    BY <1>6 DEF SegmentGoroutine, Decode, FetchAborted, FetchShort, FetchFailed, Send,
                SendAborted, SegmentStep
  <2>2. writeErr' # "none" => fault \/ fault'
    BY <1>6 DEF SegmentGoroutine, Decode, FetchAborted, FetchShort, FetchFailed, Send,
                SendAborted, SegmentStep, ErrInv
  <2>3. fault => fault'
    BY <1>6 DEF SegmentGoroutine, Decode, FetchAborted, FetchShort, FetchFailed, Send,
                SendAborted
  <2>4. \A q \in Segment : seg'[q] = "failing" => fault'
    BY <2>1, <2>3 DEF ErrInv, TypeInv, TypeOK
  <2>5. QED
    BY <2>1, <2>2, <2>3, <2>4 DEF ErrInv
<1>7. CASE Writer
  <2>1. main = "running" /\ seg' = seg /\ (fault => fault')
    BY <1>7 DEF Writer, Receive, WriteSegment, SaveCheckpoint, NothingReady, WriteFails,
                WriterEnds, WriterStep
  <2>2. writeErr' # "none" => fault'
    <3>1. CASE WriterEnds
      BY <2>1, <3>1, EndsComplete DEF WriterEnds, WriterStep, ErrInv
    <3>2. CASE ~WriterEnds
      BY <1>7, <2>1, <3>2 DEF Writer, Receive, WriteSegment, SaveCheckpoint, NothingReady,
                              WriteFails, ErrInv
    <3>3. QED
      BY <3>1, <3>2
  <2>3. wpc' = "recv" => expectedSegment' \notin buffer'
    BY <1>7 DEF Writer, Receive, WriteSegment, SaveCheckpoint, NothingReady, WriteFails,
                WriterEnds, WriterStep
  <2>4. QED
    BY <2>1, <2>2, <2>3 DEF ErrInv
<1>8. QED
  BY <1>1, <1>2, <1>3, <1>4, <1>5, <1>6, <1>7 DEF Next, Producer

\* While nothing fails no segment gets lost: the producer and the goroutines
\* of the segments.
LEMMA ProducerRun ==
    ASSUME TypeInv, ErrInv, RunInv, main = "running", ~fault, ~fault',
           Launch \/ Close \/ \E s \in Segment : SegmentGoroutine(s)
    PROVE  RunInv'
<1>1. /\ ~cancelled
      /\ \A s \in Segment : expectedSegment <= s /\ s < next => OnItsWay(s)
      /\ closed => next = Total /\ InWindow = {}
  BY DEF RunInv
<1>2. CASE Launch
  <2>1. /\ next \in Segment /\ ~closed /\ ~closed' /\ ~cancelled' /\ next' = next + 1
        /\ seg' = [seg EXCEPT ![next] = "fetching"]
        /\ UNCHANGED <<results, buffer, expectedSegment>>
    BY <1>1, <1>2 DEF Launch, TypeInv, TypeOK, Segment
  <2>2. ASSUME NEW s \in Segment, expectedSegment <= s, s < next + 1
        PROVE  OnItsWay(s)'
    <3>1. CASE s = next
      BY <2>1, <3>1 DEF OnItsWay, TypeInv, TypeOK
    <3>2. CASE s # next
      <4>1. s < next
        BY <2>1, <2>2, <3>2 DEF Segment
      <4>2. QED
        BY <1>1, <2>1, <2>2, <3>2, <4>1 DEF OnItsWay, TypeInv, TypeOK
    <3>3. QED
      BY <3>1, <3>2
  <2>3. QED
    BY <2>1, <2>2 DEF RunInv
<1>3. CASE Close
  <2>1. UNCHANGED <<seg, results, buffer, expectedSegment, next, cancelled>>
        /\ next = Total /\ InWindow = {}
    BY <1>1, <1>3 DEF Close
  <2>2. QED
    BY <1>1, <2>1 DEF RunInv, OnItsWay, InWindow
<1>4. ASSUME NEW s \in Segment, SegmentGoroutine(s) PROVE RunInv'
  <2>1. ~FetchAborted(s) /\ ~SendAborted(s) /\ ~FetchShort(s)
    BY <1>1 DEF FetchAborted, SendAborted, FetchShort
  <2>2. ~FetchFailed(s)
    BY DEF FetchFailed, SegmentStep, ErrInv
  <2>3. CASE Decode(s)
    <3>1. /\ seg[s] = "fetching" /\ seg' = [seg EXCEPT ![s] = "decoded"]
          /\ UNCHANGED <<results, buffer, expectedSegment, next, cancelled, closed>>
      BY <2>3 DEF Decode, SegmentStep
    <3>2. ~closed
      BY <1>1, <3>1 DEF InWindow
    <3>3. \A q \in Segment : OnItsWay(q) => OnItsWay(q)'
      BY <3>1 DEF OnItsWay, TypeInv, TypeOK
    <3>4. QED
      BY <1>1, <3>1, <3>2, <3>3 DEF RunInv
  <2>4. CASE Send(s)
    <3>1. /\ seg[s] = "decoded" /\ seg' = [seg EXCEPT ![s] = "done"]
          /\ results' = Append(results, s)
          /\ UNCHANGED <<buffer, expectedSegment, next, cancelled, closed>>
      BY <2>4 DEF Send, SegmentStep
    <3>2. ~closed
      BY <1>1, <3>1 DEF InWindow
    <3>3. /\ Len(results') = Len(results) + 1 /\ Len(results) \in Nat
          /\ results'[Len(results) + 1] = s
          /\ \A i \in 1 .. Len(results) : results'[i] = results[i]
      BY <3>1 DEF TypeInv, TypeOK
    <3>4. ASSUME NEW q \in Segment, OnItsWay(q) PROVE OnItsWay(q)'
      <4>1. CASE q = s
        BY <3>3, <4>1 DEF OnItsWay
      <4>2. CASE q # s
        BY <3>1, <3>3, <3>4, <4>2 DEF OnItsWay, TypeInv, TypeOK
      <4>3. QED
        BY <4>1, <4>2
    <3>5. QED
      BY <1>1, <3>1, <3>2, <3>4 DEF RunInv
  <2>5. QED
    BY <1>4, <2>1, <2>2, <2>3, <2>4 DEF SegmentGoroutine
<1>5. QED
  BY <1>2, <1>3, <1>4

\* The writer: what it takes from the channel is in its buffer, and what it
\* takes from its buffer is behind it.
LEMMA WriterRun ==
    ASSUME TypeInv, RunInv, main = "running", ~fault, ~fault', Writer
    PROVE  RunInv'
<1>1. /\ ~cancelled
      /\ \A s \in Segment : expectedSegment <= s /\ s < next => OnItsWay(s)
      /\ closed => next = Total /\ InWindow = {}
  BY DEF RunInv
<1>2. UNCHANGED <<seg, next, closed>>
  BY DEF Writer, Receive, WriteSegment, SaveCheckpoint, NothingReady, WriteFails,
         WriterEnds, WriterStep
<1>3. cancelled' = cancelled
  BY DEF Writer, Receive, WriteSegment, SaveCheckpoint, NothingReady, WriteFails, WriterEnds
<1>4. closed' => next' = Total /\ InWindow' = {}
  BY <1>1, <1>2 DEF InWindow
<1>5. CASE Receive
  <2>1. /\ results # <<>> /\ results' = Tail(results)
        /\ buffer' = buffer \cup {Head(results)} /\ expectedSegment' = expectedSegment
    BY <1>5 DEF Receive
  <2>2. /\ Len(results) \in Nat /\ Len(results') = Len(results) - 1
        /\ Head(results) = results[1]
        /\ \A i \in 1 .. Len(results') : results'[i] = results[i + 1]
    BY <2>1 DEF TypeInv, TypeOK
  <2>3. ASSUME NEW s \in Segment, NEW i \in 1 .. Len(results), results[i] = s
        PROVE  OnItsWay(s)'
    <3>1. CASE i = 1
      BY <2>1, <2>2, <2>3, <3>1 DEF OnItsWay
    <3>2. CASE i # 1
      <4>1. i - 1 \in 1 .. Len(results') /\ results'[i - 1] = s
        BY <2>2, <2>3, <3>2
      <4>2. QED
        BY <4>1 DEF OnItsWay
    <3>3. QED
      BY <3>1, <3>2
  <2>4. ASSUME NEW s \in Segment, OnItsWay(s) PROVE OnItsWay(s)'
    BY <1>2, <2>1, <2>3, <2>4 DEF OnItsWay
  <2>5. QED
    BY <1>1, <1>2, <1>3, <1>4, <2>1, <2>4 DEF RunInv
<1>6. CASE NothingReady \/ WriteFails \/ WriterEnds
  <2>1. UNCHANGED <<results, buffer, expectedSegment>>
    BY <1>6 DEF NothingReady, WriteFails, WriterEnds
  <2>2. QED
    BY <1>1, <1>2, <1>3, <1>4, <2>1 DEF RunInv, OnItsWay
<1>7. CASE WriteSegment \/ SaveCheckpoint
  <2>1. /\ results' = results
        /\ Advance \/ UNCHANGED <<buffer, expectedSegment>>
    BY <1>7 DEF WriteSegment, SaveCheckpoint
  <2>2. ASSUME NEW s \in Segment, expectedSegment' <= s, s < next
        PROVE  OnItsWay(s)'
    <3>1. CASE UNCHANGED <<buffer, expectedSegment>>
      BY <1>1, <1>2, <2>1, <2>2, <3>1 DEF OnItsWay
    <3>2. CASE Advance
      <4>1. expectedSegment <= s /\ s # expectedSegment
        BY <2>2, <3>2 DEF Advance, TypeInv, TypeOK, Segment
      <4>2. OnItsWay(s)
        BY <1>1, <2>2, <4>1
      <4>3. QED
        BY <1>2, <2>1, <3>2, <4>1, <4>2 DEF OnItsWay, Advance
    <3>3. QED
      BY <2>1, <3>1, <3>2
  <2>3. QED
    BY <1>2, <1>3, <1>1, <1>4, <2>2 DEF RunInv
<1>8. QED
  BY <1>5, <1>6, <1>7 DEF Writer

\* No step loses a segment of a call in which nothing fails.
LEMMA RunStep ==
    ASSUME TypeInv, ErrInv, RunInv, [Next]_vars
    PROVE  RunInv'
<1> SUFFICES ASSUME main' = "running", ~fault' PROVE RunInv'
  BY DEF RunInv
<1>1. CASE Start
  BY <1>1, CkptBounds DEF Start, FreshRun, RunInv, Segment
<1>2. CASE Finish \/ StorePanics \/ Crash
  BY <1>2 DEF Finish, StorePanics, Crash
<1>3. CASE UNCHANGED vars \/ MoveOutput
  <2>1. UNCHANGED <<main, runVars>>
    BY <1>3 DEF vars, MoveOutput
  <2>2. QED
    BY <2>1 DEF runVars, RunInv, OnItsWay, InWindow
<1>4. CASE Cancel
  BY <1>4 DEF Cancel
<1>5. ~fault \/ Start \/ Crash
  BY FaultStays
<1>6. CASE Producer \/ \E s \in Segment : SegmentGoroutine(s)
  <2>1. main = "running" \/ Close
    BY <1>6 DEF Producer, Launch, SegmentGoroutine, Decode, FetchAborted, FetchShort,
                FetchFailed, Send, SendAborted, SegmentStep
  <2>2. main = "running"
    BY <2>1 DEF Close
  <2>3. CASE ~fault
    BY <1>6, <2>2, <2>3, ProducerRun DEF Producer
  <2>4. QED
    BY <1>1, <1>2, <1>5, <2>3
<1>7. CASE Writer
  <2>1. main = "running"
    BY <1>7 DEF Writer, Receive, WriteSegment, SaveCheckpoint, NothingReady, WriteFails,
                WriterEnds, WriterStep
  <2>2. CASE ~fault
    BY <1>7, <2>1, <2>2, WriterRun
  <2>3. QED
    BY <1>1, <1>2, <1>5, <2>2
<1>8. QED
  BY <1>1, <1>2, <1>3, <1>4, <1>6, <1>7 DEF Next

\* A call that returns an error has met a fault, or has been tampered with.
LEMMA ReturnStep ==
    ASSUME ResumeInv, [Next]_vars
    PROVE  ResumeSucceeds'
<1> USE DEF ResumeInv, CkptInv
<1> SUFFICES ASSUME main' = "err", ~tampered' PROVE fault'
  BY DEF ResumeSucceeds
<1>1. ~tampered
  BY TamperedStays
<1>2. CASE Finish
  <2>1. main = "running" /\ wpc = "exited" /\ fault' = fault
    BY <1>2 DEF Finish
  <2>2. writeErr # "none"
    BY <1>1, <1>2, <2>1, EndsWithOriginal DEF Finish, FileInv
  <2>3. QED
    BY <2>1, <2>2 DEF ErrInv
<1>3. CASE Start \/ Crash \/ StorePanics
  BY <1>3 DEF Start, Crash, StorePanics
<1>4. CASE main' = main
  BY <1>1, <1>3, <1>4, FaultStays DEF ResumeSucceeds
<1>5. main' = main \/ Finish \/ Start \/ Crash \/ StorePanics
  <2>1. CASE Producer \/ Cancel \/ \E s \in Segment : SegmentGoroutine(s)
    BY <2>1 DEF Producer, Launch, Close, Cancel, SegmentGoroutine, Decode, FetchAborted,
                FetchShort, FetchFailed, Send, SendAborted, SegmentStep
  <2>2. CASE Writer
    BY <2>2 DEF Writer, Receive, WriteSegment, SaveCheckpoint, NothingReady, WriteFails,
                WriterEnds, WriterStep
  <2>3. CASE MoveOutput \/ UNCHANGED vars
    BY <2>3 DEF MoveOutput, vars
  <2>4. QED
    BY <2>1, <2>2, <2>3 DEF Next
<1>6. QED
  BY <1>2, <1>3, <1>4, <1>5

\* Whatever became of the calls it resumes, of their output and of their
\* checkpoint, a call of RunV2 in which nothing fails and nobody cancels does
\* not return an error.
THEOREM ResumeSafe == Spec => []ResumeSucceeds
<1>1. Init => ResumeInv
  <2> SUFFICES ASSUME Init PROVE ResumeInv
    OBVIOUS
  <2>1. ErrInv
    BY DEF Init, ErrInv
  <2>2. RunInv /\ ResumeSucceeds
    BY DEF Init, RunInv, ResumeSucceeds
  <2>3. QED
    BY <2>1, <2>2, InitCkpt DEF ResumeInv
<1>2. ResumeInv /\ [Next]_vars => ResumeInv'
  <2> SUFFICES ASSUME ResumeInv, [Next]_vars PROVE ResumeInv'
    OBVIOUS
  <2>1. CkptInv'
    BY NextCkpt DEF ResumeInv
  <2>2. ErrInv' /\ RunInv'
    BY ErrStep, RunStep DEF ResumeInv, CkptInv
  <2>3. QED
    BY <2>1, <2>2, ReturnStep DEF ResumeInv
<1>3. ResumeInv => ResumeSucceeds
  BY DEF ResumeInv
<1>4. QED
  BY <1>1, <1>2, <1>3, PTL DEF Spec
=============================================================================
