---------------------------- MODULE RetrievalV2 ----------------------------
(***************************************************************************)
(* The segment pipeline of RunV2 (retrieval/orchestrator_v2.go).           *)
(*                                                                         *)
(* RunV2 downloads a file segment by segment.  A producer loop starts a    *)
(* goroutine per segment, at most windowSize at a time; each fetches and   *)
(* decodes its segment and sends it to the results channel; one writer     *)
(* goroutine puts the segments back in order, appends them to the output   *)
(* file and saves a checkpoint now and then.  Whoever meets an error keeps *)
(* it in writeErr and cancels the common context; RunV2 returns when the   *)
(* writer is done, after checking the hash of the whole output.  A later   *)
(* run resumes from the checkpoint that an earlier one left.               *)
(*                                                                         *)
(* How one segment gets its chunks from the providers is a single step     *)
(* here: it ends with the data, right or wrong, or without.  File contents *)
(* are sequences with one entry per segment.                               *)
(***************************************************************************)
EXTENDS Integers, Sequences, FiniteSets

CONSTANTS
    Total,      \* totalSegments
    Window,     \* windowSize
    CkptEvery,  \* the 10 of "expectedSegment%10 == 0"
    MaxRuns     \* bound: calls of RunV2 that start

ASSUME SizeAssumption ==
    /\ Total \in Nat \ {0}
    /\ Window \in Nat \ {0}
    /\ CkptEvery \in Nat \ {0}
    /\ MaxRuns \in Nat

VARIABLES
    main,     \* RunV2 itself: no call, in progress, returned, or panicked
    runs,     \* calls started so far
    cancelled,\* ctxCancel is done
    next,     \* the loop variable seg of the producer
    seg,      \* the goroutine of each segment
    data,     \* SegmentResult.Data of each segment
    results,  \* the results channel
    closed,   \* results is closed
    wpc,      \* the writer goroutine
    buffer,   \* its reorder buffer (the indices in it)
    expectedSegment, totalWritten,
    writeErr, \* the dynamic type of the stored error
    out,      \* the output file
    ckpt,     \* the checkpoint file
    fault,    \* history: something failed or was cancelled in this run
    tampered  \* history: wrong bytes were decoded, or the output taken away

runVars == <<cancelled, next, seg, data, results, closed, wpc, buffer,
             expectedSegment, totalWritten, writeErr, fault>>
diskVars == <<out, ckpt>>
vars == <<main, runs, runVars, diskVars, tampered>>

Segment == 0 .. Total - 1
Bad     == -1    \* wrong bytes where a segment belongs
Hole    == -2    \* zeros nobody wrote
NoCkpt  == [LastSegment |-> -1, BytesWritten |-> 0]   \* none, or not JSON

SegState == {"none", "fetching", "failing", "decoded", "done"}

TypeOK ==
    /\ main \in {"down", "running", "ok", "err", "panicked"}
    /\ runs \in 0 .. MaxRuns
    /\ cancelled \in BOOLEAN /\ closed \in BOOLEAN /\ fault \in BOOLEAN
    /\ tampered \in BOOLEAN
    /\ next \in 0 .. Total
    /\ seg \in [Segment -> SegState]
    /\ data \in [Segment -> Segment \cup {Bad}]
    /\ results \in Seq(Segment)
    /\ wpc \in {"recv", "drain", "save", "exited"}
    /\ buffer \in SUBSET Segment
    /\ expectedSegment \in 0 .. Total
    /\ totalWritten \in 0 .. Total
    /\ writeErr \in {"none", "PathError", "errorString"}
    /\ out \in Seq(Segment \cup {Bad, Hole})
    /\ ckpt \in [LastSegment: Segment \cup {-1}, BytesWritten: 0 .. Total]

----------------------------------------------------------------------------
\* Goroutines that hold a slot of windowSem.
InWindow == {s \in Segment : seg[s] \in {"fetching", "failing", "decoded"}}

\* Write one segment at an offset; a gap before it reads as zeros.
WriteAt(f, pos, x) ==
    [i \in 1 .. (IF Len(f) > pos THEN Len(f) ELSE pos + 1) |->
        IF i = pos + 1 THEN x ELSE IF i <= Len(f) THEN f[i] ELSE Hole]

Original == [i \in 1 .. Total |-> i - 1]

CkptDue(s) == s % CkptEvery = 0 \/ s = Total - 1

\* The local variables of RunV2 before the producer loop, when the first
\* segment to fetch is `first` and `bytes` are already in the file.
FreshRun(first, bytes) ==
    /\ cancelled' = FALSE
    /\ next' = first
    /\ seg' = [s \in Segment |-> "none"]
    /\ data' = [s \in Segment |-> s]
    /\ results' = <<>>
    /\ closed' = FALSE
    /\ wpc' = "recv"
    /\ buffer' = {}
    /\ expectedSegment' = first
    /\ totalWritten' = bytes
    /\ writeErr' = "none"
    /\ fault' = FALSE

Init ==
    /\ main = "down" /\ runs = 0
    /\ cancelled = FALSE /\ next = 0
    /\ seg = [s \in Segment |-> "none"] /\ data = [s \in Segment |-> s]
    /\ results = <<>> /\ closed = FALSE
    /\ wpc = "recv" /\ buffer = {}
    /\ expectedSegment = 0 /\ totalWritten = 0
    /\ writeErr = "none" /\ fault = FALSE
    /\ out = <<>> /\ ckpt = NoCkpt
    /\ tampered = FALSE

\* Variant: the output is opened with O_TRUNC even when the run resumes.
StartTruncating ==
    /\ main # "running" /\ InWindow = {}
    /\ runs < MaxRuns
    /\ main' = "running"
    /\ runs' = runs + 1
    /\ FreshRun(ckpt.LastSegment + 1, ckpt.BytesWritten)
    /\ out' = <<>>
    /\ UNCHANGED <<ckpt, tampered>>

\* Variant: the seek to the end of the resumed bytes is forgotten.
StartUnseeked ==
    /\ main # "running" /\ InWindow = {}
    /\ runs < MaxRuns
    /\ main' = "running"
    /\ runs' = runs + 1
    /\ FreshRun(ckpt.LastSegment + 1, 0)
    /\ out' = IF ckpt.LastSegment + 1 > 0 THEN out ELSE <<>>
    /\ UNCHANGED <<ckpt, tampered>>

\* RunV2 is called: load the checkpoint, open the output without truncating it
\* and seek, or truncate it when there is nothing to resume.
Start ==
    /\ main # "running" /\ InWindow = {}
    /\ runs < MaxRuns
    /\ main' = "running"
    /\ runs' = runs + 1
    /\ FreshRun(ckpt.LastSegment + 1, ckpt.BytesWritten)
    /\ out' = IF ckpt.LastSegment + 1 > 0 THEN out ELSE <<>>
    /\ UNCHANGED <<ckpt, tampered>>

----------------------------------------------------------------------------
(* The producer loop and the segment goroutines                             *)

\* Variant: the producer loop runs one segment too far.
LaunchPastEnd ==
    /\ main = "running" /\ ~cancelled
    /\ next <= Total
    /\ Cardinality(InWindow) < Window
    /\ seg' = [seg EXCEPT ![next] = "fetching"]
    /\ next' = next + 1
    /\ UNCHANGED <<main, runs, cancelled, data, results, closed, wpc, buffer,
                   expectedSegment, totalWritten, writeErr, fault, diskVars, tampered>>

Launch ==
    /\ main = "running" /\ ~cancelled
    /\ next < Total
    /\ Cardinality(InWindow) < Window
    /\ seg' = [seg EXCEPT ![next] = "fetching"]
    /\ next' = next + 1
    /\ UNCHANGED <<main, runs, cancelled, data, results, closed, wpc, buffer,
                   expectedSegment, totalWritten, writeErr, fault, diskVars, tampered>>

SegmentStep(s, from, to) ==
    /\ seg[s] = from
    /\ seg' = [seg EXCEPT ![s] = to]
    /\ UNCHANGED <<main, runs, next, closed, wpc, buffer, expectedSegment,
                   totalWritten, diskVars>>

\* Enough chunks arrived.  No chunk is verified, and with exactly K of them
\* the erasure code cannot tell a wrong one.
Decode(s) ==
    /\ SegmentStep(s, "fetching", "decoded")
    /\ \E x \in {s, Bad} :
          /\ data' = [data EXCEPT ![s] = x]
          /\ tampered' = (tampered \/ x = Bad)
    /\ UNCHANGED <<cancelled, results, writeErr, fault>>

\* Not enough chunks, because of the cancellation: return without a word.
FetchAborted(s) ==
    /\ cancelled
    /\ SegmentStep(s, "fetching", "done")
    /\ UNCHANGED <<cancelled, data, results, writeErr, fault, tampered>>

\* Not enough chunks although nobody has cancelled yet.  (The decoder itself
\* does not fail: fetchChunk has checked the lengths.)
FetchShort(s) ==
    /\ ~cancelled
    /\ SegmentStep(s, "fetching", "failing")
    /\ fault' = TRUE
    /\ UNCHANGED <<cancelled, data, results, writeErr, tampered>>

\* writeErr.Store: an atomic.Value panics when the dynamic type of the new
\* value is not that of the stored one, and the panic ends the process.
Conflicts(type) == writeErr \notin {"none", type}

FetchFailed(s) ==
    /\ ~Conflicts("errorString")
    /\ SegmentStep(s, "failing", "done")
    /\ writeErr' = "errorString"
    /\ cancelled' = TRUE
    /\ UNCHANGED <<data, results, fault, tampered>>

\* The select between the results channel and the cancellation.
Send(s) ==
    /\ Len(results) < Window
    /\ SegmentStep(s, "decoded", "done")
    /\ results' = Append(results, s)
    /\ UNCHANGED <<cancelled, data, writeErr, fault, tampered>>

\* Variant: the send does not select on the cancellation.
SendUncancellable(s) ==
    /\ cancelled /\ Len(results) < Window
    /\ SegmentStep(s, "decoded", "done")
    /\ UNCHANGED <<cancelled, data, results, writeErr, fault, tampered>>

SendAborted(s) ==
    /\ cancelled
    /\ SegmentStep(s, "decoded", "done")
    /\ UNCHANGED <<cancelled, data, results, writeErr, fault, tampered>>

\* Variant: the channel is closed only after all segments of the file.
CloseAfterAll ==
    /\ main \in {"running", "ok", "err"} /\ ~closed
    /\ next = Total
    /\ InWindow = {}
    /\ closed' = TRUE
    /\ UNCHANGED <<main, runs, cancelled, next, seg, data, results, wpc, buffer,
                   expectedSegment, totalWritten, writeErr, fault, diskVars, tampered>>

\* The goroutine that waits for the segments closes the channel, once the
\* producer loop has ended.
Close ==
    /\ main \in {"running", "ok", "err"} /\ ~closed
    /\ next = Total \/ cancelled
    /\ InWindow = {}
    /\ closed' = TRUE
    /\ UNCHANGED <<main, runs, cancelled, next, seg, data, results, wpc, buffer,
                   expectedSegment, totalWritten, writeErr, fault, diskVars, tampered>>

\* The caller cancels, or the progress watchdog does after 30 s without a chunk.
Cancel ==
    /\ main = "running" /\ ~cancelled
    /\ cancelled' = TRUE
    /\ fault' = TRUE
    /\ UNCHANGED <<main, runs, next, seg, data, results, closed, wpc, buffer,
                   expectedSegment, totalWritten, writeErr, diskVars, tampered>>

----------------------------------------------------------------------------
(* The writer goroutine                                                     *)

WriterStep(from, to) ==
    /\ main = "running"
    /\ wpc = from
    /\ wpc' = to
    /\ UNCHANGED <<main, runs, next, seg, data, closed, tampered>>

Receive ==
    /\ results # <<>>
    /\ WriterStep("recv", "drain")
    /\ buffer' = buffer \cup {Head(results)}
    /\ results' = Tail(results)
    /\ UNCHANGED <<cancelled, expectedSegment, totalWritten, writeErr, fault, diskVars>>

Advance ==
    /\ buffer' = buffer \ {expectedSegment}
    /\ expectedSegment' = expectedSegment + 1

\* Variant: segments are appended as they arrive.
WriteInArrivalOrder ==
    \E s \in buffer :
        /\ out' = WriteAt(out, totalWritten, data[s])
        /\ totalWritten' = totalWritten + 1
        /\ buffer' = buffer \ {s}
        /\ expectedSegment' = expectedSegment + 1
        /\ WriterStep("drain", "drain")
        /\ UNCHANGED <<cancelled, results, writeErr, fault, ckpt>>

WriteSegment ==
    /\ expectedSegment \in buffer
    /\ out' = WriteAt(out, totalWritten, data[expectedSegment])
    /\ totalWritten' = totalWritten + 1
    /\ IF CkptDue(expectedSegment)
         THEN WriterStep("drain", "save") /\ UNCHANGED <<buffer, expectedSegment>>
         ELSE WriterStep("drain", "drain") /\ Advance
    /\ UNCHANGED <<cancelled, results, writeErr, fault, ckpt>>

\* os.WriteFile truncates, then writes; its error is ignored.
SaveCheckpoint ==
    /\ WriterStep("save", "drain")
    /\ Advance
    /\ ckpt' \in {[LastSegment |-> expectedSegment, BytesWritten |-> totalWritten],
                  NoCkpt, ckpt}
    /\ UNCHANGED <<cancelled, results, totalWritten, writeErr, fault, out>>

NothingReady ==
    /\ expectedSegment \notin buffer
    /\ WriterStep("drain", "recv")
    /\ UNCHANGED <<cancelled, results, buffer, expectedSegment, totalWritten,
                   writeErr, fault, diskVars>>

\* outFile.Write fails, maybe half-way: the writer stops draining the channel.
TornWrite == out' \in {out, WriteAt(out, totalWritten, Bad)}

WriteFails ==
    /\ expectedSegment \in buffer
    /\ ~Conflicts("PathError")
    /\ WriterStep("drain", "exited")
    /\ TornWrite
    /\ writeErr' = "PathError"
    /\ cancelled' = TRUE
    /\ fault' = TRUE
    /\ UNCHANGED <<results, buffer, expectedSegment, totalWritten, ckpt>>

\* The channel is closed and empty.  A missing segment is an error, unless one
\* is stored already.
WriterEnds ==
    /\ closed /\ results = <<>>
    /\ WriterStep("recv", "exited")
    /\ writeErr' = IF expectedSegment # Total /\ writeErr = "none"
                     THEN "errorString" ELSE writeErr
    /\ UNCHANGED <<cancelled, results, buffer, expectedSegment, totalWritten,
                   fault, diskVars>>

----------------------------------------------------------------------------
(* Returning, dying, and what happens between two calls                     *)

\* writerWg.Wait is over: report the stored error, or compare the hash of the
\* output and remove the output when it differs.  The deferred cancelFetch runs.
\* The checkpoint stays in every case.
Finish ==
    /\ main = "running" /\ wpc = "exited"
    /\ IF writeErr # "none"
         THEN main' = "err" /\ UNCHANGED out
         ELSE IF out = Original
                THEN main' = "ok" /\ UNCHANGED out
                ELSE main' = "err" /\ out' = <<>>
    /\ cancelled' = TRUE
    /\ UNCHANGED <<runs, next, seg, data, results, closed, wpc, buffer,
                   expectedSegment, totalWritten, writeErr, fault, ckpt, tampered>>

\* Two errors of different types meet in writeErr.  A segment may still store
\* its own after RunV2 has returned.
StorePanics ==
    /\ main # "down"
    /\ \/ Conflicts("errorString") /\ \E s \in Segment : seg[s] = "failing"
       \/ /\ Conflicts("PathError") /\ main = "running"
          /\ wpc = "drain" /\ expectedSegment \in buffer
    /\ main' = "panicked"
    /\ seg' = [s \in Segment |-> "done"]
    /\ UNCHANGED <<runs, cancelled, next, data, results, closed, wpc, buffer,
                   expectedSegment, totalWritten, writeErr, fault, diskVars, tampered>>

\* The process is killed, maybe in the middle of one of the writer's writes.
Crash ==
    /\ main = "running"
    /\ main' = "down"
    /\ FreshRun(0, 0)
    /\ IF wpc = "drain" /\ expectedSegment \in buffer THEN TornWrite ELSE UNCHANGED out
    /\ ckpt' \in IF wpc = "save" THEN {ckpt, NoCkpt} ELSE {ckpt}
    /\ UNCHANGED <<runs, tampered>>

\* Somebody moves the output away, or the next run is given another path.
MoveOutput ==
    /\ main # "running" /\ InWindow = {}
    /\ out # <<>>
    /\ out' = <<>>
    /\ tampered' = TRUE
    /\ UNCHANGED <<main, runs, runVars, ckpt>>

Producer == Launch \/ Close
SegmentGoroutine(s) ==
    \/ Decode(s) \/ FetchAborted(s) \/ FetchShort(s) \/ FetchFailed(s)
    \/ Send(s) \/ SendAborted(s)
Writer ==
    \/ Receive \/ WriteSegment \/ SaveCheckpoint \/ NothingReady \/ WriteFails
    \/ WriterEnds

Next ==
    \/ Start \/ Producer \/ Writer \/ Finish
    \/ \E s \in Segment : SegmentGoroutine(s)
    \/ Cancel \/ StorePanics \/ Crash \/ MoveOutput

\* Every goroutine of a run keeps going.  A fetch ends because its streams have
\* deadlines and the progress watchdog cancels a run that gets no chunk.
Fairness ==
    /\ WF_vars(Launch) /\ WF_vars(Close)
    /\ \A s \in Segment : WF_vars(SegmentGoroutine(s))
    /\ WF_vars(Writer)
    /\ WF_vars(Finish) /\ WF_vars(StorePanics)

Spec == Init /\ [][Next]_vars /\ Fairness

----------------------------------------------------------------------------
(* Properties                                                               *)

\* Whatever order the segments arrive in, and wherever a run resumes, a
\* segment is only ever written to its own place in the file.
OutputInOrder == \A i \in 1 .. Len(out) : out[i] \in {i - 1, Bad, Hole}

\* A checkpoint never claims bytes that the file does not hold, through crashes
\* between the two writes, torn writes and lost checkpoints, as long as every
\* decoded segment is right and nobody takes the output away.
CkptWithinFile ==
    ~tampered =>
        /\ ckpt.BytesWritten = ckpt.LastSegment + 1
        /\ ckpt.BytesWritten <= Len(out)
        /\ \A i \in 1 .. ckpt.BytesWritten : out[i] = i - 1

\* Under the same condition a call in which nothing fails succeeds, whatever
\* became of the calls it resumes.
ResumeSucceeds == main = "err" /\ ~tampered => fault

\* A call returns: no failure of the writer or of a segment leaves the others
\* blocked on the window, the results channel or each other.
Returns == main = "running" ~> main # "running"

\* A cancelled call leaves no segment goroutine behind.
NoLeak == cancelled ~> InWindow = {}

\* What WIRE_SPECIFICATION.md 5.4 promises of several parties cancelling a
\* retrieval: it does not panic.
NeverPanics == main # "panicked"
============================================================================
