-------------------------- MODULE SegmentOutcome ---------------------------
(***************************************************************************)
(* What the fetch of one segment promises to the rest of RunV2: chunks of  *)
(* distinct shards are collected, and in the end the segment is decoded    *)
(* from enough of them, or is short of them and says so, or is given up    *)
(* without a word because the run has been cancelled.  RetrievalV2 takes   *)
(* this for one step per outcome; SegmentFetch implements it.              *)
(***************************************************************************)
EXTENDS Integers, FiniteSets

CONSTANTS Shard, DataShards

VARIABLES
    outcome,   \* fetching, decoded, short or aborted
    chunks,    \* the shards of which the chunk has arrived
    cancelled  \* the context of the run

vars == <<outcome, chunks, cancelled>>

Init == outcome = "fetching" /\ chunks = {} /\ cancelled \in BOOLEAN

Collect ==
    /\ outcome = "fetching"
    /\ \E s \in Shard \ chunks : chunks' = chunks \cup {s}
    /\ UNCHANGED <<outcome, cancelled>>

Cancel == cancelled' = TRUE /\ UNCHANGED <<outcome, chunks>>

Enough == Cardinality(chunks) >= DataShards

End ==
    /\ outcome = "fetching"
    /\ outcome' = IF Enough THEN "decoded" ELSE IF cancelled THEN "aborted" ELSE "short"
    /\ cancelled' = (cancelled \/ outcome' = "short")
    /\ UNCHANGED chunks

Next == Collect \/ Cancel \/ End

Spec == Init /\ [][Next]_vars /\ WF_vars(End)
============================================================================
