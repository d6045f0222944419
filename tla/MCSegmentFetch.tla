-------------------------- MODULE MCSegmentFetch ---------------------------
(* Constants of the run of SegmentFetch.                                    *)
EXTENDS SegmentFetch

CONSTANTS p1, p2

\* p1 has everything, p2 lacks shard 0.
OneComplete == [q \in Provider |-> IF q = p1 THEN Shard ELSE Shard \ {0}]
============================================================================
