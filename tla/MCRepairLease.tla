--------------------------- MODULE MCRepairLease ---------------------------
(* Constants of the runs of RepairLease.                                    *)
EXTENDS RepairLease

\* All wall clocks agree.
NoSkew == [p \in Peer |-> 0]

\* The clock of the highest peer ID is one tick ahead.
OneAhead == [p \in Peer |-> IF \A q \in Peer : q <= p THEN 1 ELSE 0]
============================================================================
