----------------------------- MODULE SoftLease -----------------------------
(***************************************************************************)
(* What the soft lease of watchdog/lease.go amounts to without its clocks, *)
(* records and phases: a register of the last epoch that was put, and the  *)
(* nodes that repair under a lease still alive on every clock.  As long as *)
(* every put replaces the record that its writer has read, a put and an    *)
(* acquisition wait until nobody holds the lease, and each put counts the  *)
(* epoch up by one; once a put has been raced nothing is promised any more. *)
(* RepairLease implements this.                                            *)
(***************************************************************************)
EXTENDS Integers

CONSTANT Peer

VARIABLES
    holders,   \* who repairs under a live lease
    fence,     \* the epoch in the store, 0 before the first lease
    raced      \* some put has replaced a record its writer had not read

vars == <<holders, fence, raced>>

Init == holders = {} /\ fence = 0 /\ raced = FALSE

Put ==
    /\ UNCHANGED holders
    /\ \/ /\ ~raced /\ holders = {}
          /\ fence' = fence + 1
          /\ UNCHANGED raced
       \/ raced' = TRUE /\ fence' \in Nat

Acquire(p) ==
    /\ ~raced => holders = {}
    /\ holders' = holders \cup {p}
    /\ UNCHANGED <<fence, raced>>

\* Repairs end, nodes die and leases run out, several at once.
Drop ==
    /\ holders' \subseteq holders
    /\ UNCHANGED <<fence, raced>>

Next == Put \/ Drop \/ \E p \in Peer : Acquire(p)

Spec == Init /\ [][Next]_vars
============================================================================
