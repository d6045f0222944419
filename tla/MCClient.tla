------------------------------ MODULE MCClient ------------------------------
(* Constants of the runs of Client.                                         *)
EXTENDS Client, TLC

CONSTANTS p1, p2, s1, s2

\* One file with bytes and one without.
Sizes == [c \in {"a", "empty"} |-> IF c = "a" THEN 3 ELSE 0]

\* A call knows both nodes or only the second.
Lists == {<<p1, p2>>, <<p2>>}

\* The slots are alike.
Alike == Permutations(Slot)
=============================================================================
