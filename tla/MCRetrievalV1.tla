---------------------------- MODULE MCRetrievalV1 ----------------------------
(* Constants of the runs of RetrievalV1.                                    *)
EXTENDS RetrievalV1

\* Provider 1 has the whole file; the others have the last shard only.
OneHasAll == [q \in Provider |-> IF q = 1 THEN Shard ELSE {Total - 1}]
============================================================================
