--------------------------- MODULE MCStorageNode ---------------------------
(* Constants of the runs of StorageNode.                                    *)
EXTENDS StorageNode

\* A whole shard by either protocol, each of its chunks, and wrong bytes.
Requests ==
    {[version |-> 2, from |-> 0, to |-> 1, right |-> TRUE],
     [version |-> 2, from |-> 0, to |-> 0, right |-> TRUE],
     [version |-> 2, from |-> 1, to |-> 1, right |-> TRUE],
     [version |-> 1, from |-> 0, to |-> 1, right |-> FALSE]}
============================================================================
