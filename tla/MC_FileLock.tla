---------------------------- MODULE MC_FileLock -----------------------------
EXTENDS FileLock, TLC

\* Two files with their own lock files: an atomic one and one written in
\* place.
MC_Basename == [p \in Paths |-> IF p = "p1" THEN "001" ELSE "002"]
MC_WriteMode == [p \in Paths |-> IF p = "p1" THEN "atomic" ELSE "non-atomic"]

\* One file: the lock file two threads contend for.
MC_OneBasename == [p \in Paths |-> "001"]
MC_OneWriteMode == [p \in Paths |-> "atomic"]

\* Both threads are workers of one client: a double start of the
\* agent-info worker (cluster_one_worker), or a worker of a closed
\* connection beside one of the reconnected client.
MC_SameClient == [t \in Threads |-> "c1"]
=============================================================================
