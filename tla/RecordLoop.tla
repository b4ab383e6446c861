---------------------------- MODULE RecordLoop ------------------------------
(***************************************************************************)
(* What the update loop of _update_client_files_in_master (cluster/       *)
(* master.py) promises its worker, seen as a count of records left: each  *)
(* applied record takes one off, a record applied once the stopper is set *)
(* ends the loop ("break"), and the loop ends when none is left.  This is *)
(* the view ClusterMaster takes of the loop; FileLock, which walks the    *)
(* entries and records themselves, is checked to implement it.            *)
(***************************************************************************)
EXTENDS Naturals

CONSTANTS
    Threads,     \* workers running the loop
    MaxRecords   \* records of one archive

VARIABLES
    left,   \* records of the archive not applied yet
    stop,   \* the worker's stopper is set
    done    \* the loop is over

vars == <<left, stop, done>>

Init ==
    /\ left \in [Threads -> 1..MaxRecords]
    /\ stop = [t \in Threads |-> FALSE]
    /\ done = [t \in Threads |-> FALSE]

\* update_file of one record, then "if self.stopper.is_set(): break".
ApplyRecord(t) ==
    /\ ~done[t]
    /\ left[t] > 0
    /\ left' = [left EXCEPT ![t] = IF stop[t] THEN 0 ELSE @ - 1]
    /\ UNCHANGED <<stop, done>>

\* The for loop is exhausted; the status is saved.
Finish(t) ==
    /\ ~done[t]
    /\ left[t] = 0
    /\ done' = [done EXCEPT ![t] = TRUE]
    /\ UNCHANGED <<left, stop>>

\* The client's connection closes while the loop runs.
SetStop(t) ==
    /\ ~stop[t]
    /\ ~done[t]
    /\ stop' = [stop EXCEPT ![t] = TRUE]
    /\ UNCHANGED <<left, done>>

Next == \E t \in Threads : ApplyRecord(t) \/ Finish(t) \/ SetStop(t)

\* The worker thread is scheduled; the stopper is the environment.
Spec == Init /\ [][Next]_vars
             /\ \A t \in Threads : WF_vars(ApplyRecord(t) \/ Finish(t))

=============================================================================
