---------------------------- MODULE Healthcheck -----------------------------
(***************************************************************************)
(* The healthcheck store of the master (cluster/master.py): each         *)
(* integrity worker of a client writes the last_sync_integrity subtree of *)
(* the client's record one field at a time, each write a separate         *)
(* set_client_status under _clients_lock, while the admin request          *)
(* get_health serialises the live status dict that get_healthcheck hands  *)
(* out.  json.dumps of a dict of strings and numbers is one call of the    *)
(* C encoder, which no other thread interleaves, so a report is the       *)
(* subtree as it is at that moment.                                       *)
(*                                                                         *)
(* A field's value is abstracted to the run that wrote it (a date or a    *)
(* count of that run), the "In progress" sentinel, or NoRun before the    *)
(* first run.  process_request starts a worker for every sync_i_c_m       *)
(* without waiting for the previous one, so the writes of two runs of one *)
(* client may interleave (a double start, or a worker of a closed         *)
(* connection writing by name into the reconnected client's record).      *)
(***************************************************************************)
EXTENDS Naturals, Sequences, FiniteSets

CONSTANTS
    Runs,        \* the integrity syncs of the client, in order: 1..n
    NoRun,       \* model value: the field was never written
    InProgress   \* model value: the "In progress" sentinel

\* The subkeys of total_files, in the order the code sets them.
CounterOrder == <<"missing", "shared", "extra", "extra_valid">>
Counters == {CounterOrder[i] : i \in DOMAIN CounterOrder}

Fields == {"date_start_master", "date_end_master"} \cup Counters

ASSUME Runs = 1..Cardinality(Runs)

Value == Runs \cup {InProgress, NoRun}

\* set_client_status(name, key, subkey, subsubkey, value) as a pair.
Write(f, v) == [field |-> f, value |-> v]

\* The counters of total_files written in set order.
CounterWrites(v) == [i \in DOMAIN CounterOrder |-> Write(CounterOrder[i], v)]

\* ProcessClientIntegrity.process_file before the diff.
StartWrites(r) ==
    << Write("date_start_master", r), Write("date_end_master", InProgress) >>
    \o CounterWrites(InProgress)

\* process_integrity_from_client after compare_files, then process_file
\* after the client's answer.
FinishWrites(r) == CounterWrites(r) \o << Write("date_end_master", r) >>

\* The writes of one run: a run that fails (bad archive, integrity not
\* calculated yet) stops after the start writes; unlock_and_stop writes
\* nothing more.
RunWrites(r, ok) == StartWrites(r) \o (IF ok THEN FinishWrites(r) ELSE <<>>)

VARIABLES
    tree,      \* status['last_sync_integrity'] of the client record
    run,       \* the last run started, 0 before the first
    pending,   \* each run's worker: the writes it has left
    report     \* the subtree as the last get_health serialised it

vars == <<tree, run, pending, report>>

Init ==
    /\ tree = [f \in Fields |-> NoRun]
    /\ run = 0
    /\ pending = [r \in Runs |-> <<>>]
    /\ report = [f \in Fields |-> NoRun]

\* process_request 'sync_i_c_m' starts the worker of the next run, whether
\* or not an earlier worker is still writing; the run succeeds or fails.
StartRun ==
    /\ run + 1 \in Runs
    /\ \E ok \in BOOLEAN : pending' = [pending EXCEPT ![run + 1] = RunWrites(run + 1, ok)]
    /\ run' = run + 1
    /\ UNCHANGED <<tree, report>>

\* One set_client_status of the worker of run r.
SetClientStatus(r) ==
    /\ pending[r] # <<>>
    /\ tree' = [tree EXCEPT ![Head(pending[r]).field] = Head(pending[r]).value]
    /\ pending' = [pending EXCEPT ![r] = Tail(@)]
    /\ UNCHANGED <<run, report>>

\* get_health: get_healthcheck returns {"info": copy, "status": live dict},
\* and json.dumps serialises it in one step.
GetHealth ==
    /\ report' = tree
    /\ UNCHANGED <<tree, run, pending>>

Next == StartRun \/ GetHealth \/ \E r \in Runs : SetClientStatus(r)

Spec == Init /\ [][Next]_vars

-----------------------------------------------------------------------------
(* Properties.                                                             *)

Finished(st) == st["date_end_master"] \in Runs

\* What get_health reports never shows a finished integrity run with a
\* total_files counter left "In progress": date_end_master gets its date
\* only after every counter has its count, and a new run puts
\* date_end_master back to "In progress" before it resets the counters.
FinishedRunHasCounters ==
    Finished(report) => \A c \in Counters : report[c] \in Runs

=============================================================================
