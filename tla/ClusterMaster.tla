--------------------------- MODULE ClusterMaster ---------------------------
(***************************************************************************)
(* The master node of the cluster (framework/wazuh/cluster/master.py):     *)
(* the clients table kept by MasterManager, the request dispatch of each   *)
(* MasterManagerHandler, the three kinds of sync worker threads it starts  *)
(* (ProcessClientIntegrity, ProcessClientFiles, ProcessExtraValidFiles),   *)
(* the per-client "*_free" permits they flip through set_client_status,    *)
(* and the FileStatusUpdateThread that computes the integrity catalog.     *)
(*                                                                         *)
(* The client side of the protocol and the worker base class ProcessFiles  *)
(* are not in this repository's sources; they are modelled from the spec   *)
(* (section 4.6, 4.7, 5): a client asks for the permit of a sync kind, and *)
(* if it is free sends the sync request; the integrity round of a client   *)
(* ends when the master sends it sync_m_c, sync_m_c_ok or sync_m_c_err.    *)
(***************************************************************************)
EXTENDS Naturals, FiniteSets

CONSTANTS
    Nodes,       \* names of the client nodes
    Slots,       \* identities of worker threads that may be alive at once
    MaxRecords,  \* records in one merged agent-info/agent-groups archive
    NoWorker     \* model value: an unused worker slot

ASSUME /\ Nodes # {}
       /\ Slots # {}
       /\ MaxRecords \in Nat \ {0}

\* The three sync streams and the status key of their permit.
Kinds == {"integrity", "agentinfo", "extravalid"}

\* Program counter of a worker thread.
\*  new       thread started by process_request, run() not entered yet
\*  started   the stopper test passed, lock_status(True) not done yet
\*  locked    lock_status(True) done, process_file not started
\*  applying  agent-info/extra-valid: records of the archive left to apply
\*  sending   integrity: diff done, sync_m_c or sync_m_c_ok to be sent
\*  erring    integrity: failed, sync_m_c_err to be sent
\*  unlocking lock_status(False) pending
WorkerPC == {"new", "started", "locked", "applying", "sending", "erring", "unlocking"}
Holding  == WorkerPC \ {"new", "started"}

Worker == [node : Nodes, kind : Kinds, pc : WorkerPC,
           stop : BOOLEAN, left : 0..MaxRecords]

\* State of the client's thread for one sync kind (spec-modelled).
ClientPC == {"idle", "granted", "waiting"}

\* FileStatusUpdateThread: at the test of its while loop, inside a round of
\* get_files_status and set_integrity_control, or returned from run().
RefresherPC == {"looping", "computing", "ended"}

\* MasterManager.exit, run by the main thread: not called, joining the
\* master threads, or removing the clients of its copy of the table.
ExitPC == {"running", "joining", "removing"}

VARIABLES
    connected,      \* names present in Server._clients
    free,           \* status[sync_*_free] of each client record
    workers,        \* worker threads: slot -> Worker or NoWorker
    integrityReady, \* MasterManager._integrity_control is non-empty
    client,         \* the client's thread of each sync kind
    stopper,        \* MasterManager.stopper is set
    refresher,      \* program counter of the FileStatusUpdateThread
    exitPc,         \* program counter of MasterManager.exit
    pending         \* clients of exit's copy not yet removed

exitVars == <<stopper, refresher, exitPc, pending>>
vars == <<connected, free, workers, integrityReady, client, exitVars>>

TypeOK ==
    /\ connected \subseteq Nodes
    /\ free \in [Nodes -> [Kinds -> BOOLEAN]]
    /\ workers \in [Slots -> Worker \cup {NoWorker}]
    /\ integrityReady \in BOOLEAN
    /\ client \in [Nodes -> [Kinds -> ClientPC]]
    /\ stopper \in BOOLEAN
    /\ refresher \in RefresherPC
    /\ exitPc \in ExitPC
    /\ pending \subseteq Nodes

-----------------------------------------------------------------------------
(* MasterManager.set_client_status: the write goes to the record that     *)
(* currently has this name, and is dropped if there is none.              *)
SetFree(n, k, b) ==
    free' = IF n \in connected THEN [free EXCEPT ![n][k] = b] ELSE free

\* Server.send_request(name, sync_m_c*): the client currently connected with
\* this name processes it; a client waiting for its integrity result is
\* released. Without a connection the request fails and nothing changes.
DeliverToClient(n) ==
    client' = IF n \in connected /\ client[n]["integrity"] = "waiting"
              THEN [client EXCEPT ![n]["integrity"] = "idle"]
              ELSE client

FreeSlots == {s \in Slots : workers[s] = NoWorker}

\* MasterManager.get_client_status(name, sync_*_free), read under the lock.
GetClientStatus(n, k) == n \in connected /\ free[n][k]

\* MasterManager.get_integrity_control raises "Integrity not calculated yet"
\* while the catalog is empty.
IntegrityCalculated == integrityReady

-----------------------------------------------------------------------------
Init ==
    /\ connected = {}
    /\ free = [n \in Nodes |-> [k \in Kinds |-> TRUE]]
    /\ workers = [s \in Slots |-> NoWorker]
    /\ integrityReady = FALSE
    /\ client = [n \in Nodes |-> [k \in Kinds |-> "idle"]]
    /\ stopper = FALSE
    /\ refresher = "looping"
    /\ exitPc = "running"
    /\ pending = {}

\* Server.add_client / MasterManager.add_client: a fresh record, every
\* permit free.
Connect(n) ==
    /\ n \notin connected
    /\ connected' = connected \cup {n}
    /\ free' = [free EXCEPT ![n] = [k \in Kinds |-> TRUE]]
    /\ client' = [client EXCEPT ![n] = [k \in Kinds |-> "idle"]]
    /\ UNCHANGED <<exitVars, workers, integrityReady>>

\* Server.remove_client: the handler's stopper is set for every worker it
\* started, and the record is removed; the workers are not waited for.
RemoveClient(n) ==
    /\ connected' = connected \ {n}
    /\ workers' = [s \in Slots |->
                     IF workers[s] # NoWorker /\ workers[s].node = n
                     THEN [workers[s] EXCEPT !.stop = TRUE]
                     ELSE workers[s]]
    /\ client' = [client EXCEPT ![n] = [k \in Kinds |-> "idle"]]

\* Connection closed by the client or the network.
Disconnect(n) ==
    /\ n \in connected
    /\ RemoveClient(n)
    /\ UNCHANGED <<exitVars, free, integrityReady>>

\* process_request 'sync_i_c_m_p' / 'sync_ai_c_mp' / 'sync_ev_c_mp':
\* answers get_client_status(name, sync_*_free); the client goes on only
\* when it reads True.
AskPermit(n, k) ==
    /\ n \in connected
    /\ client[n][k] = "idle"
    /\ GetClientStatus(n, k)
    /\ client' = [client EXCEPT ![n][k] = "granted"]
    /\ UNCHANGED <<exitVars, connected, free, workers, integrityReady>>

\* process_request 'sync_i_c_m' / 'sync_ai_c_m' / 'sync_ev_c_m': starts the
\* worker thread and answers 'ack' at once, without looking at the permit.
\* The integrity client then waits for the master's verdict.
SyncRequest(n, k) ==
    /\ n \in connected
    /\ client[n][k] = "granted"
    /\ \E s \in FreeSlots :
          workers' = [workers EXCEPT ![s] =
                        [node |-> n, kind |-> k, pc |-> "new",
                         stop |-> FALSE, left |-> 0]]
    /\ client' = [client EXCEPT ![n][k] =
                    IF k = "integrity" THEN "waiting" ELSE "idle"]
    /\ UNCHANGED <<exitVars, connected, free, integrityReady>>

-----------------------------------------------------------------------------
(* Worker thread steps.                                                    *)

\* Fault variant of WorkerStart: lock_status(True) before the stopper test.
WorkerStartLockFirst(s) ==
    LET w == workers[s] IN
    /\ w # NoWorker
    /\ w.pc = "new"
    /\ SetFree(w.node, w.kind, FALSE)
    /\ workers' = [workers EXCEPT ![s] = IF w.stop THEN NoWorker
                                         ELSE [w EXCEPT !.pc = "locked"]]
    /\ UNCHANGED <<exitVars, connected, integrityReady, client>>

\* ProcessFiles.run: a stopped worker leaves without touching the status;
\* otherwise check_connection (always True on the master) lets it go on.
WorkerStart(s) ==
    LET w == workers[s] IN
    /\ w # NoWorker
    /\ w.pc = "new"
    /\ workers' = [workers EXCEPT ![s] = IF w.stop THEN NoWorker
                                         ELSE [w EXCEPT !.pc = "started"]]
    /\ UNCHANGED <<exitVars, connected, free, integrityReady, client>>

\* ProcessClient.lock_status(True): the permit of the record that has the
\* worker's name now is marked taken; a disconnect and reconnect since the
\* stopper test make that the new connection's record.
WorkerLock(s) ==
    LET w == workers[s] IN
    /\ w # NoWorker
    /\ w.pc = "started"
    /\ SetFree(w.node, w.kind, FALSE)
    /\ workers' = [workers EXCEPT ![s].pc = "locked"]
    /\ UNCHANGED <<exitVars, connected, integrityReady, client>>

\* ProcessClientIntegrity.process_file up to the reply: status set to
\* "In progress", the archive decompressed, get_integrity_control read
\* (it raises while the catalog is empty), the diff counted.
IntegrityProcess(s) ==
    LET w == workers[s] IN
    /\ w # NoWorker
    /\ w.pc = "locked"
    /\ w.kind = "integrity"
    /\ \E archiveOk \in BOOLEAN :
          workers' = [workers EXCEPT ![s].pc =
                        IF archiveOk /\ IntegrityCalculated THEN "sending" ELSE "erring"]
    /\ UNCHANGED <<exitVars, connected, free, integrityReady, client>>

\* Fault variant of FilesProcess: one record more than the archive holds.
FilesProcessOverrun(s) ==
    LET w == workers[s] IN
    /\ w # NoWorker
    /\ w.pc = "locked"
    /\ w.kind \in {"agentinfo", "extravalid"}
    /\ \E r \in 1..(MaxRecords + 1) :
          workers' = [workers EXCEPT ![s].pc = "applying", ![s].left = r]
    /\ UNCHANGED <<exitVars, connected, free, integrityReady, client>>

\* process_files_from_client up to the update loop: status "In progress",
\* the archive decompressed and its cluster_control.json read. A failure
\* raises, and ProcessClient.unlock_and_stop sends no error to the client.
FilesProcess(s) ==
    LET w == workers[s] IN
    /\ w # NoWorker
    /\ w.pc = "locked"
    /\ w.kind \in {"agentinfo", "extravalid"}
    /\ \/ workers' = [workers EXCEPT ![s].pc = "unlocking"]
       \/ \E r \in 1..MaxRecords :
             workers' = [workers EXCEPT ![s].pc = "applying", ![s].left = r]
    /\ UNCHANGED <<exitVars, connected, free, integrityReady, client>>

\* _update_client_files_in_master: one unmerged record applied under its
\* lock file; the stopper is looked at after the record, and only breaks
\* out of the record loop.
FilesApplyRecord(s) ==
    LET w == workers[s] IN
    /\ w # NoWorker
    /\ w.pc = "applying"
    /\ w.left > 0
    /\ workers' = [workers EXCEPT ![s].left = IF w.stop THEN 0 ELSE w.left - 1]
    /\ UNCHANGED <<exitVars, connected, free, integrityReady, client>>

\* End of the update loop: total_* and date_end_master saved, tmp removed.
FilesFinish(s) ==
    LET w == workers[s] IN
    /\ w # NoWorker
    /\ w.pc = "applying"
    /\ w.left = 0
    /\ workers' = [workers EXCEPT ![s].pc = "unlocking"]
    /\ UNCHANGED <<exitVars, connected, free, integrityReady, client>>

\* ProcessClientIntegrity.process_file: sync_m_c or sync_m_c_ok sent to the
\* client of this name and its answer awaited, then date_end_master saved.
IntegrityReply(s) ==
    LET w == workers[s] IN
    /\ w # NoWorker
    /\ w.pc = "sending"
    /\ DeliverToClient(w.node)
    /\ workers' = [workers EXCEPT ![s].pc = "unlocking"]
    /\ UNCHANGED <<exitVars, connected, free, integrityReady>>

\* Fault variants of IntegrityError: the thread ends without
\* ProcessClient.unlock_and_stop; the error is not sent to the client.
IntegrityErrorNoUnlock(s) ==
    LET w == workers[s] IN
    /\ w # NoWorker
    /\ w.pc = "erring"
    /\ DeliverToClient(w.node)
    /\ workers' = [workers EXCEPT ![s] = NoWorker]
    /\ UNCHANGED <<exitVars, connected, free, integrityReady>>

IntegrityErrorSilent(s) ==
    LET w == workers[s] IN
    /\ w # NoWorker
    /\ w.pc = "erring"
    /\ workers' = [workers EXCEPT ![s].pc = "unlocking"]
    /\ UNCHANGED <<exitVars, connected, free, integrityReady, client>>

\* ProcessClientIntegrity.unlock_and_stop: sync_m_c_err sent to the client.
IntegrityError(s) ==
    LET w == workers[s] IN
    /\ w # NoWorker
    /\ w.pc = "erring"
    /\ DeliverToClient(w.node)
    /\ workers' = [workers EXCEPT ![s].pc = "unlocking"]
    /\ UNCHANGED <<exitVars, connected, free, integrityReady>>

\* ProcessClient.lock_status(False) on every way out of run(); the thread ends.
WorkerUnlock(s) ==
    LET w == workers[s] IN
    /\ w # NoWorker
    /\ w.pc = "unlocking"
    /\ SetFree(w.node, w.kind, TRUE)
    /\ workers' = [workers EXCEPT ![s] = NoWorker]
    /\ UNCHANGED <<exitVars, connected, integrityReady, client>>

\* FileStatusUpdateThread.run: "while not self.stopper.is_set() and
\* self.running" lets a new round begin.
RefreshBegin ==
    /\ refresher = "looping"
    /\ ~stopper
    /\ refresher' = "computing"
    /\ UNCHANGED <<stopper, exitPc, pending, connected, free, workers,
                   integrityReady, client>>

\* The body of the round: get_files_status('master') and
\* set_integrity_control, then self.sleep(interval): the new catalog may be
\* empty or not, and a round that raises leaves the catalog as it was. A
\* round begun before the stopper was set still writes the catalog.
RefreshIntegrity ==
    /\ refresher = "computing"
    /\ integrityReady' \in {integrityReady, FALSE, TRUE}
    /\ refresher' = "looping"
    /\ UNCHANGED <<stopper, exitPc, pending, connected, free, workers, client>>

\* The loop test sees the stopper: run() returns.
RefreshStop ==
    /\ refresher = "looping"
    /\ stopper
    /\ refresher' = "ended"
    /\ UNCHANGED <<stopper, exitPc, pending, connected, free, workers,
                   integrityReady, client>>

RefresherStep == RefreshBegin \/ RefreshIntegrity \/ RefreshStop

-----------------------------------------------------------------------------
(* MasterManager.exit, called once by the main thread.                     *)

\* self.stopper.set(), then each master thread joined with timeout=2: the
\* join returns whether or not the thread has ended, and changes nothing.
MasterExit ==
    /\ exitPc = "running"
    /\ stopper' = TRUE
    /\ exitPc' = "joining"
    /\ UNCHANGED <<refresher, pending, connected, free, workers,
                   integrityReady, client>>

\* After the joins: a copy of the names in the clients table.
ExitJoined ==
    /\ exitPc = "joining"
    /\ exitPc' = "removing"
    /\ pending' = connected
    /\ UNCHANGED <<stopper, refresher, connected, free, workers,
                   integrityReady, client>>

\* remove_client(client_id=client) for each name of the copy; a name whose
\* connection has closed since is no longer in the table.
ExitRemoveClient(n) ==
    /\ exitPc = "removing"
    /\ n \in pending
    /\ pending' = pending \ {n}
    /\ IF n \in connected THEN RemoveClient(n)
       ELSE UNCHANGED <<connected, workers, client>>
    /\ UNCHANGED <<stopper, refresher, exitPc, free, integrityReady>>

ExitStep == ExitJoined \/ \E n \in Nodes : ExitRemoveClient(n)

-----------------------------------------------------------------------------
WorkerStep(s) ==
    \/ WorkerStart(s)
    \/ WorkerLock(s)
    \/ IntegrityProcess(s)
    \/ FilesProcess(s)
    \/ FilesApplyRecord(s)
    \/ FilesFinish(s)
    \/ IntegrityReply(s)
    \/ IntegrityError(s)
    \/ WorkerUnlock(s)

Next ==
    \/ \E n \in Nodes : Connect(n) \/ Disconnect(n)
    \/ \E n \in Nodes, k \in Kinds : AskPermit(n, k) \/ SyncRequest(n, k)
    \/ \E s \in Slots : WorkerStep(s)
    \/ RefresherStep
    \/ MasterExit
    \/ ExitStep

\* Worker threads, the refresher and the main thread inside exit are
\* scheduled by the interpreter; the clients, the network and the signal
\* that calls exit are the environment and get no fairness.
Fairness ==
    /\ \A s \in Slots : WF_vars(WorkerStep(s))
    /\ WF_vars(RefresherStep)
    /\ WF_vars(ExitStep)

Spec == Init /\ [][Next]_vars
FairSpec == Spec /\ Fairness

-----------------------------------------------------------------------------
(* Properties.                                                             *)

\* Workers of client n and kind k that are past lock_status(True).
Holders(n, k) ==
    {s \in Slots : /\ workers[s] # NoWorker
                   /\ workers[s].node = n
                   /\ workers[s].kind = k
                   /\ workers[s].pc \in Holding}

\* A permit that reads "taken" is taken by a live worker of that kind:
\* every way out of a worker (success, failed archive, integrity not yet
\* calculated, stopper) gives it back.
PermitHeldByWorker ==
    \A n \in connected, k \in Kinds : ~free[n][k] => Holders(n, k) # {}

\* Spec 4.6 and section 8: at most one worker of a kind runs for a client.
\* Workers of a closed connection (stop set) are not counted.
AtMostOneWorkerPerKind ==
    \A n \in Nodes, k \in Kinds :
        Cardinality({s \in Holders(n, k) : ~workers[s].stop}) <= 1

\* Spec 5 (Cancellation) and 4.7.1: the verdict a client waiting on its
\* integrity request receives, while it stays connected, comes from the
\* worker started for that request. A worker of a closed connection is the
\* one whose stop is set; ProcessClientIntegrity.process_file sends its
\* sync_m_c / sync_m_c_ok / sync_m_c_err by client name and never looks at
\* the stopper, so after a reconnect it may reach the new connection.
IntegrityVerdictFresh ==
    [][\A n \in Nodes :
          (/\ client[n]["integrity"] = "waiting"
           /\ client'[n]["integrity"] = "idle"
           /\ n \in connected')
          => \E s \in Slots : /\ workers[s] # NoWorker
                              /\ workers[s].node = n
                              /\ ~workers[s].stop
                              /\ workers'[s] # workers[s]]_vars

\* A client waiting for the result of its integrity request gets
\* sync_m_c, sync_m_c_ok or sync_m_c_err, unless its connection closes.
IntegrityRequestAnswered ==
    \A n \in Nodes :
        client[n]["integrity"] = "waiting" ~> client[n]["integrity"] # "waiting"

\* A permit taken while the client is connected is given back, unless the
\* connection closes.
PermitEventuallyFree ==
    \A n \in Nodes, k \in Kinds :
        (n \in connected /\ ~free[n][k]) ~> (n \notin connected \/ free[n][k])


=============================================================================
