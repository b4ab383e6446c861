--------------------------- MODULE InternalSocket ---------------------------
(***************************************************************************)
(* MasterInternalSocketHandler.process_request (cluster/master.py): the    *)
(* admin endpoint's commands that forward a request to the clients and     *)
(* merge their answers into one JSON object keyed by node name.           *)
(*                                                                         *)
(* A node's answer is abstracted to "ok" (a JSON payload) or "err" (an    *)
(* error string); the master's own files are "ok".  A request is handled  *)
(* in one step, so the inputs are chosen in the initial state: the set of  *)
(* connected clients, what each client answers, the command and the node  *)
(* list decoded from the request (<<>> for None or []).                   *)
(***************************************************************************)
EXTENDS Naturals, Sequences, SequencesExt

CONSTANTS
    Clients,      \* names clients may connect with
    Master,       \* read_config()['node_name'] of the master
    MaxListLen    \* longest node list in a request

ASSUME Master \notin Clients /\ MaxListLen \in Nat

Names == Clients \cup {Master}
Answers == {"ok", "err"}
Commands == {"get_files", "sync", "get_nodes"}

VARIABLES connected, answer, command, nodeList

vars == <<connected, answer, command, nodeList>>

\* Server.send_request(client_name, ...): the client's answer, or an error
\* string when no client of that name is connected.
SendRequest(n) == IF n \in connected THEN answer[n] ELSE "err"

\* Server.send_request_broadcast: one (node, answer) pair per connected
\* client, as a dict.
Broadcast == [n \in connected |-> answer[n]]

\* response.update({node: value})
Update(resp, n, v) == [k \in DOMAIN resp \cup {n} |-> IF k = n THEN v ELSE resp[k]]

\* Fault variant of GetFiles: the master's own name in the node list is
\* forwarded to the clients like any other node.
GetFilesForwardAll(nl) ==
    LET step(resp, n) == Update(resp, n, SendRequest(n))
        merged == IF nl # <<>> THEN FoldLeft(step, <<>>, nl)
                  ELSE Update(Broadcast, Master, "ok")
    IN IF nl # <<>> /\ DOMAIN merged # {}
       THEN [n \in ToSet(nl) |-> IF n \in DOMAIN merged THEN merged[n] ELSE "None"]
       ELSE merged

\* command == 'get_files': with a node list, ask each listed client for its
\* file status and note the master's own name; without one, broadcast.
\* The master's files are added when asked for, then the response is
\* filtered by the node list with .get (None for a missing key).
GetFiles(nl) ==
    LET step(resp, n) == IF n = Master THEN resp
                         ELSE Update(resp, n, SendRequest(n))
        getMyFiles == nl = <<>> \/ Master \in ToSet(nl)
        fromClients == IF nl # <<>> THEN FoldLeft(step, <<>>, nl) ELSE Broadcast
        merged == IF getMyFiles THEN Update(fromClients, Master, "ok")
                  ELSE fromClients
    IN IF nl # <<>> /\ DOMAIN merged # {}
       THEN [n \in ToSet(nl) |-> IF n \in DOMAIN merged THEN merged[n] ELSE "None"]
       ELSE merged

\* command == 'sync': with a node list, "response = {node: ...}" inside the
\* loop over the nodes; without one, the broadcast answers.
Sync(nl) ==
    LET step(resp, n) == n :> SendRequest(n)
    IN IF nl # <<>> THEN FoldLeft(step, <<>>, nl) ELSE Broadcast

\* command == 'get_nodes': the info of every connected client and of the
\* master.
GetNodes == Update(Broadcast, Master, "ok")

\* process_request: dispatch on the command.
ProcessRequest ==
    CASE command = "get_files" -> GetFiles(nodeList)
      [] command = "sync"      -> Sync(nodeList)
      [] command = "get_nodes" -> GetNodes

Init == /\ connected \in SUBSET Clients
        /\ answer \in [Clients -> Answers]
        /\ command \in Commands
        /\ nodeList \in BoundedSeq(Names, MaxListLen)

Next == UNCHANGED vars
Spec == Init /\ [][Next]_vars

-----------------------------------------------------------------------------
(* What the admin endpoint promises: one entry per node asked about (every *)
(* listed node, or every connected node and the master when no list is   *)
(* given), holding that node's own answer.                                 *)

Asked == IF nodeList # <<>> THEN ToSet(nodeList) ELSE connected \cup {Master}

Expected(n) == IF n = Master THEN (IF command = "sync" THEN "err" ELSE "ok")
               ELSE SendRequest(n)

\* get_files reports, for every node asked about, that node's own file
\* status: the master's own files when the master's name is listed or no
\* list is given, and each client's answer (or the error of sending to it).
GetFilesAnswersEachNode ==
    command = "get_files" =>
        /\ DOMAIN ProcessRequest = Asked
        /\ \A n \in Asked : ProcessRequest[n] = Expected(n)

\* sync forwards the request to every listed node and reports each node's
\* answer.
SyncAnswersEachNode ==
    command = "sync" /\ nodeList # <<>> =>
        /\ DOMAIN ProcessRequest = Asked
        /\ \A n \in Asked : ProcessRequest[n] = Expected(n)

=============================================================================
