--------------------------- MODULE ClusterControl ---------------------------
(***************************************************************************)
(* The cluster_control command line (framework/scripts/cluster_control.py) *)
(* as the path it takes for one invocation: the node type of the cluster  *)
(* configuration, the parsed arguments, and the answer of the framework   *)
(* call it makes decide what it prints and its exit status.               *)
(*                                                                         *)
(* Tables and messages are abstracted to what is printed: a listing, an   *)
(* error, the usage text or a "Wrong arguments" notice.  The framework's  *)
(* answer is a dict without "err", a dict with "err", an exception, or a  *)
(* value that is not a dict.                                              *)
(***************************************************************************)
EXTENDS Naturals

CONSTANTS
    NoArg        \* model value: an option not given (argparse's None)

\* read_config() raising, a configuration without node_type, or one with
\* the given node_type.
Confs == {"unreadable", "no_node_type", "master", "client", "worker"}

\* Arguments after parse_args: the option of the mutually exclusive group
\* given (its dest), the value of --health and of --filter-agent-status.
\* --debug only turns a caught exception into a traceback, with the same
\* status, and --filter-node is passed through to the framework.
Commands == {"none", "list_agents", "list_nodes", "health"}

Answers == {"ok", "err", "exception", "not_dict"}

Outcome(printed, called, status) ==
    [printed |-> printed, called |-> called, status |-> status]

\* Fault variant of CliExecute: exit() without a status after printing the
\* "err" of the answer, as the script does after a failed import.
CliExecuteExitZero(fn, answer) ==
    IF answer = "err" THEN Outcome("error", fn, 0)
    ELSE IF answer \in {"exception", "not_dict"} THEN Outcome("error", fn, 1)
    ELSE Outcome("listing", fn, 0)

\* __execute(my_function) followed by the printing of the caller: an
\* answer with "err" prints it and exits 1; an exception of the call, or
\* of response.get on a value that is not a dict, prints it and exits 1
\* (exit raises SystemExit, which the main "except Exception" lets through);
\* otherwise the caller prints its table and the script ends with status 0.
CliExecute(fn, answer) ==
    IF answer = "ok" THEN Outcome("listing", fn, 0) ELSE Outcome("error", fn, 1)

\* The configuration check: read_config raising WazuhException prints
\* "Invalid configuration" and exits 1; so does a node_type other than
\* master and client.  Without node_type, the message of the exception
\* reads cluster_config['node_type'] and raises KeyError, which the
\* "except WazuhException" does not catch: the script dies with a
\* traceback, status 1.
CheckConfig(conf) ==
    CASE conf = "unreadable"   -> Outcome("invalid_configuration", "none", 1)
      [] conf = "no_node_type" -> Outcome("traceback", "none", 1)
      [] conf = "worker"       -> Outcome("invalid_configuration", "none", 1)
      [] OTHER                 -> Outcome("none", "none", 0)

\* Values of --health: its const when given alone, or the word after it.
HealthArgs == {"health", "more", "MORE", "status"}

\* args.health.lower() == 'more'
More(health) == health \in {"more", "MORE"}

\* The if/elif chain of __main__ inside its try (print_healthcheck adds
\* the per-node detail when --health more was given): --filter-agent-status
\* without --list-agents, and --list-agents on a client, print "Wrong
\* arguments" and the help and fall off the end of the script; no option
\* prints the help and calls exit().
Dispatch(conf, command, filterStatus, health, answer) ==
    IF filterStatus # NoArg /\ command # "list_agents"
    THEN Outcome("wrong_arguments", "none", 0)
    ELSE IF command = "list_agents"
    THEN IF conf = "master" THEN CliExecute("get_agents", answer)
         ELSE Outcome("wrong_arguments", "none", 0)
    ELSE IF command = "list_nodes" THEN CliExecute("get_nodes", answer)
    ELSE IF command = "health"
    THEN LET r == CliExecute("get_healthcheck", answer)
         IN IF r.status = 0 /\ More(health)
            THEN [r EXCEPT !.printed = "listing_more"] ELSE r
    ELSE Outcome("help", "none", 0)

\* One run of the script.
Main(conf, command, filterStatus, health, answer) ==
    IF CheckConfig(conf).status # 0 THEN CheckConfig(conf)
    ELSE Dispatch(conf, command, filterStatus, health, answer)

=============================================================================
