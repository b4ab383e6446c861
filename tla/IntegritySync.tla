--------------------------- MODULE IntegritySync ----------------------------
(***************************************************************************)
(* What the master's integrity worker makes of a client's integrity       *)
(* request: MasterManagerHandler.process_integrity_from_client            *)
(* (cluster/master.py) diffs the client's snapshot of master-owned files  *)
(* against the master's catalog with compare_files, rewrites the          *)
(* agent-groups entries of the diff, saves the four counters for the      *)
(* healthcheck, and answers "no KO files" or an archive of the shared and *)
(* missing files with the diff as its cluster_control.json.               *)
(*                                                                         *)
(* A catalog is a function from the paths it holds to their md5.  A key  *)
(* of a diff bucket is a path or the merged agent-groups file the rewrite *)
(* puts in its place.  compare_files and merge_agent_info live in         *)
(* wazuh.cluster.cluster, which is not in this repository; they are       *)
(* modelled from the spec (4.3, 4.4).                                     *)
(***************************************************************************)
EXTENDS Naturals, FiniteSets

CONSTANTS
    Paths,        \* master-owned files, as model values
    GroupPaths,   \* those under /queue/agent-groups/
    Md5s          \* contents, told apart by md5

ASSUME GroupPaths \subseteq Paths

Catalog == UNION {[S -> Md5s] : S \in SUBSET Paths}

\* The keys of client_files_ko, in the order of its items().
Buckets == {"missing", "shared", "extra", "extra_valid"}

\* compare_files(master_files, master_files_from_client), spec 4.3:
\* agent-groups is the profile whose extras are meaningful.
CompareFiles(master, client) ==
    LET onlyClient == DOMAIN client \ DOMAIN master
    IN [missing     |-> DOMAIN master \ DOMAIN client,
        shared      |-> {p \in DOMAIN master \cap DOMAIN client :
                            master[p] # client[p]},
        extra       |-> onlyClient \ GroupPaths,
        extra_valid |-> onlyClient \cap GroupPaths]

\* fnmatch.filter(values.keys(), '*/agent-groups/*') of every bucket.
AgentGroupsToMerge(ko) == [b \in Buckets |-> ko[b] \cap GroupPaths]

\* merge_agent_info(merge_type="agent-groups", files, file_type="-"+key,
\* time_limit_seconds=0): every file is merged (spec 4.4), giving the
\* pair (n_files, merged_file).
MergeAgentInfo(b, files) ==
    <<Cardinality(files), [bucket |-> b, files |-> files]>>

\* if ko_type == "extra" or "extra_valid": continue -- the second operand is
\* a non-empty string, so the test holds for every bucket.
SkipBucket(b) == b = "extra" \/ "extra_valid" # ""

\* The loop over zip(client_files_ko.items(), agent_groups_to_merge.items()):
\* a bucket not skipped loses its agent-groups paths and gains the merged
\* file when it holds any.
Rewrite(ko) ==
    [b \in Buckets |->
        IF SkipBucket(b) THEN ko[b]
        ELSE LET m  == AgentGroupsToMerge(ko)[b]
                 mf == MergeAgentInfo(b, m)
             IN (ko[b] \ m) \cup (IF mf[1] > 0 THEN {mf[2]} ELSE {})]

\* The four set_client_status(..., "total_files", <bucket>, len(...)).
Counters(ko) == [b \in Buckets |-> Cardinality(ko[b])]

\* Step 3: no KO files when every bucket is empty; otherwise the archive
\* holds the shared and then the missing keys, and client_files_ko is its
\* cluster_control.json.
Answer(ko) ==
    IF \A b \in Buckets : ko[b] = {}
    THEN [koFiles |-> FALSE, paths |-> {}, manifest |-> ko]
    ELSE [koFiles |-> TRUE, paths |-> ko["shared"] \cup ko["missing"],
          manifest |-> ko]

\* process_integrity_from_client after decompress_files succeeded.
ProcessIntegrity(master, client) ==
    LET ko == Rewrite(CompareFiles(master, client))
    IN [answer |-> Answer(ko), totals |-> Counters(ko)]

=============================================================================
