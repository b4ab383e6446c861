# TLA+ models of the Wazuh framework's cluster master and helpers

This directory holds TLA+ specifications of the Python sources under
`src/framework/`. Each module is translated from the code and checked
with TLC. `PROJECT.json` holds the machine-readable details: the
component list, each run with its properties, a mutant for every checked
property, the map from each definition to the source lines it models, the
findings, and the hazards.

## 1. The system

### Parts and how they interact

| Part | Source | State | Operations |
|---|---|---|---|
| Clients table | `cluster/master.py` `MasterManager` (466-548) | `_clients[name] = {info, status}` under `_clients_lock`; `status` holds the permits `sync_integrity_free`, `sync_agentinfo_free`, `sync_extravalid_free` and the `last_sync_*` trees | `add_client`, `set_client_status`, `get_client_status`; `Server.remove_client` (not in src) |
| Handler dispatch | `MasterManagerHandler.process_request` (43-98) | none of its own | permit queries `sync_*_c_mp`; sync requests `sync_*_c_m`, which start a worker thread and answer `ack`; `get_nodes`, `get_health`, `get_agents` |
| Sync workers | `ProcessClient*` (350-463), `process_integrity_from_client` (262-342), `process_files_from_client` (214-259), `_update_client_files_in_master` (116-212) | a thread per request, a `stopper` event per connection | `lock_status(True)`; process the archive; reply to the client (integrity) or apply the records (agent-info, extra-valid); `lock_status(False)` |
| Integrity refresher | `FileStatusUpdateThread` (600-618), `get/set_integrity_control` (539-548) | `_integrity_control` catalog under `_integrity_control_lock` | recompute the catalog every `interval` |
| Per-path lock files | `update_file` (117-165) | `<lockdir>/<file>.lock`, taken with `fcntl.lockf` | lock, write through a temporary file, rename, unlock |
| Healthcheck | `get_healthcheck` (551-566) | reads the clients table | a copy of `info` and the live `status` dict |
| Shutdown | `exit` (569-594) | all threads | set the stopper, join each thread for 2 s, remove every client |
| Internal socket | `MasterInternalSocketHandler.process_request` (628-715) | none | forward `get_files` / `sync` to clients and merge the answers; `get_nodes`, `get_agents`, `get_health` |
| wdb client | `wdb.py` | socket to wazuh-db | `execute`: validate, split a select into `request_slice` pages |
| Utilities | `utils.py` | none | `WazuhVersion` comparison, `cut_array`, `sort_array`, `get_values`/`search_array`, `filemode`, file helpers |
| Configuration | `configuration.py` | none | XML to JSON: `_insert`, `_insert_section`, `_conf2json`, `_agentconf2json`; internal options |
| CLI | `scripts/cluster_control.py` | none | prints what the internal socket answers |

The client node, the frame transport (`Server`, `ServerHandler`), the worker
base class `ProcessFiles` and the differ and archiver helpers are imported
from modules that are not in this repository. Where the master depends on
them, they are modelled from `spec.md` and marked `spec_modelled` in the map.

The parts interact as follows:
- A client first asks for the permit of a sync kind. If the answer is
  True, it sends the request.
- The handler starts a worker thread. The worker flips the permit through
  `set_client_status`, which works by client name.
- The integrity worker reads the catalog that the refresher writes. It
  then sends `sync_m_c`, `sync_m_c_ok` or `sync_m_c_err` back to the
  client.
- Closing a connection sets that handler's stopper and removes the client
  record. It does not wait for the workers.

### Hard behaviours

- **Concurrent threads.** Each handler, each worker, the refresher and the
  internal socket run concurrently.
- **Permit check-then-act.** The permit is read by one request (`*_c_mp`).
  A worker started by another request (`*_c_m`) takes it later, in the
  worker thread.
- **Name-keyed status.** A worker of a closed connection still writes the
  status of whichever client now has that name.
- **Start-up race.** Integrity requests can arrive before the first
  catalog exists.
- **Failure paths.** Every failure path must release the permit and, for
  integrity, answer the client.
- **Per-process locks.** `lockf` locks belong to the process, not the
  thread.
- **Merging.** Pure merges in the internal socket and the configuration
  reader, and paging arithmetic in `wdb.execute`.

## 2. Modules

### `ClusterMaster` (with `MC_ClusterMaster`)

This module models the clients table, the dispatch of sync requests, the
three worker kinds, the permits and the refresher.

State:
- `connected`: the names in `_clients`.
- `free[n][k]`: the permits.
- `workers[slot]`: a thread's node, kind, program counter, stopper flag
  and records left.
- `integrityReady`: the catalog is non-empty.
- `client[n][k]`: the client's side, taken from the spec.
- `stopper`: `MasterManager.stopper`; `refresher`: the program counter of
  `FileStatusUpdateThread.run`; `exitPc` and `pending`: `exit`'s progress
  and the clients of its copy of the table not yet removed.

Actions:

| Action | Code it models |
|---|---|
| `Connect` | `add_client` |
| `Disconnect` | the connection closing; `RemoveClient` is `Server.remove_client`, taken from the spec |
| `AskPermit` | `process_request` `sync_*_c_mp` |
| `SyncRequest` | `process_request` `sync_*_c_m` |
| `WorkerStart` | `ProcessFiles.run`: the stopper test, which ends a thread stopped before it ran |
| `WorkerLock` | `lock_status(True)`, the thread's next step |
| `IntegrityProcess` | `process_integrity_from_client` |
| `FilesProcess` | `process_files_from_client` up to the update loop |
| `FilesApplyRecord` | one record of `_update_client_files_in_master`, with its stopper test |
| `FilesFinish` | end of the update loop |
| `IntegrityReply` | `ProcessClientIntegrity.process_file` |
| `IntegrityError` | `ProcessClientIntegrity.unlock_and_stop` |
| `WorkerUnlock` | `lock_status(False)` |
| `RefreshBegin`, `RefreshStop` | the loop test of `FileStatusUpdateThread.run`: a new round, or the return on the stopper |
| `RefreshIntegrity` | one round: `get_files_status`, `set_integrity_control`, `sleep`; the new catalog may be empty or not whatever the old one was |
| `MasterExit` | `exit`: `stopper.set()` and the joins with `timeout=2`, which change nothing |
| `ExitJoined` | `exit`: the copy of the clients table's names |
| `ExitRemoveClient` | `exit`: `remove_client` of one name of the copy |

Other modelling choices:
- Worker identities are a set of slots. At most `|Slots|` threads are
  alive at once.
- The file contents and the diff are abstracted away. The model keeps
  only whether the archive step fails.

### `InternalSocket`

This module models `get_files`, `sync` and `get_nodes` of the internal
socket. A request is handled in one step, so the inputs are chosen in the
initial state:
- the connected clients;
- each client's answer (`ok` or `err`);
- the command;
- the node list.

`response.update` and the `sync` loop are written as folds over the node
list.

### `ConfigMerge` (checked in `MC_Helpers`)

This module models how `configuration.py` turns XML into JSON and hands it
out:
- `ReadOption` is `_read_option`: a `syscheck` `<directories>` yields one
  `{'path': ...}` per comma-separated piece, and raises when the element
  has no text; any other option yields its text, and `None` for an element
  without text, which `_insert` drops;
- `Insert`, `InsertSection`, `Conf2Json`, `AgentConf2Json` and
  `OssecConf2Json` are `_insert`, `_insert_section`, `_conf2json`,
  `_agentconf2json` and `_ossecconf2json`, with an exception of
  `_read_option` leaving the whole call (`Raised`);
- `GetOssecConf` is `get_ossec_conf(section, field)` with its error codes
  1101, 1102, 1106 and 1103;
- `CutArray` is `utils.cut_array`, and `GetAgentConf` is `get_agent_conf`
  of an existing group, which pages the merged list with it.

It keeps the rows of `conf_sections` that decide the merge:
- `syscheck`, a simple section with the list option `directories`;
- `localfile`, a duplicate section;
- `labels`, which the table does not list.

The results are compared with declarative references: `RefAgentConf` and
`RefConfig` state the merged configuration over the whole document,
`RefPage` the documented page of a list, `RefOssecConf` the documented
answers of `get_ossec_conf`, and `Unreadable` the documents that cannot
be read. The same abstract document stands for `agent.conf` (blocks with
filters) and for `ossec.conf` (its blocks as `<ossec_config>` roots).

### `WazuhVersion` (with `MC_WazuhVersion`)

This module models `WazuhVersion.__init__`'s parsed groups, `__ge__` as its
if/elif chain, and `__eq__`, `__lt__` and `__gt__`. The pre-release number
is kept as a digit string, because the code compares it as a string. The
reference order is the lexicographic order on (major, minor, patch, tag
rank, number).

### `WdbPaging`

This module models the paging loop of `WazuhDBConnection.execute`:
- Python's `range`;
- the `step` choice;
- one `limit step offset off` request per start.

A table is abstracted to its row numbers.

`Send` is `__send`'s answer length test: an answer of `n` rows of size
`rs` is abstracted to `5 + n*rs` bytes, and one longer than `MaxSize`
(the 6 KB `recv` cap) raises `ValueError`. `ExecuteSend` is the paging
loop through `Send`: it raises when any page does.

### `IntegritySync`

This module models the data path of `process_integrity_from_client`
(`master.py:262-342`). `ClusterMaster`'s `IntegrityProcess` covers the
same function, but only its control flow.

No run checks this module: its one property, that the answer matches
the diff, only restated these definitions and was dropped; the module is
kept as the model of the data path for the integrity round trip (§5).

A catalog is a function from paths (model values) to md5s.
- `CompareFiles` gives the four buckets of spec §4.3 (`compare_files` is
  not in this repository, so it is `spec_modelled`).
- `AgentGroupsToMerge` and `MergeAgentInfo` are the two dict
  comprehensions.
- `SkipBucket` is the test at line 298, `ko_type == "extra" or
  "extra_valid"`, which holds for every bucket.
- `Rewrite` is the loop that would replace a bucket's agent-groups paths
  by one merged member. It mutates `client_files_ko` in place.
- `Counters` are the four `set_client_status` calls, taken after the
  rewrite.
- `Answer` is the KO/no-KO test and the archive's
  `shared + missing` paths.

### `MC_Helpers`: the helpers run

`MC_Helpers` extends `WdbPaging`, `UtilsArray`,
`WdbQuery`, `WazuhException`, `ClusterControl`, `UtilsSearch`,
`UtilsFiles` and `InternalOptions`. It also instantiates
`InternalSocket` as `Socket` and `ConfigMerge` as `Conf`. Its initial
state chooses one of nine inputs, and nothing changes after that:
- a wdb paging request (table, offset, limit);
- the arguments of a `sort_array` call (no property checks it now);
- a `get_files` request with the clients' answers;
- a wdb query text, as a sequence of symbols;
- one `cluster_control` invocation (configuration, option, answer of the
  framework call);
- a `search_array` call (array, text, fields);
- a file mode for `filemode`;
- the two internal options files and the bounds of an option;
- an `agent.conf`/`ossec.conf` document with a paging or section request.

The `ConfigMerge` input comes last because it is by far the largest: TLC
checks the invariants while it generates the initial states, so a fault
in one of the small inputs shows within seconds.

Each invariant therefore checks one helper against its reference on every
bounded input.

### `WdbQuery`

This module models what `WazuhDBConnection.execute` does to a query
before paging it (`wdb.py:34-99`). A query is a sequence of symbols: a
word piece that `lower()` maps as a whole, the quote, the space or `;`.
- `QueryLower` is `__query_lower`: a fold with its `to_lower` flag and
  the four branches in the code's order.
- `Split` is `query.split(" ")`, empty words included.
- `Validate` is `__query_input_validation`. The list of checks is built
  in full before it is walked, so a query with too few words raises
  `IndexError`; otherwise the first false check raises 2004.
- `QueryLowerRef` is the reference: a character is kept as written when
  an odd number of quotes precede it.

### `WazuhException`

This module models the `ERRORS` table as one code set per commented
section, and `__init__`: `cmd_error` keeps the message as given; an
unknown code raises `KeyError` on the table lookup; otherwise the
description and the extra message. Message wording is abstracted to the
code and the extra message.

### `ClusterControl`

This module models one run of `cluster_control.py` as the path it takes:
- `CheckConfig` is the configuration check of `__main__`: an unreadable
  configuration or a node type other than master and client prints
  "Invalid configuration" and exits 1; a configuration without
  `node_type` raises `KeyError` while building that message, which the
  `except WazuhException` does not catch (a traceback, status 1).
- `Dispatch` is the `if/elif` chain inside the `try`, and `CliExecute` is
  `__execute` with the caller's printing: an answer with `err`, an
  exception, or a non-dict answer prints an error and exits 1.
- Tables are abstracted to "listing"; `--health more` to "listing_more".

### `InputValidator`

This module models `check_name`, `check_length` and `group`. A name is
abstracted to its length and the position of its first character
outside `\w`, which is all `re.match` and `len` look at. `group([])`
raises `TypeError` (`reduce` of an empty list). No run checks this
module: its only disagreement with its docstring, the `TypeError`, needs
a violation run of its own.

### `UtilsSearch`

This module models `get_values` and `search_array` (`utils.py:153-213`).
An object is a record of one shape: a string (its characters), a list
(its elements) or a dict (its key/value pairs in iteration order).
`GetValues` is RECURSIVE, like the function: the `fields` filter applies
to the top-level dict only, and `str(obj).lower()` lowers the characters
of a string. `IsSubstring` is Python's `in` on strings.

### `UtilsFiles`

This module models `_filemode_table` and `filemode` (`utils.py:215-258`).
The stat constants are their octal values, `|` of two distinct bits is
their sum, and `mode & bit == bit` uses the community module Bitwise. The
for/else appends "-" when no pair of a table matches.

### `InternalOptions`

This module models `parse_internal_options` and
`get_internal_options_value` (`configuration.py:511-548`). A file is
abstracted to whether it exists and the value it gives the option; a
value to whether it is all digits and the number it spells. The error
codes 1107, 1108, 1109 and 1110 come in the code's order.

### `UtilsArray`

This module models `sort_array` (`utils.py:110-150`) on lists of
dictionaries, the shape its callers pass.
- The early return and the 1402, 1403 and 1404 errors are modelled in the
  code's order.
- Only the first element is checked for the sort fields.
- `KeyOf` is the key tuple of `o.get(a)`, and `Rank` is Python 2's order,
  with None below every number.
- `Sorted` models `sorted()` by what it does: a stable insertion. With
  `reverse=True`, elements of equal key keep their input order.

### `FileLock` (with `MC_FileLock`)

This module models the update loop of `_update_client_files_in_master`
run by several worker threads at once. Two threads of one client are
what the code allows: `process_request` starts a worker per request
without a guard (the double start of `cluster_one_worker`), and a worker
of a closed connection runs on beside the worker of the reconnected
client. `ClientOf` says which client each thread serves; the runs give
both threads the same client (`MC_SameClient`).

State:
- `manifest[t]`: the entries of the thread's `cluster_control.json`, each
  merged (a sequence of records from `unmerge_agent_info`) or plain (one
  file);
- `entry[t]`, `rec[t]`: the loop position;
- `pc[t]`: where the thread is in `update_file`;
- `stop[t]`: the handler's stopper;
- `locked[l]`: the master process holds the `lockf` lock of lock file `l`;
- `disk[p]`: what a reader of path `p` sees (last writer, whole or not);
- `tmp[c][p]`: the temporary file of path `p` in client `c`'s `tmp_path`
  (`master.py:159`), which every worker of that client shares
  (`tmp_dir=tmp_path`, line 137);
- `afterStop[t]`: records begun after the stopper was set.

| Action | Code it models |
|---|---|
| `LockRecord` | `open(lock_full_path)` and `lockf(LOCK_EX)`, which never blocks a thread of the process holding the lock |
| `UpdateFileBegin` | `_update_file` opening its output: the shared temporary file (atomic profile) or the target (in place), truncating it; or a `WazuhException` / other error counted in `n_errors` |
| `WriteTmp` | the content written to the open temporary file; it stays whole only if no other thread opened the file since |
| `UpdateFileEnd` | the end of the in-place write, or the rename of the temporary file over the target, which raises when another thread has renamed it already |
| `UnlockRecord` | `lockf(LOCK_UN)`, `close`, and the loops' next position with the stopper test |
| `FinishUpdate` | the error summary and `set_client_status(n_merged_files)` |
| `SetStopper` | the connection closes (environment) |

`_update_file` is not in this repository; its two write modes are taken
from the spec and marked `spec_modelled`.

### `RecordLoop`: the abstract loop, and its refinement by `FileLock`

`RecordLoop` states what the update loop promises its worker, as a count
`left[t]` of records not applied yet (the view `ClusterMaster` takes in
`FilesApplyRecord` / `FilesFinish`):
- `ApplyRecord`: one record applied; if the stopper was set, the loop is
  left and nothing remains;
- `Finish`: nothing remains, the loop is over;
- `SetStop`: the connection closes;
- weak fairness on applying and finishing.

`FileLock` defines `Loop == INSTANCE RecordLoop WITH ...`:
- `left <- RecordsLeft(t)`: the records of the current entry from the
  current one on, plus those of every later entry (`FoldLeft`);
- `stop <- stop`, `done <- (pc[t] = "done")`.

`UnlockRecord` is the abstract `ApplyRecord`, `FinishUpdate` is `Finish`,
and the lock and write steps are stuttering steps. `LoopRefined ==
Loop!Spec` is checked in `filelock_refines`, where a manifest has one
entry. With two entries it fails, which is the "stopper leaves only the
inner loop" finding seen from the abstraction.

### `Healthcheck` (with `MC_Healthcheck`)

This module models the `last_sync_integrity` subtree of one client's
status and the `get_health` request that reports it.

- A value is the run that wrote it, the `"In progress"` sentinel, or
  `NoRun`.
- `StartRun` is a new `sync_i_c_m`: `process_request` starts an integrity
  worker for it whether or not the previous one has finished, so the
  runs' writes interleave. A run that fails writes only the six start
  writes of `process_file`; a run that gets through also writes the four
  counters of `process_integrity_from_client` and then
  `date_end_master`. `pending[r]` is what run `r` has still to write.
- `SetClientStatus(r)` is one `set_client_status` call of run `r`,
  atomic under `_clients_lock`.
- `GetHealth` is `get_health`: `get_healthcheck` returns the live
  `status` dict, and `json.dumps` serialises it in one call of the C
  encoder, which no other thread interleaves, so the report is the tree
  as it is at that step.

## 3. Runs

| Run | Expect | What it shows |
|---|---|---|
| `cluster_liveness` | pass | `TypeOK` and `PermitHeldByWorker`: a permit that reads taken always has a live worker of that kind behind it, on every success and failure path and across disconnects and reconnects. `IntegrityRequestAnswered`: a waiting integrity client always gets an answer. `PermitEventuallyFree`: a taken permit is always given back. The last two assume fair scheduling of the threads. |
| `cluster_one_worker` | violation | `AtMostOneWorkerPerKind`, the spec's first invariant, fails. Ask, request, ask again before the worker runs, request: two workers of one kind run. |
| `internal_sync` | violation | `SyncAnswersEachNode`: `sync c1 c2` reports only `c2`. |
| `cluster_stale_verdict` | violation | `IntegrityVerdictFresh`: a client waiting for its integrity answer after a reconnect gets the verdict of a worker of its closed connection. `process_file` sends by node name and never tests the stopper, so the old worker's `sync_m_c_ok` or error reaches the new connection (spec §5 and §4.7.1). |
| `version_order` | violation | `GeIsVersionOrder`: `0.0.0-rc2 >= 0.0.0-rc10` is True; the same run holds pairs such as `0.1.0 >= 0.0.1`, which is False. |
| `helpers_reference` | pass | `FetchCoversRequest`: wdb paging loses and repeats no row. `GetFilesAnswered`: the internal socket's `get_files` has one entry per node asked about, with that node's own answer, the master's files included. `AgentConfMerged`: `get_agent_conf` merges `agent_config` blocks with the same filters and repeated sections, keeping every list value in order and the last value of other options, and pages the result as documented. `OssecConfAnswers`: `get_ossec_conf` returns the merged configuration, a section or a field, and the documented error otherwise. `QueryLowered`: `__query_lower` lowers exactly the text outside quotes. `ErrorsDefined`: every code the modelled code raises (`sort_array`'s 1402-1404, the query check's 2004, `cluster_control`'s 3004) has an `ERRORS` entry, so raising it is not a `KeyError`. `CliExitStatus`: `cluster_control` exits 1 on a bad configuration, and when it makes a framework call, exits 1 exactly when that call fails. `SearchArrayFinds`: `search_array` keeps, in order, the items with (or, negated, without) a leaf under the fields that contains the lowered text. `FilemodeLikeLs`: `filemode` gives the nine permission characters of `ls -l` for every mode, and the type character for the types in its table. `InternalOptionChosen`: an option is read from the local file when it gives it, else from the global one, and is returned exactly when it is digits within bounds. |
| `wdb_limit` | violation | `FetchWithinLimit`: `limit 4` with `request_slice 3` returns 5 rows. |
| `filelock_refines` | pass | `LoopRefined`: with two threads of one client applying overlapping manifests, each thread's update loop implements `RecordLoop` (refinement). |
| `filelock_serialized` | violation | `PerPathSerialized`: two threads are inside the `lockf` critical section of one lock file at once. |
| `filelock_stop` | violation | `StopWithinOneRecord`: after the stopper is set, the loop begins a record of the next manifest entry too. |
| `filelock_torn` | violation | `AtomicPathsNeverTorn`: two workers of one client update one atomic path; the first renames the shared temporary file while the second is writing it, so readers see the target half written. |
| `health_store` | violation | `FinishedRunHasCounters`: two integrity runs of one client overlap; the first finishes (`date_end_master` set) after the second has put the counters back to "In progress", and `get_health` reports a finished run without counters. |

Every property of a passing run has a mutant in `PROJECT.json`. A mutant
is a fault variant of a mapped definition, defined just before it in the
module, and TLC finds the property violated when the mutant is used. The
variants are:
- the archive step overrunning its records (`TypeOK`);
- error path without unlock;
- error path that sends nothing;
- the permit taken before the stopper test;
- paging range one short;
- simple sections replaced instead of merged;
- the 1102 and 1106 error codes of `get_ossec_conf` swapped;
- a merged entry whose loop ignores the stopper (breaks `LoopRefined`);
- `get_files` forwarding the master's own name to the clients;
- `get_values` passing `fields` down to nested dicts;
- the owner's execute bit tried before its combination with set-user-ID;
- `internal_options.conf` read before `local_internal_options.conf`;
- `__query_lower` not turning lowering back on at a closing quote;
- the `Utils` section (1400-1404) missing from `ERRORS`;
- `cluster_control` exiting 0 after printing a failed call's `err`.

### Bounds and why they are enough

- **`cluster_liveness`**:
  - bounds: 1 node, 2 worker slots, 1 record per archive, without
    symmetry (liveness);
  - 2 slots allow two workers alive at once, of the same or different
    kinds, and a stale worker next to a fresh one after a reconnect of
    the same name, which is what the permit hazards need;
  - 1 record reaches the stopper test of the update loop both before and
    after the record is applied; a second record only repeats that test
    and made the run take over 3 minutes;
  - a second node only adds independent interleavings (nodes share no
    permit); with it the run takes more than 10 minutes;
  - `exit` may come at any point, and clients may still connect after it,
    so every interleaving of the workers with the stopper, the joins and
    the removals is reached; about 453k states in 2.3 minutes.
- **`cluster_one_worker`**: 1 node and 2 slots, which is the smallest
  setting with two workers of one kind.
- **`helpers_reference`, `ConfigMerge` input**:
  - two blocks with one section each and up to two options;
  - texts are none, `a` and `b`; a `<directories>` text is none, `a` or
    `a,` (an empty last piece);
  - offsets -1 to 2 and limits -1 to 1 page lists of up to two entries
    before, at and past their ends;
  - two filter values give both "merge into the same entry" and "new
    entry";
  - two options reach the in-section overwrite and append of `_insert`;
  - two same-filter blocks reach `_insert_section`'s merge, which is the
    same path a repeated section inside one block takes;
  - about 68k documents.
- **`version_order`**: components 0 and 1, tags none and `rc`, pre-release
  numbers none, `2` and `10`.
- **`helpers_reference`**:
  - wdb: tables of up to 8 rows, offsets up to 3, limits up to 7, and
    `request_slice` 3. This covers limits below, equal to and above a
    multiple of the slice, and offsets past the end.
  - `get_files`: two clients, each connected or not and answering `ok` or
    `err`, and node lists of up to two names that may include the master.
  - wdb query: every sequence of up to 5 symbols over `SQL`, `sql`, the
    quote and the space, which gives nested and unclosed quotes, empty
    words and queries too short for the checks.
  - `cluster_control`: every configuration, option, health value,
    `--filter-agent-status` given or not, and answer (400 invocations).
  - `search_array`: arrays of up to 2 dicts over keys `a`/`b` whose values
    are a string, a list of one string or a nested dict, texts `a`, `B`
    and empty, fields none, `{a}` and `{b}` (about 5.9k inputs).
  - `filemode`: every permission set of a regular file, and 3 permission
    sets of each other type and of a socket.
  - internal options: both files present or not, every value among no
    option, non-digits and 0 to 3, bounds [1, 2] (144 inputs).
  - about 117k initial states in about 2.3 minutes, most of them
    `ConfigMerge` documents.
- **`filelock_refines`**: 2 threads of one client, 2 paths (one atomic,
  one not) with distinct lock files, one manifest entry per thread,
  merged entries of up to 2 records. Both threads can hold the same
  path's lock, write the same path and the same temporary file, and be
  stopped between records; about 163k states. Two entries per thread
  took more than 30 minutes.
- **`filelock_serialized`**, **`filelock_torn`**: 2 threads of one client
  and 1 path, the smallest setting.
- **`filelock_stop`**: 1 thread, 2 entries, which is what the outer loop
  needs.
- **`health_store`**: 2 runs, each of which may fail or succeed, so two
  runs overlap.

### Fairness

- Worker threads, the refresher and the main thread inside `exit` are
  Python threads that never block forever in the modelled steps (the
  joins have a timeout), so each gets weak fairness: per slot on
  `WorkerStep`, on `RefresherStep`, and on `ExitStep`. In `FileLock` each
  thread gets weak fairness on its `ThreadStep`: `lockf` never blocks a
  thread of the process that holds the lock, so no thread waits on
  another.
- Clients, connects, disconnects, stoppers and the call of `exit` are the
  environment and get no fairness. The liveness properties therefore
  allow the connection to close instead.

## 4. Findings

- **Two workers of one kind** (`master.py:56`). `process_request` starts a
  worker without reading the permit. The worker takes the permit later,
  so two workers of one kind can run at once. This is a divergence from
  spec §4.6, scenario 3, and the first invariant of §8.
- **Version comparison** (`utils.py:503`, `:512`). `WazuhVersion.__ge__`
  compares minor and patch without requiring the higher components to be
  equal, and compares pre-release numbers as strings.
- **Last page past the limit** (`wdb.py:122`). The last page is a full
  `request_slice`, so more rows than the limit are returned.
- **`sync` keeps only the last answer** (`master.py:702`). With a node
  list, `sync` keeps only the last node's answer.
- **Lock files exclude nothing between threads** (`master.py:134`).
  `fcntl.lockf` locks belong to the process, and every worker is a thread
  of the master, so two threads update one path together and the first
  `LOCK_UN` releases the lock for both. Spec §5(iv) says the lock files
  serialize concurrent updates.
- **Torn atomic files** (`master.py:137`). The temporary file lives in
  the client's `tmp_path`, shared by all its workers, so the rename of one
  worker can publish the half-written temporary file of another
  (`filelock_torn`), against spec §5(iv).
- **The stopper leaves only the inner loop** (`master.py:186`). After a
  disconnect the loop still begins a record of every later manifest entry,
  against spec scenario 6.
- **Stale integrity verdict** (`master.py:404`, `:428`). A worker of a
  closed connection sends its verdict by node name to the reconnected
  client, which takes it as the answer to its new request
  (`cluster_stale_verdict`).
- **Finished run without counters** (`master.py:418`). Overlapping
  integrity workers of one client write its healthcheck subtree field by
  field, so `get_health` can report a finished run whose counters read
  "In progress" (`health_store`).

## 5. Not modelled yet, and the plan

Done: `ClusterMaster`, `InternalSocket`, `ConfigMerge`, `WazuhVersion`,
`WdbPaging`, `WdbQuery`, `IntegritySync` (unchecked), `UtilsArray`
(unchecked), `FileLock` (refining `RecordLoop`), `Healthcheck`,
`WazuhException`, `ClusterControl`, `InputValidator`, `UtilsSearch`,
`UtilsFiles` and `InternalOptions`; the master's `exit` and the
refresher's stop.

Next, in order:
1. **Integrity round trip**: the client applying the answer (from the
   spec) and the extra-valid push, with "the client mirrors the master's
   catalog" as the abstract spec. `IntegritySync` gives the master's half.
2. **Permit freed by a stale worker** (`master.py:364`). The old
   worker's `lock_status(False)` frees the permit a worker of the new
   connection holds. A property "a free permit has no live holder" is
   violated first by the double start of `cluster_one_worker`, so it
   needs that finding fixed in the model to be checked on its own.

Known divergences that have no run (every run slot is in use):
- `cluster_control` exits 0 on "Wrong arguments" and after a failed
  import (`exit()` without a status); spec §6 says 1 on any error.
- `__query_input_validation` raises `IndexError` on a query of too few
  words (`global sql`), not `WazuhException(2004)`.
- `InputValidator.group([])` raises `TypeError`; the docstring says it
  returns True or False.
- `filemode` shows a socket as a regular file (`-`): `_filemode_table`
  has no socket row, and `S_IFSOCK` (0o140000) contains `S_IFREG`'s bit.
- The `__query_lower` docstring speaks of double quotes; the code toggles
  on single quotes.
- `sort_array(array, sort_by=None, allowed_sort_fields=...)` raises a
  `TypeError` iterating `None`.
