----------------------------- MODULE FileLock -------------------------------
(***************************************************************************)
(* The update loop of MasterManagerHandler._update_client_files_in_master *)
(* (cluster/master.py) run by several worker threads of the master at      *)
(* once: each walks the entries of its archive's cluster_control.json,     *)
(* unmerges the merged ones into records, and applies every record with    *)
(* update_file, which takes <lockdir>/<basename>.lock with fcntl.lockf,    *)
(* calls _update_file and releases the lock.                              *)
(*                                                                         *)
(* fcntl.lockf locks are POSIX record locks: they belong to the process.  *)
(* All the workers are threads of the master process, so LOCK_EX never   *)
(* blocks one of them on a lock another one holds, and LOCK_UN by any of  *)
(* them releases it.  _update_file is not in this repository; it is      *)
(* modelled from the spec (4.10): an atomic profile writes a temporary    *)
(* file and renames it over the target, another writes in place.  The     *)
(* temporary file lies in the tmp_dir update_file passes, tmp_path, which *)
(* is one directory per client (queue/cluster/<client>/tmp_files), so two *)
(* workers of one client updating the same path share it.                *)
(***************************************************************************)
EXTENDS Naturals, Sequences, SequencesExt, FiniteSets

CONSTANTS
    Threads,      \* worker threads that run the update loop
    ClientOf,     \* the client whose archive each thread applies
    Paths,        \* files the archives update
    Basename,     \* os.path.basename of each path: names its lock file
    WriteMode,    \* write_mode of each path's cluster item
    MaxEntries,   \* entries of one cluster_control.json
    MaxRecords,   \* records of one merged entry
    NoThread      \* model value: nobody wrote the file yet

ASSUME /\ DOMAIN ClientOf = Threads
       /\ Basename \in [Paths -> STRING]
       /\ WriteMode \in [Paths -> {"atomic", "non-atomic"}]
       /\ MaxEntries \in Nat \ {0} /\ MaxRecords \in Nat \ {0}

\* An entry of client_files: a merged one unmerges into records, another is
\* one file.
Entry == [merged : {TRUE}, records : BoundedSeq(Paths, MaxRecords) \ {<<>>}]
         \cup [merged : {FALSE}, records : {<<p>> : p \in Paths}]

Manifest == BoundedSeq(Entry, MaxEntries) \ {<<>>}

LockFiles == {Basename[p] : p \in Paths}

Clients == {ClientOf[t] : t \in Threads}

\* A file's content: the thread whose write it holds, and whether that
\* write is complete; a temporary file that does not exist has no writer.
File == [writer : Threads \cup {NoThread}, whole : BOOLEAN]
NoFile == [writer |-> NoThread, whole |-> TRUE]

\* pc of a thread:
\*  next       between records
\*  locked     lockf(LOCK_EX) returned
\*  writing    in-place write started, target truncated
\*  tmpwriting temporary file opened for writing, truncated
\*  renaming   temporary file written, rename pending
\*  unlocking  _update_file done or raised, LOCK_UN pending
\*  done       loop over, status saved
PC == {"next", "locked", "writing", "tmpwriting", "renaming", "unlocking", "done"}

VARIABLES
    manifest,   \* the thread's client_files, in iteration order
    entry,      \* index of the entry being applied
    rec,        \* index of the record within a merged entry
    pc,
    stop,       \* the handler's stopper event is set
    locked,     \* the master process holds the lockf lock of a lock file
    disk,       \* what a reader of a path sees: last writer, whole or not
    tmp,        \* the temporary file of each client's tmp_dir and path
    afterStop   \* records a thread began after its stopper was set

vars == <<manifest, entry, rec, pc, stop, locked, disk, tmp, afterStop>>

Current(t) == manifest[t][entry[t]].records[rec[t]]
LockOf(t) == Basename[Current(t)]

\* Threads between lockf(LOCK_EX) and LOCK_UN.
InCritical == {t \in Threads : pc[t] \in PC \ {"next", "done"}}

TmpOf(t) == tmp[ClientOf[t]][Current(t)]

Init ==
    /\ manifest \in [Threads -> Manifest]
    /\ entry = [t \in Threads |-> 1]
    /\ rec = [t \in Threads |-> 1]
    /\ pc = [t \in Threads |-> "next"]
    /\ stop = [t \in Threads |-> FALSE]
    /\ locked = [l \in LockFiles |-> FALSE]
    /\ disk = [p \in Paths |-> NoFile]
    /\ tmp = [c \in Clients |-> [p \in Paths |-> NoFile]]
    /\ afterStop = [t \in Threads |-> 0]

-----------------------------------------------------------------------------
\* update_file: open(lock_full_path, 'a+') and fcntl.lockf(LOCK_EX). The
\* process already holding the lock does not wait for itself.
LockRecord(t) ==
    /\ pc[t] = "next"
    /\ entry[t] <= Len(manifest[t])
    /\ locked' = [locked EXCEPT ![LockOf(t)] = TRUE]
    /\ pc' = [pc EXCEPT ![t] = "locked"]
    /\ afterStop' = [afterStop EXCEPT ![t] = IF stop[t] THEN @ + 1 ELSE @]
    /\ UNCHANGED <<manifest, entry, rec, stop, disk, tmp>>

\* _update_file up to its last write: an atomic profile opens the temporary
\* file in tmp_dir, truncating it, another truncates the target and writes
\* into it. A WazuhException (unknown agent) or another error ends it
\* early; it is counted in n_errors and the lock is still released.
UpdateFileBegin(t) ==
    /\ pc[t] = "locked"
    /\ \/ /\ WriteMode[Current(t)] = "atomic"
          /\ tmp' = [tmp EXCEPT ![ClientOf[t]][Current(t)] = [writer |-> t, whole |-> FALSE]]
          /\ pc' = [pc EXCEPT ![t] = "tmpwriting"]
          /\ UNCHANGED disk
       \/ /\ WriteMode[Current(t)] = "non-atomic"
          /\ disk' = [disk EXCEPT ![Current(t)] = [writer |-> t, whole |-> FALSE]]
          /\ pc' = [pc EXCEPT ![t] = "writing"]
          /\ UNCHANGED tmp
       \/ /\ pc' = [pc EXCEPT ![t] = "unlocking"]
          /\ UNCHANGED <<disk, tmp>>
    /\ UNCHANGED <<manifest, entry, rec, stop, locked, afterStop>>

\* The new content written to the open temporary file and flushed. The file
\* is whole unless another thread has opened it since; if another thread
\* has already renamed it over the target, the writes land in the target.
WriteTmp(t) ==
    /\ pc[t] = "tmpwriting"
    /\ tmp' = IF TmpOf(t).writer = t
              THEN [tmp EXCEPT ![ClientOf[t]][Current(t)].whole = TRUE]
              ELSE tmp
    /\ disk' = IF disk[Current(t)].writer = t
               THEN [disk EXCEPT ![Current(t)].whole = TRUE]
               ELSE disk
    /\ pc' = [pc EXCEPT ![t] = "renaming"]
    /\ UNCHANGED <<manifest, entry, rec, stop, locked, afterStop>>

\* _update_file's last step: the in-place write completed, or the
\* temporary file renamed over the target, whatever it holds now. When
\* another thread has already renamed it away the rename raises, which is
\* counted as an error.
UpdateFileEnd(t) ==
    /\ \/ /\ pc[t] = "writing"
          /\ disk' = [disk EXCEPT ![Current(t)] = [writer |-> t, whole |-> TRUE]]
          /\ UNCHANGED tmp
       \/ /\ pc[t] = "renaming"
          /\ TmpOf(t) # NoFile
          /\ disk' = [disk EXCEPT ![Current(t)] = TmpOf(t)]
          /\ tmp' = [tmp EXCEPT ![ClientOf[t]][Current(t)] = NoFile]
       \/ /\ pc[t] = "renaming"
          /\ TmpOf(t) = NoFile
          /\ UNCHANGED <<disk, tmp>>
    /\ pc' = [pc EXCEPT ![t] = "unlocking"]
    /\ UNCHANGED <<manifest, entry, rec, stop, locked, afterStop>>

\* Fault variant of NextPosition: the stopper is not looked at.
NextPositionNoBreak(t) ==
    LET e == manifest[t][entry[t]]
    IN IF e.merged /\ rec[t] < Len(e.records)
       THEN <<entry[t], rec[t] + 1>>
       ELSE <<entry[t] + 1, 1>>

\* The position after a record: a merged entry goes on with its next record
\* unless the stopper is set ("break"); otherwise the outer loop moves to
\* the next entry.
NextPosition(t) ==
    LET e == manifest[t][entry[t]]
    IN IF e.merged /\ ~stop[t] /\ rec[t] < Len(e.records)
       THEN <<entry[t], rec[t] + 1>>
       ELSE <<entry[t] + 1, 1>>

\* update_file: fcntl.lockf(LOCK_UN) and close, which drop the process's
\* lock whoever took it; then the loops move on.
UnlockRecord(t) ==
    /\ pc[t] = "unlocking"
    /\ locked' = [locked EXCEPT ![LockOf(t)] = FALSE]
    /\ entry' = [entry EXCEPT ![t] = NextPosition(t)[1]]
    /\ rec' = [rec EXCEPT ![t] = NextPosition(t)[2]]
    /\ pc' = [pc EXCEPT ![t] = "next"]
    /\ UNCHANGED <<manifest, stop, disk, tmp, afterStop>>

\* After the loop: the error summary logged and n_merged_files saved with
\* set_client_status.
FinishUpdate(t) ==
    /\ pc[t] = "next"
    /\ entry[t] > Len(manifest[t])
    /\ pc' = [pc EXCEPT ![t] = "done"]
    /\ UNCHANGED <<manifest, entry, rec, stop, locked, disk, tmp, afterStop>>

\* The client's connection closes: the handler's stopper is set.
SetStopper(t) ==
    /\ ~stop[t]
    /\ pc[t] # "done"
    /\ stop' = [stop EXCEPT ![t] = TRUE]
    /\ UNCHANGED <<manifest, entry, rec, pc, locked, disk, tmp, afterStop>>

-----------------------------------------------------------------------------
ThreadStep(t) ==
    \/ LockRecord(t)
    \/ UpdateFileBegin(t)
    \/ WriteTmp(t)
    \/ UpdateFileEnd(t)
    \/ UnlockRecord(t)
    \/ FinishUpdate(t)

Next == \E t \in Threads : ThreadStep(t) \/ SetStopper(t)

\* Worker threads are scheduled by the interpreter and lockf never blocks
\* them on each other; the stopper is the environment.
Spec == Init /\ [][Next]_vars /\ \A t \in Threads : WF_vars(ThreadStep(t))

-----------------------------------------------------------------------------
(* Properties.                                                             *)

\* Spec 5(iv) and 4.7 step 3: updates of one path are serialized by its
\* lock file: a thread between LOCK_EX and LOCK_UN holds the lock and no
\* other thread is inside the same lock file.
PerPathSerialized ==
    \A t \in InCritical :
        /\ locked[LockOf(t)]
        /\ \A u \in InCritical \ {t} : LockOf(u) # LockOf(t)

\* Scenario 6 of the spec: after the connection closes, the worker returns
\* within one record boundary: at most one record is begun after the
\* stopper is set.
StopWithinOneRecord == \A t \in Threads : afterStop[t] <= 1

\* Spec 4.10 and the invariant of section 8: a reader of a path whose
\* profile is atomic sees a whole file, whatever the writers interleave,
\* since the new content only appears by rename. Two workers of one client
\* share the temporary file, and lockf does not keep them apart.
AtomicPathsNeverTorn ==
    \A p \in Paths : WriteMode[p] = "atomic" => disk[p].whole

-----------------------------------------------------------------------------
(* Refinement of RecordLoop.  A thread's records left are those of its    *)
(* current entry from the current record on, and those of the entries     *)
(* after it; a record counts as applied when its lock is released.        *)

RecordsLeft(t) ==
    IF entry[t] > Len(manifest[t]) THEN 0
    ELSE Len(manifest[t][entry[t]].records) - rec[t] + 1
         + FoldLeft(LAMBDA n, e : n + Len(e.records), 0,
                    SubSeq(manifest[t], entry[t] + 1, Len(manifest[t])))

Loop == INSTANCE RecordLoop WITH
            left <- [t \in Threads |-> RecordsLeft(t)],
            stop <- stop,
            done <- [t \in Threads |-> pc[t] = "done"]

\* The entry-by-entry loop behaves as ClusterMaster's counter of records:
\* every step either leaves the count alone or applies one record, a record
\* applied after the stopper is set ends the loop, and every loop ends.
\* It holds for a cluster_control.json of one entry; with several, the
\* break only leaves the inner loop and the next entry is still applied.
LoopRefined == Loop!Spec

=============================================================================
