---------------------------- MODULE MCEmbeddedDB ----------------------------
(***************************************************************************)
(* Instances of EmbeddedDB, and the refinement of KVStore.                 *)
(***************************************************************************)
EXTENDS EmbeddedDB, TLC

Config(disable_wal, enable_compaction_waterline, max_memtable_level, write_buffer_size) ==
  [disable_wal |-> disable_wal, enable_compaction_waterline |-> enable_compaction_waterline,
   max_memtable_level |-> max_memtable_level, write_buffer_size |-> write_buffer_size,
   target_file_size |-> 2, level0_file_num_compaction_trigger |-> 1, stale_percent |-> 50,
   max_manifest_records |-> 4]

\* A database with a write ahead log that crashes, one that is read, and one that replays its
\* writes from elsewhere, with a waterline, as the metastore does.
Logging == Config(FALSE, FALSE, 2, 2)
Reading == Config(FALSE, FALSE, 2, 1)
Replaying == Config(TRUE, TRUE, 1, 2)
MCOptions == {Logging, Reading, Replaying}

Put(keys) == [k \in keys |-> "Value"]
Delete(k) == k :> "Deletion"
MCBatches == {Put({1, 3}), Put({1}), Delete(2)}

\* Crashes and snapshots are explored apart: a crash ends every snapshot.
Scenario ==
  LET held == \E r \in Reader : snapshots'[r] # NoSnapshot
  IN  /\ opt # Logging => write_lock' # Poisoned
      /\ opt = Logging => ~held
      /\ opt = Reading => crashes' = 0 /\ log_last_sequence' <= 3
      /\ opt = Replaying => /\ log_last_sequence' <= IF held THEN 2 ELSE 3
                            /\ held => crashes' = 0
                            /\ \A e \in write_lock'.entries : e.typ = "Value"

MCSpec == DBInit /\ [][DBNext /\ Scenario]_db_vars

-----------------------------------------------------------------------------
\* Databases without a waterline, one of them without a log, for the temporal properties.
Volatile == Config(TRUE, FALSE, 1, 1)
LiveOptions == {Reading, Volatile}
Defaults == {Config(FALSE, FALSE, 2, 1)}
Deleting == {Put({1}), Delete(1)}
LiveBatches == {Put({1, 3}), Put({1})}

Abstract == INSTANCE KVStore WITH
  Key <- NeverDeleted,
  kv <- [k \in NeverDeleted |-> Lookup(mutable_table \cup immutable_table.entries,
                                       version_set.tables, k, log_last_sequence)],
  pending <- LET keys == {e.key : e \in write_lock.entries} \cap NeverDeleted
             IN  [keys |-> keys, sequence |-> IF keys = {} THEN 0 ELSE write_lock.sequence],
  durable <- ~opt.disable_wal

\* The database implements the abstract store: rotating, flushing, compacting and reopening
\* change nothing that a read returns, a batch takes effect at once, and a crash loses at most
\* the write in progress or, without a write ahead log, a suffix of the writes.
Implements == Abstract!Spec
=============================================================================
