----------------------------- MODULE EmbeddedDB -----------------------------
(***************************************************************************)
(* The embedded key-value store of pkg/sstable: writes with their write    *)
(* ahead log, memtables, the compaction thread, snapshots and backups, the *)
(* manifest, and reopening after a crash at any moment.                    *)
(*                                                                         *)
(* EmbeddedDBShared::state is behind a lock that readers share.  An action *)
(* that takes it needs write_lock = NoWrite; a write holds it over two steps.  *)
(***************************************************************************)
EXTENDS Tables

CONSTANTS
  Options,      \* the sets of options that the database may be created with
  Batches,      \* the batches written: functions from some keys to "Value" or "Deletion"
  Custom,       \* the sequence numbers that callers choose themselves
  Reader,       \* those who hold snapshots and backups
  MaxSequence,  \* bound: sequence numbers
  MaxCrashes,  \* bound: crashes
  MaxWaits      \* bound: calls of wait_for_compaction

VARIABLES
  opt,                                          \* EmbeddedDBOptions
  log_last_sequence, mutable_table, immutable_table, version_set,  \* EmbeddedDBState
  write_lock,                                   \* the write that holds the lock
  next_compaction_waterline,
  pending_release_files, released_files,        \* CompactionState
  thread,                                       \* the compaction thread, with its edit
  notified,                                     \* the channel of compaction_notifier
  callback,                                     \* whether someone waits for compaction
  snapshots,                                    \* what every reader holds
  files,                                        \* the disk: tables, logs, manifests, CURRENT
  written,                                      \* history: the entries that a read may return
  crashes, waits                               \* history: the bounded calls

memory == <<log_last_sequence, mutable_table, immutable_table, version_set, write_lock>>
release == <<pending_release_files, released_files>>
bounds == <<crashes, waits>>
db_vars == <<opt, memory, next_compaction_waterline, release, thread, notified, callback,
          snapshots, files, written, bounds>>

Unset == -1    \* a field that an edit does not have
NoLog == 0     \* prev_log_number and log_number when there is none
NoWrite == [entries |-> {}, sequence |-> 0]
Poisoned == [entries |-> {}, sequence |-> Unset]       \* the lock of a failed write
Queued == [entries |-> {}, sequence |-> -2]            \* a write behind the thread's read
NoTable == [entries |-> {}, last_sequence |-> Unset]   \* immutable_table is None
NoSnapshot == [last_sequence |-> Unset, compaction_waterline |-> 0, memtables |-> {}, tables |-> {}]

Or(field, old) == IF field = Unset THEN old ELSE field

-----------------------------------------------------------------------------
(* Version sets, their edits and the manifest.                             *)

NoEdit == [log_number |-> Unset, prev_log_number |-> Unset, last_sequence |-> Unset,
           next_file_number |-> Unset, compaction_waterline |-> Unset,
           new_files |-> {}, deleted_files |-> {}]

\* The compaction thread between two of its steps, with the edit that it works on.
At(pc) == [pc |-> pc, kind |-> "None", edit |-> NoEdit]

Numbers(tables) == {t.number : t \in tables}

\* Version::insert makes the levels up to that of the table.
Levels(levels, tables) ==
  CHOOSE n \in {levels} \cup {t.level + 1 : t \in tables} :
    n >= levels /\ \A t \in tables : n >= t.level + 1

\* apply_new_edit
ApplyEdit(vs, edit) ==
  [tables |-> (vs.tables \ edit.deleted_files) \cup edit.new_files,
   levels |-> Levels(vs.levels, edit.new_files),
   next_file_number |-> Or(edit.next_file_number, vs.next_file_number),
   log_number |-> Or(edit.log_number, vs.log_number),
   prev_log_number |-> Or(edit.prev_log_number, vs.prev_log_number),
   last_sequence |-> Or(edit.last_sequence, vs.last_sequence),
   compaction_waterline |-> Or(edit.compaction_waterline, vs.compaction_waterline)]

\* A manifest is what recover_existing makes of its records: the version set, the largest
\* file number seen, whether no record was refused, and how many records it has.
AppendEdit(m, edit) ==
  LET vs == m.version_set
      after == ApplyEdit(vs, edit)
      accepted ==
        /\ edit.log_number # Unset => edit.log_number >= vs.log_number /\ edit.log_number >= m.highest
        /\ after.last_sequence >= vs.last_sequence
        /\ after.next_file_number >= vs.next_file_number
        /\ edit.deleted_files \subseteq vs.tables
        /\ \A t \in edit.new_files : t.number > m.highest
      numbers == {m.highest, after.log_number} \cup Numbers(edit.new_files)
  IN  [version_set |-> after, accepted |-> m.accepted /\ accepted, records |-> m.records + 1,
       highest |-> CHOOSE n \in numbers : \A k \in numbers : k <= n]

\* write_to_new: one record with the whole version set.
NewManifest(vs) ==
  LET numbers == {0, vs.log_number} \cup Numbers(vs.tables)
  IN  [version_set |-> [vs EXCEPT !.levels = Levels(0, vs.tables)], accepted |-> TRUE,
       records |-> 1, highest |-> CHOOSE n \in numbers : \A k \in numbers : k <= n]

-----------------------------------------------------------------------------
(* open_new: the manifest is file 2 and the log, if there is one, file 3.  *)

Created(o) ==
  [tables |-> {}, levels |-> 0, last_sequence |-> 0, compaction_waterline |-> 0,
   next_file_number |-> IF o.disable_wal THEN 3 ELSE 4,
   log_number |-> IF o.disable_wal THEN NoLog ELSE 3, prev_log_number |-> NoLog]

DBInit ==
  /\ opt \in Options
  /\ version_set = Created(opt)
  /\ log_last_sequence = 0 /\ mutable_table = {} /\ immutable_table = NoTable
  /\ write_lock = NoWrite
  /\ next_compaction_waterline = 0
  /\ pending_release_files = {} /\ released_files = {}
  /\ thread = At("Loop")
  /\ notified = FALSE /\ callback = FALSE
  /\ snapshots = [r \in Reader |-> NoSnapshot]
  /\ files = [tables |-> {}, current |-> 2,
              manifests |-> [n \in {2} |-> NewManifest(Created(opt))],
              logs |-> [n \in {version_set.log_number} \ {NoLog} |-> {}]]
  /\ written = {}
  /\ crashes = 0 /\ waits = 0

-----------------------------------------------------------------------------
(* The callers.                                                            *)

\* The thread holds the lock for reading in "Nested", so that a writer has to queue then.
LockFree == write_lock = NoWrite
CanLock == write_lock = NoWrite /\ thread.pc # "Nested"

\* Mutants: a table is rotated while the previous one waits to be flushed, or while empty.
Full_busy(table) == Cardinality(table) >= opt.write_buffer_size
Full_empty(table) == immutable_table = NoTable

Full(table) == Cardinality(table) >= opt.write_buffer_size /\ immutable_table = NoTable

\* write, up to the write ahead log.  Every entry of a batch has its sequence.
WriteBegin(batch, sequence) ==
  /\ CanLock
  /\ sequence > log_last_sequence /\ sequence <= MaxSequence
  /\ log_last_sequence' = sequence
  /\ write_lock' = [sequence |-> sequence, entries |->
                  {[key |-> k, sequence |-> sequence, typ |-> batch[k]] : k \in DOMAIN batch}]
  /\ UNCHANGED <<opt, mutable_table, immutable_table, version_set, next_compaction_waterline,
                 release, thread, notified, callback, snapshots, files, written, bounds>>

\* write with a sequence that is not above the last: it returns without leaving the lock's
\* critical section, which poisons the lock.
WriteRefused(sequence) ==
  /\ CanLock
  /\ sequence <= log_last_sequence
  /\ write_lock' = Poisoned
  /\ UNCHANGED <<opt, log_last_sequence, mutable_table, immutable_table, version_set,
                 next_compaction_waterline, release, thread, notified, callback, snapshots,
                 files, written, bounds>>

\* A writer that comes between the two reads of the thread waits for the first to end, and
\* the second waits for the writer (the lock of async_lock prefers writers).
WriteQueued ==
  /\ write_lock = NoWrite /\ thread.pc = "Nested"
  /\ write_lock' = Queued
  /\ UNCHANGED <<opt, log_last_sequence, mutable_table, immutable_table, version_set,
                 next_compaction_waterline, release, thread, notified, callback, snapshots,
                 files, written, bounds>>

\* write, from the write ahead log on.
Logged(logs) ==
  IF opt.disable_wal THEN logs
  ELSE [logs EXCEPT ![version_set.log_number] = @ \cup write_lock.entries]

WriteEnd ==
  /\ write_lock.entries # {}
  /\ files' = [files EXCEPT !.logs = Logged(@)]
  /\ mutable_table' = mutable_table \cup write_lock.entries
  /\ written' = written \cup write_lock.entries
  /\ write_lock' = NoWrite
  /\ notified' = (notified \/ Full(mutable_table'))
  /\ UNCHANGED <<opt, log_last_sequence, immutable_table, version_set,
                 next_compaction_waterline, release, thread, callback, snapshots, bounds>>

\* snapshot: the memtables and the tables of now.
Snapshot(r) ==
  /\ LockFree /\ snapshots[r] = NoSnapshot
  /\ snapshots' = [snapshots EXCEPT ![r] =
       [last_sequence |-> log_last_sequence,
        compaction_waterline |-> version_set.compaction_waterline,
        memtables |-> mutable_table \cup immutable_table.entries, tables |-> version_set.tables]]
  /\ UNCHANGED <<opt, memory, next_compaction_waterline, release, thread, notified, callback,
                 files, written, bounds>>

\* backup: the tables alone, up to what was flushed.
Backup(r) ==
  /\ LockFree /\ snapshots[r] = NoSnapshot
  /\ snapshots' = [snapshots EXCEPT ![r] =
       [last_sequence |-> version_set.last_sequence,
        compaction_waterline |-> version_set.compaction_waterline,
        memtables |-> {}, tables |-> version_set.tables]]
  /\ UNCHANGED <<opt, memory, next_compaction_waterline, release, thread, notified, callback,
                 files, written, bounds>>

\* Mutants: the files are removed while readers hold them, those that are held are
\* forgotten, or the thread is not told.
Release_at_once(tables, held, pending) ==
  /\ pending_release_files' = {}
  /\ released_files' = released_files \cup pending
  /\ notified' = TRUE
Release_forgets(tables, held, pending) ==
  /\ pending_release_files' = {}
  /\ released_files' = released_files
       \cup (pending \ UNION {Numbers(held[r].tables) : r \in Reader})
  /\ notified' = TRUE

\* The release callback, for the tables that lose their last reference when the version has
\* these tables, the readers have these snapshots and these files may go.
Release(tables, held, pending) ==
  LET kept == Numbers(tables) \cup UNION {Numbers(held[r].tables) : r \in Reader}
      gone == pending \ kept
  IN  /\ pending_release_files' = pending \ gone
      /\ released_files' = released_files \cup gone
      /\ notified' = (notified \/ gone # {})

\* Drop of a snapshot or a backup.
DropSnapshot(r) ==
  /\ snapshots[r] # NoSnapshot
  /\ snapshots' = [snapshots EXCEPT ![r] = NoSnapshot]
  /\ Release(version_set.tables, snapshots', pending_release_files)
  /\ UNCHANGED <<opt, memory, next_compaction_waterline, thread, callback, files, written, bounds>>

\* update_compaction_waterline.  Its callers pass sequences that were written.
UpdateWaterline(value) ==
  /\ opt.enable_compaction_waterline
  /\ value > next_compaction_waterline /\ value <= log_last_sequence
  /\ next_compaction_waterline' = value
  /\ notified' = TRUE
  /\ UNCHANGED <<opt, memory, release, thread, callback, snapshots, files, written, bounds>>

\* Mutant: the thread is not woken.
WaitForCompaction_quiet ==
  /\ CanLock /\ waits < MaxWaits
  /\ waits' = waits + 1
  /\ callback' = TRUE
  /\ UNCHANGED <<opt, memory, next_compaction_waterline, release, thread, notified, snapshots,
                 files, written, crashes>>

\* wait_for_compaction
WaitForCompaction ==
  /\ CanLock /\ waits < MaxWaits
  /\ waits' = waits + 1
  /\ callback' = TRUE /\ notified' = TRUE
  /\ UNCHANGED <<opt, memory, next_compaction_waterline, release, thread, snapshots, files,
                 written, crashes>>

-----------------------------------------------------------------------------
(* compaction_thread.  It decides under the lock what to do, does it without *)
(* the lock, and takes the lock again to apply the edit.                     *)

ThreadStep(pc, next) == thread.pc = pc /\ thread' = [thread EXCEPT !.pc = next]

Wake ==
  /\ ThreadStep("Wait", "Loop")
  /\ notified /\ notified' = FALSE
  /\ UNCHANGED <<opt, memory, next_compaction_waterline, release, callback, snapshots, files,
                 written, bounds>>

RemoveReleased ==
  /\ ThreadStep("Loop", "Look")
  /\ files' = [files EXCEPT !.tables = @ \ released_files]
  /\ released_files' = {}
  /\ UNCHANGED <<opt, memory, next_compaction_waterline, pending_release_files, notified,
                 callback, snapshots, written, bounds>>

\* The thread reads the state, and with a waterline reads it again inside.
LookTwice ==
  /\ opt.enable_compaction_waterline /\ LockFree
  /\ ThreadStep("Look", "Nested")
  /\ UNCHANGED <<opt, memory, next_compaction_waterline, release, notified, callback,
                 snapshots, files, written, bounds>>

Looks ==
  /\ LockFree
  /\ thread.pc = (IF opt.enable_compaction_waterline THEN "Nested" ELSE "Look")

Decide(pc, kind, edit) ==
  /\ Looks
  /\ thread' = [pc |-> pc, kind |-> kind, edit |-> edit]
  /\ UNCHANGED <<opt, memory, next_compaction_waterline, release, notified, callback,
                 snapshots, files, written, bounds>>

\* Below it the filter keeps one entry of a key; without a waterline that is everywhere.
Waterline == IF opt.enable_compaction_waterline THEN next_compaction_waterline ELSE MaxSequence

WaterlineDue ==
  /\ opt.enable_compaction_waterline
  /\ next_compaction_waterline > version_set.compaction_waterline
RaiseWaterline ==
  /\ WaterlineDue
  /\ Decide("Manifest", "Waterline",
            [NoEdit EXCEPT !.compaction_waterline = next_compaction_waterline])

\* A full memtable becomes immutable, and a new log begins.
Rotate ==
  /\ ~WaterlineDue /\ Full(mutable_table)
  /\ IF opt.disable_wal
     THEN Decide("Apply", "Rotate", NoEdit)
     ELSE LET n == version_set.next_file_number
          IN  Decide("Create", "Rotate",
                     [NoEdit EXCEPT !.next_file_number = n + 1, !.log_number = n,
                                    !.prev_log_number = version_set.log_number])

\* Mutant: the numbers of the tables are not recorded.
Build_again(edit, S, remove_deleted, level) ==
  LET n == version_set.next_file_number
  IN  [edit EXCEPT !.new_files =
         BuildTables(S, remove_deleted, Waterline, opt.target_file_size, level, n)]

\* The edit for the tables that are built of S.
Build(edit, S, remove_deleted, level) ==
  LET n == version_set.next_file_number
      tables == BuildTables(S, remove_deleted, Waterline, opt.target_file_size, level, n)
  IN  [edit EXCEPT !.next_file_number = n + Cardinality(tables), !.new_files = tables]

FlushMemtable ==
  LET S == immutable_table.entries
      selected == PickMemtableLevel(version_set.tables, opt.max_memtable_level, Span(S))
      edit == [NoEdit EXCEPT !.last_sequence = immutable_table.last_sequence,
                 !.prev_log_number = IF version_set.prev_log_number = NoLog THEN Unset ELSE NoLog]
  IN  /\ ~WaterlineDue /\ immutable_table # NoTable
      /\ Decide("Create", "Flush", Build(edit, S, ~selected.found_overlap, selected.level))

\* Every compaction writes its tables to level 1.
Level0Due ==
  /\ version_set.levels > 1
  /\ Cardinality(AtLevel(version_set.tables, 0)) >= opt.level0_file_num_compaction_trigger
StaleDue ==
  /\ opt.enable_compaction_waterline
  /\ StaleTables(version_set.tables, Waterline, opt.stale_percent) # {}

Compact(spec) ==
  Decide("Create", "Compact",
         Build([NoEdit EXCEPT !.deleted_files = spec.tables], Content(spec.tables),
               ~spec.found_overlap, 1))

MemtablesDone == ~WaterlineDue /\ ~Full(mutable_table) /\ immutable_table = NoTable
CompactLevel0 == MemtablesDone /\ Level0Due /\ Compact(SelectLevel0(version_set.tables))
CompactStale ==
  /\ MemtablesDone /\ ~Level0Due /\ StaleDue
  /\ Compact(SelectStale(version_set.tables, Waterline, opt.stale_percent))

TablesDone == MemtablesDone /\ ~Level0Due /\ ~StaleDue
RolloverDue == files.manifests[files.current].records >= opt.max_manifest_records
Rollover == TablesDone /\ RolloverDue /\ Decide("NewManifest", "Rollover", NoEdit)
Idle ==
  /\ TablesDone /\ ~RolloverDue
  /\ Decide(IF callback THEN "Callbacks" ELSE "Wait", "None", NoEdit)

\* The callbacks are sent under the lock, taken anew.
SendCallbacks ==
  /\ LockFree /\ ThreadStep("Callbacks", "Wait")
  /\ callback' = FALSE
  /\ UNCHANGED <<opt, memory, next_compaction_waterline, release, notified, snapshots, files,
                 written, bounds>>

\* The new log, or the new tables.
CreateFiles ==
  LET edit == thread.edit
      logs == {edit.log_number} \ {Unset}
  IN  /\ ThreadStep("Create", "Manifest")
      /\ files' = [files EXCEPT !.tables = @ \cup Numbers(edit.new_files),
                     !.logs = [n \in DOMAIN @ \cup logs |-> IF n \in logs THEN {} ELSE @[n]]]
      /\ UNCHANGED <<opt, memory, next_compaction_waterline, release, notified, callback,
                     snapshots, written, bounds>>

\* The edit becomes durable.
AppendManifest ==
  /\ ThreadStep("Manifest", IF thread.edit.prev_log_number = NoLog THEN "RemoveLog" ELSE "Apply")
  /\ files' = [files EXCEPT !.manifests[files.current] = AppendEdit(@, thread.edit)]
  /\ UNCHANGED <<opt, memory, next_compaction_waterline, release, notified, callback,
                 snapshots, written, bounds>>

\* Mutant: the log in use is removed.
RemoveLog_current ==
  /\ ThreadStep("RemoveLog", "Apply")
  /\ files' = [files EXCEPT !.logs = [n \in DOMAIN @ \ {version_set.log_number} |-> @[n]]]
  /\ UNCHANGED <<opt, memory, next_compaction_waterline, release, notified, callback,
                 snapshots, written, bounds>>

RemoveLog ==
  /\ ThreadStep("RemoveLog", "Apply")
  /\ files' = [files EXCEPT !.logs =
                 [n \in DOMAIN @ \ {version_set.prev_log_number} |-> @[n]]]
  /\ UNCHANGED <<opt, memory, next_compaction_waterline, release, notified, callback,
                 snapshots, written, bounds>>

\* The edit is applied to the version set in memory.
Apply ==
  LET edit == thread.edit
  IN  /\ LockFree /\ thread.pc = "Apply"
      /\ thread' = At("Loop")
      /\ version_set' = ApplyEdit(version_set, edit)
      /\ mutable_table' = IF thread.kind = "Rotate" THEN {} ELSE mutable_table
      /\ immutable_table' =
           CASE thread.kind = "Rotate" -> [entries |-> mutable_table, last_sequence |-> log_last_sequence]
             [] thread.kind = "Flush" -> NoTable
             [] OTHER -> immutable_table
      /\ Release(version_set'.tables, snapshots,
                 pending_release_files \cup Numbers(edit.deleted_files))
      /\ UNCHANGED <<opt, log_last_sequence, write_lock, next_compaction_waterline, callback,
                     snapshots, files, written, bounds>>

\* A new manifest takes the next file number, replaces the old one and the old one goes.
WriteManifest ==
  LET n == version_set.next_file_number
  IN  /\ LockFree /\ ThreadStep("NewManifest", "SetCurrent")
      /\ version_set' = [version_set EXCEPT !.next_file_number = n + 1]
      /\ files' = [files EXCEPT !.manifests =
                     [m \in DOMAIN @ \cup {n} |-> IF m = n THEN NewManifest(version_set') ELSE @[m]]]
      /\ UNCHANGED <<opt, log_last_sequence, mutable_table, immutable_table, write_lock,
                     next_compaction_waterline, release, notified, callback, snapshots,
                     written, bounds>>

NewestManifest == CHOOSE n \in DOMAIN files.manifests : \A m \in DOMAIN files.manifests : m <= n

SetCurrent ==
  /\ ThreadStep("SetCurrent", "RemoveManifest")
  /\ files' = [files EXCEPT !.current = NewestManifest]
  /\ UNCHANGED <<opt, memory, next_compaction_waterline, release, notified, callback,
                 snapshots, written, bounds>>

RemoveManifest ==
  /\ thread.pc = "RemoveManifest" /\ thread' = At("Loop")
  /\ files' = [files EXCEPT !.manifests = [n \in {files.current} |-> @[n]]]
  /\ UNCHANGED <<opt, memory, next_compaction_waterline, release, notified, callback,
                 snapshots, written, bounds>>

-----------------------------------------------------------------------------
(* A crash, and open_existing after it.                                    *)

\* What has to be so for open_existing to return the database: recover_existing refuses no
\* record, and the tables and logs that it needs are files.
Reopenable ==
  LET m == files.manifests[files.current]
      vs == m.version_set
  IN  /\ files.current \in DOMAIN files.manifests
      /\ m.accepted /\ vs.next_file_number > m.highest
      /\ Numbers(vs.tables) \subseteq files.tables
      /\ {vs.log_number, vs.prev_log_number} \ {NoLog} \subseteq DOMAIN files.logs
      /\ opt.disable_wal => vs.log_number = NoLog /\ vs.prev_log_number = NoLog
      /\ ~opt.disable_wal => vs.log_number # NoLog

\* read_table: the last sequence once the log with these entries was read.
LastSequence(entries, last) ==
  LET all == {last} \cup {e.sequence : e \in entries}
  IN  CHOOSE n \in all : \A m \in all : m <= n

\* The record of a write that had not returned may be in the log or not.
Reopen(survives) ==
  LET vs == files.manifests[files.current].version_set
      logs == IF survives THEN Logged(files.logs) ELSE files.logs
      Read(n) == IF n = NoLog THEN {} ELSE logs[n]
      flushed == LastSequence(Read(vs.prev_log_number), vs.last_sequence)
      kept == IF survives THEN written \cup write_lock.entries ELSE written
  IN  /\ crashes < MaxCrashes /\ crashes' = crashes + 1
      /\ survives => ~opt.disable_wal /\ write_lock.entries # {}
      /\ Reopenable
      /\ version_set' = vs
      /\ immutable_table' = IF vs.prev_log_number = NoLog THEN NoTable
                            ELSE [entries |-> Read(vs.prev_log_number), last_sequence |-> flushed]
      /\ mutable_table' = Read(vs.log_number)
      /\ log_last_sequence' = LastSequence(mutable_table', flushed)
      /\ write_lock' = NoWrite
      /\ next_compaction_waterline' = vs.compaction_waterline
      /\ pending_release_files' = {} /\ released_files' = {}
      /\ thread' = At("Loop")
      /\ notified' = TRUE /\ callback' = FALSE
      /\ snapshots' = [r \in Reader |-> NoSnapshot]
      /\ files' = [files EXCEPT !.tables = Numbers(vs.tables),
                     !.manifests = [n \in {files.current} |-> @[n]],
                     !.logs = [n \in {vs.log_number, vs.prev_log_number} \ {NoLog} |-> logs[n]]]
      /\ written' = {e \in kept : opt.disable_wal => e.sequence <= vs.last_sequence}
      /\ UNCHANGED <<opt, waits>>

-----------------------------------------------------------------------------
Caller ==
  \/ \E batch \in Batches, sequence \in Custom \cup {log_last_sequence + 1} :
       WriteBegin(batch, sequence)
  \/ \E sequence \in Custom : WriteRefused(sequence)
  \/ WriteQueued
  \/ WriteEnd
  \/ \E r \in Reader : Snapshot(r) \/ Backup(r) \/ DropSnapshot(r)
  \/ \E value \in 1..MaxSequence : UpdateWaterline(value)
  \/ WaitForCompaction

CompactionThread ==
  \/ Wake \/ RemoveReleased \/ LookTwice
  \/ RaiseWaterline \/ Rotate \/ FlushMemtable \/ CompactLevel0 \/ CompactStale \/ Rollover \/ Idle
  \/ SendCallbacks \/ CreateFiles \/ AppendManifest \/ RemoveLog \/ Apply
  \/ WriteManifest \/ SetCurrent \/ RemoveManifest

DBNext == Caller \/ CompactionThread \/ \E survives \in BOOLEAN : Reopen(survives)

DBSpec == DBInit /\ [][DBNext]_db_vars

-----------------------------------------------------------------------------
(* Properties.                                                             *)

\* The sequences at which this snapshot, or the state of now, may be read (iter_with_options).
Readable(last_sequence, waterline) ==
  IF opt.enable_compaction_waterline THEN waterline..last_sequence ELSE {last_sequence}

\* A read of these memtables and tables returns what was written last.
ReadsAre(k, memtables, tables, sequences) ==
  \A n \in sequences : Lookup(memtables, tables, k, n) = LatestAt(written, k, n)

NowReads(k) ==
  ReadsAre(k, mutable_table \cup immutable_table.entries, version_set.tables,
           Readable(log_last_sequence, version_set.compaction_waterline))

HeldReads(k) ==
  \A r \in Reader : snapshots[r] # NoSnapshot =>
    ReadsAre(k, snapshots[r].memtables, snapshots[r].tables,
             Readable(snapshots[r].last_sequence, snapshots[r].compaction_waterline))

Keys == UNION {DOMAIN batch : batch \in Batches}
NeverDeleted == {k \in Keys : \A batch \in Batches : k \in DOMAIN batch => batch[k] = "Value"}

\* Snapshot::get and a read at an older sequence return the value that was written last to a
\* key, for the state of now, for every snapshot that is held and for every backup, whatever
\* the thread has moved, merged or dropped meanwhile and after every crash: with a write ahead
\* log no write that returned is lost, without one the flushed prefix remains.  For keys
\* that are only ever set.
KeptReads == \A k \in NeverDeleted : NowReads(k) /\ HeldReads(k)

\* The same for every key: a key that was deleted last is not there, and of a key the latest
\* version is returned (SnapshotIteratorOptions).
ReadsLatest == \A k \in Keys : NowReads(k)

\* The tables of the version and those of every snapshot and backup, which opens them when it
\* is written out, are files: the release callbacks free no table that is in use.
FilesHeld ==
  Numbers(version_set.tables \cup UNION {snapshots[r].tables : r \in Reader}) \subseteq files.tables

\* At every moment a crash leaves files that open_existing can open: each record of the
\* manifest is accepted by recover_existing, and no table or log that it names is removed or
\* not yet there.
Reopens == Reopenable

\* A new log, table or manifest never has the number of a file that exists, although numbers
\* are allocated in memory and become durable with a later edit (create_new would fail).
FreshNumbers ==
  /\ thread.pc = "Create" =>
       /\ Numbers(thread.edit.new_files) \cap files.tables = {}
       /\ thread.edit.log_number \notin DOMAIN files.logs
  /\ thread.pc = "NewManifest" => version_set.next_file_number \notin DOMAIN files.manifests

\* The assertions of apply_new_edit hold, and the thread does not end on an empty memtable.
EditsApply ==
  /\ thread.pc = "Apply" =>
       /\ thread.edit.last_sequence # Unset => thread.edit.last_sequence >= version_set.last_sequence
       /\ thread.edit.next_file_number # Unset =>
            thread.edit.next_file_number >= version_set.next_file_number
       /\ thread.edit.deleted_files \subseteq version_set.tables
  /\ immutable_table # NoTable => immutable_table.entries # {}


\* Every table file that is no longer part of the version will be removed: it waits for a
\* snapshot to be dropped or for the thread, or the thread is just making it.
NoLeak ==
  files.tables \subseteq Numbers(version_set.tables \cup thread.edit.new_files)
                        \cup pending_release_files \cup released_files

-----------------------------------------------------------------------------
(* Liveness.                                                               *)

\* wait_for_compaction returns once the writes have ended (here they are bounded).
WaitReturns == []<>~callback


=============================================================================
