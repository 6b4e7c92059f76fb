------------------------------ MODULE Recovery ------------------------------
(***************************************************************************)
(* What one raft server keeps on its disk and how it comes back: the       *)
(* metadata file and its writer, the log and its discarder, the applier    *)
(* with the user's state machine, the configuration state machine          *)
(* (consensus/config_state.rs) and the installation of snapshots.          *)
(*                                                                         *)
(* The rest of the group is the sequence "committed", which it extends on  *)
(* its own.  An entry is a command or a configuration change; a            *)
(* configuration is the set of the indexes of the changes it contains.     *)
(* Discarded entries stay in "log" and are never looked at again.          *)
(***************************************************************************)
EXTENDS Integers, Sequences, SequencesExt

CONSTANTS
  MaxLog,       \* bound: the group commits this many entries
  MaxTerm,      \* bound: terms the server may see
  MaxRestarts   \* bound: restarts of the server

ASSUME RecoveryAssumption ==
  MaxLog \in Nat /\ MaxTerm \in Nat /\ MaxRestarts \in Nat

VARIABLES
  committed,       \* history: the entries the group has committed
  meta,            \* Metadata in memory: current_term and commit_index
  persisted_meta,  \* Metadata that the writer has reported as stored
  config,          \* ConfigurationStateMachine
  log, prev, flushed,   \* the entries, the last discarded index, the last flushed one
  commit_index,    \* the shared variable that the applier follows
  last_applied, machine, last_flushed,  \* the state machine, what is on its disk
  writer,          \* the metadata writer: what it is doing, and the copy it took
  file,            \* the metadata file
  config_last_flushed,
  applier,         \* the step of run_applier
  limit,           \* a local variable of run_apply_discard
  snapshot,        \* IncomingSnapshotState: the index of the snapshot, 0 for none
  restarts         \* history: the number of restarts

log_vars == <<log, prev, flushed>>
machine_vars == <<last_applied, machine, last_flushed>>
disk_vars == <<writer, file, config_last_flushed, persisted_meta>>
vars == <<committed, meta, config, log_vars, commit_index, machine_vars, disk_vars,
          applier, limit, snapshot, restarts>>

Kind == {"command", "config"}
Metadata == [current_term : Nat, commit_index : Nat]
ConfigSnapshot == [value : SUBSET (Nat \ {0}), last_applied : Nat]
ServerMetadata == [meta : Metadata, config : ConfigSnapshot]

\* pending.last_change is 0 when no change is pending.
ConfigState ==
  [value : SUBSET (Nat \ {0}), last_applied : Nat,
   pending : [last_change : Nat, previous : SUBSET (Nat \ {0})]]

TypeOK ==
  /\ committed \in Seq(Kind) /\ log \in Seq(Kind) /\ machine \in Seq(Kind)
  /\ meta \in Metadata /\ persisted_meta \in Metadata
  /\ config \in ConfigState
  /\ prev \in Nat /\ flushed \in Nat /\ commit_index \in Nat
  /\ last_applied \in Nat /\ last_flushed \in Nat /\ config_last_flushed \in Nat
  /\ writer \in [step : {"start", "wait", "captured", "stored"}, copy : ServerMetadata]
  /\ file \in ServerMetadata
  /\ applier \in {"wait", "restored", "entries", "discard"}
  /\ limit \in Nat /\ snapshot \in Nat /\ restarts \in Nat

-----------------------------------------------------------------------------
(* The configuration state machine *)

NoPending == [last_change |-> 0, previous |-> {}]
Smaller(a, b) == IF a < b THEN a ELSE b
Larger(a, b) == IF a < b THEN b ELSE a

from(snap) == [value |-> snap.value, last_applied |-> snap.last_applied,
               pending |-> NoPending]

\* A revert record is kept for a change only if it lies below the commit index.
apply(c, i, kind, commit) ==
  IF i < c.last_applied THEN c
  ELSE IF kind # "config" THEN [c EXCEPT !.last_applied = i]
  ELSE [value |-> c.value \cup {i}, last_applied |-> i,
        pending |-> IF i < commit THEN [last_change |-> i, previous |-> c.value]
                    ELSE c.pending]

commit_config(c, commit) ==
  IF c.pending.last_change <= commit THEN [c EXCEPT !.pending = NoPending] ELSE c

config_snapshot(c) ==
  IF c.pending.last_change # 0
  THEN [value |-> c.pending.previous, last_applied |-> c.pending.last_change - 1]
  ELSE [value |-> c.value, last_applied |-> c.last_applied]

-----------------------------------------------------------------------------
(* The log and the commit index *)

\* log.term(i) knows the last discarded index and every index after it.
InLog(i) == prev <= i /\ i <= Len(log)

\* update_commit_index, with the log lg that starts after p.
SharedCommit(c, lg, p) == IF p <= c /\ c <= Len(lg) THEN c ELSE Len(lg)

Agrees(lg) == \A i \in 1..Smaller(Len(lg), Len(committed)) : lg[i] = committed[i]

\* The rest of the group commits an entry.
GroupCommits(kind) ==
  /\ Len(committed) < MaxLog
  /\ committed' = Append(committed, kind)
  /\ UNCHANGED <<meta, config, log_vars, commit_index, machine_vars, disk_vars,
                 applier, limit, snapshot, restarts>>

\* An entry joins the log, proposed by this server or by its leader (propose_entry,
\* append_entries); it is the committed one where there is one.
AppendEntry(kind) ==
  LET i == Len(log) + 1 IN
  /\ Len(log) < MaxLog /\ Agrees(Append(log, kind))
  /\ log' = Append(log, kind)
  /\ config' = apply(config, i, kind, meta.commit_index)
  /\ commit_index' = SharedCommit(meta.commit_index, log', prev)
  /\ UNCHANGED <<committed, meta, prev, flushed, machine_vars, disk_vars, applier,
                 limit, snapshot, restarts>>

\* update_commited: entries of the log turn out to be committed.
update_commited(i) ==
  /\ meta.commit_index < i /\ i <= Len(log) /\ i <= Len(committed)
  /\ Agrees(SubSeq(log, 1, i))
  /\ meta' = [meta EXCEPT !.commit_index = i]
  /\ config' = commit_config(config, i)
  /\ commit_index' = SharedCommit(i, log, prev)
  /\ UNCHANGED <<committed, log_vars, machine_vars, disk_vars, applier, limit,
                 snapshot, restarts>>

\* observe_term: a tick that changes the metadata and not the commit index.
observe_term ==
  /\ meta.current_term < MaxTerm
  /\ meta' = [meta EXCEPT !.current_term = @ + 1]
  /\ commit_index' = SharedCommit(meta.commit_index, log, prev)
  /\ UNCHANGED <<committed, config, log_vars, machine_vars, disk_vars, applier, limit,
                 snapshot, restarts>>

\* The log is flushed up to k in the background.
wait_for_flush(k) ==
  /\ flushed < k /\ k <= Len(log)
  /\ flushed' = k
  /\ UNCHANGED <<committed, meta, config, log, prev, commit_index, machine_vars,
                 disk_vars, applier, limit, snapshot, restarts>>

-----------------------------------------------------------------------------
(* run_meta_writer: take a copy under the lock, store it, report it *)

\* The first copy after a start is always stored, a later one when it differs.
Capture ==
  LET copy == [meta |-> meta, config |-> config_snapshot(config)] IN
  /\ \/ writer.step = "start"
     \/ /\ writer.step = "wait"
        /\ \/ copy.meta # writer.copy.meta
           \/ copy.config.last_applied # writer.copy.config.last_applied
  /\ writer' = [step |-> "captured", copy |-> copy]
  /\ UNCHANGED <<committed, meta, config, log_vars, commit_index, machine_vars, file,
                 config_last_flushed, persisted_meta, applier, limit, snapshot, restarts>>

Store ==
  /\ writer.step = "captured"
  /\ file' = writer.copy
  /\ config_last_flushed' = writer.copy.config.last_applied
  /\ writer' = [writer EXCEPT !.step = "stored"]
  /\ UNCHANGED <<committed, meta, config, log_vars, commit_index, machine_vars,
                 persisted_meta, applier, limit, snapshot, restarts>>

\* Mutant: the metadata of the moment is reported and not the copy that was stored.
Report_latest ==
  /\ writer.step = "stored"
  /\ persisted_meta' = meta
  /\ writer' = [writer EXCEPT !.step = "wait"]
  /\ UNCHANGED <<committed, meta, config, log_vars, commit_index, machine_vars, file,
                 config_last_flushed, applier, limit, snapshot, restarts>>

Report ==
  /\ writer.step = "stored"
  /\ persisted_meta' = writer.copy.meta
  /\ writer' = [writer EXCEPT !.step = "wait"]
  /\ UNCHANGED <<committed, meta, config, log_vars, commit_index, machine_vars, file,
                 config_last_flushed, applier, limit, snapshot, restarts>>

-----------------------------------------------------------------------------
(* Snapshots *)

\* The InstallSnapshot service with a state machine snapshot up to n and a
\* configuration up to c, both committed.
install_snapshot(n, c) ==
  /\ snapshot = 0 /\ last_flushed < n
  /\ n <= c /\ c <= Len(committed)
  /\ config' = IF config.last_applied < c
               THEN from([value |-> {i \in 1..c : committed[i] = "config"},
                          last_applied |-> c])
               ELSE config
  /\ snapshot' = n
  /\ UNCHANGED <<committed, meta, log_vars, commit_index, machine_vars, disk_vars,
                 applier, limit, restarts>>

\* run_apply_snapshot up to restore, which may fail.
restore ==
  /\ applier = "wait" /\ snapshot # 0
  /\ \/ /\ machine' = IF snapshot > Len(machine) THEN SubSeq(committed, 1, snapshot)
                      ELSE machine
        /\ last_flushed' = Larger(snapshot, last_flushed)
        /\ applier' = "restored"
        /\ UNCHANGED snapshot
     \/ /\ snapshot' = 0 /\ applier' = "entries"
        /\ UNCHANGED <<machine, last_flushed>>
  /\ UNCHANGED <<committed, meta, config, log_vars, commit_index, last_applied,
                 disk_vars, limit, restarts>>

\* The rest of run_apply_snapshot: the log is discarded up to the snapshot, also
\* beyond its end.
log_discarded ==
  /\ applier = "restored"
  /\ IF snapshot > Len(log)
     THEN /\ log' = SubSeq(committed, 1, snapshot)
          /\ prev' = snapshot /\ flushed' = snapshot
     ELSE /\ prev' \in prev..Larger(prev, snapshot)
          /\ UNCHANGED <<log, flushed>>
  /\ last_applied' = Larger(last_applied, snapshot)
  /\ snapshot' = 0 /\ applier' = "entries"
  /\ UNCHANGED <<committed, meta, config, commit_index, machine, last_flushed,
                 disk_vars, limit, restarts>>

-----------------------------------------------------------------------------
(* run_applier *)

StartApplier ==
  /\ applier = "wait" /\ snapshot = 0
  /\ applier' = "entries"
  /\ UNCHANGED <<committed, meta, config, log_vars, commit_index, machine_vars,
                 disk_vars, limit, snapshot, restarts>>

run_apply_entries ==
  LET last == Larger(last_applied, commit_index) IN
  /\ applier = "entries"
  /\ machine' = IF last_applied < last
                THEN machine \o SubSeq(log, last_applied + 1, last) ELSE machine
  /\ last_applied' = last
  /\ applier' = "discard" /\ limit' = last_flushed
  /\ UNCHANGED <<committed, meta, config, log_vars, commit_index, last_flushed,
                 disk_vars, snapshot, restarts>>

\* Mutant: the configuration is not considered.
DiscardLimit_machine == Smaller(limit, commit_index)

\* The smallest of the flushed states and of the commit index.
DiscardLimit == Smaller(limit, Smaller(config_last_flushed, commit_index))

\* run_apply_discard, after the state machine has been asked for last_flushed.  The
\* log may keep entries that it could discard.
run_apply_discard ==
  /\ applier = "discard" /\ applier' = "wait"
  /\ IF InLog(DiscardLimit) THEN prev' \in prev..DiscardLimit ELSE UNCHANGED prev
  /\ limit' = 0
  /\ UNCHANGED <<committed, meta, config, log, flushed, commit_index, machine_vars,
                 disk_vars, snapshot, restarts>>

\* The state machine makes what it has applied durable, in its own time.
FlushMachine(k) ==
  /\ last_flushed < k /\ k <= last_applied
  /\ last_flushed' = k
  /\ UNCHANGED <<committed, meta, config, log_vars, commit_index, last_applied, machine,
                 disk_vars, applier, limit, snapshot, restarts>>

-----------------------------------------------------------------------------
(* Restart *)

\* The configuration that new builds from its stored snapshot and the log lg.
Replayed(lg) ==
  LET start == from(file.config)
      todo == [j \in 1..Larger(0, Len(lg) - start.last_applied) |-> start.last_applied + j]
      c == FoldLeft(LAMBDA d, i : apply(d, i, lg[i], file.meta.commit_index), start, todo)
  IN commit_config(c, file.meta.commit_index)

\* Mutant: the stored commit index is taken for what the state machine has applied.
RestoredApplied_commit == file.meta.commit_index

\* The state machine starts with what it had flushed.
RestoredApplied == last_flushed

\* The process stops and starts again; the log is kept up to some k that includes all
\* that was flushed.  new panics, or Server::new fails, when the log begins after what
\* the configuration or the state machine holds.
Restart(k) ==
  LET lg == SubSeq(log, 1, k) IN
  /\ restarts < MaxRestarts
  /\ Larger(prev, flushed) <= k /\ k <= Len(log)
  /\ prev <= file.config.last_applied /\ prev <= last_flushed
  /\ restarts' = restarts + 1
  /\ log' = lg /\ flushed' = k
  /\ meta' = file.meta /\ persisted_meta' = file.meta
  /\ config' = Replayed(lg)
  /\ commit_index' = SharedCommit(file.meta.commit_index, lg, prev)
  /\ last_applied' = RestoredApplied /\ machine' = SubSeq(machine, 1, last_flushed)
  /\ writer' = [step |-> "start", copy |-> file]
  /\ config_last_flushed' = 0
  /\ applier' = "wait" /\ limit' = 0 /\ snapshot' = 0
  /\ UNCHANGED <<committed, prev, last_flushed, file>>

-----------------------------------------------------------------------------
Init ==
  LET empty == [meta |-> [current_term |-> 0, commit_index |-> 0],
                config |-> [value |-> {}, last_applied |-> 0]]
  IN
  /\ committed = <<>> /\ log = <<>> /\ machine = <<>>
  /\ meta = empty.meta /\ persisted_meta = empty.meta
  /\ config = from(empty.config)
  /\ prev = 0 /\ flushed = 0 /\ commit_index = 0
  /\ last_applied = 0 /\ last_flushed = 0 /\ config_last_flushed = 0
  /\ writer = [step |-> "start", copy |-> empty]
  /\ file = empty
  /\ applier = "wait" /\ limit = 0 /\ snapshot = 0 /\ restarts = 0

\* A server that is never sent a snapshot.
LogStep ==
  \/ \E kind \in Kind : GroupCommits(kind) \/ AppendEntry(kind)
  \/ \E i \in 1..Len(log) : update_commited(i) \/ wait_for_flush(i)
  \/ observe_term
  \/ Capture \/ Store \/ Report
  \/ StartApplier \/ run_apply_entries \/ run_apply_discard
  \/ \E k \in 1..last_applied : FlushMachine(k)
  \/ \E k \in 0..Len(log) : Restart(k)

SnapshotStep ==
  \/ \E n, c \in 1..Len(committed) : install_snapshot(n, c)
  \/ restore \/ log_discarded

Spec == Init /\ [][LogStep]_vars

SnapshotSpec == Init /\ [][LogStep \/ SnapshotStep]_vars

-----------------------------------------------------------------------------
(* Properties *)

\* Whenever the server stops, it can start again: the stored configuration and the
\* stored state machine reach the start of the log (new: "Config snapshot is from before
\* the start of the log"; Server::new: "State machine snapshot is from before the start
\* of the log").
RestartSafe == prev <= file.config.last_applied /\ prev <= last_flushed

\* The module is never told that metadata is persisted which the file does not hold, so
\* that no candidate counts a vote for itself that a crash would undo
\* (run_meta_writer, persisted_metadata).
PersistedIsStored ==
  /\ persisted_meta.current_term <= file.meta.current_term
  /\ persisted_meta.commit_index <= file.meta.commit_index

\* The state machine has applied exactly the first entries that the group committed, in
\* their order, also after restarts with an old commit index (update_commit_index: "more
\* data has been comitted than is in our log"; run_applier: "When entries are comitted,
\* this will apply them to the state machine").
AppliedIsCommitted == IsPrefix(machine, committed)

\* No entry is applied twice and none is skipped, although after a restart the applier
\* begins from what the state machine had flushed and not from where it was
\* (run_apply_entries, Server::new).
AppliedOnce == Len(machine) = last_applied

=============================================================================
