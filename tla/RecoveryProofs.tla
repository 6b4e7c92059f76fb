--------------------------- MODULE RecoveryProofs ---------------------------
(***************************************************************************)
(* What Recovery promises about the metadata file and the state machine,   *)
(* for logs, terms and numbers of restarts of any size.                    *)
(***************************************************************************)
EXTENDS Recovery, SequenceTheorems, TLAPS

\* Metadata a is not newer than metadata b.
NotNewer(a, b) == a.current_term <= b.current_term /\ a.commit_index <= b.commit_index

\* What the writer has reported, stored and copied, and what is in memory follow each
\* other; between storing and reporting, the copy is what the file holds.
WriterInv ==
  /\ meta \in Metadata /\ persisted_meta \in Metadata
  /\ file.meta \in Metadata /\ writer.copy.meta \in Metadata
  /\ writer = [step |-> writer.step, copy |-> writer.copy]
  /\ NotNewer(persisted_meta, file.meta) /\ NotNewer(file.meta, meta)
  /\ writer.step = "captured" => /\ NotNewer(file.meta, writer.copy.meta)
                                 /\ NotNewer(writer.copy.meta, meta)
  /\ writer.step = "stored" => writer.copy.meta = file.meta

\* The log and the entries of the group are sequences, and a snapshot is one of the group.
LogInv ==
  /\ committed \in Seq(Kind) /\ log \in Seq(Kind)
  /\ snapshot \in Nat /\ snapshot <= Len(committed)

LEMMA LogInvStep ==
  ASSUME LogInv, [LogStep \/ SnapshotStep]_vars
  PROVE  LogInv'
<1>1. Len(committed) \in Nat /\ Len(log) \in Nat
  BY LenProperties DEF LogInv
<1>2. \A q \in Seq(Kind) : \A n \in Nat : n <= Len(q) => SubSeq(q, 1, n) \in Seq(Kind)
  <2> SUFFICES ASSUME NEW q \in Seq(Kind), NEW n \in Nat, n <= Len(q)
               PROVE  SubSeq(q, 1, n) \in Seq(Kind)
    OBVIOUS
  <2>1. \A i \in 1..n : q[i] \in Kind
    BY ElementOfSeq, LenProperties
  <2> QED
    BY <2>1, SubSeqProperties
<1>3. CASE UNCHANGED <<committed, log, snapshot>>
  BY <1>3 DEF LogInv
<1>4. ASSUME NEW kind \in Kind, GroupCommits(kind) PROVE LogInv'
  BY <1>1, <1>4, AppendProperties DEF GroupCommits, LogInv, log_vars
<1>5. ASSUME NEW kind \in Kind, AppendEntry(kind) PROVE LogInv'
  BY <1>5, AppendProperties DEF AppendEntry, LogInv
<1>6. ASSUME NEW k \in 0..Len(log), Restart(k) PROVE LogInv'
  BY <1>1, <1>2, <1>6 DEF Restart, LogInv
<1>7. ASSUME NEW n \in 1..Len(committed), NEW c, install_snapshot(n, c) PROVE LogInv'
  BY <1>1, <1>7 DEF install_snapshot, LogInv, log_vars
<1>8. CASE restore
  BY <1>1, <1>8 DEF restore, LogInv, log_vars
<1>9. CASE log_discarded
  BY <1>1, <1>2, <1>9 DEF log_discarded, LogInv
<1> QED
  BY <1>3, <1>4, <1>5, <1>6, <1>7, <1>8, <1>9
     DEF vars, log_vars, LogStep, SnapshotStep, update_commited, wait_for_flush, observe_term,
         Capture, Store, Report, StartApplier, run_apply_entries, run_apply_discard,
         FlushMachine

\* The writer's steps, and everything else that touches the metadata, keep the order.
LEMMA WriterStep ==
  ASSUME LogInv, WriterInv, [LogStep \/ SnapshotStep]_vars
  PROVE  WriterInv'
<1> USE DEF WriterInv, NotNewer, Metadata
<1>1. CASE UNCHANGED <<meta, disk_vars>>
  BY <1>1 DEF disk_vars
<1>2. ASSUME NEW i \in 1..Len(log), update_commited(i) PROVE WriterInv'
  <2>1. i \in Nat
    BY LenProperties DEF LogInv
  <2> QED
    BY <1>2, <2>1 DEF update_commited, disk_vars
<1>3. CASE observe_term
  BY <1>3 DEF observe_term, disk_vars
<1>4. CASE Capture
  BY <1>4 DEF Capture
<1>5. CASE Store
  BY <1>5 DEF Store
<1>6. CASE Report
  BY <1>6 DEF Report
<1>7. ASSUME NEW k, Restart(k) PROVE WriterInv'
  BY <1>7 DEF Restart
<1> QED
  BY <1>1, <1>2, <1>3, <1>4, <1>5, <1>6, <1>7
     DEF vars, LogStep, SnapshotStep, GroupCommits, AppendEntry, wait_for_flush,
         StartApplier, run_apply_entries, run_apply_discard, FlushMachine,
         install_snapshot, restore, log_discarded

LEMMA BaseInit == Init => LogInv /\ WriterInv
<1> SUFFICES ASSUME Init PROVE LogInv /\ WriterInv
  OBVIOUS
<1>1. LogInv
  BY EmptySeq DEF Init, LogInv
<1>2. WriterInv
  BY DEF Init, WriterInv, NotNewer, Metadata
<1> QED
  BY <1>1, <1>2

\* The module is never told that metadata is persisted which the file does not hold
\* (run_meta_writer takes a copy, stores it and reports that copy), whatever the module
\* does in the meantime, with snapshots and restarts at any moment.
THEOREM PersistedStored == SnapshotSpec => []PersistedIsStored
<1>1. LogInv /\ WriterInv /\ [LogStep \/ SnapshotStep]_vars => LogInv' /\ WriterInv'
  BY LogInvStep, WriterStep
<1>2. WriterInv => PersistedIsStored
  BY DEF WriterInv, NotNewer, PersistedIsStored
<1> QED
  BY <1>1, <1>2, BaseInit, PTL DEF SnapshotSpec

-----------------------------------------------------------------------------
\* The applier never runs ahead of the log, and the state machine has flushed no more
\* than it has applied.
ApplierInv ==
  /\ machine \in Seq(Kind) /\ last_applied \in Nat /\ last_flushed \in Nat
  /\ commit_index \in Nat /\ commit_index <= Len(log)
  /\ last_flushed <= last_applied
  /\ Len(machine) = last_applied

\* update_commit_index never publishes an index beyond the log.
LEMMA SharedCommitBound ==
  ASSUME NEW c \in Nat, NEW lg \in Seq(Kind), NEW p
  PROVE  SharedCommit(c, lg, p) \in Nat /\ SharedCommit(c, lg, p) <= Len(lg)
BY LenProperties DEF SharedCommit

LEMMA ApplierStep ==
  ASSUME LogInv, LogInv', WriterInv, ApplierInv, [LogStep]_vars
  PROVE  ApplierInv'
<1>1. /\ Len(log) \in Nat /\ log \in Seq(Kind) /\ log' \in Seq(Kind) /\ Len(log') \in Nat
      /\ meta.commit_index \in Nat /\ file.meta.commit_index \in Nat
  BY LenProperties DEF LogInv, WriterInv, Metadata
<1>2. CASE UNCHANGED <<log, commit_index, machine_vars>>
  BY <1>2 DEF ApplierInv, machine_vars
<1>3. ASSUME NEW kind \in Kind, AppendEntry(kind) PROVE ApplierInv'
  <2>1. commit_index' = SharedCommit(meta.commit_index, log', prev) /\ UNCHANGED machine_vars
    BY <1>3 DEF AppendEntry
  <2> QED
    BY <1>1, <2>1, SharedCommitBound DEF ApplierInv, machine_vars
<1>4. ASSUME NEW i \in 1..Len(log), update_commited(i) PROVE ApplierInv'
  <2>1. /\ commit_index' = SharedCommit(i, log, prev) /\ i \in Nat
        /\ UNCHANGED <<log, machine_vars>>
    BY <1>1, <1>4 DEF update_commited, log_vars
  <2> QED
    BY <1>1, <2>1, SharedCommitBound DEF ApplierInv, machine_vars
<1>5. CASE observe_term
  <2>1. /\ commit_index' = SharedCommit(meta.commit_index, log, prev)
        /\ UNCHANGED <<log, machine_vars>>
    BY <1>5 DEF observe_term, log_vars
  <2> QED
    BY <1>1, <2>1, SharedCommitBound DEF ApplierInv, machine_vars
<1>6. CASE run_apply_entries
  <2> DEFINE last == Larger(last_applied, commit_index)
             new == SubSeq(log, last_applied + 1, last)
  <2>1. /\ machine' = IF last_applied < last THEN machine \o new ELSE machine
        /\ last_applied' = last /\ UNCHANGED <<log, commit_index, last_flushed>>
    BY <1>6 DEF run_apply_entries, log_vars
  <2>2. last \in Nat /\ last_applied <= last
    BY DEF Larger, ApplierInv
  <2>3. CASE last_applied < last
    <3>1. last <= Len(log)
      BY <2>3 DEF Larger, ApplierInv
    <3>2. \A i \in (last_applied + 1)..last : log[i] \in Kind
      BY <1>1, <2>2, <3>1, ElementOfSeq DEF ApplierInv
    <3> HIDE DEF last
    <3>3. new \in Seq(Kind) /\ Len(new) = last - last_applied
      BY <2>2, <2>3, <3>2, SubSeqProperties DEF ApplierInv
    <3> HIDE DEF new
    <3>4. machine \o new \in Seq(Kind) /\ Len(machine \o new) = last
      <4>1. machine \in Seq(Kind) /\ Len(machine) = last_applied /\ last_applied \in Nat
        BY DEF ApplierInv
      <4>2. machine \o new \in Seq(Kind) /\ Len(machine \o new) = Len(machine) + Len(new)
        BY <3>3, <4>1, ConcatProperties
      <4> QED
        BY <2>2, <3>3, <4>1, <4>2
    <3> QED
      BY <2>1, <2>2, <2>3, <3>4 DEF ApplierInv
  <2>4. CASE ~(last_applied < last)
    <3>1. last = last_applied
      BY <2>2, <2>4 DEF ApplierInv
    <3> QED
      BY <2>1, <2>4, <3>1 DEF ApplierInv
  <2> QED
    BY <2>3, <2>4
<1>7. ASSUME NEW k \in 1..last_applied, FlushMachine(k) PROVE ApplierInv'
  BY <1>7 DEF FlushMachine, ApplierInv, log_vars
<1>8. ASSUME NEW k \in 0..Len(log), Restart(k) PROVE ApplierInv'
  <2>1. /\ commit_index' = SharedCommit(file.meta.commit_index, log', prev)
        /\ last_applied' = last_flushed /\ last_flushed' = last_flushed
        /\ machine' = SubSeq(machine, 1, last_flushed)
    BY <1>8 DEF Restart, RestoredApplied
  <2>2. commit_index' \in Nat /\ commit_index' <= Len(log')
    BY <1>1, <2>1, SharedCommitBound
  <2>3. \A i \in 1..last_flushed : machine[i] \in Kind
    BY ElementOfSeq DEF ApplierInv
  <2>4. machine' \in Seq(Kind) /\ Len(machine') = last_flushed
    BY <2>1, <2>3, SubSeqProperties DEF ApplierInv
  <2> QED
    BY <2>1, <2>2, <2>4 DEF ApplierInv
<1> QED
  BY <1>2, <1>3, <1>4, <1>5, <1>6, <1>7, <1>8
     DEF vars, log_vars, LogStep, GroupCommits, wait_for_flush, Capture, Store, Report,
         StartApplier, run_apply_discard

\* No entry is applied twice and none is skipped (run_apply_entries), although after a
\* restart the applier begins from what the state machine had flushed, with the stored
\* commit index, and a log that may be shorter.
THEOREM AppliesOnce == Spec => []AppliedOnce
<1>1. Init => LogInv /\ WriterInv /\ ApplierInv
  <2> SUFFICES ASSUME Init PROVE ApplierInv
    BY BaseInit
  <2> QED
    BY EmptySeq DEF Init, ApplierInv
<1>2. LogInv /\ WriterInv /\ ApplierInv /\ [LogStep]_vars => (LogInv /\ WriterInv /\ ApplierInv)'
  <2> SUFFICES ASSUME LogInv, WriterInv, ApplierInv, [LogStep]_vars
               PROVE  LogInv' /\ WriterInv' /\ ApplierInv'
    OBVIOUS
  <2>1. LogInv' /\ WriterInv'
    BY LogInvStep, WriterStep
  <2> QED
    BY <2>1, ApplierStep
<1>3. ApplierInv => AppliedOnce
  BY DEF ApplierInv, AppliedOnce
<1> QED
  BY <1>1, <1>2, <1>3, PTL DEF Spec

=============================================================================
