----------------------------- MODULE Metastore -----------------------------
(***************************************************************************)
(* Transactions of the metastore (pkg/datastore/src/meta) on one server of *)
(* its Raft group: TransactionManager with its locks, the read index it    *)
(* takes from raft::Server, the proposal and its callback, and the loop    *)
(* that applies committed entries to the state machine.                    *)
(*                                                                         *)
(* The rest of the group is an environment: another server may be elected  *)
(* and commit entries of its own, and this server may be elected again.    *)
(* What it may do is what Consensus.tla guarantees; an uncommitted entry   *)
(* that the group decides against stays in the log of this server, which   *)
(* then hears no more (see ConflictsAreReplaced there).                    *)
(***************************************************************************)
EXTENDS KeyRanges, Sequences, FiniteSets, FiniteSetsExt, SequencesExt

CONSTANTS
  Transactions,  \* what clients ask for: sets of read ranges and of written keys
  ForeignWrites, \* the keys that transactions on other leaders write
  MaxLeaders,    \* bound: terms
  MaxChanges     \* bound: entries in a log

VARIABLES
  raft,          \* ConsensusModule of this server: term, leads, log, commit_index,
                 \* min_read_index
  chosen,        \* the entries the group has committed
  rival,         \* the latest term in which another server was elected
  known,         \* how much of chosen some client may have been told of
  database,      \* index of the last entry applied to the state machine
  applied,       \* what run_apply_entries has published of it
  callbacks,     \* proposals of this server that wait to be applied
  manager,       \* TransactionManagerState: term and locks
  txn            \* the execution of each transaction

store_vars ==
  <<raft, chosen, rival, known, database, applied, callbacks, manager, txn>>

NotStarted ==
  [pc |-> "new", read_index |-> 0, term |-> 0, read |-> [term |-> 0, index |-> 0],
   floor |-> 0, result |-> 0]

MetaInit ==
  /\ raft = [term |-> 1, leads |-> TRUE, log |-> <<>>, commit_index |-> 0,
             min_read_index |-> 0]
  /\ chosen = <<>> /\ rival = 0 /\ known = 0
  /\ database = 0 /\ applied = 0 /\ callbacks = <<>>
  /\ manager = [term |-> 0, locks |-> {}]
  /\ txn = [t \in Transactions |-> NotStarted]

-----------------------------------------------------------------------------
\* The group.
NoOp == [id |-> -1, reads |-> {}, writes |-> {}]
Foreign == [id |-> -2, reads |-> {}, writes |-> ForeignWrites]

ProposedEntry(content) == [term |-> raft.term, content |-> content]

\* A majority has stored a prefix of the log of the leader that ends in its term.
Replicated(n) ==
  /\ raft.leads /\ rival < raft.term /\ n > Len(chosen)
  /\ raft.log[n].term = raft.term
  /\ chosen' = SubSeq(raft.log, 1, n)
  /\ UNCHANGED <<raft, rival, known, database, applied, callbacks, manager, txn>>

\* The leader hears of it, perhaps when it has been succeeded already.
LearnCommit ==
  LET n == Cardinality({i \in 1..Len(raft.log) :
                          i <= Len(chosen) /\ SubSeq(raft.log, 1, i) = SubSeq(chosen, 1, i)})
  IN
  /\ raft.leads /\ n > raft.commit_index /\ raft.log[n].term = raft.term
  /\ raft' = [raft EXCEPT !.commit_index = n]
  /\ known' = Max({known, n})
  /\ UNCHANGED <<chosen, rival, database, applied, callbacks, manager, txn>>

\* Another server is elected.  It may have the entries of this server's log beyond the
\* chosen ones, and commits them with its own entry, or not.
OtherCommits(adopts) ==
  LET t == Max({raft.term, rival}) + 1
      base == IF adopts THEN raft.log ELSE chosen
  IN
  /\ t <= MaxLeaders /\ Len(base) < MaxChanges
  /\ adopts => IsStrictPrefix(chosen, raft.log)
  /\ rival' = t
  /\ chosen' = Append(base, [term |-> t, content |-> Foreign])
  /\ known' = Len(base) + 1
  /\ UNCHANGED <<raft, database, applied, callbacks, manager, txn>>

\* This server learns of the other leader and follows it, as far as its log agrees.
Follow ==
  /\ rival >= raft.term
  /\ LET agrees == IsPrefix(raft.log, chosen) IN
     raft' = [raft EXCEPT !.term = rival, !.leads = FALSE, !.min_read_index = 0,
                          !.log = IF agrees THEN chosen ELSE @,
                          !.commit_index = IF agrees THEN Len(chosen) ELSE @]
  /\ UNCHANGED <<chosen, rival, known, database, applied, callbacks, manager, txn>>

\* Its lease runs out.
LoseLease ==
  /\ raft.leads /\ raft' = [raft EXCEPT !.leads = FALSE, !.min_read_index = 0]
  /\ UNCHANGED <<chosen, rival, known, database, applied, callbacks, manager, txn>>

\* This server is elected again; see Elect in ReadIndex.tla.
Lead ==
  LET t == Max({raft.term, rival}) + 1
      committed == raft.commit_index = Len(raft.log)
      log == IF committed THEN raft.log ELSE Append(raft.log, [term |-> t, content |-> NoOp])
  IN
  /\ ~raft.leads /\ t <= MaxLeaders /\ IsPrefix(chosen, raft.log)
  /\ raft' = [raft EXCEPT !.term = t, !.leads = TRUE, !.log = log, !.min_read_index = Len(log)]
  /\ UNCHANGED <<chosen, rival, known, database, applied, callbacks, manager, txn>>

-----------------------------------------------------------------------------
\* The state machine: the last sequence of a snapshot of the database after n entries (only
\* commands are written to it).
DatabaseSequence(n) == Max({0} \cup {i \in 1..n : raft.log[i].content # NoOp})

\* Mutant: one entry too early.
Settled_early(i) ==
  {c \in Range(callbacks) : raft.log[i].term > c.term \/ i + 1 >= c.index}

\* run_apply_entries, for one entry: apply it and resolve the callbacks that it settles.
Settled(i) ==
  {c \in Range(callbacks) : raft.log[i].term > c.term \/ i >= c.index}

ApplyEntry ==
  LET i == database + 1
      settled == Settled(i)
  IN
  /\ database < raft.commit_index
  /\ database' = i
  /\ callbacks' = SelectSeq(callbacks, LAMBDA c : c \notin settled)
  /\ txn' = [t \in Transactions |->
       LET mine == {c.index : c \in {x \in settled : x.txn = t}} IN
       IF mine = {} THEN txn[t] ELSE [txn[t] EXCEPT !.pc = "release", !.result = Max(mine)]]
  /\ UNCHANGED <<raft, chosen, rival, known, applied, manager>>

PublishApplied ==
  /\ applied < database
  /\ applied' = database
  /\ UNCHANGED <<raft, chosen, rival, known, database, callbacks, manager, txn>>

-----------------------------------------------------------------------------
\* Locks.
NoLock == [num_references |-> 0, mode |-> "None"]

\* get_required_locks
WriteMode(mode) == IF mode = "Read" THEN "ReadWrite" ELSE "Write"

RequiredLocks(t) ==
  LET lockRead(r, ranges) ==
        Outside(ranges, r[1], r[2])
          \cup {[p EXCEPT !.value = "Read"] : p \in Parts(ranges, r[1], r[2], "None")}
      lockWrite(k, ranges) ==
        Outside(ranges, k, k + 1)
          \cup {[p EXCEPT !.value = WriteMode(@)] : p \in Parts(ranges, k, k + 1, "None")}
  IN FoldSet(lockWrite, FoldSet(lockRead, {}, t.reads), t.writes)

\* The lock modes beside which acquire_locks grants a lock.
Beside(mode) ==
  CASE mode = "Read" -> {"None", "Read"} [] mode = "Write" -> {"None", "Write"}
    [] OTHER -> {"None"}

Conflict(locks, t) ==
  \E r \in RequiredLocks(t), l \in locks :
    Meets(l, r.start, r.end) /\ l.value.mode \notin Beside(r.value)


Counted(lock, n) == [lock EXCEPT !.num_references = @ + n]
InUse(lock) == lock.num_references > 0

\* The locks after t took its own (n = 1) or gave them back (n = -1).
Change(locks, t, n) ==
  LET counted(r, ranges) ==
        {[p EXCEPT !.value = Counted(@, n)] : p \in Parts(ranges, r.start, r.end, NoLock)}
      update(r, ranges) ==
        Outside(ranges, r.start, r.end) \cup {p \in counted(r, ranges) : InUse(p.value)}
  IN FoldSet(update, locks, RequiredLocks(t))

-----------------------------------------------------------------------------
\* A client reads through the Snapshot RPC of this server and then sends its transaction.
\* floor is how much clients know of when it is sent.
ReadSnapshot(t) ==
  /\ txn[t].pc = "new" /\ raft.leads
  /\ applied >= Max({raft.commit_index, raft.min_read_index})
  /\ txn' = [txn EXCEPT ![t].pc = "read", ![t].read_index = DatabaseSequence(database)]
  /\ UNCHANGED <<raft, chosen, rival, known, database, applied, callbacks, manager>>

\* execute_inner up to the locks: currently_leader.
CurrentlyLeader(t) ==
  /\ txn[t].pc = "read"
  /\ txn' = [txn EXCEPT ![t] = IF raft.leads
               THEN [@ EXCEPT !.pc = "lock", !.term = raft.term, !.floor = known]
               ELSE [@ EXCEPT !.pc = "failed", !.floor = known]]
  /\ UNCHANGED <<raft, chosen, rival, known, database, applied, callbacks, manager>>

\* acquire_locks.  Locks of an earlier term are forgotten; the mode of a lock is never
\* set.
AcquireLocks(t) ==
  LET locks == IF txn[t].term > manager.term THEN {} ELSE manager.locks
      refused == txn[t].term < manager.term \/ Conflict(locks, t)
  IN
  /\ txn[t].pc = "lock"
  /\ manager' = IF txn[t].term < manager.term THEN manager
                ELSE [term |-> txn[t].term,
                      locks |-> IF refused THEN locks ELSE Change(locks, t, 1)]
  /\ txn' = [txn EXCEPT ![t].pc = IF refused THEN "failed" ELSE "begin_read"]
  /\ UNCHANGED <<raft, chosen, rival, known, database, applied, callbacks>>

\* begin_read(true): read_index, ...
TakeReadIndex(t) ==
  /\ txn[t].pc = "begin_read"
  /\ txn' = [txn EXCEPT ![t] = IF raft.leads
       THEN [@ EXCEPT !.pc = "resolve",
                      !.read = [term |-> raft.term,
                                index |-> Max({raft.commit_index, raft.min_read_index})]]
       ELSE [@ EXCEPT !.pc = "release"]]
  /\ UNCHANGED <<raft, chosen, rival, known, database, applied, callbacks, manager>>

\* ... resolve_read_index, ...
ResolveReadIndex(t) ==
  LET lost == ~raft.leads \/ raft.term # txn[t].read.term IN
  /\ txn[t].pc = "resolve" /\ (lost \/ raft.commit_index >= txn[t].read.index)
  /\ txn' = [txn EXCEPT ![t].pc = IF lost THEN "release" ELSE "verify"]
  /\ UNCHANGED <<raft, chosen, rival, known, database, applied, callbacks, manager>>

\* Mutant: off by one.
Overwritten_after(t, first, last) ==
  \E i \in (first + 1)..last, r \in t.reads :
    \E k \in raft.log[i].content.writes : r[1] <= k /\ k < r[2]

\* ... and wait_for_applied; then the term of the locks is checked and verify_reads looks
\* for changes in a snapshot of the state machine.  The compaction waterline of the
\* snapshot is some earlier sequence of the database (waterline_updater).
Overwritten(t, first, last) ==
  \E i \in first..last, r \in t.reads :
    \E k \in raft.log[i].content.writes : r[1] <= k /\ k < r[2]

VerifyReads(t, waterline) ==
  /\ txn[t].pc = "verify" /\ applied >= txn[t].read.index
  /\ txn' = [txn EXCEPT ![t].pc =
       IF /\ txn[t].read.term = txn[t].term
          /\ t.reads # {} => /\ txn[t].read_index \in waterline..txn[t].read.index
                             /\ ~Overwritten(t, txn[t].read_index + 1, database)
       THEN "execute" ELSE "release"]
  /\ UNCHANGED <<raft, chosen, rival, known, database, applied, callbacks, manager>>


\* execute_after_read: propose_entry with the read index, and the callback.
ExecuteAfterRead(t) ==
  LET lost == ~raft.leads \/ raft.term # txn[t].read.term
      entry == ProposedEntry(t)
      proposal == [term |-> raft.term, index |-> Len(raft.log) + 1, txn |-> t]
  IN
  /\ txn[t].pc = "execute" /\ (lost \/ Len(raft.log) < MaxChanges)
  /\ txn' = [txn EXCEPT ![t].pc = IF lost THEN "release" ELSE "wait"]
  /\ raft' = IF lost THEN raft ELSE [raft EXCEPT !.log = Append(@, entry)]
  /\ callbacks' = IF lost THEN callbacks ELSE Append(callbacks, proposal)
  /\ UNCHANGED <<chosen, rival, known, database, applied, manager>>

\* TransactionLockHolder::release, and the answer to the client.
ReleaseLocks(t) ==
  /\ txn[t].pc = "release"
  /\ manager' = IF manager.term # txn[t].term THEN manager
                ELSE [manager EXCEPT !.locks = Change(@, t, -1)]
  /\ txn' = [txn EXCEPT ![t].pc = IF txn[t].result > 0 THEN "ok" ELSE "failed"]
  /\ UNCHANGED <<raft, chosen, rival, known, database, applied, callbacks>>

Group ==
  \/ \E n \in 1..Len(raft.log) : Replicated(n)
  \/ LearnCommit \/ \E adopts \in BOOLEAN : OtherCommits(adopts)
  \/ Follow \/ LoseLease \/ Lead

MetaNext ==
  \/ Group \/ ApplyEntry \/ PublishApplied
  \/ \E t \in Transactions :
       \/ ReadSnapshot(t) \/ CurrentlyLeader(t) \/ AcquireLocks(t)
       \/ TakeReadIndex(t) \/ ResolveReadIndex(t)
       \/ \E waterline \in 0..DatabaseSequence(database) : VerifyReads(t, waterline)
       \/ ExecuteAfterRead(t) \/ ReleaseLocks(t)

MetaSpec == MetaInit /\ [][MetaNext]_store_vars

-----------------------------------------------------------------------------
Holders(k) ==
  {t \in Transactions :
     /\ txn[t].pc \in {"begin_read", "resolve", "verify", "execute", "wait", "release"}
     /\ txn[t].term = manager.term
     /\ \E r \in RequiredLocks(t) : r.start <= k /\ k < r.end}

AllKeys ==
  UNION {t.writes : t \in Transactions} \cup {r[1] : r \in UNION {t.reads : t \in Transactions}}


\* A transaction that is reported as executed is in the log of the group, at the index
\* that the client is told, and nowhere else.
ReportedIsChosen ==
  \A t \in Transactions : txn[t].pc = "ok" =>
    /\ txn[t].result <= Len(chosen)
    /\ {i \in 1..Len(chosen) : chosen[i].content = t} = {txn[t].result}


ChosenAt(t) == {i \in 1..Len(chosen) : chosen[i].content = t}

Stale(t, first, last) ==
  \E i \in first..last, r \in t.reads :
    \E k \in chosen[i].content.writes : r[1] <= k /\ k < r[2]

\* A transaction whose reads were overwritten by a change that clients knew of before it
\* was sent is never executed, whoever led the group then and whoever leads it now
\* (verify_reads, begin_read and the read index given to execute_after_read).
KnownConflictsRefused ==
  \A t \in Transactions : ChosenAt(t) # {} => ~Stale(t, txn[t].read_index + 1, txn[t].floor)

\* "Verify that none of the reads in the transaction have changed since the read_index of
\* the transaction ... we guarantee that there will be no more parallel writes to these
\* keys" (the steps of TransactionManager): what a transaction read is still true when it
\* takes effect.
Serializable ==
  \A t \in Transactions : \A i \in ChosenAt(t) : ~Stale(t, txn[t].read_index + 1, i - 1)

=============================================================================
