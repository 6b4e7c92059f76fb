----------------------------- MODULE ReadIndex -----------------------------
(***************************************************************************)
(* Linearizable reads on a leader: begin_read(optimistic = false) of       *)
(* raft/src/server/server.rs with read_index, resolve_read_index and the   *)
(* lease of the leader in raft/src/consensus/module.rs.                    *)
(*                                                                         *)
(* A read takes the commit index and the time; it may be served once the   *)
(* lease of the leader, the time at which the last round of requests that  *)
(* a majority answered was sent, is no earlier.  The requests that matter  *)
(* are in flight here; an election and the replication of the log, which   *)
(* Consensus.tla models in detail, are single steps.                       *)
(***************************************************************************)
EXTENDS Integers, Sequences, FiniteSetsExt, SequencesExt

CONSTANTS
  Member,        \* the voting members
  MaxElections,  \* bound: elections
  MaxEntries,    \* bound: no proposal is made once a log is this long
  MaxRounds      \* bound: times a leader takes, for a read or a round of heartbeats

VARIABLES
  terms,      \* current_term
  leader,     \* ConsensusLeaderState of each member that leads
  entries,    \* the term of each log entry
  commits,    \* commit_index
  now,        \* the latest time the member has taken from its clock
  beats,      \* Heartbeat requests on their way, and their answers
  read        \* the read in begin_read

read_vars == <<terms, leader, entries, commits, now, beats, read>>

NoTime == 0
NotLeading == [lease_start |-> NoTime]
NoRead == [at |-> "nowhere"]

\* Mutant: reads are served before the first entry of the term is committed.
NewLeader_at_once(time, index) ==
  [lease_start |-> time, min_read_index |-> 0,
   followers |-> [f \in Member |-> [lease_start |-> NoTime, match_index |-> 0]]]

\* ConsensusLeaderState at the beginning of a term.
NewLeader(time, index) ==
  [lease_start |-> time, min_read_index |-> index,
   followers |-> [f \in Member |-> [lease_start |-> NoTime, match_index |-> 0]]]

Leads(m) == leader[m] # NotLeading

\* The writes that some client may have been told of.
Acknowledged == Max({commits[m] : m \in Member})

ReadInit ==
  /\ terms = [m \in Member |-> 0] /\ leader = [m \in Member |-> NotLeading]
  /\ entries = [m \in Member |-> <<>>] /\ commits = [m \in Member |-> 0]
  /\ now = [m \in Member |-> 0] /\ beats = {} /\ read = NoRead

HasMajority(S) == 2 * Cardinality(S) > Cardinality(Member)

Term(log) == IF log = <<>> THEN 0 ELSE Last(log)

UpToDate(mine, yours) ==
  \/ Term(mine) > Term(yours)
  \/ Term(mine) = Term(yours) /\ Len(mine) >= Len(yours)

\* The election of m by the members of Q, and the cycle() in which it becomes the leader:
\* unless its whole log is known to be committed it appends a no-op, and serves no read
\* before that is committed.
Elect(m, Q) ==
  LET t == terms[m] + 1
      known == commits[m] = Len(entries[m])
      log == IF known THEN entries[m] ELSE Append(entries[m], t)
  IN
  /\ m \in Q /\ HasMajority(Q) /\ ~Leads(m) /\ t <= MaxElections
  /\ \A q \in Q \ {m} : terms[q] < t /\ UpToDate(entries[m], entries[q])
  /\ terms' = [q \in Member |-> IF q \in Q THEN t ELSE terms[q]]
  /\ leader' = [q \in Member |-> IF q = m THEN NewLeader(now[m] + 1, Len(log))
                                 ELSE IF q \in Q THEN NotLeading ELSE leader[q]]
  /\ entries' = [entries EXCEPT ![m] = log]
  /\ now' = [now EXCEPT ![m] = @ + 1]
  /\ UNCHANGED <<commits, beats, read>>

\* propose_entry
ProposeWrite(m) ==
  /\ Leads(m) /\ Len(entries[m]) < MaxEntries
  /\ entries' = [entries EXCEPT ![m] = Append(@, terms[m])]
  /\ UNCHANGED <<terms, leader, commits, now, beats, read>>

\* The lease of the leader has run out.
StepDown(m) ==
  /\ Leads(m)
  /\ leader' = [leader EXCEPT ![m] = NotLeading]
  /\ UNCHANGED <<terms, entries, commits, now, beats, read>>

\* observe_term
Observe(m, term) ==
  /\ terms' = [terms EXCEPT ![m] = Max({@, term})]
  /\ leader' = [leader EXCEPT ![m] = IF term > terms[m] THEN NotLeading ELSE @]

-----------------------------------------------------------------------------
\* The members that a leader m counts when those of S have answered it.
With(m, S) == HasMajority((S \ {m}) \cup {m})

\* find_next_lease_start: the latest time at which a majority still followed the leader.
NextLeaseStart(l, m) ==
  LET followed(t) == {f \in Member : l.followers[f].lease_start >= t}
      times == {l.followers[f].lease_start : f \in Member \ {m}} \ {NoTime}
  IN Max({l.lease_start} \cup {t \in times : With(m, followed(t))})

\* find_next_commit_index
NextCommitIndex(l, m) ==
  LET matched(i) == {f \in Member : l.followers[f].match_index >= i}
  IN Max({commits[m]} \cup
         {i \in 1..Len(entries[m]) : entries[m][i] = terms[m] /\ With(m, matched(i))})

\* cycle() of the leader m, in state l after it has updated the progress of the follower
\* f, which no longer leads if it has learnt of a new term.
CycleAsLeader(m, f, l) ==
  /\ leader' = [leader EXCEPT ![m] = [l EXCEPT !.lease_start = NextLeaseStart(l, m)],
                              ![f] = IF terms[f] = terms'[f] THEN @ ELSE NotLeading]
  /\ commits' = [commits EXCEPT ![m] = NextCommitIndex(l, m)]

\* An AppendEntries request, its handling by f and the callback.  Entries of f that the
\* log of the leader contradicts are not replaced (see Consensus.tla).
ReplicateTo(m, f) ==
  LET t == now[m] + 1
      p == [lease_start |-> t, match_index |-> Len(entries[m])]
  IN
  /\ Leads(m) /\ f # m /\ now[m] < MaxRounds
  /\ terms[f] <= terms[m] /\ IsPrefix(entries[f], entries[m])
  /\ terms' = [terms EXCEPT ![f] = terms[m]]
  /\ entries' = [entries EXCEPT ![f] = entries[m]]
  /\ now' = [now EXCEPT ![m] = t]
  /\ CycleAsLeader(m, f, [leader[m] EXCEPT !.followers[f] = p])
  /\ UNCHANGED <<beats, read>>

\* send_heartbeats: one round, to every follower.
Round(m) ==
  /\ now' = [now EXCEPT ![m] = @ + 1]
  /\ beats' = beats \cup {[from |-> m, to |-> f, term |-> terms[m], time |-> now[m] + 1,
                           answer |-> 0] : f \in Member \ {m}}

SendHeartbeats(m) ==
  /\ Leads(m) /\ now[m] < MaxRounds /\ Round(m)
  /\ UNCHANGED <<terms, leader, entries, commits, read>>

\* heartbeat: the answer carries the term of the follower.
Heartbeat(b) ==
  /\ b.answer = 0
  /\ Observe(b.to, b.term)
  /\ beats' = (beats \ {b}) \cup {[b EXCEPT !.answer = terms'[b.to]]}
  /\ UNCHANGED <<entries, commits, now, read>>

\* heartbeat_callback, after observe_term.
HeartbeatCallback(b) ==
  LET m == b.from
      l == [leader[m] EXCEPT !.followers[b.to].lease_start = Max({@, b.time})]
  IN
  /\ b.answer # 0
  /\ beats' = beats \ {b}
  /\ IF b.answer = terms[m] /\ b.term = terms[m] /\ Leads(m)
     THEN UNCHANGED terms /\ CycleAsLeader(m, b.to, l)
     ELSE Observe(m, b.answer) /\ UNCHANGED commits
  /\ UNCHANGED <<entries, now, read>>

-----------------------------------------------------------------------------
\* begin_read: read_index under the lock of the server.  floor is what clients know of
\* when the read begins.
BeginRead(m) ==
  /\ read = NoRead /\ Leads(m) /\ now[m] < MaxRounds
  /\ now' = [now EXCEPT ![m] = @ + 1]
  /\ read' = [at |-> m, pc |-> "schedule", term |-> terms[m],
              index |-> Max({commits[m], leader[m].min_read_index}),
              time |-> IF Member = {m} THEN leader[m].lease_start ELSE now[m] + 1,
              floor |-> Acknowledged]
  /\ UNCHANGED <<terms, leader, entries, commits, beats>>

\* schedule_heartbeat, in a tick of its own.
ScheduleHeartbeat(m) ==
  /\ read.at = m /\ read.pc = "schedule"
  /\ read' = [read EXCEPT !.pc = "resolve"]
  /\ IF Leads(m) THEN Round(m) ELSE UNCHANGED <<now, beats>>
  /\ UNCHANGED <<terms, leader, entries, commits>>

\* resolve_read_index succeeds: the read sees the state machine with at least everything
\* up to its index applied.
ResolveRead(m) ==
  /\ read.at = m /\ read.pc = "resolve"
  /\ Leads(m) /\ terms[m] = read.term
  /\ commits[m] >= read.index
  /\ leader[m].lease_start >= read.time
  /\ read' = [read EXCEPT !.pc = "served"]
  /\ UNCHANGED <<terms, leader, entries, commits, now, beats>>

\* The read has been answered, or refused: NotLeader or StaleIndex.
EndRead(m) ==
  /\ read.at = m
  /\ read.pc = "served" \/ (read.pc = "resolve" /\ (~Leads(m) \/ terms[m] # read.term))
  /\ read' = NoRead
  /\ UNCHANGED <<terms, leader, entries, commits, now, beats>>

ReadNext ==
  \/ \E m \in Member :
       \/ \E Q \in SUBSET Member : Elect(m, Q)
       \/ ProposeWrite(m) \/ StepDown(m) \/ SendHeartbeats(m)
       \/ \E f \in Member : ReplicateTo(m, f)
       \/ BeginRead(m) \/ ScheduleHeartbeat(m) \/ ResolveRead(m) \/ EndRead(m)
  \/ \E b \in beats : Heartbeat(b) \/ HeartbeatCallback(b)

ReadSpec == ReadInit /\ [][ReadNext]_read_vars

-----------------------------------------------------------------------------
\* A read that is served sees every write that was acknowledged before it began, whoever
\* led the group when that write was committed.
LinearizableRead == read # NoRead /\ read.pc = "served" => read.index >= read.floor

=============================================================================
