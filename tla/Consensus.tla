------------------------------ MODULE Consensus ------------------------------
(***************************************************************************)
(* The Raft implementation of pkg/raft: one ConsensusModule per server     *)
(* (consensus/module.rs) and the parts of the server around it that decide *)
(* when its handlers run: the metadata writer, the log flusher, the RPC    *)
(* services and the per-follower AppendEntries streams (server/*.rs).      *)
(*                                                                         *)
(* The configuration is fixed: every server is a MEMBER.  The data of a    *)
(* log entry is the number of restarts before it was proposed, so that     *)
(* entries proposed by different incarnations of a leader can be told      *)
(* apart although the code compares their terms only.                      *)
(* Every action is one call into the module with the cycle() that ends it; *)
(* only the branches of cycle() that wait for a timer are actions of their *)
(* own, because a timer may expire just after any other call.              *)
(***************************************************************************)
EXTENDS Integers, Sequences, FiniteSets

CONSTANTS
  Server,        \* the voting members
  Nil,           \* no server
  LiveBatch,     \* MAX_ENTRIES_PER_LIVE_APPEND
  SlowBatch,     \* MAX_ENTRIES_PER_PESSIMISTIC_APPEND
  MaxInFlight,   \* MAX_IN_FLIGHT_REQUESTS
  QueueLimit,    \* TIMEOUT_NOW_SEND_MAX_QUEUE_LENGTH
  Electable,     \* bound: the servers whose election timer may expire
  MaxAttempts,   \* bound: elections one candidacy may start after the first
  MaxTerm,       \* bound: no election starts a term beyond this one
  MaxLog,        \* bound: no proposal is made once a log is this long
  Flaky,         \* bound: the followers whose streams may break
  MaxLate,       \* bound: requests of broken streams that may still arrive
  Mortal,        \* bound: the servers that may restart
  MaxRestarts    \* bound: restarts of all servers together

ASSUME ServerAssumption ==
  IsFiniteSet(Server) /\ Cardinality(Server) >= 2 /\ Nil \notin Server

ASSUME BoundAssumption ==
  /\ LiveBatch \in Nat /\ SlowBatch \in Nat /\ MaxInFlight \in Nat
  /\ QueueLimit \in Nat /\ MaxAttempts \in Nat /\ MaxTerm \in Nat /\ MaxLog \in Nat /\ MaxLate \in Nat
  /\ MaxRestarts \in Nat

VARIABLES
  current_term, voted_for, commit_index,  \* Metadata, in memory
  disk,            \* the metadata file, which is also persisted_meta
  state,           \* ConsensusState, or Poisoned after a panic in a handler
  last_leader_id,  \* of the follower state
  candidate,       \* the candidate state
  followers,       \* the leader state: progress of every follower
  draining,
  log, log_last_flushed,
  streams,         \* streams[l][f]: AppendEntries stream of l to f, oldest first
  late,            \* late[l][f]: requests of broken streams still on their way
  requests, responses,  \* PreVote, RequestVote and Heartbeat RPCs in flight
  ballots,         \* history: <<voter, term, candidate>> of every vote cast
  leaders,         \* history: <<term, server>> of every election won
  restarts         \* history: the number of restarts

meta_vars == <<current_term, voted_for>>
role_vars == <<state, last_leader_id, candidate>>
log_vars == <<log, log_last_flushed>>
rpc_vars == <<requests, responses>>
history == <<ballots, leaders>>
vars == <<current_term, voted_for, commit_index, disk, state, last_leader_id,
          candidate, followers, draining, log, log_last_flushed, streams, late,
          requests, responses, ballots, leaders, restarts>>

-----------------------------------------------------------------------------
(* Types *)

Metadata == [current_term : Nat, voted_for : Server \cup {Nil}, commit_index : Nat]

CandidateState ==
  [pre_votes_received : SUBSET Server, votes_received : SUBSET Server,
   main_vote_start : BOOLEAN, some_rejected : BOOLEAN, leader_approval : Nat,
   attempt_number : Nat]

Progress ==
  [mode : {"Live", "Pesimistic", "CatchingUp"}, next_index : Nat \ {0},
   match_index : Nat, last_commit_index_sent : Nat]

LogEntry == [term : Nat, index : Nat, data : Nat]

\* A request of a stream.  phase: sent to the follower ("request"), handled and
\* waiting for the follower's log to be flushed up to need ("flush"), answered
\* ("response") or failed ("error").
AppendEntry ==
  [phase : {"request", "flush", "response", "error"}, term : Nat,
   prev_log_index : Nat, prev_log_term : Nat, entries : Seq(LogEntry),
   leader_commit : Nat, timeout_now : BOOLEAN,
   need : Nat, res_term : Nat, success : BOOLEAN, last_log_index : Nat]

\* handle says what becomes of the answer: "current" belongs to the candidate's
\* vote_request_id (or to a pending heartbeat), "old" to an earlier request id of
\* the same term, "cancelled" to a task that was dropped with its term.
Request ==
  [kind : {"PreVote", "RequestVote", "Heartbeat"}, from : Server, to : Server,
   term : Nat, last_log_index : Nat, last_log_term : Nat, leader_approval : Nat,
   handle : {"current", "old", "cancelled"}]

Response ==
  [kind : {"PreVote", "RequestVote", "Heartbeat"}, from : Server, to : Server,
   term : Nat, vote_granted : BOOLEAN, handle : {"current", "old"}]

TypeOK ==
  /\ current_term \in [Server -> Nat]
  /\ voted_for \in [Server -> Server \cup {Nil}]
  /\ commit_index \in [Server -> Nat]
  /\ disk \in [Server -> Metadata]
  /\ state \in [Server -> {"Follower", "Candidate", "Leader", "Poisoned"}]
  /\ last_leader_id \in [Server -> Server \cup {Nil}]
  /\ candidate \in [Server -> CandidateState]
  /\ followers \in [Server -> [Server -> Progress]]
  /\ draining \in [Server -> BOOLEAN]
  /\ log \in [Server -> Seq(LogEntry)]
  /\ log_last_flushed \in [Server -> Nat]
  /\ streams \in [Server -> [Server -> Seq(AppendEntry)]]
  /\ late \in [Server -> [Server -> Seq(AppendEntry)]]
  /\ requests \subseteq Request
  /\ responses \subseteq Response
  /\ ballots \subseteq Server \X Nat \X Server
  /\ leaders \subseteq Nat \X Server
  /\ restarts \in Nat

-----------------------------------------------------------------------------
(* Pure helpers *)

Smaller(a, b) == IF a < b THEN a ELSE b
Larger(a, b) == IF a < b THEN b ELSE a

\* The term at index i; 0 before the first entry.
lookup_term(lg, i) == IF i \in DOMAIN lg THEN lg[i].term ELSE 0
last_term(lg) == lookup_term(lg, Len(lg))

\* Mutant: half of the members, rounded down, is taken for a majority.
majority_size_half == Cardinality(Server) \div 2

majority_size == (Cardinality(Server) \div 2) + 1
IsMajority(S) == Cardinality(S) >= majority_size

can_be_leader(s) == Len(log[s]) >= commit_index[s]

NoCandidate ==
  [pre_votes_received |-> {}, votes_received |-> {}, main_vote_start |-> FALSE,
   some_rejected |-> FALSE, leader_approval |-> 0, attempt_number |-> 0]

\* Mutant: next_index is the last index and not the one after it.
NewProgress_off_by_one(last) ==
  [mode |-> "Pesimistic", next_index |-> last, match_index |-> 0,
   last_commit_index_sent |-> 0]

NewProgress(last) ==
  [mode |-> "Pesimistic", next_index |-> last + 1, match_index |-> 0,
   last_commit_index_sent |-> 0]

NoFollowers == [f \in Server |-> NewProgress(0)]

\* One RequestVote or PreVote request to every other member.
perform_election(s, kind, term, lg, approval) ==
  {[kind |-> kind, from |-> s, to |-> q, term |-> term,
    last_log_index |-> Len(lg), last_log_term |-> last_term(lg),
    leader_approval |-> approval, handle |-> "current"] : q \in Server \ {s}}

\* What finish_tick does to the RPCs of s when its term has changed: the tasks
\* that wait for answers are dropped, while requests may already be on the wire.
\* A PreVote that nobody waits for has no effect, so it is dropped as well.
CancelRequests(s, reqs) ==
  {r \in reqs : r.from # s} \cup
  {[r EXCEPT !.handle = "cancelled"] : r \in {q \in reqs : q.from = s /\ q.kind # "PreVote"}}
CancelResponses(s, resps) == {r \in resps : r.to # s}

\* A new vote_request_id in the same term makes the earlier ones old: an answer to
\* them matters only for a higher term it may carry.  The earlier PreVotes are left
\* out, since the new ones repeat them.
AgeRequests(s) ==
  {r \in requests : r.from # s} \cup
  {[r EXCEPT !.handle = IF @ = "current" THEN "old" ELSE @] :
     r \in {q \in requests : q.from = s /\ q.kind # "PreVote"}}
AgeResponses(s) ==
  {r \in responses : r.to # s} \cup
  {[r EXCEPT !.handle = "old"] :
     r \in {q \in responses : q.to = s /\ q.term > current_term[s]}}

Requested(m) == m.phase = "request"
Failed(q) == \E i \in DOMAIN q : q[i].phase = "error"

\* What a stream that is dropped may still bring to its follower: the requests it
\* has not handled, up to the bound MaxLate, unless the follower ended the stream.
Lingering(q, old) ==
  LET handled == Cardinality({i \in DOMAIN q : ~Requested(q[i])})
      all == old \o SubSeq(q, handled + 1, Len(q))
  IN IF Failed(q) THEN old ELSE SubSeq(all, 1, Smaller(Len(all), MaxLate))

\* finish_tick also drops the clients of s, and their streams with them.
CancelStreams(s, st) == [st EXCEPT ![s] = [f \in Server |-> <<>>]]
CancelLate(s, lt) ==
  [lt EXCEPT ![s] = [f \in Server |-> Lingering(streams[s][f], @[f])]]

-----------------------------------------------------------------------------
(* The leader's part of cycle() *)

\* i is the M-th largest of the members' persisted indexes, it lies beyond the
\* commit index and its entry belongs to the leader's own term.
find_next_commit_index(s, lg, flushed, fo, i) ==
  LET Acked(k) == {q \in Server : IF q = s THEN flushed >= k
                                  ELSE fo[q].match_index >= k}
  IN /\ i > commit_index[s]
     /\ IsMajority(Acked(i)) /\ ~IsMajority(Acked(i + 1))
     /\ lg[i].term = current_term[s]

AppendRequest(s, lg, commit, prev, max, timeout_now) ==
  [phase |-> "request", term |-> current_term[s], prev_log_index |-> prev,
   prev_log_term |-> lookup_term(lg, prev),
   entries |-> SubSeq(lg, prev + 1, Smaller(prev + 1 + max, Len(lg))),
   leader_commit |-> commit, timeout_now |-> timeout_now,
   need |-> 0, res_term |-> 0, success |-> FALSE, last_log_index |-> 0]

\* How many requests the loop of replicate_entries sends to a Live follower:
\* until everything is sent or MaxInFlight requests are pending.
LiveSends(lg, commit, p, q) ==
  LET room == MaxInFlight - Len(q)
  IN IF p.mode # "Live" \/ room <= 0 THEN 0
     ELSE IF p.next_index <= Len(lg)
     THEN Cardinality({i \in 1..room : p.next_index + (i - 1) * (1 + LiveBatch) <= Len(lg)})
     ELSE IF p.last_commit_index_sent < commit THEN 1 ELSE 0

SentProgress(lg, commit, p, q) ==
  LET n == LiveSends(lg, commit, p, q)
  IN IF n = 0 THEN p
     ELSE [p EXCEPT !.next_index = Smaller(@ + n * (1 + LiveBatch), Len(lg) + 1),
                    !.last_commit_index_sent = commit]

SentQueue(s, lg, commit, p, q) ==
  q \o [i \in 1..LiveSends(lg, commit, p, q) |->
          AppendRequest(s, lg, commit, p.next_index - 1 + (i - 1) * (1 + LiveBatch),
                        LiveBatch, FALSE)]

\* cycle() of a leader whose log, flushed index and progress have just become lg,
\* flushed and fo, and whose streams are those of base.
LeaderCycle(s, lg, flushed, fo, base) ==
  \E c \in 0..Len(lg) :
    /\ \/ find_next_commit_index(s, lg, flushed, fo, c)
       \/ /\ c = commit_index[s]
          /\ \A i \in 1..Len(lg) : ~find_next_commit_index(s, lg, flushed, fo, i)
    /\ commit_index' = [commit_index EXCEPT ![s] = c]
    /\ followers' = [followers EXCEPT ![s] =
         [f \in Server |-> SentProgress(lg, c, fo[f], base[s][f])]]
    /\ streams' = [base EXCEPT ![s] =
         [f \in Server |-> SentQueue(s, lg, c, fo[f], base[s][f])]]

NewEntry(s) ==
  [term |-> current_term[s], index |-> Len(log[s]) + 1, data |-> restarts]

\* propose_entry of a leader that is not draining: the entry joins the log and
\* cycle() replicates it.
propose_entry(s, fo, base) ==
  LET lg == Append(log[s], NewEntry(s))
  IN /\ log' = [log EXCEPT ![s] = lg]
     /\ LeaderCycle(s, lg, log_last_flushed[s], fo, base)

-----------------------------------------------------------------------------
(* The candidate's part of cycle() *)

\* Own vote: counted only once the metadata that holds it has been persisted.
have_self_voted(s, dk) ==
  dk.current_term = current_term[s] /\ dk.voted_for # Nil

vote_count(s, c, dk) ==
  Cardinality(c.votes_received) + (IF have_self_voted(s, dk) THEN 1 ELSE 0)

\* The election is won: a no-op follows if the log has uncommitted entries, and
\* cycle() sends a first AppendEntries request to every follower.
BecomeLeader(s, reqs, base) ==
  LET noop == commit_index[s] < Len(log[s])
      lg == IF noop THEN Append(log[s], NewEntry(s)) ELSE log[s]
      first == AppendRequest(s, lg, commit_index[s], Len(log[s]), SlowBatch, FALSE)
  IN IF noop /\ draining[s]
     THEN \* propose_noop fails on a draining server, and expect() panics
          /\ state' = [state EXCEPT ![s] = "Poisoned"]
          /\ streams' = base
          /\ requests' = requests
          /\ UNCHANGED <<candidate, followers, log, leaders>>
     ELSE /\ state' = [state EXCEPT ![s] = "Leader"]
          /\ candidate' = [candidate EXCEPT ![s] = NoCandidate]
          /\ followers' = [followers EXCEPT ![s] = [f \in Server |->
               [NewProgress(Len(lg)) EXCEPT !.last_commit_index_sent = commit_index[s]]]]
          /\ streams' = [base EXCEPT ![s] = [f \in Server |->
               IF f = s THEN <<>> ELSE <<first>>]]
          /\ log' = [log EXCEPT ![s] = lg]
          /\ requests' = reqs
          /\ leaders' = leaders \cup {<<current_term[s], s>>}

\* cycle() of a candidate whose state has just become c with dk on its disk.
CandidateCycle(s, c, dk, base) ==
  LET start == /\ ~c.main_vote_start
               /\ \/ Cardinality(c.pre_votes_received) + 1 >= majority_size
                  \/ c.leader_approval # 0
      reqs == IF start
              THEN requests \cup perform_election(s, "RequestVote", current_term[s],
                                                  log[s], c.leader_approval)
              ELSE requests
  IN IF (c.main_vote_start \/ start) /\ vote_count(s, c, dk) >= majority_size
     THEN BecomeLeader(s, reqs, base)
     ELSE /\ candidate' = [candidate EXCEPT ![s] =
                            [c EXCEPT !.main_vote_start = @ \/ start]]
          /\ requests' = reqs
          /\ streams' = base
          /\ UNCHANGED <<state, followers, log, leaders>>

\* cycle() at the end of a handler, timers aside.  c, dk, dr, flushed, fo and base
\* are the candidate state, disk, draining flag, flushed index, progress and
\* streams that the handler has just produced.
cycle(s, c, dk, dr, flushed, fo, base) ==
  \/ /\ state[s] = "Follower"
     /\ last_leader_id' = [last_leader_id EXCEPT ![s] =
                            IF dr \/ ~can_be_leader(s) THEN Nil ELSE @]
     /\ streams' = base
     /\ UNCHANGED <<state, candidate, followers, commit_index, log, requests, leaders>>
  \/ /\ state[s] = "Candidate"
     /\ CandidateCycle(s, c, dk, base)
     /\ UNCHANGED <<last_leader_id, commit_index>>
  \/ /\ state[s] = "Leader"
     /\ LeaderCycle(s, log[s], flushed, fo, base)
     /\ UNCHANGED <<state, last_leader_id, candidate, log, requests, leaders>>

-----------------------------------------------------------------------------
(* Terms and roles *)

Alive(s) == state[s] # "Poisoned"

\* observe_term with a term t above the server's own, after which the follower
\* state names leader as last_leader_id and the vote of the new term is vote.
FollowTerm(s, t, leader, vote) ==
  /\ current_term' = [current_term EXCEPT ![s] = t]
  /\ voted_for' = [voted_for EXCEPT ![s] = vote]
  /\ state' = [state EXCEPT ![s] = "Follower"]
  /\ last_leader_id' = [last_leader_id EXCEPT ![s] = leader]
  /\ candidate' = [candidate EXCEPT ![s] = NoCandidate]
  /\ followers' = [followers EXCEPT ![s] = NoFollowers]

\* become_candidate; the term is kept only by a candidate nobody has rejected.
become_candidate(s) ==
  LET inc == ~(state[s] = "Candidate" /\ ~candidate[s].some_rejected)
      t == IF inc THEN current_term[s] + 1 ELSE current_term[s]
      attempt == IF state[s] = "Candidate" THEN candidate[s].attempt_number + 1 ELSE 0
  IN /\ t <= MaxTerm /\ attempt <= MaxAttempts
     /\ current_term' = [current_term EXCEPT ![s] = t]
     /\ voted_for' = [voted_for EXCEPT ![s] = IF inc THEN s ELSE @]
     /\ state' = [state EXCEPT ![s] = "Candidate"]
     /\ last_leader_id' = [last_leader_id EXCEPT ![s] = Nil]
     /\ candidate' = [candidate EXCEPT ![s] =
                        [NoCandidate EXCEPT !.attempt_number = attempt]]
     /\ followers' = [followers EXCEPT ![s] = NoFollowers]
     /\ requests' = (IF inc THEN CancelRequests(s, requests) ELSE AgeRequests(s))
                      \cup perform_election(s, "PreVote", t, log[s], 0)
     /\ responses' = IF inc THEN CancelResponses(s, responses) ELSE AgeResponses(s)
     /\ streams' = CancelStreams(s, streams)
     /\ late' = CancelLate(s, late)
     /\ UNCHANGED <<commit_index, disk, draining, log_vars, history>>

\* The election timer of a follower or candidate expires in cycle().
ElectionTimeout(s) ==
  /\ s \in Electable
  /\ \/ state[s] = "Follower" /\ can_be_leader(s) /\ ~draining[s]
     \/ state[s] = "Candidate"
  /\ become_candidate(s)

\* A leader whose lease has run out steps down: to candidate, or to follower of
\* the same term when it is draining.
LeaseExpired(s) ==
  /\ state[s] = "Leader"
  /\ \/ ~draining[s] /\ become_candidate(s)
     \/ /\ draining[s]
        /\ state' = [state EXCEPT ![s] = "Follower"]
        /\ last_leader_id' = [last_leader_id EXCEPT ![s] = Nil]
        /\ followers' = [followers EXCEPT ![s] = NoFollowers]
        /\ UNCHANGED <<meta_vars, commit_index, disk, candidate, draining, log_vars,
                       streams, late, rpc_vars, history>>

-----------------------------------------------------------------------------
(* Votes *)

\* Mutant: every candidate's log is good enough.
up_to_date_any(m, lg) == TRUE

up_to_date(m, lg) ==
  \/ m.last_log_term > last_term(lg)
  \/ m.last_log_term = last_term(lg) /\ m.last_log_index >= Len(lg)

\* Mutant: an earlier vote of the same term does not count.
pre_vote_should_grant_again(s, m, term, vote, recent) ==
  /\ m.term >= term
  /\ up_to_date(m, log[s])
  /\ m.leader_approval = term \/ ~recent

\* recent: a leader was heard of within the last ELECTION_TIMEOUT.0 / 2.
pre_vote_should_grant(s, m, term, vote, recent) ==
  /\ m.term >= term
  /\ up_to_date(m, log[s])
  /\ m.term > term \/ vote \in {Nil, m.from}
  /\ m.leader_approval = term \/ ~recent

LeaderSeen(s) ==
  \/ state[s] = "Follower" /\ last_leader_id[s] # Nil
  \/ state[s] = "Leader"

\* A cancelled request has nobody left waiting for its answer.
Reply(m, term, granted, resps) ==
  IF m.handle = "cancelled" THEN resps
  ELSE resps \cup {[kind |-> m.kind, from |-> m.to, to |-> m.from, term |-> term,
                    vote_granted |-> granted, handle |-> m.handle]}

\* The PreVote service: answers without changing the server.
pre_vote(m) ==
  LET s == m.to IN
  /\ m.kind = "PreVote" /\ Alive(s)
  /\ \E recent \in BOOLEAN :
       /\ recent => LeaderSeen(s)
       /\ responses' = Reply(m, Larger(current_term[s], m.term),
            pre_vote_should_grant(s, m, current_term[s], voted_for[s], recent), responses)
  /\ requests' = requests \ {m}
  /\ UNCHANGED <<meta_vars, commit_index, disk, role_vars, followers, draining,
                 log_vars, streams, late, history>>

\* The RequestVote service.  The answer leaves before the metadata writer has
\* persisted the vote.
request_vote(m) ==
  LET s == m.to
      newer == m.term > current_term[s]
      term == Larger(current_term[s], m.term)
      vote == IF newer THEN Nil ELSE voted_for[s]
  IN
  /\ m.kind = "RequestVote" /\ Alive(s)
  /\ \E recent \in BOOLEAN :
       /\ recent => ~newer /\ LeaderSeen(s)
       /\ LET granted == pre_vote_should_grant(s, m, term, vote, recent)
              panic == granted /\ ~newer /\ state[s] # "Follower"
              cast == IF granted THEN m.from ELSE vote
              resps == IF newer THEN CancelResponses(s, responses) ELSE responses
          IN
          /\ \/ /\ newer
                /\ FollowTerm(s, m.term, cast, cast)
                /\ requests' = CancelRequests(s, requests \ {m})
                /\ streams' = CancelStreams(s, streams) /\ late' = CancelLate(s, late)
             \/ /\ ~newer
                /\ state' = [state EXCEPT ![s] = IF panic THEN "Poisoned" ELSE @]
                /\ voted_for' = [voted_for EXCEPT ![s] = IF panic THEN @ ELSE cast]
                /\ last_leader_id' = [last_leader_id EXCEPT ![s] =
                                       IF granted /\ ~panic THEN m.from ELSE @]
                /\ requests' = requests \ {m}
                /\ UNCHANGED <<current_term, candidate, followers, streams, late>>
          /\ responses' = IF panic THEN resps ELSE Reply(m, term, granted, resps)
          /\ ballots' = IF granted /\ ~panic THEN ballots \cup {<<s, term, m.from>>}
                        ELSE ballots
  /\ UNCHANGED <<commit_index, disk, draining, log_vars, leaders>>

\* Any answer that carries a higher term makes its receiver a follower.
ObserveResponse(m) ==
  LET s == m.to IN
  /\ Alive(s) /\ m.term > current_term[s]
  /\ FollowTerm(s, m.term, Nil, Nil)
  /\ requests' = CancelRequests(s, requests)
  /\ responses' = CancelResponses(s, responses)
  /\ streams' = CancelStreams(s, streams) /\ late' = CancelLate(s, late)
  /\ UNCHANGED <<commit_index, disk, draining, log_vars, history>>

\* The answer to a PreVote or RequestVote.
request_vote_callback(m) ==
  LET s == m.to
      counts == /\ state[s] = "Candidate" /\ m.term = current_term[s]
                /\ m.handle = "current"
      c == candidate[s]
      d == IF ~m.vote_granted THEN [c EXCEPT !.some_rejected = TRUE]
           ELSE IF m.kind = "PreVote"
                THEN [c EXCEPT !.pre_votes_received = @ \cup {m.from}]
                ELSE [c EXCEPT !.votes_received = @ \cup {m.from}]
  IN
  /\ m.kind # "Heartbeat" /\ Alive(s) /\ m.term <= current_term[s]
  /\ \/ /\ counts
        /\ CandidateCycle(s, d, disk[s], streams)
     \/ /\ ~counts
        /\ UNCHANGED <<state, candidate, followers, log, streams, requests, leaders>>
  /\ responses' = responses \ {m}
  /\ UNCHANGED <<meta_vars, commit_index, disk, last_leader_id, draining,
                 log_last_flushed, late, ballots>>

-----------------------------------------------------------------------------
(* Heartbeats *)

HeartbeatPending(l, f) ==
  \/ \E r \in requests : r.kind = "Heartbeat" /\ r.from = l /\ r.to = f
                         /\ r.handle = "current"
  \/ \E r \in responses : r.kind = "Heartbeat" /\ r.from = f /\ r.to = l

\* The heartbeat timer of one follower expires in cycle().  Bound: one heartbeat
\* is in flight to each follower.
send_heartbeats(l, f) ==
  /\ state[l] = "Leader" /\ f # l /\ ~HeartbeatPending(l, f)
  /\ requests' = requests \cup
       {[kind |-> "Heartbeat", from |-> l, to |-> f, term |-> current_term[l],
         last_log_index |-> 0, last_log_term |-> 0, leader_approval |-> 0,
         handle |-> "current"]}
  /\ UNCHANGED <<meta_vars, commit_index, disk, role_vars, followers, draining,
                 log_vars, streams, late, responses, history>>


\* The sender leads the term that the server is in.
OwnTerm(s, m) == m.term = current_term[s]

\* The Heartbeat service.  Between two leaders of one term it returns an error:
\* the request then stays until heartbeat_failed removes it.
heartbeat(m) ==
  LET s == m.to
      newer == m.term > current_term[s]
  IN
  /\ m.kind = "Heartbeat" /\ Alive(s)
  /\ \/ /\ newer
        /\ FollowTerm(s, m.term, m.from, Nil)
        /\ requests' = CancelRequests(s, requests \ {m})
        /\ responses' = Reply(m, m.term, FALSE, CancelResponses(s, responses))
        /\ streams' = CancelStreams(s, streams) /\ late' = CancelLate(s, late)
     \/ /\ ~newer
        /\ OwnTerm(s, m) => state[s] # "Leader"
        /\ IF OwnTerm(s, m)
           THEN /\ state' = [state EXCEPT ![s] = "Follower"]
                /\ last_leader_id' = [last_leader_id EXCEPT ![s] = m.from]
                /\ candidate' = [candidate EXCEPT ![s] = NoCandidate]
           ELSE UNCHANGED role_vars
        /\ requests' = requests \ {m}
        /\ responses' = Reply(m, current_term[s], FALSE, responses)
        /\ UNCHANGED <<meta_vars, followers, streams, late>>
  /\ UNCHANGED <<commit_index, disk, draining, log_vars, history>>

\* heartbeat_callback with an answer of the leader's own term; the lease it
\* extends is outside this module.
heartbeat_callback(m) ==
  LET s == m.to IN
  /\ m.kind = "Heartbeat" /\ Alive(s) /\ m.term <= current_term[s]
  /\ IF state[s] = "Leader"
     THEN cycle(s, candidate[s], disk[s], draining[s], log_last_flushed[s],
                followers[s], streams)
     ELSE UNCHANGED <<role_vars, followers, commit_index, log, streams, requests, leaders>>
  /\ responses' = responses \ {m}
  /\ UNCHANGED <<meta_vars, disk, draining, log_last_flushed, late, ballots>>

\* heartbeat_callback without an answer: the RPC failed.
heartbeat_failed(l, f) ==
  /\ state[l] = "Leader" /\ HeartbeatPending(l, f)
  /\ LET mine == {r \in requests : r.kind = "Heartbeat" /\ r.from = l /\ r.to = f}
         fo == [followers[l] EXCEPT ![f].mode = IF @ = "Live" THEN "Pesimistic" ELSE @]
     IN /\ LeaderCycle(l, log[l], log_last_flushed[l], fo, streams)
        /\ requests' = requests \ mine
  /\ responses' = {r \in responses : ~(r.kind = "Heartbeat" /\ r.from = f /\ r.to = l)}
  /\ UNCHANGED <<meta_vars, disk, role_vars, draining, log_vars, late, history>>

-----------------------------------------------------------------------------
(* AppendEntries *)

\* Indexes at which an entry of m contradicts the log of f.
Conflicts(f, m) ==
  {i \in 1..Len(log[f]) : /\ i > m.prev_log_index
                          /\ i <= m.prev_log_index + Len(m.entries)
                          /\ log[f][i].term # m.entries[i - m.prev_log_index].term}

FirstConflict(f, m) ==
  CHOOSE i \in Conflicts(f, m) : \A j \in Conflicts(f, m) : i <= j

\* How append_entries ends.  A conflict below the last entry makes config.revert
\* panic; one at the last entry fails the check that follows it, because the
\* entries to be replaced are still in log_meta.
append_outcome(f, m) ==
  IF m.term < current_term[f] THEN "old_term"
  ELSE IF m.term = current_term[f] /\ state[f] = "Leader" THEN "two_leaders"
  ELSE IF m.prev_log_index > Len(log[f]) THEN "missing"
  ELSE IF lookup_term(log[f], m.prev_log_index) # m.prev_log_term THEN "mismatch"
  ELSE IF Conflicts(f, m) = {} THEN "ok"
  ELSE IF commit_index[f] >= FirstConflict(f, m) THEN "refuse_truncation"
  ELSE IF FirstConflict(f, m) < Len(log[f]) THEN "panic"
  ELSE "not_after_last"


NewLog(f, m) ==
  IF append_outcome(f, m) = "ok"
  THEN log[f] \o SubSeq(m.entries, Len(log[f]) + 1 - m.prev_log_index, Len(m.entries))
  ELSE log[f]

\* last_new: the last entry appended, or the previous one if none was.
LastNew(f, m) ==
  IF Len(NewLog(f, m)) > Len(log[f]) THEN Len(NewLog(f, m)) ELSE m.prev_log_index

NewCommit(f, m) ==
  IF append_outcome(f, m) = "ok"
  THEN Larger(commit_index[f], Smaller(m.leader_commit, LastNew(f, m)))
  ELSE commit_index[f]

TimeoutNow(f, m) ==
  /\ m.timeout_now /\ append_outcome(f, m) = "ok"
  /\ Len(NewLog(f, m)) >= NewCommit(f, m)

\* What append_entries does to server f when it handles request m of leader l; st
\* and lt are the streams and late requests after m has been taken from them.
append_entries(f, l, m, st, lt) ==
  LET out == append_outcome(f, m)
      newer == m.term > current_term[f]
      elect == TimeoutNow(f, m)
      term == IF elect THEN m.term + 1 ELSE m.term
      cancel == newer \/ elect
  IN
  /\ Alive(f) /\ (elect => term <= MaxTerm)
  /\ IF out \in {"old_term", "two_leaders"}
     THEN /\ streams' = st /\ late' = lt
          /\ UNCHANGED <<meta_vars, commit_index, role_vars, followers, log, rpc_vars>>
     ELSE /\ current_term' = [current_term EXCEPT ![f] = term]
          /\ voted_for' = [voted_for EXCEPT ![f] =
                            IF elect THEN f ELSE IF newer THEN Nil ELSE @]
          /\ state' = [state EXCEPT ![f] = IF out = "panic" THEN "Poisoned"
                                           ELSE IF elect THEN "Candidate" ELSE "Follower"]
          /\ last_leader_id' = [last_leader_id EXCEPT ![f] = IF elect THEN Nil ELSE l]
          /\ candidate' = [candidate EXCEPT ![f] =
               IF elect THEN [NoCandidate EXCEPT !.main_vote_start = TRUE,
                                                 !.leader_approval = m.term]
               ELSE NoCandidate]
          /\ followers' = [followers EXCEPT ![f] = NoFollowers]
          /\ commit_index' = [commit_index EXCEPT ![f] = NewCommit(f, m)]
          /\ log' = [log EXCEPT ![f] = NewLog(f, m)]
          /\ requests' = (IF cancel THEN CancelRequests(f, requests) ELSE requests)
                \cup (IF elect THEN perform_election(f, "RequestVote", term,
                                                     NewLog(f, m), m.term) ELSE {})
          /\ responses' = IF cancel THEN CancelResponses(f, responses) ELSE responses
          /\ streams' = IF cancel THEN CancelStreams(f, st) ELSE st
          /\ late' = IF cancel THEN CancelLate(f, lt) ELSE lt
  /\ UNCHANGED <<disk, draining, log_last_flushed, history>>

\* last_index_sent of a pending request.
LastSent(m) == m.prev_log_index + Len(m.entries)

\* Mutant: the answer does not wait for the disk.
MustFlush_never(f, m) == FALSE

\* The answer waits until last_new is on the disk of f.
MustFlush(f, m) == LastNew(f, m) > log_last_flushed[f]


\* Where a follower that cannot append asks the leader to resume.
RejectIndex(f, m) ==
  IF append_outcome(f, m) = "missing" THEN Len(log[f]) ELSE commit_index[f]

\* What the AppendEntries service turns m into: an answer, an answer that waits
\* for the flush of last_new, or the end of the stream.  All that is kept of the
\* request itself is last_index_sent, in the place of prev_log_index.
Answer(f, m) ==
  LET out == append_outcome(f, m)
      ok == out = "ok" /\ (m.timeout_now => TimeoutNow(f, m))
      wait == ok /\ MustFlush(f, m)
  IN [m EXCEPT
       !.phase = IF wait THEN "flush"
                 ELSE IF ok \/ out \in {"old_term", "missing", "mismatch"} THEN "response"
                 ELSE "error",
       !.prev_log_index = LastSent(m), !.prev_log_term = 0, !.entries = <<>>,
       !.leader_commit = 0, !.timeout_now = FALSE,
       !.need = IF wait THEN LastNew(f, m) ELSE 0,
       !.res_term = Larger(current_term[f], m.term),
       !.success = ok,
       !.last_log_index = CASE out = "ok" -> Len(NewLog(f, m))
                            [] out \in {"missing", "mismatch"} -> RejectIndex(f, m)
                            [] OTHER -> 0]

\* The AppendEntries service of f takes the next request of its stream from l, once
\* every earlier one has been answered.
HandleAppend(l, f) ==
  \E i \in DOMAIN streams[l][f] :
    LET m == streams[l][f][i] IN
    /\ m.phase = "request"
    /\ \A j \in 1..(i - 1) : streams[l][f][j].phase = "response"
    /\ append_entries(f, l, m, [streams EXCEPT ![l][f][i] = Answer(f, m)], late)

\* A request of a stream that l has given up; its answer goes nowhere.
HandleLateAppend(l, f) ==
  /\ late[l][f] # <<>>
  /\ append_entries(f, l, Head(late[l][f]), streams, [late EXCEPT ![l][f] = Tail(@)])

\* Mutant: a rejection leaves next_index where it is.
Answered_no_backup(p, m) ==
  IF m.success
  THEN [p EXCEPT !.mode = "Live", !.match_index = Larger(@, LastSent(m))]
  ELSE [p EXCEPT !.mode = "CatchingUp"]

\* The progress of a follower after its answer m.
Answered(p, m) ==
  IF m.success
  THEN [p EXCEPT !.mode = "Live", !.match_index = Larger(@, LastSent(m))]
  ELSE [p EXCEPT !.mode = "CatchingUp", !.next_index = m.last_log_index + 1]

\* The answer to the oldest pending request of a stream.
append_entries_callback(l, f) ==
  /\ streams[l][f] # <<>> /\ Alive(l)
  /\ LET m == Head(streams[l][f])
         base == [streams EXCEPT ![l][f] = Tail(@)]
         fo == [followers[l] EXCEPT ![f] = Answered(@, m)]
         should_noop == /\ m.success /\ m.last_log_index > Len(log[l])
                        /\ last_term(log[l]) # current_term[l]
     IN
     /\ m.phase = "response"
     /\ \/ /\ m.res_term > current_term[l]
           /\ FollowTerm(l, m.res_term, Nil, Nil)
           /\ requests' = CancelRequests(l, requests)
           /\ responses' = CancelResponses(l, responses)
           /\ streams' = CancelStreams(l, streams) /\ late' = CancelLate(l, late)
           /\ UNCHANGED <<commit_index, log, leaders>>
        \/ /\ m.res_term <= current_term[l] /\ state[l] # "Leader"
           /\ streams' = base
           /\ UNCHANGED <<meta_vars, role_vars, followers, commit_index, log, late,
                          rpc_vars, leaders>>
        \/ /\ m.res_term <= current_term[l] /\ state[l] = "Leader" /\ ~should_noop
           /\ cycle(l, candidate[l], disk[l], draining[l], log_last_flushed[l], fo, base)
           /\ UNCHANGED <<meta_vars, late, responses>>
        \/ /\ m.res_term <= current_term[l] /\ state[l] = "Leader" /\ should_noop
           /\ \/ /\ ~draining[l]
                 /\ propose_entry(l, fo, base)
                 /\ UNCHANGED state
              \/ /\ draining[l]  \* propose_noop fails, and expect() panics
                 /\ state' = [state EXCEPT ![l] = "Poisoned"]
                 /\ streams' = base
                 /\ UNCHANGED <<followers, commit_index, log>>
           /\ UNCHANGED <<meta_vars, last_leader_id, candidate, late, rpc_vars, leaders>>
  /\ UNCHANGED <<disk, draining, log_last_flushed, ballots>>

\* append_entries_noresponse for every pending request of a stream that timed out or
\* ended; next_index stays where it is.
append_entries_noresponse(l, f) ==
  /\ streams[l][f] # <<>> /\ Alive(l) /\ (f \in Flaky \/ Failed(streams[l][f]))
  /\ LET base == [streams EXCEPT ![l][f] = <<>>]
         fo == [followers[l] EXCEPT ![f].mode = "Pesimistic"]
     IN IF state[l] = "Leader"
        THEN LeaderCycle(l, log[l], log_last_flushed[l], fo, base)
        ELSE streams' = base /\ UNCHANGED <<commit_index, followers>>
  /\ late' = [late EXCEPT ![l][f] = Lingering(streams[l][f], @)]
  /\ UNCHANGED <<meta_vars, disk, role_vars, draining, log_vars, rpc_vars, history>>

\* replicate_entries when a timer allows one more request to f: the retry interval of
\* a Live follower, the pacing interval of any other.  The leader that drains may
\* make it a TimeoutNow for a Live follower that has everything.
replicate_entries(l, f, timeout_now) ==
  LET p == followers[l][f]
      live == p.mode = "Live"
      prev == p.next_index - 1
      max == IF live THEN LiveBatch ELSE SlowBatch
  IN
  /\ state[l] = "Leader" /\ f # l
  /\ IF live THEN Len(streams[l][f]) < MaxInFlight ELSE streams[l][f] = <<>>
  /\ timeout_now => /\ draining[l] /\ live /\ prev = Len(log[l])
                    /\ Len(streams[l][f]) <= QueueLimit
  /\ streams' = [streams EXCEPT ![l][f] =
       Append(@, AppendRequest(l, log[l], commit_index[l], prev, max, timeout_now))]
  /\ followers' = [followers EXCEPT ![l][f] =
       [@ EXCEPT !.next_index = Smaller(prev + 1 + max, Len(log[l])) + 1,
                 !.last_commit_index_sent = commit_index[l]]]
  /\ UNCHANGED <<meta_vars, commit_index, disk, role_vars, draining, log_vars, late,
                 rpc_vars, history>>

-----------------------------------------------------------------------------
(* Proposals, storage and restarts *)

\* Mutant: proposals are accepted while draining.
Propose_draining(s) ==
  /\ state[s] = "Leader" /\ Len(log[s]) < MaxLog
  /\ propose_entry(s, followers[s], streams)
  /\ UNCHANGED <<meta_vars, disk, role_vars, draining, log_last_flushed, late,
                 rpc_vars, history>>

\* A client's proposal on a leader that is not draining.
Propose(s) ==
  /\ state[s] = "Leader" /\ ~draining[s] /\ Len(log[s]) < MaxLog
  /\ propose_entry(s, followers[s], streams)
  /\ UNCHANGED <<meta_vars, disk, role_vars, draining, log_last_flushed, late,
                 rpc_vars, history>>

drain(s) ==
  /\ Alive(s) /\ ~draining[s]
  /\ draining' = [draining EXCEPT ![s] = TRUE]
  /\ cycle(s, candidate[s], disk[s], TRUE, log_last_flushed[s], followers[s], streams)
  /\ UNCHANGED <<meta_vars, disk, log_last_flushed, late, responses, ballots>>

FlushedQueue(q, k) ==
  [i \in DOMAIN q |-> IF q[i].phase = "flush" /\ q[i].need <= k
                      THEN [q[i] EXCEPT !.phase = "response", !.need = 0] ELSE q[i]]

\* The log of s is durable up to k: log_flushed, and the answers that waited for it.
log_flushed(s, k) ==
  LET base == [l \in Server |-> [streams[l] EXCEPT ![s] = FlushedQueue(@, k)]]
  IN
  /\ Alive(s)
  /\ log_last_flushed[s] < k /\ k <= Len(log[s])
  /\ log_last_flushed' = [log_last_flushed EXCEPT ![s] = k]
  /\ cycle(s, candidate[s], disk[s], draining[s], k, followers[s], base)
  /\ UNCHANGED <<meta_vars, disk, draining, late, responses, ballots>>

meta(s) == [current_term |-> current_term[s], voted_for |-> voted_for[s],
            commit_index |-> commit_index[s]]

\* The metadata writer stores the metadata and reports it: persisted_metadata.
persisted_metadata(s) ==
  /\ Alive(s) /\ disk[s] # meta(s)
  /\ disk' = [disk EXCEPT ![s] = meta(s)]
  /\ cycle(s, candidate[s], meta(s), draining[s], log_last_flushed[s], followers[s],
           streams)
  /\ ballots' = IF voted_for[s] = s THEN ballots \cup {<<s, current_term[s], s>>}
                ELSE ballots
  /\ UNCHANGED <<meta_vars, draining, log_last_flushed, late, responses>>

BrokenQueue(q) ==
  [i \in DOMAIN q |-> IF q[i].phase = "response" THEN q[i]
                      ELSE [q[i] EXCEPT !.phase = "error"]]

\* The process of s stops and starts again with what its disk holds (new): the
\* metadata file and the log up to some index k that includes all that was flushed.
Restart(s, k) ==
  LET lg == SubSeq(log[s], 1, k)
      behind == last_term(lg) > disk[s].current_term
  IN
  /\ s \in Mortal /\ restarts < MaxRestarts
  /\ log_last_flushed[s] <= k /\ k <= Len(log[s])
  /\ restarts' = restarts + 1
  /\ current_term' = [current_term EXCEPT ![s] =
                       IF behind THEN last_term(lg) ELSE disk[s].current_term]
  /\ voted_for' = [voted_for EXCEPT ![s] = IF behind THEN Nil ELSE disk[s].voted_for]
  /\ commit_index' = [commit_index EXCEPT ![s] = disk[s].commit_index]
  /\ state' = [state EXCEPT ![s] = "Follower"]
  /\ last_leader_id' = [last_leader_id EXCEPT ![s] = Nil]
  /\ candidate' = [candidate EXCEPT ![s] = NoCandidate]
  /\ followers' = [followers EXCEPT ![s] = NoFollowers]
  /\ draining' = [draining EXCEPT ![s] = FALSE]
  /\ log' = [log EXCEPT ![s] = lg]
  /\ log_last_flushed' = [log_last_flushed EXCEPT ![s] = k]
  /\ requests' = CancelRequests(s, requests)
  /\ responses' = CancelResponses(s, responses)
  /\ streams' = [l \in Server |-> IF l = s THEN [f \in Server |-> <<>>]
                                  ELSE [streams[l] EXCEPT ![s] = BrokenQueue(@)]]
  /\ late' = [l \in Server |-> IF l = s THEN CancelLate(s, late)[s]
                               ELSE [late[l] EXCEPT ![s] = <<>>]]
  /\ UNCHANGED <<disk, ballots, leaders>>

\* Every vote that s has cast is still known to its metadata file.
VotesOnDisk(s) ==
  \A b \in ballots : b[1] = s =>
    \/ b[2] < disk[s].current_term
    \/ b[2] = disk[s].current_term /\ b[3] = disk[s].voted_for

\* Every term that s has led has reached its metadata file.  A leader elected by the
\* votes of the others alone may not have written it yet.
LedTermsOnDisk(s) ==
  \A l \in leaders : l[2] = s => l[1] <= disk[s].current_term

-----------------------------------------------------------------------------
(* Specifications *)

Init ==
  /\ current_term = [s \in Server |-> 0]
  /\ voted_for = [s \in Server |-> Nil]
  /\ commit_index = [s \in Server |-> 0]
  /\ disk = [s \in Server |-> [current_term |-> 0, voted_for |-> Nil,
                               commit_index |-> 0]]
  /\ state = [s \in Server |-> "Follower"]
  /\ last_leader_id = [s \in Server |-> Nil]
  /\ candidate = [s \in Server |-> NoCandidate]
  /\ followers = [s \in Server |-> NoFollowers]
  /\ draining = [s \in Server |-> FALSE]
  /\ log = [s \in Server |-> <<>>]
  /\ log_last_flushed = [s \in Server |-> 0]
  /\ streams = [l \in Server |-> [f \in Server |-> <<>>]]
  /\ late = [l \in Server |-> [f \in Server |-> <<>>]]
  /\ requests = {} /\ responses = {}
  /\ ballots = {} /\ leaders = {} /\ restarts = 0

\* The steps of servers that run.
ServerStep(s) ==
  \/ ElectionTimeout(s) \/ LeaseExpired(s)
  \/ Propose(s) \/ drain(s)
  \/ persisted_metadata(s)
  \/ \E k \in 1..Len(log[s]) : log_flushed(s, k)

PairStep(l, f) ==
  \/ send_heartbeats(l, f) \/ heartbeat_failed(l, f)
  \/ \E timeout_now \in BOOLEAN : replicate_entries(l, f, timeout_now)
  \/ HandleAppend(l, f) \/ HandleLateAppend(l, f)
  \/ append_entries_callback(l, f) \/ append_entries_noresponse(l, f)

Receive ==
  \/ \E m \in requests : pre_vote(m) \/ request_vote(m) \/ heartbeat(m)
  \/ \E m \in responses : \/ ObserveResponse(m)
                          \/ request_vote_callback(m) \/ heartbeat_callback(m)

Step ==
  /\ \/ \E s \in Server : ServerStep(s)
     \/ \E l, f \in Server : PairStep(l, f)
     \/ Receive
  /\ UNCHANGED restarts

\* Servers stop and restart at any moment at which their votes are on disk.
RestartStep ==
  \E s \in Server : VotesOnDisk(s) /\ \E k \in 0..Len(log[s]) : Restart(s, k)

\* ... and so are the terms they have led.
DurableRestartStep ==
  \E s \in Server : /\ VotesOnDisk(s) /\ LedTermsOnDisk(s)
                    /\ \E k \in 0..Len(log[s]) : Restart(s, k)

\* Servers stop and restart at any moment.
CrashStep == \E s \in Server : \E k \in 0..Len(log[s]) : Restart(s, k)

Next == Step \/ RestartStep

Spec == Init /\ [][Next]_vars

-----------------------------------------------------------------------------
(* Properties *)

\* At most one server ever wins the election of a term, whoever has crashed,
\* restarted or moved to a later term since (request_vote, cycle of a candidate).
ElectionSafety ==
  \A a, b \in leaders : a[1] = b[1] => a[2] = b[2]

\* No server ever casts votes for two candidates of one term (request_vote and the
\* own vote of become_candidate, once persisted).
VoteOnce ==
  \A a, b \in ballots : a[1] = b[1] /\ a[2] = b[2] => a[3] = b[3]


\* The number of entries that s holds and considers committed.
CommittedLen(s) == Smaller(commit_index[s], Len(log[s]))

\* What two servers consider committed never differs: their state machines are
\* given the same entries in the same order (update_commited).
StateMachineSafety ==
  \A s, q \in Server : s # q =>
    \A i \in 1..CommittedLen(s) : i <= CommittedLen(q) => log[s][i] = log[q][i]

\* The leader of the latest term has every entry that any server considers committed
\* (pre_vote_should_grant, find_next_commit_index).
LeaderCompleteness ==
  \A l \in Server :
    (state[l] = "Leader" /\ \A r \in Server : current_term[r] <= current_term[l]) =>
      \A q \in Server : \A i \in 1..CommittedLen(q) :
        i <= Len(log[l]) /\ log[l][i] = log[q][i]

\* match_index counts only entries that the follower holds on its disk ("Index of the
\* highest entry known to be persistently replicated to this server").
MatchIndexDurable ==
  \A l, f \in Server :
    (state[l] = "Leader" /\ f # l) =>
      LET k == followers[l][f].match_index IN
      /\ k <= log_last_flushed[f]
      /\ \A i \in 1..k : log[f][i] = log[l][i]

\* The requests that the AppendEntries service of f may take next from l.
Deliverable(l, f) ==
  {streams[l][f][i] : i \in {j \in DOMAIN streams[l][f] :
     /\ streams[l][f][j].phase = "request"
     /\ \A k \in 1..(j - 1) : streams[l][f][k].phase = "response"}}
  \cup {late[l][f][i] : i \in DOMAIN late[l][f] \cap {1}}

\* append_entries is never asked to replace a committed entry ("Refusing to truncate
\* changes already locally committed") and never meets a second leader of the term
\* ("This should never happen. We are receiving append entries from another leader in
\* the same term").
CommittedUncontested ==
  \A l, f \in Server : Alive(f) =>
    \A m \in Deliverable(l, f) :
      append_outcome(f, m) \notin {"refuse_truncation", "two_leaders"}

\* A request that contradicts uncommitted entries of the follower replaces them
\* (append_entries: "must roll back all changes in the local log").
ConflictsAreReplaced ==
  \A l, f \in Server : Alive(f) =>
    \A m \in Deliverable(l, f) :
      append_outcome(f, m) \notin {"panic", "not_after_last"}

\* No handler panics: a vote is granted by followers only (request_vote: "Granted vote
\* but did not transition back to being a follower"), whatever the order in which
\* elections, retries and restarts follow each other.
NoPanic == \A s \in Server : Alive(s)


\* Whoever stands for election at the request of a draining leader has that leader's
\* whole log, so the hand-over loses nothing that the leader had accepted (drain,
\* TimeoutNow in replicate_entries and append_entries).
HandoverComplete ==
  \A c, l \in Server :
    (/\ state[c] = "Candidate" /\ state[l] = "Leader"
     /\ candidate[c].leader_approval = current_term[l] /\ current_term[l] # 0)
    => /\ Len(log[l]) <= Len(log[c])
       /\ \A i \in DOMAIN log[l] : log[l][i] = log[c][i]


=============================================================================
