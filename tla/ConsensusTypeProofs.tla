------------------------ MODULE ConsensusTypeProofs ------------------------
(* Type correctness of Consensus: every handler keeps TypeOK. *)
EXTENDS Consensus, SequenceTheorems, FiniteSetTheorems, TLAPS

-----------------------------------------------------------------------------
(* The operators that the handlers are built from *)

\* The initial values of the candidate and the leader state have their types.
LEMMA FreshStates ==
  /\ NoCandidate \in CandidateState
  /\ NoFollowers \in [Server -> Progress]
  /\ \A n \in Nat : NewProgress(n) \in Progress
BY DEF NoCandidate, CandidateState, NoFollowers, NewProgress, Progress

\* The term of a log at any index is a number (term of the log, 0 before its start).
LEMMA TermType ==
  ASSUME NEW lg \in Seq(LogEntry), NEW i
  PROVE  lookup_term(lg, i) \in Nat /\ last_term(lg) \in Nat
<1>1. DOMAIN lg = 1..Len(lg)
  BY LenProperties
<1>2. \A j \in 1..Len(lg) : lg[j] \in LogEntry
  BY ElementOfSeq
<1>3. \A j \in DOMAIN lg : lg[j].term \in Nat
  BY <1>1, <1>2 DEF LogEntry
<1> QED
  BY <1>3 DEF lookup_term, last_term

\* A slice of a sequence that stays within it is a sequence of the same elements.
LEMMA SliceType ==
  ASSUME NEW S, NEW q \in Seq(S), NEW a \in Nat \ {0}, NEW b \in Int, b <= Len(q)
  PROVE  SubSeq(q, a, b) \in Seq(S)
<1>1. \A i \in a..b : q[i] \in S
  BY ElementOfSeq, LenProperties
<1> QED
  BY <1>1, SubSeqProperties

\* perform_election sends well-formed requests.
LEMMA ElectionRequests ==
  ASSUME NEW s \in Server, NEW kind \in {"PreVote", "RequestVote"}, NEW t \in Nat,
         NEW lg \in Seq(LogEntry), NEW approval \in Nat
  PROVE  perform_election(s, kind, t, lg, approval) \subseteq Request
<1>1. Len(lg) \in Nat /\ last_term(lg) \in Nat
  BY LenProperties, TermType
<1> QED
  BY <1>1 DEF perform_election, Request

\* Cancelling and ageing RPCs changes nothing but their handles.
LEMMA CancelType ==
  ASSUME NEW s \in Server,
         NEW reqs \in SUBSET Request, NEW resps \in SUBSET Response
  PROVE  /\ CancelRequests(s, reqs) \subseteq Request
         /\ CancelResponses(s, resps) \subseteq Response
BY DEF CancelRequests, CancelResponses, Request, Response

LEMMA AgeType ==
  ASSUME TypeOK, NEW s \in Server
  PROVE  AgeRequests(s) \subseteq Request /\ AgeResponses(s) \subseteq Response
<1>1. \A r \in requests : r \in Request
  BY DEF TypeOK
<1>2. ASSUME NEW r \in requests
      PROVE  [r EXCEPT !.handle = IF @ = "current" THEN "old" ELSE @] \in Request
  BY <1>1 DEF Request
<1>3. AgeRequests(s) \subseteq Request
  BY <1>1, <1>2 DEF AgeRequests
<1>4. \A r \in responses : r \in Response /\ [r EXCEPT !.handle = "old"] \in Response
  BY DEF TypeOK, Response
<1>5. AgeResponses(s) \subseteq Response
  BY <1>4 DEF AgeResponses
<1> QED
  BY <1>3, <1>5

\* What lingers of a dropped stream is a queue of requests.
LEMMA LingeringType ==
  ASSUME NEW q \in Seq(AppendEntry), NEW old \in Seq(AppendEntry)
  PROVE  Lingering(q, old) \in Seq(AppendEntry)
<1> DEFINE H == {i \in DOMAIN q : ~Requested(q[i])}
           all == old \o SubSeq(q, Cardinality(H) + 1, Len(q))
<1>1. Len(q) \in Nat /\ DOMAIN q = 1..Len(q)
  BY LenProperties
<1>2. IsFiniteSet(H)
  <2>1. IsFiniteSet(1..Len(q))
    BY <1>1, FS_Interval
  <2>2. H \in SUBSET (1..Len(q))
    BY <1>1
  <2> HIDE DEF H
  <2> QED
    BY <2>1, <2>2, FS_Subset
<1>3. Cardinality(H) + 1 \in Nat \ {0}
  BY <1>2, FS_CardinalityType
<1>4. SubSeq(q, Cardinality(H) + 1, Len(q)) \in Seq(AppendEntry)
  <2> HIDE DEF H
  <2> QED BY <1>1, <1>3, SliceType
<1>5. all \in Seq(AppendEntry) /\ Len(all) \in Nat
  BY <1>4, ConcatProperties, LenProperties
<1>6. Smaller(Len(all), MaxLate) \in Int /\ Smaller(Len(all), MaxLate) <= Len(all)
  BY <1>5, BoundAssumption DEF Smaller
<1>7. SubSeq(all, 1, Smaller(Len(all), MaxLate)) \in Seq(AppendEntry)
  <2> HIDE DEF all
  <2> QED BY <1>5, <1>6, SliceType
<1> QED
  BY <1>7 DEF Lingering

\* finish_tick drops the streams of a server whole.
LEMMA CancelStreamsType ==
  ASSUME TypeOK, NEW s \in Server,
         NEW st \in [Server -> [Server -> Seq(AppendEntry)]],
         NEW lt \in [Server -> [Server -> Seq(AppendEntry)]]
  PROVE  /\ CancelStreams(s, st) \in [Server -> [Server -> Seq(AppendEntry)]]
         /\ CancelLate(s, lt) \in [Server -> [Server -> Seq(AppendEntry)]]
<1>1. <<>> \in Seq(AppendEntry)
  BY EmptySeq
<1>2. \A f \in Server : Lingering(streams[s][f], lt[s][f]) \in Seq(AppendEntry)
  BY LingeringType DEF TypeOK
<1> QED
  BY <1>1, <1>2 DEF CancelStreams, CancelLate

-----------------------------------------------------------------------------
(* cycle() *)

\* The requests that a leader builds are well-formed, however long its log is.
LEMMA AppendRequestType ==
  ASSUME TypeOK, NEW s \in Server, NEW lg \in Seq(LogEntry), NEW commit \in Nat,
         NEW prev \in Nat, NEW max \in Nat, NEW timeout_now \in BOOLEAN
  PROVE  AppendRequest(s, lg, commit, prev, max, timeout_now) \in AppendEntry
<1> DEFINE last == Smaller(prev + 1 + max, Len(lg))
<1>1. Len(lg) \in Nat /\ lookup_term(lg, prev) \in Nat
  BY LenProperties, TermType
<1>2. last \in Int /\ last <= Len(lg)
  BY <1>1 DEF Smaller
<1>3. SubSeq(lg, prev + 1, last) \in Seq(LogEntry)
  <2> HIDE DEF last
  <2> QED BY <1>2, SliceType
<1>4. current_term[s] \in Nat
  BY DEF TypeOK
<1> QED
  BY <1>1, <1>3, <1>4 DEF AppendRequest, AppendEntry

\* The loop of replicate_entries sends a finite number of requests.
LEMMA LiveSendsType ==
  ASSUME NEW lg \in Seq(LogEntry), NEW commit \in Nat, NEW p \in Progress,
         NEW q \in Seq(AppendEntry)
  PROVE  LiveSends(lg, commit, p, q) \in Nat
<1> DEFINE room == MaxInFlight - Len(q)
           I == {i \in 1..room : p.next_index + (i - 1) * (1 + LiveBatch) <= Len(lg)}
<1>1. room \in Int
  BY LenProperties, BoundAssumption
<1>2. IsFiniteSet(1..room) /\ I \in SUBSET (1..room)
  BY <1>1, FS_Interval
<1>3. IsFiniteSet(I)
  <2> HIDE DEF I, room
  <2> QED BY <1>2, FS_Subset
<1>4. Cardinality(I) \in Nat
  BY <1>3, FS_CardinalityType
<1> HIDE DEF I
<1> QED
  BY <1>4 DEF LiveSends, I

LEMMA ProductType == \A a, b \in Nat : a * b \in Nat
OBVIOUS

\* What replicate_entries does to the progress and to the stream of one follower.
LEMMA SentType ==
  ASSUME TypeOK, NEW s \in Server, NEW lg \in Seq(LogEntry), NEW commit \in Nat,
         NEW p \in Progress, NEW q \in Seq(AppendEntry)
  PROVE  /\ SentProgress(lg, commit, p, q) \in Progress
         /\ SentQueue(s, lg, commit, p, q) \in Seq(AppendEntry)
<1> DEFINE n == LiveSends(lg, commit, p, q)
           prev(i) == p.next_index - 1 + (i - 1) * (1 + LiveBatch)
           sent == [i \in 1..n |-> AppendRequest(s, lg, commit, prev(i), LiveBatch, FALSE)]
<1>1. n \in Nat /\ Len(lg) \in Nat /\ 1 + LiveBatch \in Nat
  BY LiveSendsType, LenProperties, BoundAssumption
<1>2. p.next_index \in Nat \ {0}
  BY DEF Progress
<1>3. SentProgress(lg, commit, p, q) \in Progress
  <2>1. n * (1 + LiveBatch) \in Nat
    <3> HIDE DEF n
    <3> QED BY <1>1, ProductType
  <2>2. Smaller(p.next_index + n * (1 + LiveBatch), Len(lg) + 1) \in Nat \ {0}
    <3> HIDE DEF n
    <3> QED BY <1>1, <1>2, <2>1 DEF Smaller
  <2> QED
    BY <2>2 DEF SentProgress, Progress
<1>4. ASSUME NEW i \in 1..n
      PROVE  AppendRequest(s, lg, commit, prev(i), LiveBatch, FALSE) \in AppendEntry
  <2>1. i - 1 \in Nat
    BY <1>1
  <2>2. (i - 1) * (1 + LiveBatch) \in Nat
    BY <1>1, <2>1, ProductType
  <2>3. prev(i) \in Nat
    BY <1>2, <2>2
  <2> HIDE DEF prev
  <2> QED
    BY <2>3, AppendRequestType, BoundAssumption
<1>5. sent \in Seq(AppendEntry)
  <2>1. sent \in [1..n -> AppendEntry]
    BY <1>4
  <2> HIDE DEF sent
  <2> QED
    BY <1>1, <2>1, SeqDef
<1>6. q \o sent \in Seq(AppendEntry)
  <2> HIDE DEF sent
  <2> QED BY <1>5, ConcatProperties
<1> QED
  BY <1>3, <1>6 DEF SentQueue

\* cycle() of a leader changes its commit index, its followers and its streams.
LEMMA LeaderCycleType ==
  ASSUME TypeOK, NEW s \in Server, NEW lg \in Seq(LogEntry), NEW flushed,
         NEW fo \in [Server -> Progress],
         NEW base \in [Server -> [Server -> Seq(AppendEntry)]],
         LeaderCycle(s, lg, flushed, fo, base)
  PROVE  /\ commit_index' \in [Server -> Nat]
         /\ followers' \in [Server -> [Server -> Progress]]
         /\ streams' \in [Server -> [Server -> Seq(AppendEntry)]]
<1>1. PICK c \in 0..Len(lg) :
        /\ commit_index' = [commit_index EXCEPT ![s] = c]
        /\ followers' = [followers EXCEPT ![s] =
             [f \in Server |-> SentProgress(lg, c, fo[f], base[s][f])]]
        /\ streams' = [base EXCEPT ![s] =
             [f \in Server |-> SentQueue(s, lg, c, fo[f], base[s][f])]]
  BY DEF LeaderCycle
<1>2. c \in Nat
  BY LenProperties
<1>3. \A f \in Server : /\ SentProgress(lg, c, fo[f], base[s][f]) \in Progress
                        /\ SentQueue(s, lg, c, fo[f], base[s][f]) \in Seq(AppendEntry)
  BY <1>2, SentType
<1> QED
  BY <1>1, <1>2, <1>3 DEF TypeOK

LEMMA NewEntryType ==
  ASSUME TypeOK, NEW s \in Server
  PROVE  Append(log[s], NewEntry(s)) \in Seq(LogEntry)
<1>1. log[s] \in Seq(LogEntry)
  BY DEF TypeOK
<1>2. NewEntry(s) \in LogEntry
  BY <1>1, LenProperties DEF TypeOK, NewEntry, LogEntry
<1> QED
  BY <1>1, <1>2, AppendProperties

LEMMA ProposeType ==
  ASSUME TypeOK, NEW s \in Server, NEW fo \in [Server -> Progress],
         NEW base \in [Server -> [Server -> Seq(AppendEntry)]],
         propose_entry(s, fo, base)
  PROVE  /\ log' \in [Server -> Seq(LogEntry)]
         /\ commit_index' \in [Server -> Nat]
         /\ followers' \in [Server -> [Server -> Progress]]
         /\ streams' \in [Server -> [Server -> Seq(AppendEntry)]]
<1> DEFINE lg == Append(log[s], NewEntry(s))
<1>1. lg \in Seq(LogEntry)
  BY NewEntryType
<1>2. log' = [log EXCEPT ![s] = lg] /\ LeaderCycle(s, lg, log_last_flushed[s], fo, base)
  BY DEF propose_entry
<1> HIDE DEF lg
<1>3. log' \in [Server -> Seq(LogEntry)]
  BY <1>1, <1>2 DEF TypeOK
<1> QED
  BY <1>1, <1>2, <1>3, LeaderCycleType

\* What a candidate's cycle() may change.
CandidateTypes ==
  /\ state \in [Server -> {"Follower", "Candidate", "Leader", "Poisoned"}]
  /\ candidate \in [Server -> CandidateState]
  /\ followers \in [Server -> [Server -> Progress]]
  /\ streams \in [Server -> [Server -> Seq(AppendEntry)]]
  /\ log \in [Server -> Seq(LogEntry)]
  /\ requests \subseteq Request
  /\ leaders \subseteq Nat \X Server

\* The election is won, or the no-op that should follow panics.
LEMMA BecomeLeaderType ==
  ASSUME TypeOK, NEW s \in Server, NEW reqs \in SUBSET Request,
         NEW base \in [Server -> [Server -> Seq(AppendEntry)]],
         BecomeLeader(s, reqs, base)
  PROVE  CandidateTypes'
<1> DEFINE noop == commit_index[s] < Len(log[s])
           lg == IF noop THEN Append(log[s], NewEntry(s)) ELSE log[s]
           first == AppendRequest(s, lg, commit_index[s], Len(log[s]), SlowBatch, FALSE)
           prog == [NewProgress(Len(lg)) EXCEPT !.last_commit_index_sent = commit_index[s]]
<1>1. CASE noop /\ draining[s]
  BY <1>1 DEF BecomeLeader, TypeOK, CandidateTypes
<1>2. CASE ~(noop /\ draining[s])
  <2>1. lg \in Seq(LogEntry)
    BY NewEntryType DEF TypeOK
  <2>2. commit_index[s] \in Nat /\ Len(log[s]) \in Nat /\ Len(lg) \in Nat
    <3> HIDE DEF lg
    <3> QED BY <2>1, LenProperties DEF TypeOK
  <2>3. first \in AppendEntry
    <3> HIDE DEF lg
    <3> QED BY <2>1, <2>2, AppendRequestType, BoundAssumption
  <2>4. <<>> \in Seq(AppendEntry) /\ <<first>> \in Seq(AppendEntry)
    <3> HIDE DEF first
    <3> QED BY <2>3, EmptySeq
  <2>5. prog \in Progress
    <3>1. \A p \in Progress, c \in Nat : [p EXCEPT !.last_commit_index_sent = c] \in Progress
      BY DEF Progress
    <3>2. NewProgress(Len(lg)) \in Progress
      BY <2>2, FreshStates
    <3> HIDE DEF lg
    <3> QED
      BY <2>2, <3>1, <3>2
  <2>6. /\ state' = [state EXCEPT ![s] = "Leader"]
        /\ candidate' = [candidate EXCEPT ![s] = NoCandidate]
        /\ followers' = [followers EXCEPT ![s] = [f \in Server |-> prog]]
        /\ streams' = [base EXCEPT ![s] =
             [f \in Server |-> IF f = s THEN <<>> ELSE <<first>>]]
        /\ log' = [log EXCEPT ![s] = lg]
        /\ requests' = reqs
        /\ leaders' = leaders \cup {<<current_term[s], s>>}
    BY <1>2 DEF BecomeLeader
  <2> HIDE DEF prog, first, lg
  <2>7. [f \in Server |-> IF f = s THEN <<>> ELSE <<first>>] \in [Server -> Seq(AppendEntry)]
    BY <2>4
  <2>8. streams' \in [Server -> [Server -> Seq(AppendEntry)]]
    BY <2>6, <2>7
  <2>9. followers' \in [Server -> [Server -> Progress]]
    BY <2>5, <2>6 DEF TypeOK
  <2>10. candidate' \in [Server -> CandidateState]
    BY <2>6, FreshStates DEF TypeOK
  <2>11. log' \in [Server -> Seq(LogEntry)]
    BY <2>1, <2>6 DEF TypeOK
  <2>12. leaders' \subseteq Nat \X Server
    <3>1. <<current_term[s], s>> \in Nat \X Server /\ leaders \subseteq Nat \X Server
      BY DEF TypeOK
    <3> QED
      BY <2>6, <3>1
  <2>13. state' \in [Server -> {"Follower", "Candidate", "Leader", "Poisoned"}]
    BY <2>6 DEF TypeOK
  <2> QED
    BY <2>6, <2>8, <2>9, <2>10, <2>11, <2>12, <2>13 DEF CandidateTypes
<1> QED
  BY <1>1, <1>2

\* cycle() of a candidate.
LEMMA CandidateCycleType ==
  ASSUME TypeOK, NEW s \in Server, NEW c \in CandidateState, NEW dk \in Metadata,
         NEW base \in [Server -> [Server -> Seq(AppendEntry)]],
         CandidateCycle(s, c, dk, base)
  PROVE  CandidateTypes'
<1> DEFINE start == /\ ~c.main_vote_start
                    /\ \/ Cardinality(c.pre_votes_received) + 1 >= majority_size
                       \/ c.leader_approval # 0
           reqs == IF start
                   THEN requests \cup perform_election(s, "RequestVote", current_term[s],
                                                       log[s], c.leader_approval)
                   ELSE requests
<1>1. reqs \in SUBSET Request
  <2>1. perform_election(s, "RequestVote", current_term[s], log[s], c.leader_approval)
          \subseteq Request
    BY ElectionRequests DEF TypeOK, CandidateState
  <2> QED
    BY <2>1 DEF TypeOK
<1>2. [c EXCEPT !.main_vote_start = @ \/ start] \in CandidateState
  <2> HIDE DEF start
  <2>1. (c.main_vote_start \/ start) \in BOOLEAN
    OBVIOUS
  <2> QED
    BY <2>1 DEF CandidateState
<1>3. CASE BecomeLeader(s, reqs, base)
  <2> HIDE DEF reqs
  <2> QED BY <1>1, <1>3, BecomeLeaderType
<1>4. CASE /\ candidate' = [candidate EXCEPT ![s] =
                              [c EXCEPT !.main_vote_start = @ \/ start]]
           /\ requests' = reqs
           /\ streams' = base
           /\ UNCHANGED <<state, followers, log, leaders>>
  <2> HIDE DEF reqs, start
  <2> QED BY <1>1, <1>2, <1>4 DEF TypeOK, CandidateTypes
<1> QED
  BY <1>3, <1>4 DEF CandidateCycle

\* What cycle() may change.
CycleTypes ==
  /\ CandidateTypes
  /\ last_leader_id \in [Server -> Server \cup {Nil}]
  /\ commit_index \in [Server -> Nat]

LEMMA CycleType ==
  ASSUME TypeOK, NEW s \in Server, NEW c \in CandidateState, NEW dk \in Metadata,
         NEW dr, NEW flushed, NEW fo \in [Server -> Progress],
         NEW base \in [Server -> [Server -> Seq(AppendEntry)]],
         cycle(s, c, dk, dr, flushed, fo, base)
  PROVE  CycleTypes'
<1>1. CASE /\ state[s] = "Follower"
           /\ last_leader_id' = [last_leader_id EXCEPT ![s] =
                                  IF dr \/ ~can_be_leader(s) THEN Nil ELSE @]
           /\ streams' = base
           /\ UNCHANGED <<state, candidate, followers, commit_index, log, requests, leaders>>
  BY <1>1 DEF TypeOK, CycleTypes, CandidateTypes
<1>2. CASE /\ CandidateCycle(s, c, dk, base)
           /\ UNCHANGED <<last_leader_id, commit_index>>
  BY <1>2, CandidateCycleType DEF TypeOK, CycleTypes
<1>3. CASE /\ LeaderCycle(s, log[s], flushed, fo, base)
           /\ UNCHANGED <<state, last_leader_id, candidate, log, requests, leaders>>
  <2>1. log[s] \in Seq(LogEntry)
    BY DEF TypeOK
  <2> QED
    BY <1>3, <2>1, LeaderCycleType DEF TypeOK, CycleTypes, CandidateTypes
<1> QED
  BY <1>1, <1>2, <1>3 DEF cycle

-----------------------------------------------------------------------------
(* The handlers *)

\* The conjuncts of TypeOK that a change of role or of term disturbs.
RoleTypes ==
  /\ current_term \in [Server -> Nat]
  /\ voted_for \in [Server -> Server \cup {Nil}]
  /\ state \in [Server -> {"Follower", "Candidate", "Leader", "Poisoned"}]
  /\ last_leader_id \in [Server -> Server \cup {Nil}]
  /\ candidate \in [Server -> CandidateState]
  /\ followers \in [Server -> [Server -> Progress]]

\* observe_term with a higher term.
LEMMA FollowTermType ==
  ASSUME TypeOK, NEW s \in Server, NEW t \in Nat,
         NEW leader \in Server \cup {Nil}, NEW vote \in Server \cup {Nil},
         FollowTerm(s, t, leader, vote)
  PROVE  RoleTypes'
BY FreshStates DEF TypeOK, FollowTerm, RoleTypes

\* become_candidate: of a follower, of a candidate again, of a leader without a lease.
LEMMA BecomeCandidateType ==
  ASSUME TypeOK, NEW s \in Server, become_candidate(s), UNCHANGED restarts
  PROVE  TypeOK'
<1> DEFINE inc == ~(state[s] = "Candidate" /\ ~candidate[s].some_rejected)
           t == IF inc THEN current_term[s] + 1 ELSE current_term[s]
           attempt == IF state[s] = "Candidate" THEN candidate[s].attempt_number + 1 ELSE 0
<1>1. t \in Nat /\ attempt \in Nat
  BY DEF TypeOK, CandidateState
<1>2. [NoCandidate EXCEPT !.attempt_number = attempt] \in CandidateState
  <2>1. \A c \in CandidateState, n \in Nat : [c EXCEPT !.attempt_number = n] \in CandidateState
    BY DEF CandidateState
  <2> QED
    BY <1>1, <2>1, FreshStates
<1>3. perform_election(s, "PreVote", t, log[s], 0) \subseteq Request
  BY <1>1, ElectionRequests DEF TypeOK
<1>4. /\ CancelRequests(s, requests) \subseteq Request
      /\ CancelResponses(s, responses) \subseteq Response
      /\ AgeRequests(s) \subseteq Request /\ AgeResponses(s) \subseteq Response
  BY CancelType, AgeType DEF TypeOK
<1>5. /\ CancelStreams(s, streams) \in [Server -> [Server -> Seq(AppendEntry)]]
      /\ CancelLate(s, late) \in [Server -> [Server -> Seq(AppendEntry)]]
  BY CancelStreamsType DEF TypeOK
<1>6. /\ current_term' = [current_term EXCEPT ![s] = t]
      /\ voted_for' = [voted_for EXCEPT ![s] = IF inc THEN s ELSE @]
      /\ state' = [state EXCEPT ![s] = "Candidate"]
      /\ last_leader_id' = [last_leader_id EXCEPT ![s] = Nil]
      /\ candidate' = [candidate EXCEPT ![s] =
                         [NoCandidate EXCEPT !.attempt_number = attempt]]
      /\ followers' = [followers EXCEPT ![s] = NoFollowers]
      /\ requests' = (IF inc THEN CancelRequests(s, requests) ELSE AgeRequests(s))
                       \cup perform_election(s, "PreVote", t, log[s], 0)
      /\ responses' = IF inc THEN CancelResponses(s, responses) ELSE AgeResponses(s)
      /\ streams' = CancelStreams(s, streams)
      /\ late' = CancelLate(s, late)
      /\ UNCHANGED <<commit_index, disk, draining, log, log_last_flushed, ballots, leaders>>
  BY DEF become_candidate, log_vars, history
<1> HIDE DEF inc, t, attempt
<1>7. RoleTypes'
  BY <1>1, <1>2, <1>6, FreshStates DEF TypeOK, RoleTypes
<1>8. requests' \subseteq Request /\ responses' \subseteq Response
  BY <1>3, <1>4, <1>6
<1> QED
  BY <1>5, <1>6, <1>7, <1>8 DEF TypeOK, RoleTypes

LEMMA TimerType ==
  ASSUME TypeOK, NEW s \in Server, ElectionTimeout(s) \/ LeaseExpired(s), UNCHANGED restarts
  PROVE  TypeOK'
<1>1. CASE become_candidate(s)
  BY <1>1, BecomeCandidateType
<1>2. CASE /\ state' = [state EXCEPT ![s] = "Follower"]
           /\ last_leader_id' = [last_leader_id EXCEPT ![s] = Nil]
           /\ followers' = [followers EXCEPT ![s] = NoFollowers]
           /\ UNCHANGED <<meta_vars, commit_index, disk, candidate, draining, log_vars,
                          streams, late, rpc_vars, history>>
  BY <1>2, FreshStates DEF TypeOK, meta_vars, log_vars, rpc_vars, history
<1> QED
  BY <1>1, <1>2 DEF ElectionTimeout, LeaseExpired

\* The answer to a well-formed request is a well-formed response.
LEMMA ReplyType ==
  ASSUME NEW m \in Request, NEW t \in Nat, NEW granted \in BOOLEAN,
         NEW resps \in SUBSET Response
  PROVE  Reply(m, t, granted, resps) \subseteq Response
BY DEF Reply, Request, Response

LEMMA PreVoteType ==
  ASSUME TypeOK, NEW m \in requests, pre_vote(m), UNCHANGED restarts
  PROVE  TypeOK'
<1>1. m \in Request /\ m.to \in Server /\ m.term \in Nat
  BY DEF TypeOK, Request
<1>2. Larger(current_term[m.to], m.term) \in Nat
  BY <1>1 DEF TypeOK, Larger
<1>3. PICK recent \in BOOLEAN : responses' =
        Reply(m, Larger(current_term[m.to], m.term),
              pre_vote_should_grant(m.to, m, current_term[m.to], voted_for[m.to], recent),
              responses)
  BY DEF pre_vote
<1>4. pre_vote_should_grant(m.to, m, current_term[m.to], voted_for[m.to], recent) \in BOOLEAN
  BY DEF pre_vote_should_grant
<1>5. responses' \subseteq Response
  BY <1>1, <1>2, <1>3, <1>4, ReplyType DEF TypeOK
<1> QED
  BY <1>5 DEF pre_vote, TypeOK, meta_vars, role_vars, log_vars, history

LEMMA RequestVoteType ==
  ASSUME TypeOK, NEW m \in requests, request_vote(m), UNCHANGED restarts
  PROVE  TypeOK'
<1> DEFINE s == m.to
           newer == m.term > current_term[s]
           term == Larger(current_term[s], m.term)
           vote == IF newer THEN Nil ELSE voted_for[s]
           resps == IF newer THEN CancelResponses(s, responses) ELSE responses
<1>1. m \in Request /\ s \in Server /\ m.from \in Server /\ m.term \in Nat
  BY DEF TypeOK, Request
<1>2. term \in Nat /\ vote \in Server \cup {Nil}
  BY <1>1 DEF TypeOK, Larger
<1>3. PICK recent \in BOOLEAN :
        LET granted == pre_vote_should_grant(s, m, term, vote, recent)
            panic == granted /\ ~newer /\ state[s] # "Follower"
            cast == IF granted THEN m.from ELSE vote
        IN
        /\ \/ /\ newer
              /\ FollowTerm(s, m.term, cast, cast)
              /\ requests' = CancelRequests(s, requests \ {m})
              /\ streams' = CancelStreams(s, streams) /\ late' = CancelLate(s, late)
           \/ /\ ~newer
              /\ state' = [state EXCEPT ![s] = IF panic THEN "Poisoned" ELSE @]
              /\ voted_for' = [voted_for EXCEPT ![s] = IF panic THEN @ ELSE cast]
              /\ last_leader_id' = [last_leader_id EXCEPT ![s] =
                                     IF granted /\ ~panic THEN m.from ELSE @]
              /\ requests' = requests \ {m}
              /\ UNCHANGED <<current_term, candidate, followers, streams, late>>
        /\ responses' = IF panic THEN resps ELSE Reply(m, term, granted, resps)
        /\ ballots' = IF granted /\ ~panic THEN ballots \cup {<<s, term, m.from>>}
                      ELSE ballots
  BY DEF request_vote
<1> DEFINE granted == pre_vote_should_grant(s, m, term, vote, recent)
           panic == granted /\ ~newer /\ state[s] # "Follower"
           cast == IF granted THEN m.from ELSE vote
<1>4. granted \in BOOLEAN
  BY DEF pre_vote_should_grant
<1>5. cast \in Server \cup {Nil}
  BY <1>1, <1>2
<1>6. /\ CancelRequests(s, requests \ {m}) \subseteq Request
      /\ resps \subseteq Response
  <2>1. requests \ {m} \in SUBSET Request /\ responses \in SUBSET Response
    BY DEF TypeOK
  <2> QED
    BY <1>1, <2>1, CancelType
<1>7. Reply(m, term, granted, resps) \subseteq Response
  <2> HIDE DEF term, granted, resps
  <2> QED BY <1>1, <1>2, <1>4, <1>6, ReplyType
<1>8. /\ CancelStreams(s, streams) \in [Server -> [Server -> Seq(AppendEntry)]]
      /\ CancelLate(s, late) \in [Server -> [Server -> Seq(AppendEntry)]]
  BY <1>1, CancelStreamsType DEF TypeOK
<1>9. responses' = resps \/ responses' = Reply(m, term, granted, resps)
  BY <1>3
<1>10. ballots' = ballots \/ ballots' = ballots \cup {<<s, term, m.from>>}
  BY <1>3
<1>11. \/ /\ FollowTerm(s, m.term, cast, cast)
          /\ requests' = CancelRequests(s, requests \ {m})
          /\ streams' = CancelStreams(s, streams) /\ late' = CancelLate(s, late)
       \/ /\ state' = [state EXCEPT ![s] = IF panic THEN "Poisoned" ELSE @]
          /\ voted_for' = [voted_for EXCEPT ![s] = IF panic THEN @ ELSE cast]
          /\ last_leader_id' = [last_leader_id EXCEPT ![s] =
                                 IF granted /\ ~panic THEN m.from ELSE @]
          /\ requests' = requests \ {m}
          /\ UNCHANGED <<current_term, candidate, followers, streams, late>>
  BY <1>3
<1> HIDE DEF s, newer, term, vote, resps, granted, panic, cast
<1>12. responses' \subseteq Response
  BY <1>6, <1>7, <1>9
<1>13. ballots' \subseteq Server \X Nat \X Server
  <2>1. <<s, term, m.from>> \in Server \X Nat \X Server
    BY <1>1, <1>2
  <2> QED
    BY <1>10, <2>1 DEF TypeOK
<1>14. /\ RoleTypes' /\ requests' \subseteq Request
       /\ streams' \in [Server -> [Server -> Seq(AppendEntry)]]
       /\ late' \in [Server -> [Server -> Seq(AppendEntry)]]
  <2>1. CASE /\ FollowTerm(s, m.term, cast, cast)
             /\ requests' = CancelRequests(s, requests \ {m})
             /\ streams' = CancelStreams(s, streams) /\ late' = CancelLate(s, late)
    BY <1>1, <1>5, <1>6, <1>8, <2>1, FollowTermType
  <2>2. CASE /\ state' = [state EXCEPT ![s] = IF panic THEN "Poisoned" ELSE @]
             /\ voted_for' = [voted_for EXCEPT ![s] = IF panic THEN @ ELSE cast]
             /\ last_leader_id' = [last_leader_id EXCEPT ![s] =
                                     IF granted /\ ~panic THEN m.from ELSE @]
             /\ requests' = requests \ {m}
             /\ UNCHANGED <<current_term, candidate, followers, streams, late>>
    BY <1>1, <1>5, <2>2 DEF TypeOK, RoleTypes
  <2> QED
    BY <1>11, <2>1, <2>2
<1> QED
  BY <1>12, <1>13, <1>14 DEF request_vote, TypeOK, RoleTypes, log_vars

LEMMA ObserveResponseType ==
  ASSUME TypeOK, NEW m \in responses, ObserveResponse(m), UNCHANGED restarts
  PROVE  TypeOK'
<1>1. m.to \in Server /\ m.term \in Nat
  BY DEF TypeOK, Response
<1>2. RoleTypes'
  BY <1>1, FollowTermType DEF ObserveResponse
<1>3. requests' \subseteq Request /\ responses' \subseteq Response
  BY <1>1, CancelType DEF ObserveResponse, TypeOK
<1>4. /\ streams' \in [Server -> [Server -> Seq(AppendEntry)]]
      /\ late' \in [Server -> [Server -> Seq(AppendEntry)]]
  BY <1>1, CancelStreamsType DEF ObserveResponse, TypeOK
<1> QED
  BY <1>2, <1>3, <1>4 DEF ObserveResponse, TypeOK, RoleTypes, log_vars, history

LEMMA VoteCallbackType ==
  ASSUME TypeOK, NEW m \in responses, request_vote_callback(m), UNCHANGED restarts
  PROVE  TypeOK'
<1> DEFINE s == m.to
           c == candidate[s]
           d == IF ~m.vote_granted THEN [c EXCEPT !.some_rejected = TRUE]
                ELSE IF m.kind = "PreVote"
                     THEN [c EXCEPT !.pre_votes_received = @ \cup {m.from}]
                     ELSE [c EXCEPT !.votes_received = @ \cup {m.from}]
<1>1. s \in Server /\ m.from \in Server
  BY DEF TypeOK, Response
<1>2. d \in CandidateState
  <2>1. c \in CandidateState
    BY <1>1 DEF TypeOK
  <2>2. /\ [c EXCEPT !.some_rejected = TRUE] \in CandidateState
        /\ [c EXCEPT !.pre_votes_received = @ \cup {m.from}] \in CandidateState
        /\ [c EXCEPT !.votes_received = @ \cup {m.from}] \in CandidateState
    <3> HIDE DEF c
    <3> QED BY <1>1, <2>1 DEF CandidateState
  <2> QED
    BY <2>2
<1>3. CASE CandidateCycle(s, d, disk[s], streams)
  <2>1. CandidateTypes'
    <3> HIDE DEF d
    <3> QED BY <1>1, <1>2, <1>3, CandidateCycleType DEF TypeOK
  <2> QED
    BY <2>1 DEF CandidateTypes, TypeOK, request_vote_callback, meta_vars
<1>4. CASE UNCHANGED <<state, candidate, followers, log, streams, requests, leaders>>
  BY <1>4 DEF TypeOK, request_vote_callback, meta_vars
<1> QED
  BY <1>3, <1>4 DEF request_vote_callback

LEMMA SendHeartbeatType ==
  ASSUME TypeOK, NEW l \in Server, NEW f \in Server, send_heartbeats(l, f),
         UNCHANGED restarts
  PROVE  TypeOK'
<1>1. requests' \subseteq Request
  <2>1. [kind |-> "Heartbeat", from |-> l, to |-> f, term |-> current_term[l],
         last_log_index |-> 0, last_log_term |-> 0, leader_approval |-> 0,
         handle |-> "current"] \in Request
    BY DEF TypeOK, Request
  <2> QED
    BY <2>1 DEF send_heartbeats, TypeOK
<1> QED
  BY <1>1 DEF send_heartbeats, TypeOK, meta_vars, role_vars, log_vars, history

LEMMA HeartbeatType ==
  ASSUME TypeOK, NEW m \in requests, heartbeat(m), UNCHANGED restarts
  PROVE  TypeOK'
<1> DEFINE s == m.to
<1>1. m \in Request /\ s \in Server /\ m.from \in Server /\ m.term \in Nat
  BY DEF TypeOK, Request
<1>2. CASE /\ FollowTerm(s, m.term, m.from, Nil)
           /\ requests' = CancelRequests(s, requests \ {m})
           /\ responses' = Reply(m, m.term, FALSE, CancelResponses(s, responses))
           /\ streams' = CancelStreams(s, streams) /\ late' = CancelLate(s, late)
  <2>1. RoleTypes'
    BY <1>1, <1>2, FollowTermType
  <2>2. requests \ {m} \in SUBSET Request /\ responses \in SUBSET Response
    BY DEF TypeOK
  <2>3. /\ CancelRequests(s, requests \ {m}) \subseteq Request
        /\ CancelResponses(s, responses) \subseteq Response
    BY <1>1, <2>2, CancelType
  <2>4. requests' \subseteq Request /\ responses' \subseteq Response
    BY <1>1, <1>2, <2>3, ReplyType
  <2>5. /\ streams' \in [Server -> [Server -> Seq(AppendEntry)]]
        /\ late' \in [Server -> [Server -> Seq(AppendEntry)]]
    BY <1>1, <1>2, CancelStreamsType DEF TypeOK
  <2> QED
    BY <2>1, <2>4, <2>5 DEF heartbeat, TypeOK, RoleTypes, log_vars, history
<1>3. CASE /\ \/ /\ state' = [state EXCEPT ![s] = "Follower"]
                 /\ last_leader_id' = [last_leader_id EXCEPT ![s] = m.from]
                 /\ candidate' = [candidate EXCEPT ![s] = NoCandidate]
              \/ UNCHANGED role_vars
           /\ requests' = requests \ {m}
           /\ responses' = Reply(m, current_term[s], FALSE, responses)
           /\ UNCHANGED <<meta_vars, followers, streams, late>>
  <2>1. responses' \subseteq Response
    BY <1>1, <1>3, ReplyType DEF TypeOK
  <2>2. RoleTypes'
    <3>1. CASE UNCHANGED role_vars
      BY <1>3, <3>1 DEF TypeOK, RoleTypes, role_vars, meta_vars
    <3>2. CASE /\ state' = [state EXCEPT ![s] = "Follower"]
               /\ last_leader_id' = [last_leader_id EXCEPT ![s] = m.from]
               /\ candidate' = [candidate EXCEPT ![s] = NoCandidate]
      <4> HIDE DEF s
      <4> QED BY <1>1, <1>3, <3>2, FreshStates DEF TypeOK, RoleTypes, meta_vars
    <3> QED
      BY <1>3, <3>1, <3>2
  <2> QED
    BY <1>3, <2>1, <2>2 DEF heartbeat, TypeOK, RoleTypes, log_vars, history
<1> QED
  BY <1>2, <1>3 DEF heartbeat

LEMMA HeartbeatCallbackType ==
  ASSUME TypeOK, NEW m \in responses, heartbeat_callback(m), UNCHANGED restarts
  PROVE  TypeOK'
<1> DEFINE s == m.to
<1>1. s \in Server
  BY DEF TypeOK, Response
<1>2. CASE cycle(s, candidate[s], disk[s], draining[s], log_last_flushed[s],
                 followers[s], streams)
  <2>1. CycleTypes'
    BY <1>1, <1>2, CycleType DEF TypeOK
  <2> QED
    BY <2>1 DEF CycleTypes, CandidateTypes, TypeOK, heartbeat_callback, meta_vars
<1>3. CASE UNCHANGED <<role_vars, followers, commit_index, log, streams, requests, leaders>>
  BY <1>3 DEF TypeOK, heartbeat_callback, meta_vars, role_vars
<1> QED
  BY <1>2, <1>3 DEF heartbeat_callback

\* A failed RPC to a follower changes its mode only.
LEMMA ModeType ==
  ASSUME NEW fo \in [Server -> Progress], NEW f \in Server,
         NEW mode \in {"Live", "Pesimistic", "CatchingUp"}
  PROVE  [fo EXCEPT ![f].mode = mode] \in [Server -> Progress]
BY DEF Progress

LEMMA HeartbeatFailedType ==
  ASSUME TypeOK, NEW l \in Server, NEW f \in Server, heartbeat_failed(l, f),
         UNCHANGED restarts
  PROVE  TypeOK'
<1> DEFINE mode == IF followers[l][f].mode = "Live" THEN "Pesimistic" ELSE followers[l][f].mode
           fo == [followers[l] EXCEPT ![f].mode = mode]
<1>1. followers[l] \in [Server -> Progress] /\ log[l] \in Seq(LogEntry)
  BY DEF TypeOK
<1>2. mode \in {"Live", "Pesimistic", "CatchingUp"}
  BY <1>1 DEF Progress
<1>3. fo \in [Server -> Progress]
  <2> HIDE DEF mode
  <2> QED BY <1>1, <1>2, ModeType
<1>4. LeaderCycle(l, log[l], log_last_flushed[l], fo, streams)
  BY DEF heartbeat_failed
<1> HIDE DEF fo
<1>5. /\ commit_index' \in [Server -> Nat]
      /\ followers' \in [Server -> [Server -> Progress]]
      /\ streams' \in [Server -> [Server -> Seq(AppendEntry)]]
  BY <1>1, <1>3, <1>4, LeaderCycleType DEF TypeOK
<1> QED
  BY <1>5 DEF heartbeat_failed, TypeOK, meta_vars, role_vars, log_vars, history

\* What append_entries computes from a well-formed request.
LEMMA AppendResultType ==
  ASSUME TypeOK, NEW f \in Server, NEW m \in AppendEntry
  PROVE  /\ NewLog(f, m) \in Seq(LogEntry)
         /\ LastNew(f, m) \in Nat
         /\ NewCommit(f, m) \in Nat
         /\ LastSent(m) \in Nat
         /\ RejectIndex(f, m) \in Nat
<1>1. /\ log[f] \in Seq(LogEntry) /\ Len(log[f]) \in Nat
      /\ m.entries \in Seq(LogEntry) /\ Len(m.entries) \in Nat
      /\ m.prev_log_index \in Nat /\ m.leader_commit \in Nat
  BY LenProperties DEF TypeOK, AppendEntry
<1>2. NewLog(f, m) \in Seq(LogEntry)
  <2>1. CASE append_outcome(f, m) = "ok"
    <3>1. m.prev_log_index <= Len(log[f])
      BY <1>1, <2>1 DEF append_outcome
    <3>2. Len(log[f]) + 1 - m.prev_log_index \in Nat \ {0}
      BY <1>1, <3>1
    <3>3. SubSeq(m.entries, Len(log[f]) + 1 - m.prev_log_index, Len(m.entries)) \in Seq(LogEntry)
      BY <1>1, <3>2, SliceType
    <3> QED
      BY <1>1, <2>1, <3>3, ConcatProperties DEF NewLog
  <2>2. CASE append_outcome(f, m) # "ok"
    BY <1>1, <2>2 DEF NewLog
  <2> QED
    BY <2>1, <2>2
<1>3. LastNew(f, m) \in Nat
  BY <1>1, <1>2, LenProperties DEF LastNew
<1>4. commit_index[f] \in Nat
  BY DEF TypeOK
<1>5. NewCommit(f, m) \in Nat
  BY <1>1, <1>3, <1>4 DEF NewCommit, Larger, Smaller
<1>6. LastSent(m) \in Nat
  BY <1>1 DEF LastSent
<1>7. RejectIndex(f, m) \in Nat
  BY <1>1, <1>4 DEF RejectIndex
<1> QED
  BY <1>2, <1>3, <1>5, <1>6, <1>7

\* The answer that replaces a request in its stream.
LEMMA AnswerType ==
  ASSUME TypeOK, NEW f \in Server, NEW m \in AppendEntry
  PROVE  Answer(f, m) \in AppendEntry
<1> DEFINE out == append_outcome(f, m)
           ok == out = "ok" /\ (m.timeout_now => TimeoutNow(f, m))
           wait == ok /\ MustFlush(f, m)
           phase == IF wait THEN "flush"
                    ELSE IF ok \/ out \in {"old_term", "missing", "mismatch"} THEN "response"
                    ELSE "error"
           need == IF wait THEN LastNew(f, m) ELSE 0
           res_term == Larger(current_term[f], m.term)
           last == CASE out = "ok" -> Len(NewLog(f, m))
                     [] out \in {"missing", "mismatch"} -> RejectIndex(f, m)
                     [] OTHER -> 0
<1>1. phase \in {"request", "flush", "response", "error"} /\ ok \in BOOLEAN
  OBVIOUS
<1>2. need \in Nat /\ LastSent(m) \in Nat
  BY AppendResultType
<1>3. res_term \in Nat
  BY DEF TypeOK, AppendEntry, Larger
<1>4. last \in Nat
  <2>1. Len(NewLog(f, m)) \in Nat /\ RejectIndex(f, m) \in Nat
    BY AppendResultType, LenProperties
  <2> QED
    BY <2>1
<1>5. <<>> \in Seq(LogEntry)
  BY EmptySeq
<1> DEFINE answer(a, e) ==
             [m EXCEPT !.phase = phase, !.prev_log_index = a, !.prev_log_term = 0,
                       !.entries = e, !.leader_commit = 0, !.timeout_now = FALSE,
                       !.need = need, !.res_term = res_term, !.success = ok,
                       !.last_log_index = last]
<1>6. Answer(f, m) = answer(LastSent(m), <<>>)
  BY DEF Answer
<1> HIDE DEF out, ok, wait, phase, need, res_term, last
<1>7. ASSUME NEW e \in Seq(LogEntry), NEW a \in Nat
      PROVE  answer(a, e) \in AppendEntry
  BY <1>1, <1>2, <1>3, <1>4 DEF AppendEntry
<1> HIDE DEF answer
<1> QED
  BY <1>2, <1>5, <1>6, <1>7

\* append_entries, whatever has become of the stream that brought the request.
LEMMA AppendEntriesType ==
  ASSUME TypeOK, NEW f \in Server, NEW l \in Server, NEW m \in AppendEntry,
         NEW st \in [Server -> [Server -> Seq(AppendEntry)]],
         NEW lt \in [Server -> [Server -> Seq(AppendEntry)]],
         append_entries(f, l, m, st, lt), UNCHANGED restarts
  PROVE  TypeOK'
<1> DEFINE out == append_outcome(f, m)
           newer == m.term > current_term[f]
           elect == TimeoutNow(f, m)
           term == IF elect THEN m.term + 1 ELSE m.term
           cancel == newer \/ elect
<1>1. CASE out \in {"old_term", "two_leaders"}
  BY <1>1 DEF append_entries, TypeOK, meta_vars, role_vars, rpc_vars, history
<1>2. CASE out \notin {"old_term", "two_leaders"}
  <2>1. m.term \in Nat /\ term \in Nat
    BY DEF AppendEntry
  <2>2. NewLog(f, m) \in Seq(LogEntry) /\ NewCommit(f, m) \in Nat
    BY AppendResultType
  <2>3. /\ current_term' = [current_term EXCEPT ![f] = term]
        /\ voted_for' = [voted_for EXCEPT ![f] =
                          IF elect THEN f ELSE IF newer THEN Nil ELSE @]
        /\ state' = [state EXCEPT ![f] = IF out = "panic" THEN "Poisoned"
                                         ELSE IF elect THEN "Candidate" ELSE "Follower"]
        /\ last_leader_id' = [last_leader_id EXCEPT ![f] = IF elect THEN Nil ELSE l]
        /\ followers' = [followers EXCEPT ![f] = NoFollowers]
    BY <1>2 DEF append_entries
  <2>4. candidate' \in [Server -> CandidateState]
    <3>1. \A c \in CandidateState, n \in Nat :
            [c EXCEPT !.main_vote_start = TRUE, !.leader_approval = n] \in CandidateState
      BY DEF CandidateState
    <3>2. candidate' = [candidate EXCEPT ![f] =
            IF elect THEN [NoCandidate EXCEPT !.main_vote_start = TRUE,
                                              !.leader_approval = m.term]
            ELSE NoCandidate]
      BY <1>2 DEF append_entries
    <3>3. [NoCandidate EXCEPT !.main_vote_start = TRUE, !.leader_approval = m.term]
            \in CandidateState
      BY <2>1, <3>1, FreshStates
    <3> QED
      BY <3>2, <3>3, FreshStates DEF TypeOK
  <2>5. /\ commit_index' = [commit_index EXCEPT ![f] = NewCommit(f, m)]
        /\ log' = [log EXCEPT ![f] = NewLog(f, m)]
    BY <1>2 DEF append_entries
  <2>6. requests' \subseteq Request /\ responses' \subseteq Response
    <3>1. perform_election(f, "RequestVote", term, NewLog(f, m), m.term) \subseteq Request
      BY <2>1, <2>2, ElectionRequests
    <3>2. /\ CancelRequests(f, requests) \subseteq Request
          /\ CancelResponses(f, responses) \subseteq Response
      BY CancelType DEF TypeOK
    <3>3. /\ requests' = (IF cancel THEN CancelRequests(f, requests) ELSE requests)
                \cup (IF elect THEN perform_election(f, "RequestVote", term,
                                                     NewLog(f, m), m.term) ELSE {})
          /\ responses' = IF cancel THEN CancelResponses(f, responses) ELSE responses
      BY <1>2 DEF append_entries
    <3> QED
      BY <3>1, <3>2, <3>3 DEF TypeOK
  <2>7. /\ streams' \in [Server -> [Server -> Seq(AppendEntry)]]
        /\ late' \in [Server -> [Server -> Seq(AppendEntry)]]
    <3>1. /\ CancelStreams(f, st) \in [Server -> [Server -> Seq(AppendEntry)]]
          /\ CancelLate(f, lt) \in [Server -> [Server -> Seq(AppendEntry)]]
      BY CancelStreamsType
    <3>2. /\ streams' = st \/ streams' = CancelStreams(f, st)
          /\ late' = lt \/ late' = CancelLate(f, lt)
      BY <1>2 DEF append_entries
    <3> QED
      BY <3>1, <3>2
  <2> HIDE DEF out, newer, elect, term, cancel
  <2>8. RoleTypes'
    BY <2>1, <2>3, <2>4, FreshStates DEF TypeOK, RoleTypes
  <2>9. UNCHANGED <<disk, draining, log_last_flushed, ballots, leaders>>
    BY DEF append_entries, history
  <2> QED
    BY <2>2, <2>5, <2>6, <2>7, <2>8, <2>9 DEF TypeOK, RoleTypes
<1> QED
  BY <1>1, <1>2

\* One queue of a table of queues is replaced.
LEMMA QueueType ==
  ASSUME NEW st \in [Server -> [Server -> Seq(AppendEntry)]],
         NEW l \in Server, NEW f \in Server, NEW q \in Seq(AppendEntry)
  PROVE  [st EXCEPT ![l][f] = q] \in [Server -> [Server -> Seq(AppendEntry)]]
OBVIOUS

LEMMA HandleAppendType ==
  ASSUME TypeOK, NEW l \in Server, NEW f \in Server, HandleAppend(l, f), UNCHANGED restarts
  PROVE  TypeOK'
<1>1. PICK i \in DOMAIN streams[l][f] :
        append_entries(f, l, streams[l][f][i],
                       [streams EXCEPT ![l][f][i] = Answer(f, streams[l][f][i])], late)
  BY DEF HandleAppend
<1> DEFINE q == streams[l][f]
           r == [q EXCEPT ![i] = Answer(f, q[i])]
<1>2. q \in Seq(AppendEntry) /\ i \in 1..Len(q)
  <2>1. q \in Seq(AppendEntry)
    BY DEF TypeOK
  <2> HIDE DEF q
  <2> QED BY <1>1, <2>1, LenProperties DEF q
<1>3. q[i] \in AppendEntry
  <2> HIDE DEF q
  <2> QED BY <1>2, ElementOfSeq
<1>4. Answer(f, q[i]) \in AppendEntry
  BY <1>3, AnswerType
<1>5. r \in Seq(AppendEntry)
  <2> HIDE DEF q
  <2> QED BY <1>2, <1>4, ExceptSeq
<1>6. [streams EXCEPT ![l][f][i] = Answer(f, q[i])] = [streams EXCEPT ![l][f] = r]
  BY DEF TypeOK
<1>7. [streams EXCEPT ![l][f] = r] \in [Server -> [Server -> Seq(AppendEntry)]]
  <2> HIDE DEF r
  <2> QED BY <1>5, QueueType DEF TypeOK
<1>8. append_entries(f, l, q[i], [streams EXCEPT ![l][f] = r], late)
  BY <1>1, <1>6
<1> HIDE DEF q, r
<1> QED
  BY <1>3, <1>7, <1>8, AppendEntriesType DEF TypeOK

LEMMA HandleLateAppendType ==
  ASSUME TypeOK, NEW l \in Server, NEW f \in Server, HandleLateAppend(l, f),
         UNCHANGED restarts
  PROVE  TypeOK'
<1> DEFINE q == late[l][f]
<1>1. q \in Seq(AppendEntry) /\ q # <<>>
  BY DEF TypeOK, HandleLateAppend
<1>2. Head(q) \in AppendEntry /\ Tail(q) \in Seq(AppendEntry)
  <2> HIDE DEF q
  <2> QED BY <1>1, HeadTailProperties
<1>3. [late EXCEPT ![l][f] = Tail(q)] \in [Server -> [Server -> Seq(AppendEntry)]]
  <2> HIDE DEF q
  <2> QED BY <1>2, QueueType DEF TypeOK
<1>4. append_entries(f, l, Head(q), streams, [late EXCEPT ![l][f] = Tail(q)])
  BY DEF HandleLateAppend
<1> HIDE DEF q
<1> QED
  BY <1>2, <1>3, <1>4, AppendEntriesType DEF TypeOK

LEMMA AnsweredType ==
  ASSUME NEW p \in Progress, NEW m \in AppendEntry
  PROVE  Answered(p, m) \in Progress
<1>1. LastSent(m) \in Nat /\ m.last_log_index + 1 \in Nat \ {0}
  BY LenProperties DEF AppendEntry, LastSent
<1>2. Larger(p.match_index, LastSent(m)) \in Nat
  BY <1>1 DEF Larger, Progress
<1>3. \A a \in Nat, b \in Nat \ {0} :
        /\ [p EXCEPT !.mode = "Live", !.match_index = a] \in Progress
        /\ [p EXCEPT !.mode = "CatchingUp", !.next_index = b] \in Progress
  BY DEF Progress
<1> QED
  BY <1>1, <1>2, <1>3 DEF Answered

LEMMA AppendCallbackType ==
  ASSUME TypeOK, NEW l \in Server, NEW f \in Server, append_entries_callback(l, f),
         UNCHANGED restarts
  PROVE  TypeOK'
<1> DEFINE q == streams[l][f]
           m == Head(q)
           base == [streams EXCEPT ![l][f] = Tail(@)]
           fo == [followers[l] EXCEPT ![f] = Answered(@, m)]
<1>1. q \in Seq(AppendEntry) /\ q # <<>>
  <2>1. q \in Seq(AppendEntry)
    BY DEF TypeOK
  <2>2. q # <<>>
    BY DEF append_entries_callback
  <2> QED
    BY <2>1, <2>2
<1>2. m \in AppendEntry /\ Tail(q) \in Seq(AppendEntry)
  <2> HIDE DEF q
  <2> QED BY <1>1, HeadTailProperties
<1>3. base \in [Server -> [Server -> Seq(AppendEntry)]]
  <2>1. base = [streams EXCEPT ![l][f] = Tail(q)]
    OBVIOUS
  <2> HIDE DEF q, base
  <2> QED BY <1>2, <2>1, QueueType DEF TypeOK
<1>4. fo \in [Server -> Progress]
  <2>1. followers[l] \in [Server -> Progress]
    BY DEF TypeOK
  <2>2. Answered(followers[l][f], m) \in Progress
    <3> HIDE DEF m
    <3> QED BY <1>2, <2>1, AnsweredType
  <2> HIDE DEF m
  <2> QED BY <2>1, <2>2
<1>5. UNCHANGED <<disk, draining, log_last_flushed, ballots>>
  BY DEF append_entries_callback
<1>6. CASE /\ FollowTerm(l, m.res_term, Nil, Nil)
           /\ requests' = CancelRequests(l, requests)
           /\ responses' = CancelResponses(l, responses)
           /\ streams' = CancelStreams(l, streams) /\ late' = CancelLate(l, late)
           /\ UNCHANGED <<commit_index, log, leaders>>
  <2>1. m.res_term \in Nat
    <3> HIDE DEF m
    <3> QED BY <1>2 DEF AppendEntry
  <2>2. RoleTypes'
    <3> HIDE DEF m
    <3> QED BY <1>6, <2>1, FollowTermType
  <2>3. requests' \subseteq Request /\ responses' \subseteq Response
    BY <1>6, CancelType DEF TypeOK
  <2>4. /\ streams' \in [Server -> [Server -> Seq(AppendEntry)]]
        /\ late' \in [Server -> [Server -> Seq(AppendEntry)]]
    BY <1>6, CancelStreamsType DEF TypeOK
  <2> QED
    BY <1>5, <1>6, <2>2, <2>3, <2>4 DEF TypeOK, RoleTypes
<1>7. CASE /\ streams' = base
           /\ UNCHANGED <<meta_vars, role_vars, followers, commit_index, log, late,
                          rpc_vars, leaders>>
  <2> HIDE DEF base
  <2> QED BY <1>3, <1>5, <1>7 DEF TypeOK, meta_vars, role_vars, rpc_vars
<1>8. CASE /\ cycle(l, candidate[l], disk[l], draining[l], log_last_flushed[l], fo, base)
           /\ UNCHANGED <<meta_vars, late, responses>>
  <2>1. CycleTypes'
    <3> HIDE DEF fo, base
    <3> QED BY <1>3, <1>4, <1>8, CycleType DEF TypeOK
  <2> QED
    BY <1>5, <1>8, <2>1 DEF CycleTypes, CandidateTypes, TypeOK, meta_vars
<1>9. CASE /\ propose_entry(l, fo, base)
           /\ UNCHANGED state
           /\ UNCHANGED <<meta_vars, last_leader_id, candidate, late, rpc_vars, leaders>>
  <2>1. /\ log' \in [Server -> Seq(LogEntry)]
        /\ commit_index' \in [Server -> Nat]
        /\ followers' \in [Server -> [Server -> Progress]]
        /\ streams' \in [Server -> [Server -> Seq(AppendEntry)]]
    <3> HIDE DEF fo, base
    <3> QED BY <1>3, <1>4, <1>9, ProposeType
  <2> QED
    BY <1>5, <1>9, <2>1 DEF TypeOK, meta_vars, rpc_vars
<1>10. CASE /\ state' = [state EXCEPT ![l] = "Poisoned"]
            /\ streams' = base
            /\ UNCHANGED <<followers, commit_index, log>>
            /\ UNCHANGED <<meta_vars, last_leader_id, candidate, late, rpc_vars, leaders>>
  <2> HIDE DEF base
  <2> QED BY <1>3, <1>5, <1>10 DEF TypeOK, meta_vars, rpc_vars
<1> QED
  BY <1>6, <1>7, <1>8, <1>9, <1>10 DEF append_entries_callback

LEMMA NoResponseType ==
  ASSUME TypeOK, NEW l \in Server, NEW f \in Server, append_entries_noresponse(l, f),
         UNCHANGED restarts
  PROVE  TypeOK'
<1> DEFINE base == [streams EXCEPT ![l][f] = <<>>]
           fo == [followers[l] EXCEPT ![f].mode = "Pesimistic"]
<1>1. base \in [Server -> [Server -> Seq(AppendEntry)]]
  BY EmptySeq, QueueType DEF TypeOK
<1>2. fo \in [Server -> Progress]
  BY ModeType DEF TypeOK
<1>3. late' \in [Server -> [Server -> Seq(AppendEntry)]]
  <2>1. Lingering(streams[l][f], late[l][f]) \in Seq(AppendEntry)
    BY LingeringType DEF TypeOK
  <2>2. late' = [late EXCEPT ![l][f] = Lingering(streams[l][f], late[l][f])]
    BY DEF append_entries_noresponse
  <2> QED
    BY <2>1, <2>2, QueueType DEF TypeOK
<1>4. /\ commit_index' \in [Server -> Nat]
      /\ followers' \in [Server -> [Server -> Progress]]
      /\ streams' \in [Server -> [Server -> Seq(AppendEntry)]]
  <2>1. CASE LeaderCycle(l, log[l], log_last_flushed[l], fo, base)
    <3>1. log[l] \in Seq(LogEntry)
      BY DEF TypeOK
    <3> HIDE DEF fo, base
    <3> QED
      BY <1>1, <1>2, <2>1, <3>1, LeaderCycleType
  <2>2. CASE streams' = base /\ UNCHANGED <<commit_index, followers>>
    BY <1>1, <2>2 DEF TypeOK
  <2> QED
    BY <2>1, <2>2 DEF append_entries_noresponse
<1> QED
  BY <1>3, <1>4 DEF append_entries_noresponse, TypeOK, meta_vars, role_vars, log_vars,
                    rpc_vars, history

LEMMA ReplicateType ==
  ASSUME TypeOK, NEW l \in Server, NEW f \in Server, NEW timeout_now \in BOOLEAN,
         replicate_entries(l, f, timeout_now), UNCHANGED restarts
  PROVE  TypeOK'
<1> DEFINE p == followers[l][f]
           prev == p.next_index - 1
           max == IF p.mode = "Live" THEN LiveBatch ELSE SlowBatch
           req == AppendRequest(l, log[l], commit_index[l], prev, max, timeout_now)
           next == Smaller(prev + 1 + max, Len(log[l])) + 1
           np == [p EXCEPT !.next_index = next, !.last_commit_index_sent = commit_index[l]]
<1>1. p \in Progress
  BY DEF TypeOK
<1>2. prev \in Nat /\ max \in Nat
  <2>1. p.next_index \in Nat \ {0}
    BY <1>1 DEF Progress
  <2> QED
    BY <2>1, BoundAssumption
<1>3. log[l] \in Seq(LogEntry) /\ commit_index[l] \in Nat /\ Len(log[l]) \in Nat
  BY LenProperties DEF TypeOK
<1>4. req \in AppendEntry
  <2> HIDE DEF prev, max
  <2> QED BY <1>2, <1>3, AppendRequestType
<1>5. next \in Nat \ {0}
  <2> HIDE DEF prev, max
  <2> QED BY <1>2, <1>3 DEF Smaller
<1>6. np \in Progress
  <2>1. \A r \in Progress, a \in Nat \ {0}, b \in Nat :
          [r EXCEPT !.next_index = a, !.last_commit_index_sent = b] \in Progress
    BY DEF Progress
  <2> HIDE DEF p, next
  <2> QED BY <1>1, <1>3, <1>5, <2>1
<1>7. /\ streams' = [streams EXCEPT ![l][f] = Append(@, req)]
      /\ followers' = [followers EXCEPT ![l][f] = np]
  BY DEF replicate_entries
<1>8. Append(streams[l][f], req) \in Seq(AppendEntry)
  <2>1. streams[l][f] \in Seq(AppendEntry)
    BY DEF TypeOK
  <2> HIDE DEF req
  <2> QED BY <1>4, <2>1, AppendProperties
<1> HIDE DEF req, np
<1>9. streams' \in [Server -> [Server -> Seq(AppendEntry)]]
  BY <1>7, <1>8, QueueType DEF TypeOK
<1>10. followers' \in [Server -> [Server -> Progress]]
  BY <1>6, <1>7 DEF TypeOK
<1> QED
  BY <1>9, <1>10 DEF replicate_entries, TypeOK, meta_vars, role_vars, log_vars, rpc_vars,
                     history

LEMMA ClientType ==
  ASSUME TypeOK, NEW s \in Server, Propose(s) \/ drain(s), UNCHANGED restarts
  PROVE  TypeOK'
<1>1. CASE Propose(s)
  <2>1. /\ log' \in [Server -> Seq(LogEntry)]
        /\ commit_index' \in [Server -> Nat]
        /\ followers' \in [Server -> [Server -> Progress]]
        /\ streams' \in [Server -> [Server -> Seq(AppendEntry)]]
    BY <1>1, ProposeType DEF Propose, TypeOK
  <2> QED
    BY <1>1, <2>1 DEF Propose, TypeOK, meta_vars, role_vars, rpc_vars, history
<1>2. CASE drain(s)
  <2>1. CycleTypes'
    BY <1>2, CycleType DEF drain, TypeOK
  <2> QED
    BY <1>2, <2>1 DEF CycleTypes, CandidateTypes, drain, TypeOK, meta_vars
<1> QED
  BY <1>1, <1>2

\* Answering, or breaking, some requests of a queue keeps its length.
LEMMA QueueUpdateType ==
  ASSUME NEW q \in Seq(AppendEntry), NEW k
  PROVE  FlushedQueue(q, k) \in Seq(AppendEntry) /\ BrokenQueue(q) \in Seq(AppendEntry)
<1>1. Len(q) \in Nat /\ DOMAIN q = 1..Len(q)
  BY LenProperties
<1>2. \A i \in 1..Len(q) : q[i] \in AppendEntry
  BY ElementOfSeq
<1>3. \A m \in AppendEntry : /\ [m EXCEPT !.phase = "response", !.need = 0] \in AppendEntry
                             /\ [m EXCEPT !.phase = "error"] \in AppendEntry
  BY DEF AppendEntry
<1>4. FlushedQueue(q, k) \in [1..Len(q) -> AppendEntry]
  BY <1>1, <1>2, <1>3 DEF FlushedQueue
<1>5. BrokenQueue(q) \in [1..Len(q) -> AppendEntry]
  BY <1>1, <1>2, <1>3 DEF BrokenQueue
<1> QED
  BY <1>1, <1>4, <1>5, SeqDef

LEMMA LogFlushedType ==
  ASSUME TypeOK, NEW s \in Server, NEW k \in 1..Len(log[s]), log_flushed(s, k),
         UNCHANGED restarts
  PROVE  TypeOK'
<1> DEFINE base == [l \in Server |-> [streams[l] EXCEPT ![s] = FlushedQueue(@, k)]]
<1>1. \A l \in Server : FlushedQueue(streams[l][s], k) \in Seq(AppendEntry)
  BY QueueUpdateType DEF TypeOK
<1>2. base \in [Server -> [Server -> Seq(AppendEntry)]]
  BY <1>1 DEF TypeOK
<1>3. cycle(s, candidate[s], disk[s], draining[s], k, followers[s], base)
  BY DEF log_flushed
<1>4. CycleTypes'
  <2> HIDE DEF base
  <2> QED BY <1>2, <1>3, CycleType DEF TypeOK
<1>5. k \in Nat
  BY LenProperties DEF TypeOK
<1> QED
  BY <1>4, <1>5 DEF CycleTypes, CandidateTypes, log_flushed, TypeOK, meta_vars

LEMMA PersistedType ==
  ASSUME TypeOK, NEW s \in Server, persisted_metadata(s), UNCHANGED restarts
  PROVE  TypeOK'
<1>1. meta(s) \in Metadata
  BY DEF TypeOK, meta, Metadata
<1>2. cycle(s, candidate[s], meta(s), draining[s], log_last_flushed[s], followers[s],
            streams)
  BY DEF persisted_metadata
<1>3. CycleTypes'
  BY <1>1, <1>2, CycleType DEF TypeOK
<1>4. <<s, current_term[s], s>> \in Server \X Nat \X Server
  BY DEF TypeOK
<1>5. ballots' \subseteq Server \X Nat \X Server
  BY <1>4 DEF persisted_metadata, TypeOK
<1> QED
  BY <1>1, <1>3, <1>5 DEF CycleTypes, CandidateTypes, persisted_metadata, TypeOK, meta_vars

LEMMA RestartType ==
  ASSUME TypeOK, NEW s \in Server, NEW k \in 0..Len(log[s]), Restart(s, k)
  PROVE  TypeOK'
<1> DEFINE lg == SubSeq(log[s], 1, k)
           behind == last_term(lg) > disk[s].current_term
           term == IF behind THEN last_term(lg) ELSE disk[s].current_term
           vote == IF behind THEN Nil ELSE disk[s].voted_for
           st == [l \in Server |-> IF l = s THEN [f \in Server |-> <<>>]
                                   ELSE [streams[l] EXCEPT ![s] = BrokenQueue(@)]]
           lt == [l \in Server |-> IF l = s THEN CancelLate(s, late)[s]
                                   ELSE [late[l] EXCEPT ![s] = <<>>]]
<1>1. log[s] \in Seq(LogEntry) /\ k \in Nat /\ k \in Int /\ k <= Len(log[s])
  BY LenProperties DEF TypeOK
<1>2. lg \in Seq(LogEntry)
  BY <1>1, SliceType
<1>3. disk[s].current_term \in Nat /\ disk[s].voted_for \in Server \cup {Nil}
      /\ disk[s].commit_index \in Nat
  BY DEF TypeOK, Metadata
<1>4. term \in Nat /\ vote \in Server \cup {Nil}
  <2> HIDE DEF lg
  <2> QED BY <1>2, <1>3, TermType
<1>5. st \in [Server -> [Server -> Seq(AppendEntry)]]
  <2>1. \A l \in Server : BrokenQueue(streams[l][s]) \in Seq(AppendEntry)
    BY QueueUpdateType DEF TypeOK
  <2> QED
    BY <2>1, EmptySeq DEF TypeOK
<1>6. lt \in [Server -> [Server -> Seq(AppendEntry)]]
  <2>1. CancelLate(s, late) \in [Server -> [Server -> Seq(AppendEntry)]]
    BY CancelStreamsType DEF TypeOK
  <2> QED
    BY <2>1, EmptySeq DEF TypeOK
<1>7. /\ CancelRequests(s, requests) \subseteq Request
      /\ CancelResponses(s, responses) \subseteq Response
  BY CancelType DEF TypeOK
<1>8. /\ current_term' = [current_term EXCEPT ![s] = term]
      /\ voted_for' = [voted_for EXCEPT ![s] = vote]
      /\ commit_index' = [commit_index EXCEPT ![s] = disk[s].commit_index]
      /\ state' = [state EXCEPT ![s] = "Follower"]
      /\ last_leader_id' = [last_leader_id EXCEPT ![s] = Nil]
      /\ candidate' = [candidate EXCEPT ![s] = NoCandidate]
      /\ followers' = [followers EXCEPT ![s] = NoFollowers]
      /\ draining' = [draining EXCEPT ![s] = FALSE]
      /\ log' = [log EXCEPT ![s] = lg]
      /\ log_last_flushed' = [log_last_flushed EXCEPT ![s] = k]
      /\ streams' = st /\ late' = lt
      /\ requests' = CancelRequests(s, requests)
      /\ responses' = CancelResponses(s, responses)
      /\ restarts' = restarts + 1
      /\ UNCHANGED <<disk, ballots, leaders>>
  BY DEF Restart
<1> HIDE DEF lg, term, vote, st, lt
<1>9. RoleTypes'
  BY <1>4, <1>8, FreshStates DEF TypeOK, RoleTypes
<1>10. /\ commit_index' \in [Server -> Nat]
       /\ draining' \in [Server -> BOOLEAN]
       /\ log' \in [Server -> Seq(LogEntry)]
       /\ log_last_flushed' \in [Server -> Nat]
       /\ restarts' \in Nat
  <2>1. /\ commit_index \in [Server -> Nat]
        /\ draining \in [Server -> BOOLEAN]
        /\ log \in [Server -> Seq(LogEntry)]
        /\ log_last_flushed \in [Server -> Nat]
        /\ restarts \in Nat
    BY DEF TypeOK
  <2>2. /\ commit_index' = [commit_index EXCEPT ![s] = disk[s].commit_index]
        /\ draining' = [draining EXCEPT ![s] = FALSE]
        /\ log' = [log EXCEPT ![s] = lg]
        /\ log_last_flushed' = [log_last_flushed EXCEPT ![s] = k]
        /\ restarts' = restarts + 1
    BY <1>8
  <2>3. commit_index' \in [Server -> Nat] /\ draining' \in [Server -> BOOLEAN]
    BY <1>3, <2>1, <2>2
  <2>4. log' \in [Server -> Seq(LogEntry)]
    BY <1>2, <2>1, <2>2
  <2>5. log_last_flushed' \in [Server -> Nat]
    BY <1>1, <2>1, <2>2
  <2>6. restarts' \in Nat
    BY <2>1, <2>2
  <2> QED
    BY <2>3, <2>4, <2>5, <2>6
<1> QED
  BY <1>5, <1>6, <1>7, <1>8, <1>9, <1>10 DEF TypeOK, RoleTypes

-----------------------------------------------------------------------------
\* Every variable of the module keeps its type: no handler stores a term, an index, a
\* vote or a message outside its domain, whatever calls, timers, lost streams and
\* restarts come before it.  In particular next_index never becomes 0.
THEOREM TypeCorrect == Spec => []TypeOK
<1>1. Init => TypeOK
  <2> SUFFICES ASSUME Init PROVE TypeOK
    OBVIOUS
  <2>1. /\ current_term \in [Server -> Nat] /\ voted_for \in [Server -> Server \cup {Nil}]
        /\ commit_index \in [Server -> Nat] /\ disk \in [Server -> Metadata]
    BY DEF Init, Metadata
  <2>2. /\ state \in [Server -> {"Follower", "Candidate", "Leader", "Poisoned"}]
        /\ last_leader_id \in [Server -> Server \cup {Nil}]
        /\ draining \in [Server -> BOOLEAN]
    BY DEF Init
  <2>3. /\ candidate \in [Server -> CandidateState]
        /\ followers \in [Server -> [Server -> Progress]]
    BY FreshStates DEF Init
  <2>4. /\ log \in [Server -> Seq(LogEntry)] /\ log_last_flushed \in [Server -> Nat]
        /\ streams \in [Server -> [Server -> Seq(AppendEntry)]]
        /\ late \in [Server -> [Server -> Seq(AppendEntry)]]
    BY EmptySeq DEF Init
  <2>5. /\ requests \subseteq Request /\ responses \subseteq Response
        /\ ballots \subseteq Server \X Nat \X Server /\ leaders \subseteq Nat \X Server
        /\ restarts \in Nat
    BY DEF Init
  <2> QED
    BY <2>1, <2>2, <2>3, <2>4, <2>5 DEF TypeOK
<1>2. TypeOK /\ [Next]_vars => TypeOK'
  <2> SUFFICES ASSUME TypeOK, [Next]_vars PROVE TypeOK'
    OBVIOUS
  <2>1. CASE UNCHANGED vars
    BY <2>1 DEF TypeOK, vars
  <2>2. ASSUME NEW s \in Server, ServerStep(s), UNCHANGED restarts PROVE TypeOK'
    BY <2>2, TimerType, ClientType, PersistedType, LogFlushedType DEF ServerStep
  <2>3. ASSUME NEW l \in Server, NEW f \in Server, PairStep(l, f), UNCHANGED restarts
        PROVE  TypeOK'
    BY <2>3, SendHeartbeatType, HeartbeatFailedType, ReplicateType, HandleAppendType,
       HandleLateAppendType, AppendCallbackType, NoResponseType DEF PairStep
  <2>4. ASSUME Receive, UNCHANGED restarts PROVE TypeOK'
    BY <2>4, PreVoteType, RequestVoteType, HeartbeatType, ObserveResponseType,
       VoteCallbackType, HeartbeatCallbackType DEF Receive
  <2>5. CASE RestartStep
    BY <2>5, RestartType DEF RestartStep
  <2> QED
    BY <2>1, <2>2, <2>3, <2>4, <2>5 DEF Next, Step
<1> QED
  BY <1>1, <1>2, PTL DEF Spec

=============================================================================
