--------------------------- MODULE ElectionProofs ---------------------------
(***************************************************************************)
(* At most one server wins the election of a term.                         *)
(*                                                                         *)
(* A winner has a majority of ballots behind it (LeadersElected), two      *)
(* majorities share a voter, and no voter casts two ballots in one term    *)
(* (VoteOnce).  Both facts must survive every other handler: the votes a   *)
(* candidate has counted were really cast (VotesBacked, BackedIn), the     *)
(* vote it counts for itself is on its disk (DiskKept, OwnVote), and a     *)
(* server remembers the vote of its current term (BallotsKept), also after *)
(* a restart, which takes place only when its votes are on its disk.       *)
(***************************************************************************)
EXTENDS ConsensusTypeProofs

\* A candidate and a leader have voted for themselves.
OwnVote == \A s \in Server : state[s] \in {"Candidate", "Leader"} => voted_for[s] = s

\* A server remembers the ballot it cast in its current term.
BallotsKept ==
  \A b \in ballots : \/ b[2] < current_term[b[1]]
                     \/ b[2] = current_term[b[1]] /\ b[3] = voted_for[b[1]]

\* No server sends an RPC to itself.
DistinctIn(rpcs) == \A r \in rpcs : r.from # r.to

\* Every granted vote on the wire has been cast.
BackedIn(resps, cast) ==
  \A r \in resps : r.kind = "RequestVote" /\ r.vote_granted => <<r.from, r.term, r.to>> \in cast

\* Every vote that c counts as received in term t by s comes from another server, which
\* has cast it.
CountedIn(s, c, t, cast) == \A q \in c.votes_received : q # s /\ <<q, t, s>> \in cast

VotesBacked ==
  \A s \in Server :
    state[s] = "Candidate" => CountedIn(s, candidate[s], current_term[s], ballots)

\* The metadata file is never ahead of memory, does not contradict it, and a server's
\* vote for itself is a ballot once it is there.
DiskKept ==
  \A s \in Server :
    /\ disk[s].current_term <= current_term[s]
    /\ (disk[s].current_term = current_term[s] /\ disk[s].voted_for # Nil)
         => voted_for[s] = disk[s].voted_for
    /\ disk[s].voted_for = s => <<s, disk[s].current_term, s>> \in ballots

\* A majority has cast its ballots of term t for s.
Elected(t, s, cast) ==
  \E Q \in SUBSET Server : IsMajority(Q) /\ \A q \in Q : <<q, t, s>> \in cast

LeadersElected == \A l \in leaders : Elected(l[1], l[2], ballots)

ElectionInv ==
  /\ OwnVote /\ BallotsKept /\ VoteOnce /\ VotesBacked /\ DiskKept /\ LeadersElected
  /\ DistinctIn(requests) /\ DistinctIn(responses) /\ BackedIn(responses, ballots)

-----------------------------------------------------------------------------
(* What a step may do to the election *)

\* The part of the types that elections depend on.
ElectionTypes ==
  /\ current_term \in [Server -> Nat] /\ voted_for \in [Server -> Server \cup {Nil}]
  /\ disk \in [Server -> Metadata] /\ candidate \in [Server -> CandidateState]
  /\ state \in [Server -> {"Follower", "Candidate", "Leader", "Poisoned"}]

LEMMA ElectionTyped ==
  ASSUME TypeOK
  PROVE  ElectionTypes
BY DEF TypeOK, ElectionTypes

\* The term and the vote of s move forward: to a later term, or from no vote to a vote.
MetaForward(s) ==
  \/ current_term'[s] > current_term[s]
  \/ current_term'[s] = current_term[s] /\ voted_for[s] \in {Nil, voted_for'[s]}

\* At most the current vote of s is cast.
CastsOwn(s) ==
  \/ ballots' = ballots
  \/ voted_for'[s] \in Server /\ ballots' = ballots \cup {<<s, current_term'[s], voted_for'[s]>>}

OthersKept(s) ==
  \A q \in Server \ {s} : /\ current_term'[q] = current_term[q] /\ voted_for'[q] = voted_for[q]
                          /\ state'[q] = state[q] /\ candidate'[q] = candidate[q]

RoleBacked(s) ==
  /\ state'[s] \in {"Candidate", "Leader"} => voted_for'[s] = s
  /\ state'[s] = "Candidate" => CountedIn(s, candidate'[s], current_term'[s], ballots')

\* A server that moves forward keeps the promise of its earlier ballots.
LEMMA BallotStep ==
  ASSUME TypeOK, TypeOK', BallotsKept, VoteOnce, NEW s \in Server,
         MetaForward(s), CastsOwn(s),
         \A q \in Server \ {s} : current_term'[q] = current_term[q] /\ voted_for'[q] = voted_for[q]
  PROVE  BallotsKept' /\ VoteOnce'
<1>1. \A b \in ballots : /\ b[1] \in Server /\ b[2] \in Nat /\ b[3] \in Server
                         /\ b[3] # Nil
                         /\ current_term[b[1]] \in Nat /\ current_term'[b[1]] \in Nat
  <2>1. \A b \in ballots : b \in Server \X Nat \X Server
    BY DEF TypeOK
  <2>2. \A b \in ballots : b[1] \in Server /\ b[2] \in Nat /\ b[3] \in Server
    BY <2>1
  <2>3. \A q \in Server : q # Nil /\ current_term[q] \in Nat /\ current_term'[q] \in Nat
    BY ServerAssumption DEF TypeOK
  <2> QED
    BY <2>2, <2>3
<1>2. current_term[s] \in Nat /\ current_term'[s] \in Nat
  BY DEF TypeOK
<1>3. \A b \in ballots : \/ b[2] < current_term'[b[1]]
                         \/ b[2] = current_term'[b[1]] /\ b[3] = voted_for'[b[1]]
  <2> SUFFICES ASSUME NEW b \in ballots
               PROVE  \/ b[2] < current_term'[b[1]]
                      \/ b[2] = current_term'[b[1]] /\ b[3] = voted_for'[b[1]]
    OBVIOUS
  <2>1. CASE b[1] # s
    BY <1>1, <2>1 DEF BallotsKept
  <2>2. CASE b[1] = s
    BY <1>1, <1>2, <2>2 DEF BallotsKept, MetaForward
  <2> QED
    BY <2>1, <2>2
<1>4. \A b \in ballots' : b \in ballots \/ b = <<s, current_term'[s], voted_for'[s]>>
  BY DEF CastsOwn
<1>5. BallotsKept'
  BY <1>3, <1>4 DEF BallotsKept
<1>6. VoteOnce'
  <2> SUFFICES ASSUME NEW a \in ballots', NEW b \in ballots', a[1] = b[1], a[2] = b[2]
               PROVE  a[3] = b[3]
    BY DEF VoteOnce
  <2>1. CASE a \in ballots /\ b \in ballots
    BY <2>1 DEF VoteOnce
  <2>2. CASE a = <<s, current_term'[s], voted_for'[s]>>
    BY <1>1, <1>2, <1>3, <1>4, <2>2
  <2>3. CASE b = <<s, current_term'[s], voted_for'[s]>>
    BY <1>1, <1>2, <1>3, <1>4, <2>3
  <2> QED
    BY <1>4, <2>1, <2>2, <2>3
<1> QED
  BY <1>5, <1>6

\* Roles change together with the votes that stand behind them.
LEMMA RoleStep ==
  ASSUME TypeOK, TypeOK', OwnVote, VotesBacked, NEW s \in Server,
         OthersKept(s), RoleBacked(s), ballots \subseteq ballots'
  PROVE  OwnVote' /\ VotesBacked'
<1>1. OwnVote'
  BY DEF OwnVote, OthersKept, RoleBacked
<1>2. VotesBacked'
  <2> SUFFICES ASSUME NEW q \in Server, state'[q] = "Candidate"
               PROVE  CountedIn(q, candidate'[q], current_term'[q], ballots')
    BY DEF VotesBacked
  <2>1. CASE q = s
    BY <2>1 DEF RoleBacked
  <2>2. CASE q # s
    BY <2>2 DEF OthersKept, VotesBacked, CountedIn
  <2> QED
    BY <2>1, <2>2
<1> QED
  BY <1>1, <1>2

\* Moving forward does not contradict what is on the disk.
LEMMA DiskStep ==
  ASSUME TypeOK, TypeOK', DiskKept, NEW s \in Server, UNCHANGED disk,
         MetaForward(s), ballots \subseteq ballots',
         \A q \in Server \ {s} : current_term'[q] = current_term[q] /\ voted_for'[q] = voted_for[q]
  PROVE  DiskKept'
<1> SUFFICES ASSUME NEW q \in Server
             PROVE  /\ disk[q].current_term <= current_term'[q]
                    /\ (disk[q].current_term = current_term'[q] /\ disk[q].voted_for # Nil)
                         => voted_for'[q] = disk[q].voted_for
                    /\ disk[q].voted_for = q => <<q, disk[q].current_term, q>> \in ballots'
  BY DEF DiskKept
<1>1. disk[q].current_term \in Nat /\ current_term[q] \in Nat /\ current_term'[q] \in Nat
  BY DEF TypeOK, Metadata
<1>2. /\ disk[q].current_term <= current_term[q]
      /\ (disk[q].current_term = current_term[q] /\ disk[q].voted_for # Nil)
           => voted_for[q] = disk[q].voted_for
      /\ disk[q].voted_for = q => <<q, disk[q].current_term, q>> \in ballots
  BY DEF DiskKept
<1>3. CASE q # s
  BY <1>2, <1>3
<1>4. CASE q = s
  BY <1>1, <1>2, <1>4 DEF MetaForward
<1> QED
  BY <1>3, <1>4

\* The winners so far stay elected as more ballots are cast.
LEMMA ElectedMonotonic ==
  ASSUME NEW B, NEW C, B \subseteq C, NEW t, NEW s, Elected(t, s, B)
  PROVE  Elected(t, s, C)
BY DEF Elected

LEMMA LeadersStep ==
  ASSUME LeadersElected, ballots \subseteq ballots', leaders' = leaders
  PROVE  LeadersElected'
BY ElectedMonotonic DEF LeadersElected

\* A step in which s alone moves forward, nobody is elected and the RPCs stay sound.
LEMMA ForwardStep ==
  ASSUME TypeOK, TypeOK', ElectionInv, NEW s \in Server,
         MetaForward(s), CastsOwn(s), OthersKept(s), RoleBacked(s),
         UNCHANGED <<disk, leaders>>,
         DistinctIn(requests'), DistinctIn(responses'), BackedIn(responses', ballots')
  PROVE  ElectionInv'
<1>1. ballots \subseteq ballots'
  BY DEF CastsOwn
<1>2. \A q \in Server \ {s} : current_term'[q] = current_term[q] /\ voted_for'[q] = voted_for[q]
  BY DEF OthersKept
<1>3. BallotsKept' /\ VoteOnce'
  BY <1>2, BallotStep DEF ElectionInv
<1>4. OwnVote' /\ VotesBacked'
  BY <1>1, RoleStep DEF ElectionInv
<1>5. DiskKept'
  BY <1>1, <1>2, DiskStep DEF ElectionInv
<1>6. LeadersElected'
  BY <1>1, LeadersStep DEF ElectionInv
<1> QED
  BY <1>3, <1>4, <1>5, <1>6 DEF ElectionInv

\* A step that leaves terms, votes, roles and ballots alone.
LEMMA QuietStep ==
  ASSUME ElectionInv,
         UNCHANGED <<current_term, voted_for, disk, state, candidate, ballots, leaders>>,
         DistinctIn(requests'), DistinctIn(responses'), BackedIn(responses', ballots)
  PROVE  ElectionInv'
BY DEF ElectionInv, OwnVote, BallotsKept, VoteOnce, VotesBacked, DiskKept, LeadersElected

-----------------------------------------------------------------------------
(* RPCs *)

\* Cancelling, ageing and sending RPCs keeps them sound.
LEMMA RequestsSound ==
  ASSUME TypeOK, NEW s \in Server, NEW R \in SUBSET Request, DistinctIn(R)
  PROVE  /\ DistinctIn(CancelRequests(s, R))
         /\ \A m : DistinctIn(R \ {m})
BY DEF DistinctIn, CancelRequests, Request

LEMMA ElectionRequestsSound ==
  ASSUME NEW s, NEW kind, NEW t, NEW lg, NEW approval
  PROVE  DistinctIn(perform_election(s, kind, t, lg, approval))
BY DEF DistinctIn, perform_election

LEMMA AgeRequestsSound ==
  ASSUME TypeOK, NEW s \in Server, DistinctIn(requests)
  PROVE  DistinctIn(AgeRequests(s))
<1>1. \A r \in requests : r \in Request /\ r.from # r.to
  BY DEF TypeOK, DistinctIn
<1>2. ASSUME NEW r \in requests
      PROVE  LET a == [r EXCEPT !.handle = IF @ = "current" THEN "old" ELSE @]
             IN  a.from = r.from /\ a.to = r.to
  BY <1>1 DEF Request
<1>3. \A a \in AgeRequests(s) : \E r \in requests : a.from = r.from /\ a.to = r.to
  BY <1>2 DEF AgeRequests
<1> QED
  BY <1>1, <1>3 DEF DistinctIn

LEMMA ResponsesSound ==
  ASSUME TypeOK, NEW s \in Server, NEW R \in SUBSET Response, NEW B,
         DistinctIn(R), BackedIn(R, B)
  PROVE  /\ DistinctIn(CancelResponses(s, R)) /\ BackedIn(CancelResponses(s, R), B)
         /\ \A m : DistinctIn(R \ {m}) /\ BackedIn(R \ {m}, B)
BY DEF DistinctIn, BackedIn, CancelResponses

LEMMA AgeResponsesSound ==
  ASSUME TypeOK, NEW s \in Server, DistinctIn(responses), BackedIn(responses, ballots)
  PROVE  DistinctIn(AgeResponses(s)) /\ BackedIn(AgeResponses(s), ballots)
<1>1. \A r \in responses : /\ r \in Response /\ r.from # r.to
                           /\ r.kind = "RequestVote" /\ r.vote_granted
                                => <<r.from, r.term, r.to>> \in ballots
  BY DEF TypeOK, DistinctIn, BackedIn
<1>2. ASSUME NEW r \in responses
      PROVE  LET a == [r EXCEPT !.handle = "old"]
             IN  /\ a.from = r.from /\ a.to = r.to /\ a.term = r.term
                 /\ a.kind = r.kind /\ a.vote_granted = r.vote_granted
  BY <1>1 DEF Response
<1>3. \A a \in AgeResponses(s) : \E r \in responses :
        /\ a.from = r.from /\ a.to = r.to /\ a.term = r.term
        /\ a.kind = r.kind /\ a.vote_granted = r.vote_granted
  BY <1>2 DEF AgeResponses
<1> QED
  BY <1>1, <1>3 DEF DistinctIn, BackedIn

\* A reply that grants a vote is sound once the ballot is cast.
LEMMA ReplySound ==
  ASSUME NEW m \in Request, m.from # m.to, NEW t, NEW granted, NEW R, NEW B,
         DistinctIn(R), BackedIn(R, B),
         m.kind = "RequestVote" /\ granted => <<m.to, t, m.from>> \in B
  PROVE  DistinctIn(Reply(m, t, granted, R)) /\ BackedIn(Reply(m, t, granted, R), B)
BY DEF DistinctIn, BackedIn, Reply, Request

LEMMA BackedMonotonic ==
  ASSUME NEW R, NEW B, NEW C, B \subseteq C, BackedIn(R, B)
  PROVE  BackedIn(R, C)
BY DEF BackedIn

-----------------------------------------------------------------------------
(* Winning an election *)

\* A candidate that counts a majority, its own persisted vote included, is elected.
LEMMA CountElects ==
  ASSUME TypeOK, NEW s \in Server, NEW c \in CandidateState, NEW dk, NEW B,
         CountedIn(s, c, current_term[s], B),
         have_self_voted(s, dk) => <<s, current_term[s], s>> \in B,
         vote_count(s, c, dk) >= majority_size
  PROVE  Elected(current_term[s], s, B)
<1> DEFINE V == c.votes_received
<1>1. V \in SUBSET Server /\ s \notin V /\ \A q \in V : <<q, current_term[s], s>> \in B
  BY DEF CandidateState, CountedIn
<1>2. IsFiniteSet(V)
  BY <1>1, ServerAssumption, FS_Subset
<1>3. CASE have_self_voted(s, dk)
  <2>1. Cardinality(V \cup {s}) = Cardinality(V) + 1
    BY <1>1, <1>2, FS_AddElement
  <2>2. IsMajority(V \cup {s})
    BY <1>3, <2>1 DEF vote_count, IsMajority
  <2>3. V \cup {s} \in SUBSET Server /\ \A q \in V \cup {s} : <<q, current_term[s], s>> \in B
    BY <1>1, <1>3
  <2> HIDE DEF V
  <2> QED
    BY <2>2, <2>3 DEF Elected
<1>4. CASE ~have_self_voted(s, dk)
  <2>1. Cardinality(V) \in Nat
    BY <1>2, FS_CardinalityType
  <2>2. IsMajority(V)
    BY <1>4, <2>1 DEF vote_count, IsMajority
  <2> HIDE DEF V
  <2> QED
    BY <1>1, <2>2 DEF Elected
<1> QED
  BY <1>3, <1>4

\* What cycle() does to the election when the handler before it has left the candidate
\* state c and the disk dk, and B is the set of ballots afterwards.
CycleSound(s, B) ==
  /\ \A q \in Server \ {s} : state'[q] = state[q] /\ candidate'[q] = candidate[q]
  /\ state'[s] \in {"Candidate", "Leader"} => state[s] \in {"Candidate", "Leader"}
  /\ state'[s] = "Candidate" => CountedIn(s, candidate'[s], current_term[s], B)
  /\ \A l \in leaders' : l \in leaders \/ Elected(l[1], l[2], B)
  /\ DistinctIn(requests')

LEMMA CandidateCycleSound ==
  ASSUME TypeOK, NEW s \in Server, NEW c \in CandidateState, NEW dk, NEW base, NEW B,
         state[s] = "Candidate", DistinctIn(requests),
         CountedIn(s, c, current_term[s], B),
         have_self_voted(s, dk) => <<s, current_term[s], s>> \in B,
         CandidateCycle(s, c, dk, base)
  PROVE  CycleSound(s, B)
<1> DEFINE start == /\ ~c.main_vote_start
                    /\ \/ Cardinality(c.pre_votes_received) + 1 >= majority_size
                       \/ c.leader_approval # 0
           reqs == IF start
                   THEN requests \cup perform_election(s, "RequestVote", current_term[s],
                                                       log[s], c.leader_approval)
                   ELSE requests
<1>1. DistinctIn(reqs)
  BY ElectionRequestsSound DEF DistinctIn
<1>2. CASE vote_count(s, c, dk) >= majority_size /\ BecomeLeader(s, reqs, base)
  <2>1. Elected(current_term[s], s, B)
    BY <1>2, CountElects
  <2> HIDE DEF reqs
  <2>2. CASE /\ state' = [state EXCEPT ![s] = "Poisoned"]
             /\ requests' = requests
             /\ UNCHANGED <<candidate, leaders>>
    BY <2>2 DEF CycleSound, TypeOK
  <2>3. CASE /\ state' = [state EXCEPT ![s] = "Leader"]
             /\ candidate' = [candidate EXCEPT ![s] = NoCandidate]
             /\ requests' = reqs
             /\ leaders' = leaders \cup {<<current_term[s], s>>}
    BY <1>1, <2>1, <2>3 DEF CycleSound, TypeOK
  <2> QED
    BY <1>2, <2>2, <2>3 DEF BecomeLeader
<1>3. CASE /\ candidate' = [candidate EXCEPT ![s] = [c EXCEPT !.main_vote_start = @ \/ start]]
           /\ requests' = reqs
           /\ UNCHANGED <<state, leaders>>
  <2> HIDE DEF reqs, start
  <2>1. candidate'[s].votes_received = c.votes_received
    BY <1>3 DEF TypeOK, CandidateState
  <2>2. CountedIn(s, candidate'[s], current_term[s], B)
    BY <2>1 DEF CountedIn
  <2> QED
    BY <1>1, <1>3, <2>2 DEF CycleSound, TypeOK
<1> QED
  BY <1>2, <1>3 DEF CandidateCycle

LEMMA CycleElection ==
  ASSUME TypeOK, NEW s \in Server, NEW c \in CandidateState, NEW dk, NEW dr, NEW flushed,
         NEW fo, NEW base, NEW B, DistinctIn(requests),
         state[s] = "Candidate" => CountedIn(s, c, current_term[s], B),
         state[s] = "Candidate" /\ have_self_voted(s, dk) => <<s, current_term[s], s>> \in B,
         cycle(s, c, dk, dr, flushed, fo, base)
  PROVE  CycleSound(s, B)
<1>1. CASE state[s] = "Candidate" /\ CandidateCycle(s, c, dk, base)
  BY <1>1, CandidateCycleSound
<1>2. CASE state[s] # "Candidate" /\ UNCHANGED <<state, candidate, requests, leaders>>
  BY <1>2 DEF CycleSound
<1> QED
  BY <1>1, <1>2 DEF cycle

\* A vote for itself that a candidate may count is a ballot.
LEMMA OwnBallot ==
  ASSUME TypeOK, ElectionInv, NEW s \in Server, state[s] = "Candidate",
         have_self_voted(s, disk[s])
  PROVE  <<s, current_term[s], s>> \in ballots
<1>1. voted_for[s] = s
  BY DEF ElectionInv, OwnVote
<1>2. disk[s].voted_for = s /\ disk[s].current_term = current_term[s]
  BY <1>1 DEF ElectionInv, DiskKept, have_self_voted
<1> QED
  BY <1>2 DEF ElectionInv, DiskKept

\* A handler whose effect on the election is that of its cycle().
LEMMA CycleStep ==
  ASSUME TypeOK, TypeOK', ElectionInv, NEW s \in Server, CycleSound(s, ballots'),
         UNCHANGED <<current_term, voted_for>>, CastsOwn(s), DiskKept',
         DistinctIn(responses'), BackedIn(responses', ballots')
  PROVE  ElectionInv'
<1>1. ballots \subseteq ballots'
  BY DEF CastsOwn
<1>2. MetaForward(s) /\ OthersKept(s) /\ RoleBacked(s)
  BY DEF MetaForward, OthersKept, RoleBacked, CycleSound, ElectionInv, OwnVote
<1>3. BallotsKept' /\ VoteOnce'
  BY <1>2, BallotStep DEF ElectionInv, OthersKept
<1>4. OwnVote' /\ VotesBacked'
  BY <1>1, <1>2, RoleStep DEF ElectionInv
<1>5. LeadersElected'
  BY <1>1, ElectedMonotonic DEF ElectionInv, LeadersElected, CycleSound
<1> QED
  BY <1>3, <1>4, <1>5 DEF ElectionInv, CycleSound

\* ... and which leaves the disk and the ballots alone.
LEMMA PlainCycleStep ==
  ASSUME TypeOK, TypeOK', ElectionInv, NEW s \in Server, NEW dr, NEW flushed, NEW fo,
         NEW base, cycle(s, candidate[s], disk[s], dr, flushed, fo, base),
         UNCHANGED <<current_term, voted_for, disk, ballots>>,
         responses' \subseteq responses
  PROVE  ElectionInv'
<1>1. candidate[s] \in CandidateState
  BY DEF TypeOK
<1>2. state[s] = "Candidate" => CountedIn(s, candidate[s], current_term[s], ballots)
  BY DEF ElectionInv, VotesBacked
<1>3. state[s] = "Candidate" /\ have_self_voted(s, disk[s])
        => <<s, current_term[s], s>> \in ballots
  BY OwnBallot
<1>4. CycleSound(s, ballots)
  BY <1>1, <1>2, <1>3, CycleElection DEF ElectionInv
<1>5. DiskKept' /\ DistinctIn(responses') /\ BackedIn(responses', ballots)
  BY DEF ElectionInv, DiskKept, DistinctIn, BackedIn
<1> QED
  BY <1>4, <1>5, CycleStep DEF CastsOwn

-----------------------------------------------------------------------------
(* The handlers *)

LEMMA BecomeCandidateElection ==
  ASSUME TypeOK, TypeOK', ElectionInv, NEW s \in Server, become_candidate(s)
  PROVE  ElectionInv'
<1> DEFINE inc == ~(state[s] = "Candidate" /\ ~candidate[s].some_rejected)
           t == IF inc THEN current_term[s] + 1 ELSE current_term[s]
<1>1. /\ current_term' = [current_term EXCEPT ![s] = t]
      /\ voted_for' = [voted_for EXCEPT ![s] = IF inc THEN s ELSE @]
      /\ state' = [state EXCEPT ![s] = "Candidate"]
      /\ \E n : candidate' = [candidate EXCEPT ![s] = [NoCandidate EXCEPT !.attempt_number = n]]
      /\ requests' = (IF inc THEN CancelRequests(s, requests) ELSE AgeRequests(s))
                       \cup perform_election(s, "PreVote", t, log[s], 0)
      /\ responses' = IF inc THEN CancelResponses(s, responses) ELSE AgeResponses(s)
      /\ UNCHANGED <<disk, ballots, leaders>>
  BY DEF become_candidate, history
<1>2. MetaForward(s)
  BY <1>1 DEF TypeOK, MetaForward
<1>3. OthersKept(s)
  BY <1>1 DEF TypeOK, OthersKept
<1>4. RoleBacked(s)
  <2>1. voted_for'[s] = s
    BY <1>1 DEF TypeOK, ElectionInv, OwnVote
  <2>2. candidate'[s].votes_received = {}
    BY <1>1 DEF TypeOK, NoCandidate
  <2> QED
    BY <2>1, <2>2 DEF RoleBacked, CountedIn
<1>5. DistinctIn(requests')
  <2>1. DistinctIn(CancelRequests(s, requests)) /\ DistinctIn(AgeRequests(s))
    BY RequestsSound, AgeRequestsSound DEF TypeOK, ElectionInv
  <2>2. DistinctIn(perform_election(s, "PreVote", t, log[s], 0))
    BY ElectionRequestsSound
  <2> HIDE DEF inc, t
  <2> QED
    BY <1>1, <2>1, <2>2 DEF DistinctIn
<1>6. DistinctIn(responses') /\ BackedIn(responses', ballots')
  BY <1>1, ResponsesSound, AgeResponsesSound DEF TypeOK, ElectionInv
<1> QED
  BY <1>1, <1>2, <1>3, <1>4, <1>5, <1>6, ForwardStep DEF CastsOwn

LEMMA TimerElection ==
  ASSUME TypeOK, TypeOK', ElectionInv, NEW s \in Server, ElectionTimeout(s) \/ LeaseExpired(s)
  PROVE  ElectionInv'
<1>1. CASE become_candidate(s)
  BY <1>1, BecomeCandidateElection
<1>2. CASE /\ state' = [state EXCEPT ![s] = "Follower"]
           /\ UNCHANGED <<meta_vars, disk, candidate, rpc_vars, history>>
  <2>1. MetaForward(s) /\ OthersKept(s) /\ RoleBacked(s) /\ CastsOwn(s)
    BY <1>2 DEF TypeOK, MetaForward, OthersKept, RoleBacked, CastsOwn, meta_vars, history
  <2> QED
    BY <1>2, <2>1, ForwardStep DEF ElectionInv, rpc_vars, history
<1> QED
  BY <1>1, <1>2 DEF ElectionTimeout, LeaseExpired

\* A later term: the server becomes a follower and may vote at once.
LEMMA FollowTermElection ==
  ASSUME TypeOK, TypeOK', ElectionInv, NEW s \in Server, NEW t \in Nat, NEW leader, NEW vote,
         t > current_term[s], FollowTerm(s, t, leader, vote),
         UNCHANGED <<disk, leaders>>, CastsOwn(s),
         DistinctIn(requests'), DistinctIn(responses'), BackedIn(responses', ballots')
  PROVE  ElectionInv'
<1>1. MetaForward(s) /\ OthersKept(s) /\ RoleBacked(s)
  BY ElectionTyped DEF FollowTerm, ElectionTypes, MetaForward, OthersKept, RoleBacked
<1> QED
  BY <1>1, ForwardStep

LEMMA PreVoteElection ==
  ASSUME TypeOK, TypeOK', ElectionInv, NEW m \in requests, pre_vote(m)
  PROVE  ElectionInv'
<1>1. m \in Request /\ m.from # m.to
  BY DEF TypeOK, ElectionInv, DistinctIn
<1>2. DistinctIn(responses') /\ BackedIn(responses', ballots)
  BY <1>1, ReplySound DEF pre_vote, ElectionInv
<1>3. DistinctIn(requests')
  BY DEF pre_vote, ElectionInv, DistinctIn
<1> QED
  BY <1>2, <1>3, QuietStep DEF pre_vote, meta_vars, role_vars, history

\* Only a server that has not voted for another in the term of the request grants it,
\* and only as a follower; anything else is the panic.
LEMMA RequestVoteElection ==
  ASSUME TypeOK, TypeOK', ElectionInv, NEW m \in requests, request_vote(m)
  PROVE  ElectionInv'
<1> DEFINE s == m.to
           newer == m.term > current_term[s]
           term == Larger(current_term[s], m.term)
           vote == IF newer THEN Nil ELSE voted_for[s]
           resps == IF newer THEN CancelResponses(s, responses) ELSE responses
<1>1. m \in Request /\ s \in Server /\ m.from \in Server /\ m.term \in Nat /\ m.from # m.to
  BY DEF TypeOK, Request, ElectionInv, DistinctIn
<1>2. current_term[s] \in Nat
  BY <1>1 DEF TypeOK
<1>3. DistinctIn(resps) /\ BackedIn(resps, ballots)
  BY <1>1, ResponsesSound DEF ElectionInv, TypeOK
<1>4. DistinctIn(requests \ {m}) /\ DistinctIn(CancelRequests(s, requests \ {m}))
  <2>1. requests \ {m} \in SUBSET Request /\ DistinctIn(requests \ {m})
    BY DEF TypeOK, ElectionInv, DistinctIn
  <2> QED
    BY <1>1, <2>1, RequestsSound
<1>5. PICK recent \in BOOLEAN :
        LET granted == pre_vote_should_grant(s, m, term, vote, recent)
            panic == granted /\ ~newer /\ state[s] # "Follower"
            cast == IF granted THEN m.from ELSE vote
        IN
        /\ \/ /\ newer
              /\ FollowTerm(s, m.term, cast, cast)
              /\ requests' = CancelRequests(s, requests \ {m})
           \/ /\ ~newer
              /\ state' = [state EXCEPT ![s] = IF panic THEN "Poisoned" ELSE @]
              /\ voted_for' = [voted_for EXCEPT ![s] = IF panic THEN @ ELSE cast]
              /\ requests' = requests \ {m}
              /\ UNCHANGED <<current_term, candidate>>
        /\ responses' = IF panic THEN resps ELSE Reply(m, term, granted, resps)
        /\ ballots' = IF granted /\ ~panic THEN ballots \cup {<<s, term, m.from>>}
                      ELSE ballots
  BY DEF request_vote
<1> DEFINE granted == pre_vote_should_grant(s, m, term, vote, recent)
           panic == granted /\ ~newer /\ state[s] # "Follower"
           cast == IF granted THEN m.from ELSE vote
<1>6. UNCHANGED <<disk, leaders>>
  BY DEF request_vote
<1>7. granted /\ ~newer => m.term = current_term[s] /\ voted_for[s] \in {Nil, m.from}
  <2>1. granted => m.term >= term /\ (m.term > term \/ vote \in {Nil, m.from})
    BY DEF pre_vote_should_grant
  <2>2. ~newer => term = current_term[s] /\ vote = voted_for[s] /\ m.term <= current_term[s]
    BY <1>1, <1>2 DEF Larger
  <2> HIDE DEF granted, term, vote
  <2> QED
    BY <1>1, <1>2, <2>1, <2>2
<1>8. /\ responses' = IF panic THEN resps ELSE Reply(m, term, granted, resps)
      /\ ballots' = IF granted /\ ~panic THEN ballots \cup {<<s, term, m.from>>}
                    ELSE ballots
  BY <1>5
<1>9. \/ /\ newer
         /\ FollowTerm(s, m.term, cast, cast)
         /\ requests' = CancelRequests(s, requests \ {m})
      \/ /\ ~newer
         /\ state' = [state EXCEPT ![s] = IF panic THEN "Poisoned" ELSE @]
         /\ voted_for' = [voted_for EXCEPT ![s] = IF panic THEN @ ELSE cast]
         /\ requests' = requests \ {m}
         /\ UNCHANGED <<current_term, candidate>>
  BY <1>5
<1>10. ballots \subseteq ballots' /\ (granted /\ ~panic => <<s, term, m.from>> \in ballots')
  BY <1>8
<1>11. DistinctIn(responses') /\ BackedIn(responses', ballots')
  <2>1. BackedIn(resps, ballots')
    BY <1>3, <1>10, BackedMonotonic
  <2>2. CASE panic
    BY <1>3, <1>8, <2>1, <2>2
  <2>3. CASE ~panic
    <3>1. responses' = Reply(m, term, granted, resps)
      BY <1>8, <2>3
    <3>2. m.kind = "RequestVote" /\ granted => <<m.to, term, m.from>> \in ballots'
      BY <1>10, <2>3
    <3> HIDE DEF term, granted, resps
    <3> QED
      BY <1>1, <1>3, <2>1, <3>1, <3>2, ReplySound
  <2> QED
    BY <2>2, <2>3
<1>12. DistinctIn(requests')
  BY <1>4, <1>9
<1>13. CASE newer
  <2>1. FollowTerm(s, m.term, cast, cast)
    BY <1>9, <1>13
  <2>2. current_term'[s] = m.term /\ voted_for'[s] = cast
    BY <1>1, <2>1 DEF FollowTerm, TypeOK
  <2>3. term = m.term /\ ~panic
    BY <1>1, <1>2, <1>13 DEF Larger
  <2>4. CastsOwn(s)
    BY <1>1, <1>8, <2>2, <2>3 DEF CastsOwn
  <2> HIDE DEF cast, s
  <2> QED
    BY <1>1, <1>6, <1>11, <1>12, <1>13, <2>1, <2>4, FollowTermElection DEF newer
<1>14. CASE ~newer
  <2>1. /\ state' = [state EXCEPT ![s] = IF panic THEN "Poisoned" ELSE @]
        /\ voted_for' = [voted_for EXCEPT ![s] = IF panic THEN @ ELSE cast]
        /\ UNCHANGED <<current_term, candidate>>
    BY <1>9, <1>14
  <2>2. voted_for'[s] = IF panic THEN voted_for[s] ELSE cast
    BY <1>1, <2>1 DEF TypeOK
  <2>3. state'[s] = IF panic THEN "Poisoned" ELSE state[s]
    BY <1>1, <2>1 DEF TypeOK
  <2>4. OthersKept(s)
    BY <1>1, <2>1 DEF OthersKept, TypeOK
  <2>5. MetaForward(s)
    BY <1>7, <1>14, <2>1, <2>2 DEF MetaForward
  <2>6. CastsOwn(s)
    <3>1. granted => term = current_term'[s]
      BY <1>1, <1>2, <1>7, <1>14, <2>1 DEF Larger
    <3>2. granted /\ ~panic => voted_for'[s] = m.from
      BY <2>2
    <3> HIDE DEF granted, panic, term
    <3> QED
      BY <1>1, <1>8, <3>1, <3>2 DEF CastsOwn
  <2>7. RoleBacked(s)
    <3>1. CASE state'[s] \notin {"Candidate", "Leader"}
      BY <3>1 DEF RoleBacked
    <3>2. CASE state'[s] \in {"Candidate", "Leader"}
      <4>1. ~panic /\ state[s] \in {"Candidate", "Leader"} /\ state'[s] = state[s]
        BY <2>3, <3>2
      <4>2. ~granted
        BY <1>14, <4>1
      <4>3. voted_for'[s] = voted_for[s]
        BY <1>14, <2>2, <4>1, <4>2
      <4>4. ballots' = ballots
        BY <1>8, <4>2
      <4> HIDE DEF s
      <4> QED
        BY <1>1, <2>1, <4>1, <4>3, <4>4 DEF RoleBacked, ElectionInv, OwnVote, VotesBacked
    <3> QED
      BY <3>1, <3>2
  <2> HIDE DEF s
  <2> QED
    BY <1>1, <1>6, <1>11, <1>12, <2>4, <2>5, <2>6, <2>7, ForwardStep
<1> QED
  BY <1>13, <1>14

LEMMA ObserveResponseElection ==
  ASSUME TypeOK, TypeOK', ElectionInv, NEW m \in responses, ObserveResponse(m)
  PROVE  ElectionInv'
<1>1. m.to \in Server /\ m.term \in Nat
  BY DEF TypeOK, Response
<1>2. /\ FollowTerm(m.to, m.term, Nil, Nil) /\ m.term > current_term[m.to]
      /\ requests' = CancelRequests(m.to, requests)
      /\ responses' = CancelResponses(m.to, responses)
      /\ UNCHANGED <<disk, ballots, leaders>>
  BY DEF ObserveResponse, history
<1>3. /\ DistinctIn(requests') /\ DistinctIn(responses')
      /\ BackedIn(responses', ballots')
  BY <1>1, <1>2, RequestsSound, ResponsesSound DEF TypeOK, ElectionInv
<1> QED
  BY <1>1, <1>2, <1>3, FollowTermElection DEF CastsOwn

\* A vote is counted only if its voter has cast it in the candidate's current term.
LEMMA VoteCallbackElection ==
  ASSUME TypeOK, TypeOK', ElectionInv, NEW m \in responses, request_vote_callback(m)
  PROVE  ElectionInv'
<1> DEFINE s == m.to
           c == candidate[s]
           counts == /\ state[s] = "Candidate" /\ m.term = current_term[s]
                     /\ m.handle = "current"
           d == IF ~m.vote_granted THEN [c EXCEPT !.some_rejected = TRUE]
                ELSE IF m.kind = "PreVote"
                     THEN [c EXCEPT !.pre_votes_received = @ \cup {m.from}]
                     ELSE [c EXCEPT !.votes_received = @ \cup {m.from}]
<1>1. /\ s \in Server /\ m.from \in Server /\ m.from # s /\ c \in CandidateState
      /\ m.kind \in {"PreVote", "RequestVote"}
  BY DEF TypeOK, Response, ElectionInv, DistinctIn, request_vote_callback
<1>2. UNCHANGED <<current_term, voted_for, disk, ballots>> /\ responses' = responses \ {m}
  BY DEF request_vote_callback, meta_vars
<1>3. DistinctIn(responses') /\ BackedIn(responses', ballots)
  BY <1>2 DEF ElectionInv, DistinctIn, BackedIn
<1>4. CASE counts /\ CandidateCycle(s, d, disk[s], streams)
  <2>1. d \in CandidateState
    <3> HIDE DEF c, s
    <3> QED BY <1>1 DEF CandidateState
  <2>2. CountedIn(s, c, current_term[s], ballots)
    BY <1>1, <1>4 DEF ElectionInv, VotesBacked
  <2>3. CountedIn(s, d, current_term[s], ballots)
    <3>1. CASE m.kind = "RequestVote" /\ m.vote_granted
      <4>1. <<m.from, current_term[s], s>> \in ballots
        BY <1>4, <3>1 DEF ElectionInv, BackedIn
      <4>2. d.votes_received = c.votes_received \cup {m.from}
        <5> HIDE DEF c, s
        <5> QED BY <1>1, <3>1 DEF CandidateState
      <4> QED
        BY <1>1, <2>2, <4>1, <4>2 DEF CountedIn
    <3>2. CASE ~(m.kind = "RequestVote" /\ m.vote_granted)
      <4>1. d.votes_received = c.votes_received
        <5> HIDE DEF c, s
        <5> QED BY <1>1, <3>2 DEF CandidateState
      <4> QED
        BY <2>2, <4>1 DEF CountedIn
    <3> QED
      BY <3>1, <3>2
  <2>4. have_self_voted(s, disk[s]) => <<s, current_term[s], s>> \in ballots
    BY <1>1, <1>4, OwnBallot
  <2>5. CycleSound(s, ballots)
    <3> HIDE DEF d, s
    <3> QED
      BY <1>1, <1>4, <2>1, <2>3, <2>4, CandidateCycleSound DEF ElectionInv
  <2>6. DiskKept'
    BY <1>2 DEF ElectionInv, DiskKept
  <2> HIDE DEF s
  <2> QED
    BY <1>1, <1>2, <1>3, <2>5, <2>6, CycleStep DEF CastsOwn
<1>5. CASE UNCHANGED <<state, candidate, followers, log, streams, requests, leaders>>
  BY <1>2, <1>3, <1>5, QuietStep DEF ElectionInv
<1> QED
  BY <1>4, <1>5 DEF request_vote_callback

LEMMA HeartbeatElection ==
  ASSUME TypeOK, TypeOK', ElectionInv, NEW m \in requests, heartbeat(m)
  PROVE  ElectionInv'
<1> DEFINE s == m.to
<1>1. m \in Request /\ s \in Server /\ m.term \in Nat /\ m.from # m.to
  BY DEF TypeOK, Request, ElectionInv, DistinctIn
<1>2. UNCHANGED <<disk, ballots, leaders>>
  BY DEF heartbeat, history
<1>3. /\ requests \ {m} \in SUBSET Request /\ responses \in SUBSET Response
      /\ DistinctIn(requests \ {m}) /\ DistinctIn(responses) /\ BackedIn(responses, ballots)
  BY DEF TypeOK, ElectionInv, DistinctIn
<1>4. CASE /\ m.term > current_term[s]
           /\ FollowTerm(s, m.term, m.from, Nil)
           /\ requests' = CancelRequests(s, requests \ {m})
           /\ responses' = Reply(m, m.term, FALSE, CancelResponses(s, responses))
  <2>1. DistinctIn(requests')
    BY <1>1, <1>3, <1>4, RequestsSound
  <2>2. /\ DistinctIn(CancelResponses(s, responses))
        /\ BackedIn(CancelResponses(s, responses), ballots)
    BY <1>1, <1>3, ResponsesSound
  <2>3. DistinctIn(responses') /\ BackedIn(responses', ballots)
    BY <1>1, <1>4, <2>2, ReplySound
  <2> HIDE DEF s
  <2> QED
    BY <1>1, <1>2, <1>4, <2>1, <2>3, FollowTermElection DEF CastsOwn
<1>5. CASE /\ \/ /\ state' = [state EXCEPT ![s] = "Follower"]
                 /\ candidate' = [candidate EXCEPT ![s] = NoCandidate]
              \/ UNCHANGED role_vars
           /\ requests' = requests \ {m}
           /\ responses' = Reply(m, current_term[s], FALSE, responses)
           /\ UNCHANGED meta_vars
  <2>1. DistinctIn(responses') /\ BackedIn(responses', ballots)
    BY <1>1, <1>3, <1>5, ReplySound
  <2>2. CASE UNCHANGED role_vars
    BY <1>2, <1>3, <1>5, <2>1, <2>2, QuietStep DEF meta_vars, role_vars
  <2>3. CASE /\ state' = [state EXCEPT ![s] = "Follower"]
             /\ candidate' = [candidate EXCEPT ![s] = NoCandidate]
    <3> HIDE DEF s
    <3>1. MetaForward(s) /\ OthersKept(s) /\ RoleBacked(s) /\ CastsOwn(s)
      BY <1>1, <1>2, <1>5, <2>3, ElectionTyped
         DEF ElectionTypes, MetaForward, OthersKept, RoleBacked, CastsOwn, meta_vars
    <3> QED
      BY <1>1, <1>2, <1>3, <1>5, <2>1, <3>1, ForwardStep
  <2> QED
    BY <1>5, <2>2, <2>3
<1> QED
  BY <1>4, <1>5 DEF heartbeat

LEMMA SendHeartbeatElection ==
  ASSUME TypeOK, TypeOK', ElectionInv, NEW l \in Server, NEW f \in Server,
         send_heartbeats(l, f)
  PROVE  ElectionInv'
<1>1. DistinctIn(requests') /\ DistinctIn(responses') /\ BackedIn(responses', ballots)
  <2>1. \A r \in requests' : r \in requests \/ (r.from = l /\ r.to = f)
    <3> DEFINE hb == [kind |-> "Heartbeat", from |-> l, to |-> f, term |-> current_term[l],
                      last_log_index |-> 0, last_log_term |-> 0, leader_approval |-> 0,
                      handle |-> "current"]
    <3>1. requests' = requests \cup {hb}
      BY DEF send_heartbeats
    <3>2. hb.from = l /\ hb.to = f
      OBVIOUS
    <3> HIDE DEF hb
    <3> QED
      BY <3>1, <3>2
  <2>2. f # l /\ UNCHANGED responses
    BY DEF send_heartbeats
  <2>3. DistinctIn(requests')
    BY <2>1, <2>2 DEF ElectionInv, DistinctIn
  <2> QED
    BY <2>2, <2>3 DEF ElectionInv
<1> QED
  BY <1>1, QuietStep DEF send_heartbeats, meta_vars, role_vars, history

LEMMA HeartbeatFailedElection ==
  ASSUME TypeOK, TypeOK', ElectionInv, NEW l \in Server, NEW f \in Server,
         heartbeat_failed(l, f)
  PROVE  ElectionInv'
<1>1. requests' \subseteq requests /\ responses' \subseteq responses
  BY DEF heartbeat_failed
<1>2. DistinctIn(requests') /\ DistinctIn(responses') /\ BackedIn(responses', ballots)
  BY <1>1 DEF ElectionInv, DistinctIn, BackedIn
<1> QED
  BY <1>2, QuietStep DEF heartbeat_failed, meta_vars, role_vars, history

LEMMA HeartbeatCallbackElection ==
  ASSUME TypeOK, TypeOK', ElectionInv, NEW m \in responses, heartbeat_callback(m)
  PROVE  ElectionInv'
<1>1. m.to \in Server
  BY DEF TypeOK, Response
<1>2. UNCHANGED <<current_term, voted_for, disk, ballots>> /\ responses' \subseteq responses
  BY DEF heartbeat_callback, meta_vars
<1>3. CASE cycle(m.to, candidate[m.to], disk[m.to], draining[m.to],
                 log_last_flushed[m.to], followers[m.to], streams)
  BY <1>1, <1>2, <1>3, PlainCycleStep
<1>4. CASE UNCHANGED <<role_vars, followers, commit_index, log, streams, requests, leaders>>
  <2>1. DistinctIn(requests') /\ DistinctIn(responses') /\ BackedIn(responses', ballots)
    BY <1>2, <1>4 DEF ElectionInv, DistinctIn, BackedIn
  <2> QED
    BY <1>2, <1>4, <2>1, QuietStep DEF role_vars
<1> QED
  BY <1>3, <1>4 DEF heartbeat_callback

\* append_entries never goes back to an earlier term, and it votes again only in the new
\* term of a TimeoutNow.
LEMMA AppendEntriesElection ==
  ASSUME TypeOK, TypeOK', ElectionInv, NEW f \in Server, NEW l, NEW m \in AppendEntry,
         NEW st, NEW lt, append_entries(f, l, m, st, lt)
  PROVE  ElectionInv'
<1> DEFINE out == append_outcome(f, m)
           newer == m.term > current_term[f]
           elect == TimeoutNow(f, m)
           term == IF elect THEN m.term + 1 ELSE m.term
           cancel == newer \/ elect
<1>1. UNCHANGED <<disk, ballots, leaders>>
  BY DEF append_entries, history
<1>2. CASE out \in {"old_term", "two_leaders"}
  <2>1. UNCHANGED <<current_term, voted_for, state, candidate, requests, responses>>
    BY <1>2 DEF append_entries, meta_vars, role_vars, rpc_vars
  <2> QED
    BY <1>1, <2>1, QuietStep DEF ElectionInv
<1>3. CASE out \notin {"old_term", "two_leaders"}
  <2>1. /\ current_term' = [current_term EXCEPT ![f] = term]
        /\ voted_for' = [voted_for EXCEPT ![f] =
                          IF elect THEN f ELSE IF newer THEN Nil ELSE @]
        /\ state' = [state EXCEPT ![f] = IF out = "panic" THEN "Poisoned"
                                         ELSE IF elect THEN "Candidate" ELSE "Follower"]
        /\ candidate' = [candidate EXCEPT ![f] =
             IF elect THEN [NoCandidate EXCEPT !.main_vote_start = TRUE,
                                               !.leader_approval = m.term]
             ELSE NoCandidate]
        /\ requests' = (IF cancel THEN CancelRequests(f, requests) ELSE requests)
              \cup (IF elect THEN perform_election(f, "RequestVote", term,
                                                   NewLog(f, m), m.term) ELSE {})
        /\ responses' = IF cancel THEN CancelResponses(f, responses) ELSE responses
    BY <1>3 DEF append_entries
  <2>2. m.term \in Nat /\ current_term[f] \in Nat /\ m.term >= current_term[f]
    <3>1. m.term \in Nat
      BY DEF AppendEntry
    <3>2. current_term[f] \in Nat
      BY ElectionTyped DEF ElectionTypes
    <3>3. ~(m.term < current_term[f])
      BY <1>3 DEF append_outcome
    <3> QED
      BY <3>1, <3>2, <3>3
  <2>3. /\ current_term'[f] = term
        /\ voted_for'[f] = IF elect THEN f ELSE IF newer THEN Nil ELSE voted_for[f]
        /\ state'[f] \in {"Candidate", "Leader"} => elect /\ state'[f] = "Candidate"
    BY <2>1 DEF TypeOK
  <2>4. MetaForward(f)
    <3> HIDE DEF elect, out
    <3>1. CASE elect
      BY <2>2, <2>3, <3>1 DEF MetaForward
    <3>2. CASE ~elect
      BY <2>2, <2>3, <3>2 DEF MetaForward
    <3> QED
      BY <3>1, <3>2
  <2>5. OthersKept(f)
    BY <2>1 DEF OthersKept, TypeOK
  <2>6. RoleBacked(f)
    <3>1. elect => candidate'[f].votes_received = {}
      BY <2>1 DEF TypeOK, NoCandidate
    <3> QED
      BY <2>3, <3>1 DEF RoleBacked, CountedIn
  <2>7. DistinctIn(requests')
    <3>1. DistinctIn(CancelRequests(f, requests)) /\ DistinctIn(requests)
      BY RequestsSound DEF TypeOK, ElectionInv
    <3>2. DistinctIn(perform_election(f, "RequestVote", term, NewLog(f, m), m.term))
      BY ElectionRequestsSound
    <3> HIDE DEF cancel, elect, term
    <3> QED
      BY <2>1, <3>1, <3>2 DEF DistinctIn
  <2>8. DistinctIn(responses') /\ BackedIn(responses', ballots')
    BY <1>1, <2>1, ResponsesSound DEF TypeOK, ElectionInv
  <2> QED
    BY <1>1, <2>4, <2>5, <2>6, <2>7, <2>8, ForwardStep DEF CastsOwn
<1> QED
  BY <1>2, <1>3

LEMMA HandleElection ==
  ASSUME TypeOK, TypeOK', ElectionInv, NEW l \in Server, NEW f \in Server,
         HandleAppend(l, f) \/ HandleLateAppend(l, f)
  PROVE  ElectionInv'
<1>1. PICK m, st, lt : /\ \/ \E i \in DOMAIN streams[l][f] : m = streams[l][f][i]
                          \/ late[l][f] # <<>> /\ m = Head(late[l][f])
                       /\ append_entries(f, l, m, st, lt)
  <2>1. CASE HandleAppend(l, f)
    <3>1. PICK i \in DOMAIN streams[l][f] :
            append_entries(f, l, streams[l][f][i],
                           [streams EXCEPT ![l][f][i] = Answer(f, streams[l][f][i])], late)
      BY <2>1 DEF HandleAppend
    <3> QED
      BY <3>1
  <2>2. CASE HandleLateAppend(l, f)
    BY <2>2 DEF HandleLateAppend
  <2> QED
    BY <2>1, <2>2
<1>2. streams[l][f] \in Seq(AppendEntry) /\ late[l][f] \in Seq(AppendEntry)
  BY DEF TypeOK
<1>3. \A i \in DOMAIN streams[l][f] : streams[l][f][i] \in AppendEntry
  BY <1>2, ElementOfSeq, LenProperties
<1>4. m \in AppendEntry
  BY <1>1, <1>2, <1>3, HeadTailProperties
<1> QED
  BY <1>1, <1>4, AppendEntriesElection

LEMMA AppendCallbackElection ==
  ASSUME TypeOK, TypeOK', ElectionInv, NEW l \in Server, NEW f \in Server,
         append_entries_callback(l, f)
  PROVE  ElectionInv'
<1> DEFINE m == Head(streams[l][f])
           base == [streams EXCEPT ![l][f] = Tail(@)]
           fo == [followers[l] EXCEPT ![f] = Answered(@, m)]
<1>1. UNCHANGED <<disk, ballots>>
  BY DEF append_entries_callback
<1>2. CASE /\ m.res_term > current_term[l]
           /\ FollowTerm(l, m.res_term, Nil, Nil)
           /\ requests' = CancelRequests(l, requests)
           /\ responses' = CancelResponses(l, responses)
           /\ UNCHANGED leaders
  <2>1. streams[l][f] \in Seq(AppendEntry) /\ streams[l][f] # <<>>
    <3>1. streams[l][f] \in Seq(AppendEntry)
      BY DEF TypeOK
    <3>2. streams[l][f] # <<>>
      BY DEF append_entries_callback
    <3> QED
      BY <3>1, <3>2
  <2>2. m \in AppendEntry
    BY <2>1, HeadTailProperties
  <2>3. m.res_term \in Nat
    <3> HIDE DEF m
    <3> QED BY <2>2 DEF AppendEntry
  <2>4. /\ DistinctIn(requests') /\ DistinctIn(responses')
        /\ BackedIn(responses', ballots')
    BY <1>1, <1>2, RequestsSound, ResponsesSound DEF TypeOK, ElectionInv
  <2> HIDE DEF m
  <2> QED
    BY <1>1, <1>2, <2>3, <2>4, FollowTermElection DEF CastsOwn
<1>3. CASE /\ cycle(l, candidate[l], disk[l], draining[l], log_last_flushed[l], fo, base)
           /\ UNCHANGED <<meta_vars, responses>>
  <2> HIDE DEF fo, base
  <2> QED BY <1>1, <1>3, PlainCycleStep DEF meta_vars
<1>4. CASE UNCHANGED <<meta_vars, state, candidate, rpc_vars, leaders>>
  BY <1>1, <1>4, QuietStep DEF ElectionInv, meta_vars, rpc_vars
<1>5. CASE /\ state' = [state EXCEPT ![l] = "Poisoned"]
           /\ UNCHANGED <<meta_vars, candidate, rpc_vars, leaders>>
  <2>1. MetaForward(l) /\ OthersKept(l) /\ RoleBacked(l) /\ CastsOwn(l)
    BY <1>1, <1>5 DEF TypeOK, MetaForward, OthersKept, RoleBacked, CastsOwn, meta_vars
  <2> QED
    BY <1>1, <1>5, <2>1, ForwardStep DEF ElectionInv, rpc_vars
<1> QED
  BY <1>2, <1>3, <1>4, <1>5 DEF append_entries_callback, role_vars

LEMMA ReplicationElection ==
  ASSUME TypeOK, TypeOK', ElectionInv, NEW l \in Server, NEW f \in Server,
         \/ append_entries_noresponse(l, f) \/ Propose(l)
         \/ \E timeout_now \in BOOLEAN : replicate_entries(l, f, timeout_now)
  PROVE  ElectionInv'
<1>1. UNCHANGED <<current_term, voted_for, disk, state, candidate, requests, responses,
                  ballots, leaders>>
  BY DEF append_entries_noresponse, Propose, replicate_entries, meta_vars, role_vars,
         rpc_vars, history
<1> QED
  BY <1>1, QuietStep DEF ElectionInv

LEMMA ServerCycleElection ==
  ASSUME TypeOK, TypeOK', ElectionInv, NEW s \in Server,
         drain(s) \/ \E k \in 1..Len(log[s]) : log_flushed(s, k)
  PROVE  ElectionInv'
<1>1. UNCHANGED <<current_term, voted_for, disk, ballots>> /\ responses' \subseteq responses
  BY DEF drain, log_flushed, meta_vars
<1>2. CASE drain(s)
  BY <1>1, <1>2, PlainCycleStep DEF drain
<1>3. ASSUME NEW k \in 1..Len(log[s]), log_flushed(s, k) PROVE ElectionInv'
  BY <1>1, <1>3, PlainCycleStep DEF log_flushed
<1> QED
  BY <1>2, <1>3

\* The metadata writer turns the vote of a candidate for itself into a ballot.
LEMMA PersistedElection ==
  ASSUME TypeOK, TypeOK', ElectionInv, NEW s \in Server, persisted_metadata(s)
  PROVE  ElectionInv'
<1>1. /\ UNCHANGED <<current_term, voted_for, responses>>
      /\ disk' = [disk EXCEPT ![s] = meta(s)]
      /\ ballots' = IF voted_for[s] = s THEN ballots \cup {<<s, current_term[s], s>>}
                    ELSE ballots
      /\ cycle(s, candidate[s], meta(s), draining[s], log_last_flushed[s], followers[s],
               streams)
  BY DEF persisted_metadata, meta_vars
<1>2. ballots \subseteq ballots' /\ CastsOwn(s)
  BY <1>1 DEF CastsOwn
<1>3. candidate[s] \in CandidateState
  BY DEF TypeOK
<1>4. state[s] = "Candidate" =>
        /\ CountedIn(s, candidate[s], current_term[s], ballots')
        /\ <<s, current_term[s], s>> \in ballots'
  BY <1>1, <1>2 DEF ElectionInv, VotesBacked, CountedIn, OwnVote
<1>5. CycleSound(s, ballots')
  BY <1>1, <1>3, <1>4, CycleElection DEF ElectionInv
<1>6. DiskKept'
  <2> SUFFICES ASSUME NEW q \in Server
               PROVE  /\ disk'[q].current_term <= current_term[q]
                      /\ (disk'[q].current_term = current_term[q] /\ disk'[q].voted_for # Nil)
                           => voted_for[q] = disk'[q].voted_for
                      /\ disk'[q].voted_for = q => <<q, disk'[q].current_term, q>> \in ballots'
    BY <1>1 DEF DiskKept
  <2>1. CASE q = s
    <3>1. disk'[q].current_term = current_term[q] /\ disk'[q].voted_for = voted_for[q]
      BY <1>1, <2>1 DEF TypeOK, meta
    <3>2. current_term[q] \in Nat
      BY DEF TypeOK
    <3>3. voted_for[q] = q => <<q, current_term[q], q>> \in ballots'
      BY <1>1, <2>1
    <3>6. current_term[q] <= current_term[q]
      BY <3>2
    <3>4. disk'[q].current_term <= current_term[q]
      BY <3>1, <3>6, Zenon
    <3>5. disk'[q].voted_for = q => <<q, disk'[q].current_term, q>> \in ballots'
      BY <3>1, <3>3, Zenon
    <3> QED
      BY <3>1, <3>4, <3>5, Zenon
  <2>2. CASE q # s
    BY <1>1, <1>2, <2>2 DEF TypeOK, ElectionInv, DiskKept
  <2> QED
    BY <2>1, <2>2
<1>7. DistinctIn(responses') /\ BackedIn(responses', ballots')
  BY <1>1, <1>2, BackedMonotonic DEF ElectionInv
<1> QED
  BY <1>1, <1>2, <1>5, <1>6, <1>7, CycleStep

\* A server that restarts while its votes are on its disk still remembers them.
LEMMA RestartElection ==
  ASSUME TypeOK, TypeOK', ElectionInv, NEW s \in Server, VotesOnDisk(s),
         NEW k \in 0..Len(log[s]), Restart(s, k)
  PROVE  ElectionInv'
<1>1. /\ UNCHANGED <<disk, ballots, leaders>>
      /\ state' = [state EXCEPT ![s] = "Follower"]
      /\ \A q \in Server \ {s} : /\ current_term'[q] = current_term[q]
                                 /\ voted_for'[q] = voted_for[q]
                                 /\ candidate'[q] = candidate[q]
  BY ElectionTyped DEF Restart, ElectionTypes
<1>2. \/ current_term'[s] > disk[s].current_term
      \/ current_term'[s] = disk[s].current_term /\ voted_for'[s] = disk[s].voted_for
  BY ElectionTyped DEF Restart, ElectionTypes
<1>3. disk[s].current_term \in Nat /\ current_term'[s] \in Nat
  BY DEF TypeOK, Metadata
<1>4. OwnVote' /\ VotesBacked'
  <2>1. OthersKept(s) /\ RoleBacked(s)
    BY <1>1, ElectionTyped DEF ElectionTypes, OthersKept, RoleBacked
  <2> QED
    BY <1>1, <2>1, RoleStep DEF ElectionInv
<1>5. BallotsKept'
  <2> SUFFICES ASSUME NEW b \in ballots
               PROVE  \/ b[2] < current_term'[b[1]]
                      \/ b[2] = current_term'[b[1]] /\ b[3] = voted_for'[b[1]]
    BY <1>1 DEF BallotsKept
  <2>1. b[1] \in Server /\ b[2] \in Nat
    <3>1. b \in Server \X Nat \X Server
      BY DEF TypeOK
    <3> QED
      BY <3>1
  <2>2. CASE b[1] = s
    <3>1. \/ b[2] < disk[s].current_term
          \/ b[2] = disk[s].current_term /\ b[3] = disk[s].voted_for
      BY <2>2 DEF VotesOnDisk
    <3>2. \A x, d, t \in Nat : /\ x < d /\ (t > d \/ t = d) => x < t
                              /\ x = d /\ t > d => x < t
      OBVIOUS
    <3>3. CASE b[2] < disk[s].current_term
      <4>1. current_term'[s] > disk[s].current_term \/ current_term'[s] = disk[s].current_term
        BY <1>2, Zenon
      <4>2. b[2] < current_term'[s]
        BY <1>3, <2>1, <3>2, <3>3, <4>1
      <4> QED
        BY <2>2, <4>2, Zenon
    <3>4. CASE b[2] = disk[s].current_term /\ b[3] = disk[s].voted_for
      <4>1. CASE current_term'[s] > disk[s].current_term
        <5>1. b[2] < current_term'[s]
          BY <1>3, <2>1, <3>2, <3>4, <4>1, Zenon
        <5> QED
          BY <2>2, <5>1, Zenon
      <4>2. CASE current_term'[s] = disk[s].current_term /\ voted_for'[s] = disk[s].voted_for
        BY <2>2, <3>4, <4>2, Zenon
      <4> QED
        BY <1>2, <4>1, <4>2, Zenon
    <3> QED
      BY <3>1, <3>3, <3>4, Zenon
  <2>3. CASE b[1] # s
    BY <1>1, <2>1, <2>3 DEF ElectionInv, BallotsKept
  <2> QED
    BY <2>2, <2>3
<1>6. DiskKept'
  <2> SUFFICES ASSUME NEW q \in Server
               PROVE  /\ disk[q].current_term <= current_term'[q]
                      /\ (disk[q].current_term = current_term'[q] /\ disk[q].voted_for # Nil)
                           => voted_for'[q] = disk[q].voted_for
                      /\ disk[q].voted_for = q => <<q, disk[q].current_term, q>> \in ballots
    BY <1>1 DEF DiskKept
  <2>1. CASE q = s
    <3>1. disk[s].voted_for = s => <<s, disk[s].current_term, s>> \in ballots
      BY DEF ElectionInv, DiskKept
    <3>2. disk[s].current_term <= current_term'[s]
      BY <1>2, <1>3
    <3>3. disk[s].current_term = current_term'[s] => voted_for'[s] = disk[s].voted_for
      BY <1>2, <1>3
    <3> QED
      BY <2>1, <3>1, <3>2, <3>3, Zenon
  <2>2. CASE q # s
    BY <1>1, <2>2 DEF ElectionInv, DiskKept
  <2> QED
    BY <2>1, <2>2
<1>7. VoteOnce' /\ LeadersElected'
  BY <1>1 DEF ElectionInv, VoteOnce, LeadersElected
<1>8. /\ DistinctIn(requests') /\ DistinctIn(responses')
      /\ BackedIn(responses', ballots')
  <2>1. /\ requests' = CancelRequests(s, requests)
        /\ responses' = CancelResponses(s, responses)
    BY DEF Restart
  <2> QED
    BY <1>1, <2>1, RequestsSound, ResponsesSound DEF TypeOK, ElectionInv
<1> QED
  BY <1>4, <1>5, <1>6, <1>7, <1>8 DEF ElectionInv

-----------------------------------------------------------------------------
LEMMA ElectionInit == Init => ElectionInv
<1> SUFFICES ASSUME Init PROVE ElectionInv
  OBVIOUS
<1>1. OwnVote /\ VotesBacked
  BY DEF Init, OwnVote, VotesBacked
<1>2. BallotsKept /\ VoteOnce /\ LeadersElected
  BY DEF Init, BallotsKept, VoteOnce, LeadersElected
<1>3. DiskKept
  BY ServerAssumption DEF Init, DiskKept
<1>4. DistinctIn(requests) /\ DistinctIn(responses) /\ BackedIn(responses, ballots)
  BY DEF Init, DistinctIn, BackedIn
<1> QED
  BY <1>1, <1>2, <1>3, <1>4 DEF ElectionInv

LEMMA ElectionNext == TypeOK /\ TypeOK' /\ ElectionInv /\ [Next]_vars => ElectionInv'
<1> SUFFICES ASSUME TypeOK, TypeOK', ElectionInv, [Next]_vars PROVE ElectionInv'
  OBVIOUS
<1>1. CASE UNCHANGED vars
  BY <1>1, QuietStep DEF vars, ElectionInv
<1>2. ASSUME NEW s \in Server, ServerStep(s) PROVE ElectionInv'
  BY <1>2, TimerElection, ReplicationElection, ServerCycleElection, PersistedElection
     DEF ServerStep
<1>3. ASSUME NEW l \in Server, NEW f \in Server, PairStep(l, f) PROVE ElectionInv'
  BY <1>3, SendHeartbeatElection, HeartbeatFailedElection, ReplicationElection,
     HandleElection, AppendCallbackElection DEF PairStep
<1>4. CASE Receive
  BY <1>4, PreVoteElection, RequestVoteElection, HeartbeatElection,
     ObserveResponseElection, VoteCallbackElection, HeartbeatCallbackElection DEF Receive
<1>5. CASE RestartStep
  BY <1>5, RestartElection DEF RestartStep
<1> QED
  BY <1>1, <1>2, <1>3, <1>4, <1>5 DEF Next, Step

\* Two winners of one term share a voter of both, who has voted once.
LEMMA InvElectionSafety ==
  ASSUME TypeOK, ElectionInv
  PROVE  ElectionSafety
<1> SUFFICES ASSUME NEW a \in leaders, NEW b \in leaders, a[1] = b[1] PROVE a[2] = b[2]
  BY DEF ElectionSafety
<1>1. PICK Q \in SUBSET Server : IsMajority(Q) /\ \A q \in Q : <<q, a[1], a[2]>> \in ballots
  BY DEF ElectionInv, LeadersElected, Elected
<1>2. PICK R \in SUBSET Server : IsMajority(R) /\ \A q \in R : <<q, b[1], b[2]>> \in ballots
  BY DEF ElectionInv, LeadersElected, Elected
<1>3. /\ Cardinality(Server) \in Nat /\ Cardinality(Q) \in Nat /\ Cardinality(R) \in Nat
      /\ IsFiniteSet(Server)
  BY ServerAssumption, FS_Subset, FS_CardinalityType
<1>4. Cardinality(Q) + Cardinality(R) > Cardinality(Server)
  BY <1>1, <1>2, <1>3 DEF IsMajority, majority_size
<1>5. Q \cap R # {}
  BY <1>3, <1>4, FS_MajoritiesIntersect
<1>6. PICK q \in Q \cap R : TRUE
  BY <1>5
<1>7. <<q, a[1], a[2]>> \in ballots /\ <<q, b[1], b[2]>> \in ballots
  BY <1>1, <1>2, <1>6
<1> QED
  BY <1>7 DEF ElectionInv, VoteOnce

\* ElectionInv holds in every state, whatever handlers, lost streams and restarts with
\* votes on disk lead to it.
THEOREM ElectionInvariant == Spec => [](TypeOK /\ ElectionInv)
BY TypeCorrect, ElectionInit, ElectionNext, PTL DEF Spec

\* No server ever casts votes for two candidates of one term (request_vote, and
\* become_candidate once its vote is persisted): for any number of servers, elections and
\* restarts, as long as a server restarts only once its votes are on its disk.
THEOREM VotesOnce == Spec => []VoteOnce
<1>1. TypeOK /\ ElectionInv => VoteOnce
  BY DEF ElectionInv
<1> QED
  BY <1>1, ElectionInvariant, PTL

\* At most one server ever wins the election of a term (cycle of a candidate), for any
\* number of servers, entries, elections, broken streams and restarts, as long as a
\* server restarts only once its votes are on its disk.
THEOREM OneLeaderPerTerm == Spec => []ElectionSafety
<1>1. TypeOK /\ ElectionInv => ElectionSafety
  BY InvElectionSafety
<1> QED
  BY <1>1, ElectionInvariant, PTL

=============================================================================
