---------------------------- MODULE MCConsensus ----------------------------
(* Instances of Consensus for TLC. *)
EXTENDS Consensus, TLC

Symmetry == Permutations(Electable) \cup Permutations(Server \ Electable)

\* Elections only: no log entries and no replication.
ElectionStep ==
  /\ \/ \E s \in Server : ElectionTimeout(s) \/ persisted_metadata(s)
     \/ \E m \in requests : pre_vote(m) \/ request_vote(m)
     \/ \E m \in responses : ObserveResponse(m) \/ request_vote_callback(m)
  /\ UNCHANGED restarts

ElectionSpec == Init /\ [][ElectionStep \/ RestartStep]_vars

\* The same with restarts at any moment.
CrashSpec == Init /\ [][ElectionStep \/ CrashStep]_vars

-----------------------------------------------------------------------------
CONSTANT First  \* the server that leads term 1 when LedInit begins

\* First has just won the election of term 1 with the votes of every server and all
\* metadata is persisted.
LedInit ==
  LET voted == [current_term |-> 1, voted_for |-> First, commit_index |-> 0]
      LedBy(s) == IF s = First THEN Nil ELSE First
  IN
  /\ current_term = [s \in Server |-> 1]
  /\ voted_for = [s \in Server |-> First]
  /\ commit_index = [s \in Server |-> 0]
  /\ disk = [s \in Server |-> voted]
  /\ state = [s \in Server |-> IF s = First THEN "Leader" ELSE "Follower"]
  /\ last_leader_id = [s \in Server |-> LedBy(s)]
  /\ candidate = [s \in Server |-> NoCandidate]
  /\ followers = [s \in Server |-> NoFollowers]
  /\ draining = [s \in Server |-> FALSE]
  /\ log = [s \in Server |-> <<>>]
  /\ log_last_flushed = [s \in Server |-> 0]
  /\ late = [l \in Server |-> [f \in Server |-> <<>>]]
  /\ streams = [l \in Server |-> [f \in Server |->
       IF l = First /\ f # l
       THEN <<AppendRequest(l, <<>>, 0, 0, SlowBatch, FALSE)>> ELSE <<>>]]
  /\ requests = {} /\ responses = {}
  /\ ballots = {<<s, 1, First>> : s \in Server}
  /\ leaders = {<<1, First>>}
  /\ restarts = 0

\* The metadata that others wait for: the vote of a candidate for itself.
PersistOwnVote(s) ==
  /\ voted_for[s] = s /\ disk[s].current_term # current_term[s]
  /\ persisted_metadata(s)

\* The timer of a Live follower matters while there is something left to send: a leader
\* sends news of its commit index without a timer, and empty requests repeat the last one.
Outstanding(l, f) ==
  followers[l][f].mode # "Live" \/ followers[l][f].next_index <= Len(log[l])

\* Replication under the leader First, with streams that break.
StreamStep ==
  /\ \/ \E s \in Server : Propose(s) \/ \E k \in 1..Len(log[s]) : log_flushed(s, k)
     \/ \E l, f \in Server : \/ Outstanding(l, f) /\ replicate_entries(l, f, FALSE)
                             \/ HandleAppend(l, f) \/ HandleLateAppend(l, f)
                             \/ append_entries_callback(l, f)
                             \/ append_entries_noresponse(l, f)
  /\ UNCHANGED restarts

\* The same with elections.
ReplicationStep ==
  \/ StreamStep
  \/ /\ \/ \E s \in Server : ElectionTimeout(s) \/ PersistOwnVote(s)
        \/ \E m \in requests : pre_vote(m) \/ request_vote(m)
        \/ \E m \in responses : ObserveResponse(m) \/ request_vote_callback(m)
     /\ UNCHANGED restarts

ReplicationSpec == LedInit /\ [][ReplicationStep \/ DurableRestartStep]_vars
-----------------------------------------------------------------------------
\* Elections with heartbeats and leases that run out, under and after the leader First.
HeartbeatStep ==
  /\ \/ \E s \in Server : ElectionTimeout(s) \/ LeaseExpired(s) \/ PersistOwnVote(s)
     \/ \E l, f \in Server : send_heartbeats(l, f) \/ heartbeat_failed(l, f)
     \/ Receive
  /\ UNCHANGED restarts

\* First drains and hands its leadership over; no election timer expires.
HandoverStep ==
  /\ \/ drain(First)
     \/ draining[First] /\ LeaseExpired(First)
     \/ \E s \in Server : \/ Propose(s) \/ PersistOwnVote(s)
                          \/ \E k \in 1..Len(log[s]) : log_flushed(s, k)
     \/ \E l, f \in Server : \/ replicate_entries(l, f, TRUE)
                             \/ Outstanding(l, f) /\ replicate_entries(l, f, FALSE)
                             \/ HandleAppend(l, f)
                             \/ append_entries_callback(l, f)
                             \/ append_entries_noresponse(l, f)
     \/ Receive
  /\ UNCHANGED restarts

=============================================================================
