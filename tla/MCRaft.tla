------------------------------- MODULE MCRaft -------------------------------
(***************************************************************************)
(* Instances of Consensus that explore two scenarios each, apart from one  *)
(* another and under the same constants.                                   *)
(***************************************************************************)
EXTENDS MCConsensus

VARIABLE scenario

\* What a leader sends: its heartbeats, with the timers of everyone, or the entries of its
\* log through streams that break.
SendingInit == LedInit /\ scenario \in {"timers", "streams"}
SendingNext ==
  \/ scenario = "timers" /\ HeartbeatStep /\ UNCHANGED scenario
  \/ scenario = "streams" /\ StreamStep /\ UNCHANGED scenario

SendingSpec == SendingInit /\ [][SendingNext]_<<vars, scenario>>

\* How another server becomes the leader: by an election, after which the old leader may
\* restart, or because the leader drains.
SucceedingInit == LedInit /\ scenario \in {"election", "handover"}
SucceedingNext ==
  \/ scenario = "election" /\ (ReplicationStep \/ DurableRestartStep) /\ UNCHANGED scenario
  \/ scenario = "handover" /\ HandoverStep /\ UNCHANGED scenario

SucceedingSpec == SucceedingInit /\ [][SucceedingNext]_<<vars, scenario>>
=============================================================================
