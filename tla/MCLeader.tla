------------------------------ MODULE MCLeader ------------------------------
(***************************************************************************)
(* Who leads, and what a leader may answer: elections (Consensus) and      *)
(* reads (ReadIndex).  One of the two runs, and the other stays in an      *)
(* initial state.                                                          *)
(***************************************************************************)
EXTENDS MCConsensus, ReadIndex

CONSTANT Chief  \* the member that leads term 1 when LedReadInit begins

LedReadInit ==
  /\ terms = [m \in Member |-> 1]
  /\ leader = [m \in Member |-> IF m = Chief THEN NewLeader(1, 0) ELSE NotLeading]
  /\ entries = [m \in Member |-> <<>>] /\ commits = [m \in Member |-> 0]
  /\ now = [m \in Member |-> IF m = Chief THEN 1 ELSE 0]
  /\ beats = {} /\ read = NoRead

\* At most three heartbeats or answers are on their way.
FewBeats == Cardinality(beats') <= 3

Alike == Symmetry \cup Permutations(Member \ {Chief})

-----------------------------------------------------------------------------
VARIABLE scenario

leader_vars == <<vars, read_vars, scenario>>

LeaderInit ==
  /\ scenario \in {"elections", "reads"}
  /\ Init /\ LedReadInit

ElectionsRun ==
  scenario = "elections" /\ (ElectionStep \/ RestartStep) /\ UNCHANGED read_vars
ReadsRun == scenario = "reads" /\ ReadNext /\ FewBeats /\ UNCHANGED vars

LeaderNext == (ElectionsRun \/ ReadsRun) /\ UNCHANGED scenario

LeaderSpec == LeaderInit /\ [][LeaderNext]_leader_vars
=============================================================================
