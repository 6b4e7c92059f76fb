------------------------------ MODULE MCServer ------------------------------
(***************************************************************************)
(* What one server keeps and executes: its raft log and metadata           *)
(* (Recovery), the file that holds the metadata (BlobFile), the database   *)
(* of its state machine (EmbeddedDB) and the transactions of its clients   *)
(* (Metastore).  One of the four runs, and the others stay in an initial   *)
(* state.                                                                  *)
(***************************************************************************)
EXTENDS Recovery, MCEmbeddedDB, MCMetastore, BlobFile

\* Two values that fit in a sector and two that do not.
MCSizes == ("a" :> 1) @@ ("b" :> 2) @@ ("c" :> 3) @@ ("d" :> 4)

VARIABLE scenario

server_vars == <<vars, db_vars, store_vars, blob_vars, scenario>>

ServerInit ==
  /\ scenario \in {"recovery", "storing", "database", "transactions"}
  /\ Init /\ MetaInit /\ BlobInit /\ DBInit /\ (scenario # "database" => opt = Logging)

RecoveryRuns ==
  scenario = "recovery" /\ LogStep /\ UNCHANGED <<db_vars, store_vars, blob_vars>>
StoringRuns ==
  scenario = "storing" /\ BlobNext /\ UNCHANGED <<vars, db_vars, store_vars>>
DatabaseRuns ==
  scenario = "database" /\ DBNext /\ Scenario /\ UNCHANGED <<vars, store_vars, blob_vars>>
TransactionsRun ==
  scenario = "transactions" /\ MetaNext /\ UNCHANGED <<vars, db_vars, blob_vars>>

ServerNext ==
  (RecoveryRuns \/ StoringRuns \/ DatabaseRuns \/ TransactionsRun) /\ UNCHANGED scenario

ServerSpec == ServerInit /\ [][ServerNext]_server_vars
=============================================================================
