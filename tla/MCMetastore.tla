----------------------------- MODULE MCMetastore -----------------------------
(***************************************************************************)
(* An instance of Metastore.                                               *)
(***************************************************************************)
EXTENDS Metastore

\* A scan and an increment of a key inside it.
Scan == [id |-> 1, reads |-> {<<0, 3>>}, writes |-> {1}]
Increment == [id |-> 2, reads |-> {<<1, 2>>}, writes |-> {1}]
MCTransactions == {Scan, Increment}
=============================================================================
