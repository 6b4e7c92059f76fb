------------------------------- MODULE KVStore -------------------------------
(***************************************************************************)
(* What the embedded database promises its callers: a map from keys to the *)
(* values last written.  A write takes effect at once for all its keys.    *)
(* A crash loses no write that returned when the database is durable, and  *)
(* otherwise returns to an earlier state: no write survives one before it. *)
(*                                                                         *)
(* Values are the sequence numbers of the writes; 0 is no value.           *)
(***************************************************************************)
EXTENDS Naturals

CONSTANT Key

VARIABLES
  kv,       \* what a read returns
  pending,  \* the write in progress: its keys and its sequence
  durable   \* whether writes survive a crash

vars == <<kv, pending, durable>>

None == [keys |-> {}, sequence |-> 0]

Init == kv = [k \in Key |-> 0] /\ pending = None /\ durable \in BOOLEAN

\* The map with the write in progress.
Written(map) == [k \in Key |-> IF k \in pending.keys THEN pending.sequence ELSE map[k]]

\* The map may become "new" when the last writes to "old" are lost.
LosesLast(old, new) ==
  \E n \in {0} \cup {new[k] : k \in Key} :
    \A k \in Key : IF old[k] <= n THEN new[k] = old[k] ELSE new[k] <= n

\* A later write has a larger sequence than everything there is.
Begin ==
  /\ pending = None
  /\ pending' \in [keys : SUBSET Key \ {{}}, sequence : Nat]
  /\ \A k \in Key : kv[k] < pending'.sequence
  /\ UNCHANGED <<kv, durable>>

Commit == pending # None /\ kv' = Written(kv) /\ pending' = None /\ UNCHANGED durable

\* A crash: the write in progress did or did not take effect, or the last writes are lost.
Crash ==
  /\ pending' = None
  /\ UNCHANGED durable
  /\ \E old \in {kv}, new \in {kv'} :
       IF durable THEN new = old \/ new = Written(old) ELSE LosesLast(old, new)

Next == Begin \/ Commit \/ Crash

Spec == Init /\ [][Next]_vars
=============================================================================
