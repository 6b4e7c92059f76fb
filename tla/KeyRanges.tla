----------------------------- MODULE KeyRanges -----------------------------
(***************************************************************************)
(* Disjoint half-open ranges of keys with a value each                     *)
(* (pkg/datastore/src/meta/key_ranges.rs), as a set of records.            *)
(***************************************************************************)
EXTENDS Integers

KeyRange(first, after, value) == [start |-> first, end |-> after, value |-> value]

Meets(r, first, after) == r.end > first /\ r.start < after

Later(a, b) == IF a > b THEN a ELSE b
Earlier(a, b) == IF a < b THEN a ELSE b

\* What lies between the ranges of S inside [first, after).
Gaps(S, first, after) ==
  {g \in {KeyRange(a, b, 0) : a \in {first} \cup {r.end : r \in S},
                              b \in {after} \cup {r.start : r \in S}} :
     g.start < g.end /\ ~\E r \in S : Meets(r, g.start, g.end)}

\* KeyRanges::range visits the parts of [first, after): those of the ranges that are there
\* and the gaps, which get the default value.
Parts(ranges, first, after, default) ==
  LET met == {r \in ranges : Meets(r, first, after)} IN
  {KeyRange(Later(r.start, first), Earlier(r.end, after), r.value) : r \in met}
    \cup {[g EXCEPT !.value = default] : g \in Gaps(met, first, after)}

\* It leaves the others alone; a range that reaches beyond is split and keeps its value
\* there.
Outside(ranges, first, after) ==
  LET met == {r \in ranges : Meets(r, first, after)} IN
  (ranges \ met)
    \cup {KeyRange(r.start, first, r.value) : r \in {x \in met : x.start < first}}
    \cup {KeyRange(after, r.end, r.value) : r \in {x \in met : x.end > after}}

=============================================================================
