------------------------------- MODULE Tables -------------------------------
(***************************************************************************)
(* The entries, tables and levels of the embedded database (pkg/sstable)   *)
(* and the pure operations on them: the order of internal keys, the range  *)
(* of a table, the compaction filter, the choice of a level and of the     *)
(* tables to compact, and the lookup of a key.                             *)
(*                                                                         *)
(* An entry is an internal key.  Every write has a sequence number of its  *)
(* own, so the sequence stands for the value that was written.  A memtable *)
(* and the content of a table are sets of entries: their order is Before.  *)
(***************************************************************************)
EXTENDS Integers, FiniteSets

Entry == [key : Nat, sequence : Nat, typ : {"Value", "Deletion"}]

\* InternalKeyComparator::compare: by user key, and the newest sequence first.
Before(a, b) == a.key < b.key \/ (a.key = b.key /\ a.sequence > b.sequence)

Smallest(S) == CHOOSE e \in S : \A f \in S : ~Before(f, e)
Largest(S) == CHOOSE e \in S : \A f \in S : ~Before(e, f)

\* A range of keys has its smallest and its largest key; a table has both too.
Span(S) == [smallest |-> Smallest(S), largest |-> Largest(S)]

\* KeyRangeRef::overlaps_with
Overlaps(a, b) == ~Before(a.largest, b.smallest) /\ ~Before(b.largest, a.smallest)

\* Mutant: the waterline is ignored.
Filter_newest(S, remove_deleted, waterline) ==
  {e \in S : \A f \in S : f.key = e.key => f.sequence <= e.sequence}

\* The compaction filter: entries above the waterline stay, and of the others the newest
\* of each key, unless it is a deletion that hides nothing.
Filter(S, remove_deleted, waterline) ==
  {e \in S :
     \/ e.sequence > waterline
     \/ /\ \A f \in S : f.key = e.key /\ f.sequence > e.sequence => f.sequence > waterline
        /\ ~(remove_deleted /\ e.typ = "Deletion")}

\* The properties of a table that has these entries of the entries S of its sources.
Newest(S, e) == CHOOSE f \in S : f.key = e.key /\ \A g \in S : g.key = e.key => g.sequence <= f.sequence
StaleEntries(S, entries) == {e \in entries : Newest(S, e) # e}
ClearWaterline(S, entries) ==
  LET firsts == {0} \cup {Newest(S, e).sequence : e \in StaleEntries(S, entries)}
  IN  CHOOSE n \in firsts : \A m \in firsts : m <= n

\* build_tables_from_iterator: the filtered entries in order, cut when a table has "size"
\* of them, into files with the numbers from "first" on.
BuildTables(S, remove_deleted, waterline, size, level, first) ==
  LET kept == Filter(S, remove_deleted, waterline)
      Chunk(i) == {e \in kept : Cardinality({f \in kept : Before(f, e)}) \div size = i}
  IN  {[number |-> first + i, level |-> level, entries |-> Chunk(i),
        smallest |-> Smallest(Chunk(i)), largest |-> Largest(Chunk(i)),
        stale |-> Cardinality(StaleEntries(S, Chunk(i))),
        clear |-> ClearWaterline(S, Chunk(i))] :
         i \in 0 .. ((Cardinality(kept) + size - 1) \div size) - 1}

-----------------------------------------------------------------------------
(* Versions: a set of tables, and the number of levels that exist.         *)

AtLevel(tables, l) == {t \in tables : t.level = l}
Content(tables) == UNION {t.entries : t \in tables}

\* find_overlapping_tables
OverlapAt(tables, first, range) ==
  \E t \in tables : t.level >= first /\ Overlaps(t, range)


\* pick_memtable_level: just above the first level that overlaps, and at most "highest".
PickMemtableLevel(tables, highest, range) ==
  LET touched == {t.level : t \in {u \in tables : Overlaps(u, range)}}
      first == CHOOSE l \in touched : \A m \in touched : l <= m
      above == IF first = 0 THEN 0 ELSE first - 1
  IN  IF touched = {} THEN [level |-> highest, found_overlap |-> FALSE]
      ELSE [level |-> IF above < highest THEN above ELSE highest, found_overlap |-> TRUE]

\* select_tables_to_compaction: all of level 0, with the run of tables of level 1 from the
\* first that overlaps to the last.  No other level is ever over its size, because
\* Level::total_size stays 0.
SelectLevel0(tables) ==
  LET level0 == AtLevel(tables, 0)
      range == Span(Content(level0))
      touched == {t \in AtLevel(tables, 1) : Overlaps(t, range)}
      between == {t \in AtLevel(tables, 1) : \E a, b \in touched :
                    ~Before(t.smallest, a.smallest) /\ ~Before(b.smallest, t.smallest)}
  IN  [tables |-> level0 \cup between,
       found_overlap |-> OverlapAt(tables, 2, range)]

\* select_stale_table_to_compact: the last table, in the order of the levels and of the
\* keys, with enough stale entries that the waterline has all passed.
StaleTables(tables, waterline, percent) ==
  {t \in tables : /\ t.level >= 1 /\ waterline >= t.clear
                  /\ 100 * t.stale >= percent * Cardinality(t.entries)}
SelectStale(tables, waterline, percent) ==
  LET found == StaleTables(tables, waterline, percent)
      last == CHOOSE t \in found : \A u \in found :
                u.level < t.level \/ (u.level = t.level /\ ~Before(t.smallest, u.smallest))
  IN  [tables |-> {last}, found_overlap |-> OverlapAt(tables, last.level + 1, last)]

-----------------------------------------------------------------------------
(* Reads.                                                                  *)

\* The entries at or after the position of key k at sequence n (before_with_sequence).
From(S, k, n) == {e \in S : e.key > k \/ (e.key = k /\ e.sequence <= n)}

\* LevelIterator::seek: the first table that does not end before the position.
SeekLevel(tables, k, n) ==
  LET ends == {t \in tables : From({t.largest}, k, n) # {}}
      first == CHOOSE t \in ends : \A u \in ends : ~Before(u.smallest, t.smallest)
  IN  IF ends = {} THEN {} ELSE From(first.entries, k, n)

\* Snapshot::entry at sequence n: the merged iterators stand at the smallest of what the
\* memtables, the tables of level 0 and each other level offer.  0 when there is no value.
Lookup(memtables, tables, k, n) ==
  LET offered == From(memtables \cup Content(AtLevel(tables, 0)), k, n)
                 \cup UNION {SeekLevel(AtLevel(tables, l), k, n) : l \in {t.level : t \in tables} \ {0}}
      found == Smallest(offered)
  IN  IF offered # {} /\ found.key = k /\ found.typ = "Value" THEN found.sequence ELSE 0

\* What a read of key k at sequence n is meant to find in everything that was written.
LatestAt(S, k, n) ==
  LET versions == {e \in S : e.key = k /\ e.sequence <= n}
      last == CHOOSE e \in versions : \A f \in versions : f.sequence <= e.sequence
  IN  IF versions # {} /\ last.typ = "Value" THEN last.sequence ELSE 0

=============================================================================
