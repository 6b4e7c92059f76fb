---------------------------- MODULE SegmentedLog ----------------------------
(***************************************************************************)
(* The raft log on disk (pkg/raft/src/log/segmented_log.rs): a chain of    *)
(* numbered record files, a copy of the entries in memory                  *)
(* (log/memory_log.rs), and the flusher task that notices what has been    *)
(* synced, begins new files and deletes discarded ones.  The owner, the    *)
(* flusher and the writers of the files (LogWriter) interleave; the        *)
(* machine may stop at any moment.                                         *)
(*                                                                         *)
(* Entries are appended at the end only, which is all that append_entries  *)
(* of the consensus module ever does, so an entry is its index, and a      *)
(* sequence number is the index of the entry it was given to.  The size of *)
(* a file is the number of its entries.                                    *)
(***************************************************************************)
EXTENDS Integers, FiniteSets, SequencesExt

CONSTANTS
  TargetSegment, MaxSegment,  \* target_segment_size, max_segment_size
  Ordered,      \* whether a stop keeps a write only if it keeps all the earlier ones
  MaxIndex,     \* bound: the last index
  DiscardedTo,  \* bound: the positions that the log is discarded up to
  MaxReopens    \* bound: stops of the machine

ASSUME SegmentedLogAssumption ==
  TargetSegment \in Nat /\ MaxSegment \in Nat /\ TargetSegment <= MaxSegment

VARIABLES
  memory_log,     \* MemoryLogSync: prev and the last index
  segments, last_position,
  last_reported,  \* last_flushed
  flusher_task,   \* the flusher: pc, new_log_number, logs_to_discard, and the synced
                  \* records it has seen of the file it waits for
  failure,        \* "", "flush_error", or "poisoned" when a holder of the lock failed
  record_files,   \* the files: header, entries, how many records are synced
  reopens         \* history: the number of stops

segmented_vars == <<memory_log, segments, last_position, last_reported,
                    flusher_task, failure, record_files, reopens>>

NoHeader == -1
Absent == -1

\* A file just created, and one whose header says that prev comes before its entries.
EmptyFile == [prev |-> NoHeader, entries |-> <<>>, synced |-> 0, removed |-> FALSE]
NewFile(prev) == [EmptyFile EXCEPT !.prev = prev]

Records(f) == IF f.prev = NoHeader THEN 0 ELSE 1 + Len(f.entries)
Exists(n) == n \in DOMAIN record_files /\ ~record_files[n].removed
WithFile(n, f) == [m \in DOMAIN record_files \cup {n} |-> IF m = n THEN f ELSE record_files[m]]

\* A segment holds the indexes from first up to, and not including, end.
NewSegment(n) == [number |-> n, first |-> 0, end |-> 0, open |-> TRUE,
                  entry_end_offsets |-> {}, discarded |-> FALSE]
Empty(s) == s.first = s.end
Discarded(s) == [s EXCEPT !.first = 0, !.end = 0, !.discarded = TRUE]
Extended(s, i) == [s EXCEPT !.first = IF Empty(s) THEN i ELSE @, !.end = i + 1,
                            !.discarded = FALSE]

\* MemoryLogSync::discard
discard_memory(m, pos) ==
  IF pos <= m.prev THEN m ELSE [prev |-> pos, last |-> IF pos > m.last THEN pos ELSE m.last]

\* notify_all() as the flusher hears it.
Woken == IF flusher_task.pc = "wait" THEN [flusher_task EXCEPT !.pc = "check"] ELSE flusher_task

-----------------------------------------------------------------------------
(* The owner *)

\* append, once the last segment has room.
append ==
  LET i == memory_log.last + 1
      last == Last(segments)
      n == last.number
  IN
  /\ failure # "poisoned" /\ i <= MaxIndex
  /\ Empty(last) \/ Len(record_files[n].entries) < MaxSegment
  /\ memory_log' = [memory_log EXCEPT !.last = i]
  /\ segments' = Append(Front(segments),
                        [Extended(last, i) EXCEPT !.entry_end_offsets = @ \cup {i}])
  /\ last_position' = i
  /\ record_files' = [record_files EXCEPT ![n].entries = Append(@, i)]
  /\ flusher_task' = Woken
  /\ UNCHANGED <<last_reported, failure, reopens>>

\* discard: the segments that hold an entry after pos, or are ready for it.
Needed(pos) ==
  {k \in DOMAIN segments :
     IF Empty(segments[k]) THEN k = Len(segments) /\ last_position = pos
     ELSE pos + 1 < segments[k].end}

\* One more file with entries is kept.
FirstToKeep(pos) ==
  LET k == Min(Needed(pos))
      earlier == {j \in 1..(k - 1) : ~Empty(segments[j])}
  IN IF earlier = {} THEN k ELSE Max(earlier)

\* Mutant: one file too many goes.
DiscardBefore_inclusive(k) ==
  [j \in DOMAIN segments |-> IF j <= k THEN Discarded(segments[j]) ELSE segments[j]]

DiscardBefore(k) ==
  [j \in DOMAIN segments |-> IF j < k THEN Discarded(segments[j]) ELSE segments[j]]

DiscardWithin(pos) ==
  LET k == FirstToKeep(pos)
      prev == IF Empty(segments[k]) THEN last_position ELSE segments[k].first - 1
  IN
  /\ Needed(pos) # {}
  /\ IF memory_log.prev <= prev /\ prev <= memory_log.last
     THEN /\ memory_log' = discard_memory(memory_log, prev)
          /\ segments' = DiscardBefore(k)
          /\ flusher_task' = Woken
          /\ UNCHANGED failure
     ELSE failure' = "poisoned" /\ UNCHANGED <<memory_log, segments, flusher_task>>
  /\ UNCHANGED <<last_position, record_files>>

\* A new file begins after pos; this fails if the flusher has just created it.
DiscardAll(pos) ==
  LET n == Last(segments).number + 1 IN
  /\ Needed(pos) = {}
  /\ IF Exists(n)
     THEN /\ failure' = "poisoned"
          /\ UNCHANGED <<memory_log, segments, last_position, record_files, flusher_task>>
     ELSE /\ record_files' = WithFile(n, NewFile(pos))
          /\ memory_log' = discard_memory(memory_log, pos)
          /\ last_position' = pos
          /\ segments' = Append([j \in DOMAIN segments |-> Discarded(segments[j])],
                                NewSegment(n))
          /\ flusher_task' = Woken
          /\ UNCHANGED failure

\* The callers name positions that the log knows or that a snapshot has brought
\* (run_apply_discard, run_apply_snapshot).
discard(pos) ==
  /\ failure # "poisoned" /\ memory_log.prev <= pos
  /\ DiscardWithin(pos) \/ DiscardAll(pos)
  /\ UNCHANGED <<last_reported, reopens>>

-----------------------------------------------------------------------------
(* flusher_thread *)

\* The writer of a file syncs its first k records (LogWriter).
sync(n, k) ==
  /\ \E s \in Range(segments) : s.number = n /\ s.open
  /\ record_files[n].synced < k /\ k <= Records(record_files[n])
  /\ record_files' = [record_files EXCEPT ![n].synced = k]
  /\ UNCHANGED <<memory_log, segments, last_position, last_reported, flusher_task,
                 failure, reopens>>


\* The entries of s that are not yet synced; the header is a record too.
Unsynced(s) ==
  LET f == record_files[s.number] IN
  s.entry_end_offsets \ {f.entries[j] : j \in 1..(f.synced - 1)}

\* Whether the flusher waits for a segment of live before the k-th.
Pending(live, k) == \E j \in 1..(k - 1) : live[j].open /\ Unsynced(live[j]) # {}

\* The entries of the k-th segment that turn out to be flushed.
Flushed(live, k) ==
  IF live[k].open /\ ~Pending(live, k) THEN live[k].entry_end_offsets \ Unsynced(live[k])
  ELSE {}


\* The flusher waits for the last segment, from its beginning if an earlier one is pending.
Subscribed(live) ==
  IF Pending(live, Len(live)) THEN 0 ELSE record_files[Last(live).number].synced

Examined(live) ==
  [k \in DOMAIN live |->
     LET rest == live[k].entry_end_offsets \ Flushed(live, k) IN
     [live[k] EXCEPT !.entry_end_offsets = rest,
                     !.open = @ /\ (k = Len(live) \/ rest # {})]]

FlusherChecks ==
  LET live == SelectSeq(segments, LAMBDA s : ~s.discarded)
      gone == {s.number : s \in {t \in Range(segments) : t.discarded}}
      n == Last(live).number
      full == ~Empty(Last(live)) /\ Len(record_files[n].entries) >= TargetSegment
  IN
  /\ failure # "poisoned"
  /\ \/ flusher_task.pc = "check"
     \/ flusher_task.pc = "wait" /\ record_files[n].synced > flusher_task.seen
  /\ segments' = Examined(live)
  /\ last_reported' = Max({last_reported} \cup UNION {Flushed(live, k) : k \in DOMAIN live})
  /\ flusher_task' =
       [pc |-> IF full THEN "create" ELSE IF gone # {} THEN "remove" ELSE "wait",
        number |-> IF full THEN n + 1 ELSE 0, discards |-> gone, seen |-> Subscribed(live)]
  /\ UNCHANGED <<memory_log, last_position, failure, record_files, reopens>>

\* The new file is created while the log is not locked.
CreateFile ==
  /\ flusher_task.pc = "create"
  /\ IF Exists(flusher_task.number)
     THEN /\ failure' = IF failure = "" THEN "flush_error" ELSE failure
          /\ flusher_task' = [flusher_task EXCEPT !.pc = "stopped"]
          /\ UNCHANGED record_files
     ELSE /\ record_files' = WithFile(flusher_task.number, EmptyFile)
          /\ flusher_task' = [flusher_task EXCEPT !.pc = "begin"]
          /\ UNCHANGED failure
  /\ UNCHANGED <<memory_log, segments, last_position, last_reported, reopens>>

\* The header is written under the lock, after the last entry of that moment.
BeginSegment ==
  /\ flusher_task.pc = "begin" /\ failure # "poisoned"
  /\ record_files' = [record_files EXCEPT ![flusher_task.number] = NewFile(last_position)]
  /\ segments' = Append(segments, NewSegment(flusher_task.number))
  /\ flusher_task' = [flusher_task EXCEPT !.pc = "remove"]
  /\ UNCHANGED <<memory_log, last_position, last_reported, failure, reopens>>

\* The discarded files are removed one by one; no removal is synced.
RemoveFile ==
  LET n == Min(flusher_task.discards) IN
  /\ flusher_task.pc = "remove"
  /\ IF flusher_task.discards = {}
     THEN flusher_task' = [flusher_task EXCEPT !.pc = "check"] /\ UNCHANGED record_files
     ELSE /\ record_files' = [record_files EXCEPT ![n].removed = TRUE]
          /\ flusher_task' = [flusher_task EXCEPT !.discards = @ \ {n}]
  /\ UNCHANGED <<memory_log, segments, last_position, last_reported, failure, reopens>>

Flusher == FlusherChecks \/ CreateFile \/ BeginSegment \/ RemoveFile

-----------------------------------------------------------------------------
(* Stopping and opening *)

FileNumbers ==
  SelectSeq([n \in 1..Max(DOMAIN record_files) |-> n], LAMBDA n : n \in DOMAIN record_files)

\* How many records of each file a stop leaves: all that were synced; a file that was
\* removed may be there again.
Left(n) ==
  LET f == record_files[n] IN
  (f.synced)..Records(f) \cup (IF f.removed THEN {Absent} ELSE {})

\* A file system that keeps a write only if it keeps the earlier ones (external).
InOrder(d) ==
  \A m, n \in DOMAIN record_files :
    m < n /\ ~record_files[m].removed /\ d[n] > 0 => d[m] = Records(record_files[m])

StopLeaves ==
  LET extend(ds, n) == {d @@ (n :> k) : d \in ds, k \in Left(n)} IN
  {d \in FoldLeft(extend, {<<>>}, FileNumbers) : Ordered => InOrder(d)}

\* open reads one file: the header, which says what the log was discarded up to if this is
\* not where the files before it end, and the entries.  An entry that is not the next one
\* would make it panic or truncate the log.
ReadFile(st, n, entries) ==
  LET start == IF st.last_position = record_files[n].prev THEN st
               ELSE [st EXCEPT !.memory = discard_memory(@, record_files[n].prev),
                               !.last_position = record_files[n].prev,
                               !.segments = [k \in DOMAIN @ |-> Discarded(@[k])]]
      opened == [start EXCEPT !.segments = Append(@, [NewSegment(n) EXCEPT !.open = FALSE])]
      entry(s, i) ==
        [memory |-> [s.memory EXCEPT !.last = i], last_position |-> i, flushed |-> i,
         segments |-> Append(Front(s.segments), Extended(Last(s.segments), i)),
         ok |-> s.ok /\ i = s.memory.last + 1]
  IN FoldLeft(entry, opened, entries)

NothingRead ==
  [memory |-> [prev |-> 0, last |-> 0], last_position |-> 0, flushed |-> 0,
   segments |-> <<>>, ok |-> TRUE]

\* open, with what a stop has left.
Opened(d) ==
  FoldLeft(LAMBDA st, n : IF d[n] <= 0 THEN st
                          ELSE ReadFile(st, n, SubSeq(record_files[n].entries, 1, d[n] - 1)),
           NothingRead, FileNumbers)

OpenedFiles(d) ==
  [n \in {m \in DOMAIN record_files : d[m] > 0} |->
     [record_files[n] EXCEPT !.entries = SubSeq(@, 1, d[n] - 1), !.synced = d[n],
                             !.removed = FALSE]]

\* The flusher is spawned.
Thread == [pc |-> "check", number |-> 0, discards |-> {}, seen |-> 0]

\* The machine stops and the log is opened again.  What open reads it has synced; a file
\* without a header is removed.
reopen(d) ==
  LET o == Opened(d) IN
  /\ reopens < MaxReopens /\ reopens' = reopens + 1 /\ o.ok
  /\ memory_log' = o.memory /\ last_position' = o.last_position
  /\ last_reported' = o.flushed
  /\ flusher_task' = Thread /\ failure' = ""
  /\ IF o.segments = <<>>
     THEN segments' = <<NewSegment(1)>> /\ record_files' = (1 :> NewFile(0))
     ELSE /\ segments' = Append(Front(o.segments), [Last(o.segments) EXCEPT !.open = TRUE])
          /\ record_files' = OpenedFiles(d)

-----------------------------------------------------------------------------
SegmentedInit ==
  /\ memory_log = [prev |-> 0, last |-> 0] /\ last_position = 0
  /\ segments = <<NewSegment(1)>> /\ record_files = (1 :> NewFile(0))
  /\ last_reported = 0
  /\ flusher_task = Thread /\ failure = "" /\ reopens = 0

SegmentedNext ==
  \/ append \/ \E pos \in DiscardedTo : discard(pos)
  \/ Flusher
  \/ \E n \in DOMAIN record_files : \E k \in 1..(MaxIndex + 1) : sync(n, k)
  \/ \E d \in StopLeaves : reopen(d)

SegmentedSpec == SegmentedInit /\ [][SegmentedNext]_segmented_vars

-----------------------------------------------------------------------------

\* Every entry in memory is in exactly one segment, whose file is there and holds it: no
\* discard, no new file and no opening loses track of one ("Range of log indexes in the
\* current log that are backed by this segment").
SegmentsBackLog ==
  \A i \in (memory_log.prev + 1)..memory_log.last :
    LET holders == {s \in Range(segments) : s.first <= i /\ i < s.end} IN
    /\ Cardinality(holders) = 1
    /\ \A s \in holders :
         Exists(s.number) /\ i \in Range(record_files[s.number].entries) /\ ~s.discarded


=============================================================================
