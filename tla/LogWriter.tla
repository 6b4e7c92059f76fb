----------------------------- MODULE LogWriter -----------------------------
(***************************************************************************)
(* The writer of append-only log files (pkg/sstable/src/log_writer.rs).    *)
(* One owner appends bytes and may wait for everything it wrote to be      *)
(* flushed; a background task syncs the file when enough complete blocks   *)
(* have gathered, when bytes have waited long enough, or when the owner    *)
(* asks; a subscriber waits for the flushed offset to advance.  All of     *)
(* them share the State behind one AsyncVariable; a sync runs unlocked.    *)
(*                                                                         *)
(* A time stamp is kept as its age, which stops growing at the timeout.    *)
(***************************************************************************)
EXTENDS Integers

CONSTANTS
  WriteAlignment,   \* write_alignment
  BytesThreshold,   \* flush_bytes_threshold
  FlushTimeout,     \* flush_timeout_threshold, in clock ticks
  FileLengths,      \* bound: the lengths the file may have when it is opened
  MaxFile           \* bound: no write makes the file longer than this

ASSUME LogWriterAssumption ==
  /\ WriteAlignment \in Nat \ {0} /\ BytesThreshold \in Nat
  /\ FlushTimeout \in Nat \ {0} /\ FileLengths \subseteq Nat /\ MaxFile \in Nat

VARIABLES
  offset, flushed_offset, force_offset,
  first_pending_byte_time, last_block_start_time,
  flush_error,   \* the background task failed to sync and has ended
  poisoned,      \* a write failed while it held the lock
  flusher,       \* the background task: pc, next_flush_offset, ticks until its timeout
  flushing,      \* target_offset of the flush() the owner waits in
  subscriber     \* last_flushed_offset, and whether it is in wait_for_flush

log_writer_vars ==
  <<offset, flushed_offset, force_offset, first_pending_byte_time, last_block_start_time,
    flush_error, poisoned, flusher, flushing, subscriber>>

None == -1

Blocks(n) == (n \div WriteAlignment) * WriteAlignment

\* create: whatever the file holds already counts as not flushed.
LogWriterInit ==
  /\ offset \in FileLengths
  /\ flushed_offset = 0 /\ force_offset = 0
  /\ first_pending_byte_time = None /\ last_block_start_time = None
  /\ flush_error = FALSE /\ poisoned = FALSE
  /\ flusher = [pc |-> "check", next |-> 0, timeout |-> None]
  /\ flushing = None
  /\ subscriber = [last_flushed_offset |-> 0, waiting |-> FALSE]

-----------------------------------------------------------------------------
\* Mutant: the background task is not woken.
Notified_never == flusher

\* notify_all() as the background task hears it.
Notified == IF flusher.pc = "wait" THEN [flusher EXCEPT !.pc = "check"] ELSE flusher

FirstPending == IF offset = flushed_offset THEN 0 ELSE first_pending_byte_time

LastBlock(n) ==
  IF offset \div WriteAlignment # n \div WriteAlignment \/ last_block_start_time = None
  THEN IF n % WriteAlignment = 0 THEN None ELSE 0
  ELSE last_block_start_time

\* write() of enough bytes to end at n.
LogWrite(n) ==
  /\ ~poisoned /\ flushing = None /\ offset < n
  /\ offset' = n
  /\ first_pending_byte_time' = FirstPending
  /\ last_block_start_time' = LastBlock(n)
  /\ flusher' = Notified
  /\ UNCHANGED <<flushed_offset, force_offset, flush_error, poisoned, flushing, subscriber>>

\* write() that fails or is cancelled inside write_at.
LogWriteFails ==
  /\ ~poisoned /\ flushing = None
  /\ poisoned' = TRUE
  /\ UNCHANGED <<offset, flushed_offset, force_offset, first_pending_byte_time,
                 last_block_start_time, flush_error, flusher, flushing, subscriber>>

\* flush() up to its loop.
LogFlush ==
  /\ ~poisoned /\ flushing = None
  /\ flushing' = offset /\ force_offset' = offset
  /\ flusher' = Notified
  /\ UNCHANGED <<offset, flushed_offset, first_pending_byte_time, last_block_start_time,
                 flush_error, poisoned, subscriber>>

\* flush() returns, with an error if the background task has failed.
LogFlushed ==
  /\ flushing # None /\ (flushed_offset >= flushing \/ flush_error)
  /\ flushing' = None
  /\ UNCHANGED <<offset, flushed_offset, force_offset, first_pending_byte_time,
                 last_block_start_time, flush_error, poisoned, flusher, subscriber>>

-----------------------------------------------------------------------------
Old(time) == time = FlushTimeout

Complete == Blocks(offset) > flushed_offset

\* Mutant: a flush is forced although everything is flushed.
NeedFlush_again ==
  Complete \/ Old(last_block_start_time) \/ force_offset >= flushed_offset

\* check_ready_to_flush: whether to flush, and up to where.
NeedFlush ==
  \/ Complete /\ \/ Blocks(offset) - Blocks(flushed_offset) > BytesThreshold
                 \/ Old(first_pending_byte_time)
  \/ Old(last_block_start_time)
  \/ force_offset > flushed_offset

FlushEnd ==
  IF Old(last_block_start_time) \/ Blocks(offset) < force_offset THEN offset ELSE Blocks(offset)

\* The ages of the times that check_ready_to_flush looks at; it asks to be woken at the
\* latest of them.
Watched ==
  {t \in {last_block_start_time} \cup (IF Complete THEN {first_pending_byte_time} ELSE {}) :
     t # None}

\* Mutant: the task does not ask to be woken.
NextFlushTime_never == None

NextFlushTime ==
  IF Watched = {} THEN None
  ELSE FlushTimeout - CHOOSE t \in Watched : \A u \in Watched : t <= u

Stop == [pc |-> "stopped", next |-> 0, timeout |-> None]

\* The loop of background_thread_fn up to the sync or the wait.
CheckReadyToFlush ==
  /\ flusher.pc = "check" \/ (flusher.pc = "wait" /\ flusher.timeout = 0)
  /\ \/ poisoned /\ flusher' = Stop /\ UNCHANGED last_block_start_time
     \/ /\ ~poisoned /\ ~NeedFlush
        /\ flusher' = [pc |-> "wait", next |-> 0, timeout |-> NextFlushTime]
        /\ UNCHANGED last_block_start_time
     \/ /\ ~poisoned /\ NeedFlush
        /\ flusher' = [pc |-> "sync", next |-> FlushEnd, timeout |-> None]
        /\ last_block_start_time' = IF FlushEnd = offset THEN None ELSE last_block_start_time
  /\ UNCHANGED <<offset, flushed_offset, force_offset, first_pending_byte_time, flush_error,
                 poisoned, flushing, subscriber>>

\* The sync returns and the task takes the lock again.
Synced(ok) ==
  /\ flusher.pc = "sync"
  /\ IF poisoned
     THEN flusher' = Stop /\ UNCHANGED <<flushed_offset, first_pending_byte_time, flush_error>>
     ELSE IF ok
     THEN /\ flushed_offset' = flusher.next
          /\ first_pending_byte_time' = last_block_start_time
          /\ flusher' = [pc |-> "check", next |-> 0, timeout |-> None]
          /\ UNCHANGED flush_error
     ELSE /\ flush_error' = TRUE /\ flusher' = Stop
          /\ UNCHANGED <<flushed_offset, first_pending_byte_time>>
  /\ UNCHANGED <<offset, force_offset, last_block_start_time, poisoned, flushing, subscriber>>

-----------------------------------------------------------------------------
\* wait_for_flush: called, and returning once there is news.
WaitForFlush ==
  /\ ~subscriber.waiting
  /\ subscriber' = [subscriber EXCEPT !.waiting = TRUE]
  /\ UNCHANGED <<offset, flushed_offset, force_offset, first_pending_byte_time,
                 last_block_start_time, flush_error, poisoned, flusher, flushing>>

\* Mutant: the failure of the background task is not looked at.
HearsFlush_success ==
  /\ subscriber.waiting /\ ~poisoned /\ flushed_offset > subscriber.last_flushed_offset
  /\ subscriber' = [last_flushed_offset |-> flushed_offset, waiting |-> FALSE]
  /\ UNCHANGED <<offset, flushed_offset, force_offset, first_pending_byte_time,
                 last_block_start_time, flush_error, poisoned, flusher, flushing>>

HearsFlush ==
  /\ subscriber.waiting /\ ~poisoned
  /\ flushed_offset > subscriber.last_flushed_offset \/ flush_error
  /\ subscriber' = [last_flushed_offset |-> flushed_offset, waiting |-> FALSE]
  /\ UNCHANGED <<offset, flushed_offset, force_offset, first_pending_byte_time,
                 last_block_start_time, flush_error, poisoned, flusher, flushing>>

\* A tick of the clock (external).
Older(time) == IF time \in {None, FlushTimeout} THEN time ELSE time + 1

ClockTick ==
  LET first == Older(first_pending_byte_time)
      last == Older(last_block_start_time)
      left == IF flusher.timeout > 0 THEN flusher.timeout - 1 ELSE flusher.timeout
  IN
  /\ <<first, last, left>> # <<first_pending_byte_time, last_block_start_time, flusher.timeout>>
  /\ first_pending_byte_time' = first
  /\ last_block_start_time' = last
  /\ flusher' = [flusher EXCEPT !.timeout = left]
  /\ UNCHANGED <<offset, flushed_offset, force_offset, flush_error, poisoned, flushing,
                 subscriber>>

LogWriterNext ==
  \/ \E n \in 1..MaxFile : LogWrite(n)
  \/ LogWriteFails \/ LogFlush \/ LogFlushed
  \/ CheckReadyToFlush \/ \E ok \in BOOLEAN : Synced(ok)
  \/ WaitForFlush \/ HearsFlush \/ ClockTick

LogWriterSpec == LogWriterInit /\ [][LogWriterNext]_log_writer_vars

-----------------------------------------------------------------------------
Time == {None} \cup 0..FlushTimeout

\* Every field of the State, of the background task and of its waiters has its type.
LogWriterTypeOK ==
  /\ offset \in Nat /\ flushed_offset \in Nat /\ force_offset \in Nat
  /\ first_pending_byte_time \in Time /\ last_block_start_time \in Time
  /\ flush_error \in BOOLEAN /\ poisoned \in BOOLEAN
  /\ flusher \in [pc : {"check", "wait", "sync", "stopped"}, next : Nat, timeout : Time]
  /\ flushing \in Nat \cup {None}
  /\ subscriber \in [last_flushed_offset : Nat, waiting : BOOLEAN]

\* assert!(next_flush_offset > flushed_offset) and assert!(time > now) in
\* background_thread_fn hold: a sync always covers bytes that were not flushed before and
\* that exist, and the task never waits for a moment that has passed.
FlushAdvances ==
  /\ flusher.pc = "sync" => flushed_offset < flusher.next /\ flusher.next <= offset
  /\ ~NeedFlush => \A t \in Watched : t < FlushTimeout

\* A flush() in progress is never forgotten by the background task: while its bytes are
\* not flushed the task is on its way to a sync, or has failed, which flush() reports.
FlushHeeded ==
  flushing > flushed_offset /\ ~poisoned =>
    flusher.pc \in {"check", "sync"} \/ flush_error

\* flush() returns.
FlushReturns == []<>(flushing = None)

\* A subscriber in wait_for_flush does not miss a flush that the owner asked for: it learns
\* that it happened or failed.
FlushHeard ==
  []<>(subscriber.waiting => force_offset <= subscriber.last_flushed_offset \/ poisoned)

\* A partially filled block at the end of what was written is flushed in the background once
\* the owner pauses, although nobody asks for it.
PartialBlockFlushed ==
  []<>(last_block_start_time = None \/ flushed_offset = offset \/ flush_error \/ poisoned)

=============================================================================
