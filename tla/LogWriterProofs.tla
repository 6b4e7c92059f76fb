-------------------------- MODULE LogWriterProofs --------------------------
(* The assertions of the log writer hold, and no flush() is forgotten, for every        *)
(* alignment, threshold, timeout and file length.                                        *)
EXTENDS LogWriter, TLAPS

(* The inductive invariant.  last_block_start_time is what could drive a sync of nothing: *)
(* it is set only while bytes lie beyond the flushed offset, and beyond the end of the     *)
(* sync in progress, because the task clears it when it starts to sync up to the end of    *)
(* the file.                                                                               *)
Bounded ==
  /\ flushed_offset <= offset /\ force_offset <= offset /\ flushing <= force_offset
  /\ flusher.pc = "sync" => flushed_offset < flusher.next /\ flusher.next <= offset

PendingBlock ==
  last_block_start_time # None =>
    flushed_offset < offset /\ (flusher.pc = "sync" => flusher.next < offset)

StoppedForCause == flusher.pc = "stopped" => poisoned \/ flush_error

LogWriterInv ==
  LogWriterTypeOK /\ Bounded /\ PendingBlock /\ StoppedForCause /\ FlushHeeded

(* Rounding down to a block boundary does not exceed the offset. *)
LEMMA BlocksBelow == ASSUME NEW n \in Nat PROVE Blocks(n) \in Nat /\ Blocks(n) <= n
<1>1. n \div WriteAlignment \in Nat
  BY LogWriterAssumption
<1>2. n = WriteAlignment * (n \div WriteAlignment) + (n % WriteAlignment) /\ n % WriteAlignment \in Nat
  BY LogWriterAssumption
<1> QED BY <1>1, <1>2, LogWriterAssumption, SMT DEF Blocks

LEMMA OlderTime == ASSUME NEW t \in Time PROVE Older(t) \in Time /\ (Older(t) = None <=> t = None)
  BY LogWriterAssumption DEF Older, Time, None

LEMMA LogWriterInitInv == LogWriterInit => LogWriterInv
<1> SUFFICES ASSUME LogWriterInit PROVE LogWriterInv
  OBVIOUS
<1>1. offset \in Nat /\ None \in Time
  BY LogWriterAssumption DEF LogWriterInit, Time
<1>2. LogWriterTypeOK
  BY <1>1 DEF LogWriterInit, LogWriterTypeOK
<1>3. Bounded /\ PendingBlock /\ StoppedForCause
  BY <1>1 DEF LogWriterInit, Bounded, PendingBlock, StoppedForCause, None
<1>4. FlushHeeded
  BY DEF LogWriterInit, FlushHeeded, None
<1> QED BY <1>2, <1>3, <1>4 DEF LogWriterInv

(* The sync that check_ready_to_flush asks for covers new bytes, and only bytes that      *)
(* exist.                                                                                 *)
LEMMA SyncsNewBytes ==
  ASSUME LogWriterInv, NeedFlush
  PROVE  FlushEnd \in Nat /\ flushed_offset < FlushEnd /\ FlushEnd <= offset
<1>1. Blocks(offset) \in Nat /\ Blocks(offset) <= offset
  BY BlocksBelow DEF LogWriterInv, LogWriterTypeOK
<1>2. offset \in Nat /\ flushed_offset \in Nat /\ force_offset \in Nat /\ force_offset <= offset
  BY DEF LogWriterInv, LogWriterTypeOK, Bounded
<1>3. CASE Old(last_block_start_time)
  <2>1. flushed_offset < offset
    BY <1>3, LogWriterAssumption DEF LogWriterInv, PendingBlock, Old, None
  <2> QED BY <2>1, <1>2, <1>3 DEF FlushEnd
<1>4. CASE ~Old(last_block_start_time) /\ Blocks(offset) < force_offset
  <2>1. flushed_offset < offset
    BY <1>1, <1>2, <1>4 DEF NeedFlush, Complete
  <2> QED BY <2>1, <1>2, <1>4 DEF FlushEnd
<1>5. CASE ~Old(last_block_start_time) /\ ~(Blocks(offset) < force_offset)
  <2>1. flushed_offset < Blocks(offset)
    BY <1>1, <1>2, <1>5 DEF NeedFlush, Complete
  <2> QED BY <2>1, <1>1, <1>2, <1>5 DEF FlushEnd
<1> QED BY <1>3, <1>4, <1>5

(* The task waits for a time in the future: what it watches is not old yet.               *)
LEMMA WaitsForTheFuture ==
  ASSUME LogWriterTypeOK, ~NeedFlush
  PROVE  /\ \A t \in Watched : t \in 0..FlushTimeout /\ t < FlushTimeout
         /\ NextFlushTime \in Time
<1>1. \A t \in Watched : t \in 0..FlushTimeout /\ t < FlushTimeout
  <2> SUFFICES ASSUME NEW t \in Watched PROVE t \in 0..FlushTimeout /\ t < FlushTimeout
    OBVIOUS
  <2>1. CASE t = last_block_start_time
    BY <2>1, LogWriterAssumption DEF Watched, LogWriterTypeOK, Time, NeedFlush, Old, None
  <2>2. CASE Complete /\ t = first_pending_byte_time
    BY <2>2, LogWriterAssumption DEF Watched, LogWriterTypeOK, Time, NeedFlush, Old, None
  <2> QED BY <2>1, <2>2 DEF Watched
<1>2. CASE Watched = {}
  BY <1>1, <1>2 DEF NextFlushTime, Time
<1>3. CASE Watched # {}
  <2> DEFINE least == CHOOSE t \in Watched : \A u \in Watched : t <= u
  <2>1. \E t \in Watched : \A u \in Watched : t <= u
    <3>1. \A t \in Watched : t \in {last_block_start_time, first_pending_byte_time}
      BY DEF Watched
    <3> QED BY <1>1, <1>3, <3>1, LogWriterAssumption
  <2>2. least \in Watched
    BY <2>1
  <2>3. least \in 0..FlushTimeout
    BY <1>1, <2>2
  <2>4. NextFlushTime = FlushTimeout - least
    BY <1>3 DEF NextFlushTime
  <2> HIDE DEF least
  <2> QED BY <1>1, <2>3, <2>4, LogWriterAssumption DEF Time
<1> QED BY <1>1, <1>2, <1>3

(* What the steps need of the types. *)
LEMMA LogWriterTypes ==
  ASSUME LogWriterInv
  PROVE  /\ offset \in Nat /\ flushed_offset \in Nat /\ force_offset \in Nat
         /\ flushing \in Int /\ flusher.next \in Nat
         /\ flusher = [pc |-> flusher.pc, next |-> flusher.next, timeout |-> flusher.timeout]
  BY DEF LogWriterInv, LogWriterTypeOK, None

(* notify_all() does not disturb a sync. *)
LEMMA NotifiedKeeps ==
  ASSUME LogWriterInv
  PROVE  /\ Notified \in [pc : {"check", "wait", "sync", "stopped"}, next : Nat, timeout : Time]
         /\ Notified.pc = "sync" <=> flusher.pc = "sync"
         /\ Notified.pc = "stopped" <=> flusher.pc = "stopped"
         /\ Notified.pc # "wait"
         /\ Notified.next = flusher.next
  BY DEF LogWriterInv, LogWriterTypeOK, Notified

LEMMA LogWriterStepInv == LogWriterInv /\ [LogWriterNext]_log_writer_vars => LogWriterInv'
<1> SUFFICES ASSUME LogWriterInv, [LogWriterNext]_log_writer_vars PROVE LogWriterInv'
  OBVIOUS
<1> USE LogWriterTypes
<1>0. LogWriterTypeOK /\ Bounded /\ PendingBlock /\ StoppedForCause /\ FlushHeeded
  BY DEF LogWriterInv
<1>1. ASSUME NEW n \in 1..MaxFile, LogWrite(n) PROVE LogWriterInv'
  <2>1. n \in Nat /\ offset < n /\ offset' = n
    BY <1>1, LogWriterAssumption DEF LogWrite
  <2>2. first_pending_byte_time' \in Time /\ last_block_start_time' \in Time
    <3>1. 0 \in Time /\ None \in Time
      BY LogWriterAssumption DEF Time
    <3> QED BY <1>0, <1>1, <3>1 DEF LogWrite, FirstPending, LastBlock, LogWriterTypeOK
  <2>3. LogWriterTypeOK'
    BY <1>0, <1>1, <2>1, <2>2, NotifiedKeeps DEF LogWrite, LogWriterTypeOK
  <2>4. Bounded'
    BY <1>0, <1>1, <2>1, NotifiedKeeps DEF LogWrite, Bounded
  <2>5. PendingBlock'
    BY <1>0, <1>1, <2>1, NotifiedKeeps DEF LogWrite, Bounded, PendingBlock
  <2>6. StoppedForCause'
    BY <1>0, <1>1, NotifiedKeeps DEF LogWrite, StoppedForCause
  <2>7. FlushHeeded'
    BY <1>0, <1>1 DEF LogWrite, FlushHeeded, None
  <2> QED BY <2>3, <2>4, <2>5, <2>6, <2>7 DEF LogWriterInv
<1>2. CASE LogWriteFails
  BY <1>0, <1>2 DEF LogWriteFails, LogWriterInv, LogWriterTypeOK, Bounded, PendingBlock,
                    StoppedForCause, FlushHeeded
<1>3. CASE LogFlush
  <2>1. LogWriterTypeOK'
    BY <1>0, <1>3, NotifiedKeeps DEF LogFlush, LogWriterTypeOK
  <2>2. Bounded' /\ PendingBlock'
    BY <1>0, <1>3, NotifiedKeeps DEF LogFlush, Bounded, PendingBlock
  <2>3. StoppedForCause' /\ FlushHeeded'
    <3>1. Notified.pc \in {"check", "sync", "stopped"}
      BY NotifiedKeeps
    <3> QED BY <1>0, <1>3, <3>1, NotifiedKeeps DEF LogFlush, StoppedForCause, FlushHeeded
  <2> QED BY <2>1, <2>2, <2>3 DEF LogWriterInv
<1>4. CASE LogFlushed
  <2>1. flushing' = None /\ None \in Int /\ None < 0
    BY <1>4 DEF LogFlushed, None
  <2>2. LogWriterTypeOK' /\ PendingBlock' /\ StoppedForCause'
    BY <1>0, <1>4 DEF LogFlushed, LogWriterTypeOK, PendingBlock, StoppedForCause
  <2>3. Bounded' /\ FlushHeeded'
    BY <1>0, <1>4, <2>1 DEF LogFlushed, Bounded, FlushHeeded
  <2> QED BY <2>2, <2>3 DEF LogWriterInv
<1>5. CASE CheckReadyToFlush
  <2>0. UNCHANGED <<offset, flushed_offset, force_offset, first_pending_byte_time, flush_error,
                    poisoned, flushing, subscriber>>
    BY <1>5 DEF CheckReadyToFlush
  <2>1. CASE poisoned /\ flusher' = Stop /\ UNCHANGED last_block_start_time
    <3>1. flusher' \in [pc : {"check", "wait", "sync", "stopped"}, next : Nat, timeout : Time]
          /\ flusher'.pc = "stopped"
      BY <2>1 DEF Stop, Time
    <3> QED BY <1>0, <2>0, <2>1, <3>1
            DEF LogWriterInv, LogWriterTypeOK, Bounded, PendingBlock, StoppedForCause, FlushHeeded
  <2>2. CASE /\ ~poisoned /\ ~NeedFlush
             /\ flusher' = [pc |-> "wait", next |-> 0, timeout |-> NextFlushTime]
             /\ UNCHANGED last_block_start_time
    <3>1. LogWriterTypeOK'
      BY <1>0, <2>0, <2>2, WaitsForTheFuture DEF LogWriterTypeOK
    <3>2. flusher'.pc = "wait"
      BY <2>2
    <3>3. force_offset <= flushed_offset
      BY <2>2 DEF NeedFlush
    <3> QED BY <1>0, <2>0, <2>2, <3>1, <3>2, <3>3
            DEF LogWriterInv, Bounded, PendingBlock, StoppedForCause, FlushHeeded
  <2>3. CASE /\ ~poisoned /\ NeedFlush
             /\ flusher' = [pc |-> "sync", next |-> FlushEnd, timeout |-> None]
             /\ last_block_start_time' = IF FlushEnd = offset THEN None ELSE last_block_start_time
    <3>1. FlushEnd \in Nat /\ flushed_offset < FlushEnd /\ FlushEnd <= offset
      BY <2>3, SyncsNewBytes
    <3>2. flusher'.pc = "sync" /\ flusher'.next = FlushEnd
      BY <2>3
    <3>3. None \in Time
      BY DEF Time
    <3>4. LogWriterTypeOK'
      BY <1>0, <2>0, <2>3, <3>1, <3>3 DEF LogWriterTypeOK
    <3>5. Bounded' /\ StoppedForCause' /\ FlushHeeded'
      BY <1>0, <2>0, <3>1, <3>2 DEF Bounded, StoppedForCause, FlushHeeded
    <3>6. PendingBlock'
      BY <1>0, <2>0, <2>3, <3>1, <3>2 DEF PendingBlock
    <3> QED BY <3>4, <3>5, <3>6 DEF LogWriterInv
  <2> QED BY <1>5, <2>1, <2>2, <2>3 DEF CheckReadyToFlush
<1>6. ASSUME NEW ok \in BOOLEAN, Synced(ok) PROVE LogWriterInv'
  <2>0. /\ UNCHANGED <<offset, force_offset, last_block_start_time, poisoned, flushing, subscriber>>
        /\ flusher.pc = "sync"
    BY <1>6 DEF Synced
  <2>1. None \in Time
    BY DEF Time
  <2>2. flusher' \in [pc : {"check", "wait", "sync", "stopped"}, next : Nat, timeout : Time]
        /\ flusher'.pc \in {"check", "stopped"}
    BY <1>6, <2>1 DEF Synced, Stop
  <2>3. flushed_offset' \in {flushed_offset, flusher.next}
    BY <1>6 DEF Synced
  <2>4. first_pending_byte_time' \in Time
    BY <1>0, <1>6 DEF Synced, LogWriterTypeOK
  <2>5. flush_error' \in BOOLEAN
    BY <1>0, <1>6 DEF Synced, LogWriterTypeOK
  <2>6. LogWriterTypeOK'
    BY <1>0, <2>0, <2>2, <2>3, <2>4, <2>5 DEF LogWriterTypeOK
  <2>7. Bounded' /\ PendingBlock'
    BY <1>0, <2>0, <2>2, <2>3 DEF Bounded, PendingBlock
  <2>8. StoppedForCause' /\ FlushHeeded'
    BY <1>0, <1>6 DEF Synced, Stop, StoppedForCause, FlushHeeded
  <2> QED BY <2>6, <2>7, <2>8 DEF LogWriterInv
<1>7. CASE WaitForFlush \/ HearsFlush
  <2>1. subscriber' \in [last_flushed_offset : Nat, waiting : BOOLEAN]
    <3>1. subscriber \in [last_flushed_offset : Nat, waiting : BOOLEAN]
      BY <1>0 DEF LogWriterTypeOK
    <3>2. CASE subscriber' = [subscriber EXCEPT !.waiting = TRUE]
      BY <3>1, <3>2
    <3>3. CASE subscriber' = [last_flushed_offset |-> flushed_offset, waiting |-> FALSE]
      BY <3>3
    <3> QED BY <1>7, <3>2, <3>3 DEF WaitForFlush, HearsFlush
  <2>2. UNCHANGED <<offset, flushed_offset, force_offset, first_pending_byte_time,
                    last_block_start_time, flush_error, poisoned, flusher, flushing>>
    BY <1>7 DEF WaitForFlush, HearsFlush
  <2> QED BY <1>0, <2>1, <2>2
          DEF LogWriterInv, LogWriterTypeOK, Bounded, PendingBlock, StoppedForCause, FlushHeeded
<1>8. CASE ClockTick
  <2>0. UNCHANGED <<offset, flushed_offset, force_offset, flush_error, poisoned, flushing,
                    subscriber>>
    BY <1>8 DEF ClockTick
  <2>1. /\ first_pending_byte_time' \in Time /\ last_block_start_time' \in Time
        /\ last_block_start_time' = None <=> last_block_start_time = None
    BY <1>0, <1>8, OlderTime DEF ClockTick, LogWriterTypeOK
  <2>2. /\ flusher' \in [pc : {"check", "wait", "sync", "stopped"}, next : Nat, timeout : Time]
        /\ flusher'.pc = flusher.pc /\ flusher'.next = flusher.next
    <3> DEFINE left == IF flusher.timeout > 0 THEN flusher.timeout - 1 ELSE flusher.timeout
    <3>1. flusher.timeout \in Time
      BY <1>0 DEF LogWriterTypeOK
    <3>2. left \in Time
      BY <3>1, LogWriterAssumption DEF Time, None
    <3>3. flusher' = [flusher EXCEPT !.timeout = left]
      BY <1>8 DEF ClockTick
    <3> HIDE DEF left
    <3> QED BY <1>0, <3>2, <3>3 DEF LogWriterTypeOK
  <2>3. LogWriterTypeOK'
    BY <1>0, <2>0, <2>1, <2>2 DEF LogWriterTypeOK
  <2>4. Bounded' /\ PendingBlock' /\ StoppedForCause' /\ FlushHeeded'
    BY <1>0, <2>0, <2>1, <2>2 DEF Bounded, PendingBlock, StoppedForCause, FlushHeeded
  <2> QED BY <2>3, <2>4 DEF LogWriterInv
<1>9. CASE UNCHANGED log_writer_vars
  BY <1>0, <1>9 DEF log_writer_vars, LogWriterInv, LogWriterTypeOK, Bounded, PendingBlock,
                    StoppedForCause, FlushHeeded
<1> QED BY <1>1, <1>2, <1>3, <1>4, <1>5, <1>6, <1>7, <1>8, <1>9 DEF LogWriterNext

(* The two assertions of the background task hold in every execution, and a flush() that *)
(* waits for bytes is always being served: the task never goes to sleep on it.            *)
THEOREM FlusherCorrect == LogWriterSpec => [](FlushAdvances /\ FlushHeeded)
<1>1. LogWriterInv => FlushAdvances /\ FlushHeeded
  <2> SUFFICES ASSUME LogWriterInv PROVE FlushAdvances /\ FlushHeeded
    OBVIOUS
  <2>1. ~NeedFlush => \A t \in Watched : t < FlushTimeout
    BY WaitsForTheFuture DEF LogWriterInv
  <2> QED BY <2>1 DEF LogWriterInv, Bounded, FlushAdvances
<1> QED BY <1>1, LogWriterInitInv, LogWriterStepInv, PTL DEF LogWriterSpec

=============================================================================
