----------------------------- MODULE MCProgress -----------------------------
(***************************************************************************)
(* What must happen in the end: a leader brings its followers up to date,  *)
(* the compaction thread of a database settles, the writer of a log file   *)
(* flushes it and the raft log reports what is flushed.  One of the four   *)
(* runs, and the others stay in an initial state.                          *)
(***************************************************************************)
EXTENDS MCConsensus, MCEmbeddedDB, LogWriter, SegmentedLog

VARIABLE scenario

progress_vars == <<vars, db_vars, log_writer_vars, segmented_vars, scenario>>

ProgressInit ==
  /\ scenario \in {"following", "compacting", "flushing", "logging"}
  /\ LedInit
  /\ DBInit /\ (scenario # "compacting" => opt = Reading)
  /\ LogWriterInit /\ (scenario # "flushing" => offset = 0)
  /\ SegmentedInit

\* Replication under the leader First, whose followers may restart.
FollowStep ==
  /\ \/ \E s \in Server : Propose(s) \/ \E k \in 1..Len(log[s]) : log_flushed(s, k)
     \/ \E l, f \in Server : \/ replicate_entries(l, f, FALSE)
                             \/ HandleAppend(l, f) \/ HandleLateAppend(l, f)
                             \/ append_entries_callback(l, f)
                             \/ append_entries_noresponse(l, f)
  /\ UNCHANGED restarts

FollowersRun ==
  /\ scenario = "following" /\ (FollowStep \/ DurableRestartStep)
  /\ UNCHANGED <<db_vars, log_writer_vars, segmented_vars>>
DatabaseRuns ==
  scenario = "compacting" /\ DBNext /\ UNCHANGED <<vars, log_writer_vars, segmented_vars>>
WriterRuns ==
  scenario = "flushing" /\ LogWriterNext /\ UNCHANGED <<vars, db_vars, segmented_vars>>
LogRuns ==
  scenario = "logging" /\ SegmentedNext /\ UNCHANGED <<vars, db_vars, log_writer_vars>>

ProgressNext ==
  (FollowersRun \/ DatabaseRuns \/ WriterRuns \/ LogRuns) /\ UNCHANGED scenario

-----------------------------------------------------------------------------
Following(A) == scenario = "following" /\ A /\ UNCHANGED restarts
Compacting(A) == scenario = "compacting" /\ A
Flushing(A) == scenario = "flushing" /\ A
Reporting(A) == scenario = "logging" /\ A

\* The log of a server is flushed in the background, the timers of the leader expire, the
\* streams deliver, and a request that is not answered in time is given up.
FollowFairness ==
  /\ \A s \in Server : WF_vars(Following(log_flushed(s, Len(log[s]))))
  /\ \A f \in Server :
       /\ WF_vars(Following(replicate_entries(First, f, FALSE)))
       /\ WF_vars(Following(HandleAppend(First, f)))
       /\ WF_vars(Following(append_entries_callback(First, f)))
       /\ WF_vars(Following(Failed(streams[First][f]) /\ append_entries_noresponse(First, f)))

\* The thread runs on while it has something to do, and a write that holds the lock ends.
DBFairness == WF_db_vars(Compacting(CompactionThread)) /\ WF_db_vars(Compacting(WriteEnd))

\* The background thread runs, a sync ends, whoever waits for a change hears of it, and time
\* passes.
LogWriterFairness ==
  /\ WF_log_writer_vars(Flushing(CheckReadyToFlush))
  /\ WF_log_writer_vars(Flushing(\E ok \in BOOLEAN : Synced(ok)))
  /\ WF_log_writer_vars(Flushing(LogFlushed)) /\ WF_log_writer_vars(Flushing(HearsFlush))
  /\ WF_log_writer_vars(Flushing(ClockTick))

\* The flusher of the log runs while it has something to do, and the writers sync.
SegmentedFairness ==
  /\ WF_segmented_vars(Reporting(Flusher))
  /\ WF_segmented_vars(Reporting(
       \E n \in DOMAIN record_files : \E k \in 1..(MaxIndex + 1) : sync(n, k)))

ProgressSpec ==
  /\ ProgressInit /\ [][ProgressNext]_progress_vars
  /\ FollowFairness /\ DBFairness /\ LogWriterFairness /\ SegmentedFairness

\* Whatever the leader has accepted is in the end in the log of every server, and
\* every server knows it to be committed (replicate_entries, append_entries and their
\* callbacks), once proposals pause (here they are bounded).
EventuallyReplicated ==
  []<>(\A s \in Server : commit_index[s] = Len(log[First]) /\ Len(log[s]) = Len(log[First]))

=============================================================================
