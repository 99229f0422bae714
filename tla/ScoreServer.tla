----------------------------- MODULE ScoreServer ----------------------------
(***************************************************************************)
(* The write path of the stand-alone leaderboard server                    *)
(* (docs/WS-leaderboard/leaderboard-server.js): a submitted score goes to  *)
(* the Redis ZSET at once and to a Map from which batches are written to   *)
(* the table; a job copies the top of the ZSET to the table every 30       *)
(* seconds.                                                                *)
(*                                                                         *)
(* One player is followed, on one server.  The others are there as what    *)
(* they do to him: their scores may fill a batch when his is queued, and   *)
(* may keep him from the top that is copied.  Zero stands for no entry.    *)
(***************************************************************************)
EXTENDS Naturals, FiniteSets

CONSTANTS
  Submission,      \* submitScore messages of the player
  ScoreBatch,      \* batches that may be in flight at once
  MaxPoints,       \* bound: scores that are submitted
  MaxServerFaults  \* bound: failing commands, and ends of the process

ASSUME ServerAssumption == MaxPoints \in Nat /\ MaxServerFaults \in Nat

VARIABLES
  score,      \* his score in leaderboard:scores
  latest,     \* history: the score recordScore queued last
  row,        \* his score in the table
  queued,     \* his score in UpdateQueue.queue
  queueTimer, \* UpdateQueue.timer is set
  submitted,  \* [Submission -> stage, points, the score it read, and the ZADDs
              \* that were out when its own was sent]
  batch,      \* [ScoreBatch -> stage and his score in it]
  sync,       \* the same of the snapshot the 30 s job writes; 0 when he is
              \* not in it
  server,     \* "up", "closing" or "down"
  mishaps,    \* what happened that may set table and ZSET apart
  serverFaults

scoreVars == <<score, latest, row, queued, queueTimer, submitted, batch, sync,
               server, mishaps, serverFaults>>

Points == 0..MaxPoints
Mishap == {"overlap", "refused", "overwritten", "crossed", "overtaken",
           "ended"}
SubmissionStage == {"new", "read", "adding", "set", "confirmed", "refused",
                    "lost"}
Unused == [stage |-> "free", points |-> 0]
Unsent == [stage |-> "new", points |-> 0, read |-> 0, behind |-> {}]

Larger(a, b) == IF a > b THEN a ELSE b
InStage(stage) == {s \in Submission : submitted[s].stage = stage}
Adding == InStage("adding")   \* their ZADDs are out
Writers == {b \in ScoreBatch : batch[b].stage = "writing"}

ScoreTypeOK ==
  /\ {score, latest, row, queued} \subseteq Points
  /\ queueTimer \in BOOLEAN /\ (queueTimer => queued > 0)
  /\ submitted \in [Submission ->
       [stage : SubmissionStage, points : Points, read : Points,
        behind : SUBSET Submission]]
  /\ batch \in [ScoreBatch ->
       [stage : {"free", "writing", "committed"}, points : Points]]
  /\ sync \in [stage : {"free", "writing"}, points : Points]
  /\ server \in {"up", "closing", "down"}
  /\ mishaps \subseteq Mishap
  /\ serverFaults \in 0..MaxServerFaults

ScoreInit ==
  /\ score = 0 /\ latest = 0 /\ row = 0 /\ queued = 0 /\ queueTimer = FALSE
  /\ submitted = [s \in Submission |-> Unsent]
  /\ batch = [b \in ScoreBatch |-> Unused] /\ sync = Unused
  /\ server = "up" /\ mishaps = {} /\ serverFaults = 0

Fault == serverFaults < MaxServerFaults /\ serverFaults' = serverFaults + 1
NoFault == UNCHANGED serverFaults

Note(reason, happens) ==
  mishaps' = IF happens THEN mishaps \cup {reason} ELSE mishaps

-----------------------------------------------------------------------------
(* UpdateQueue: a player has one entry, the last.                          *)

(* Mutant: the timer is not reset. *)
FlushToArmed(b, points, batches) ==
  /\ batches[b].stage = "free"
  /\ batch' = [batches EXCEPT ![b] = [stage |-> "writing", points |-> points]]
  /\ queued' = 0 /\ UNCHANGED queueTimer

(* flush: the entries go into a batch. *)
FlushTo(b, points, batches) ==
  /\ batches[b].stage = "free"
  /\ batch' = [batches EXCEPT ![b] = [stage |-> "writing", points |-> points]]
  /\ queued' = 0 /\ queueTimer' = FALSE

(* enqueue: it starts the timer, or it was the entry that filled a batch. *)
EnqueueScore(points, batches) ==
  \/ /\ queued' = points /\ queueTimer' = TRUE
     /\ batch' = batches
  \/ \E b \in ScoreBatch : FlushTo(b, points, batches)

-----------------------------------------------------------------------------
(* LeaderboardManager.recordScore, one action per await.                   *)

(* The handler has checked that points is a natural number; ZSCORE. *)
Submit(s, points) ==
  /\ server # "down"
  /\ submitted[s].stage = "new"
  /\ \/ /\ submitted' = [submitted EXCEPT ![s] =
             [Unsent EXCEPT !.stage = "read", !.points = points,
                            !.read = score]]
        /\ NoFault
     \/ /\ submitted' = [submitted EXCEPT ![s] =
             [Unsent EXCEPT !.stage = "refused", !.points = points]]
        /\ Fault
  /\ Note("overlap", InStage("read") \cup Adding # {})
  /\ UNCHANGED <<score, latest, row, queued, queueTimer, batch, sync, server>>

(* Mutant: the score that was submitted last counts. *)
NewScoreLast(s) == submitted[s].points

(* Math.max of what was read and what was submitted. *)
NewScore(s) == Larger(submitted[s].read, submitted[s].points)

(* The new score is queued, and ZADD is sent; the handler awaits it. *)
Record(s) ==
  /\ server # "down"
  /\ submitted[s].stage = "read"
  /\ EnqueueScore(NewScore(s), batch)
  /\ latest' = NewScore(s)
  /\ submitted' = [submitted EXCEPT ![s].stage = "adding",
                                    ![s].behind = Adding]
  /\ UNCHANGED <<score, row, sync, server, mishaps, serverFaults>>

(* Redis has run the ZADD, in the order in which the client sent them, or  *)
(* the command failed.                                                     *)
StoreScore(s) ==
  /\ server # "down"
  /\ submitted[s].stage = "adding"
  /\ submitted[s].behind \cap Adding = {}
  /\ \/ /\ score' = NewScore(s)
        /\ submitted' = [submitted EXCEPT ![s].stage = "set"]
        /\ NoFault /\ UNCHANGED mishaps
     \/ /\ UNCHANGED score
        /\ submitted' = [submitted EXCEPT ![s].stage = "refused"]
        /\ Fault /\ Note("refused", TRUE)
  /\ UNCHANGED <<latest, row, queued, queueTimer, batch, sync, server>>

(* invalidateRankCache, then the event and the answer; or it fails and the *)
(* answer is an error although the score stands.                           *)
Confirm(s) ==
  /\ server # "down"
  /\ submitted[s].stage = "set"
  /\ \/ /\ submitted' = [submitted EXCEPT ![s].stage = "confirmed"]
        /\ NoFault
     \/ /\ submitted' = [submitted EXCEPT ![s].stage = "refused"]
        /\ Fault
  /\ UNCHANGED <<score, latest, row, queued, queueTimer, batch, sync, server,
                 mishaps>>

-----------------------------------------------------------------------------
(* The batch interval is over. *)
FlushDue ==
  /\ server # "down"
  /\ queueTimer
  /\ \E b \in ScoreBatch : FlushTo(b, queued, batch)
  /\ UNCHANGED <<score, latest, row, submitted, sync, server, mishaps,
                 serverFaults>>

(* batchUpdateScores: COMMIT. *)
CommitBatch(b) ==
  /\ batch[b].stage = "writing"
  /\ row' = batch[b].points
  /\ batch' = [batch EXCEPT ![b].stage = "committed"]
  /\ Note("crossed", Writers # {b} \/ sync.points > 0)
  /\ UNCHANGED <<score, latest, queued, queueTimer, submitted, sync, server,
                 serverFaults>>

(* processBatch: the other servers are told. *)
PublishBatch(b) ==
  /\ batch[b].stage = "committed"
  /\ batch' = [batch EXCEPT ![b] = Unused]
  /\ UNCHANGED <<score, latest, row, queued, queueTimer, submitted, sync,
                 server, mishaps, serverFaults>>

(* Mutant: a batch that failed is dropped. *)
FailBatchDropped(b) ==
  /\ batch[b].stage \in {"writing", "committed"}
  /\ Fault
  /\ batch' = [batch EXCEPT ![b] = Unused]
  /\ UNCHANGED <<score, latest, row, queued, queueTimer, submitted, sync,
                 server, mishaps>>

(* The transaction, or the PUBLISH after it, failed: the scores of the     *)
(* batch are queued again, whatever was queued or written meanwhile.       *)
FailBatch(b) ==
  /\ batch[b].stage \in {"writing", "committed"}
  /\ Fault
  /\ EnqueueScore(batch[b].points, [batch EXCEPT ![b] = Unused])
  /\ Note("overwritten", batch[b].points # latest)
  /\ UNCHANGED <<score, latest, row, submitted, sync, server>>

-----------------------------------------------------------------------------
(* The 30 s job: ZREVRANGE; the first fifty go to batchUpdateScores.  The  *)
(* player may not be one of them.  His score may not be in the ZSET yet    *)
(* although its batch is in the table.                                     *)
SyncRead ==
  /\ server # "down"
  /\ sync.stage = "free"
  /\ \E points \in {0, score} :
       /\ sync' = [stage |-> "writing", points |-> points]
       /\ Note("overtaken", /\ points \notin {0, latest}
                            /\ queued = 0 /\ Writers = {})
  /\ UNCHANGED <<score, latest, row, queued, queueTimer, submitted, batch,
                 server, serverFaults>>

(* COMMIT, or the error that is only logged. *)
SyncWrite ==
  /\ sync.stage = "writing"
  /\ sync' = Unused
  /\ \/ /\ row' = IF sync.points = 0 THEN row ELSE sync.points
        /\ NoFault
     \/ UNCHANGED row /\ Fault
  /\ Note("crossed", sync.points > 0 /\ Writers # {})
  /\ UNCHANGED <<score, latest, queued, queueTimer, submitted, batch, server>>

-----------------------------------------------------------------------------
(* SIGTERM: leaderboard.close flushes the queue and awaits the batch. *)
Sigterm ==
  /\ server = "up"
  /\ Fault
  /\ server' = "closing"
  /\ IF queued = 0
       THEN UNCHANGED <<queued, queueTimer, batch>>
       ELSE \E b \in ScoreBatch : FlushTo(b, queued, batch)
  /\ UNCHANGED <<score, latest, row, submitted, sync, mishaps>>

(* What is still queued or in flight is gone: the process ended after      *)
(* close, or was killed.                                                   *)
EndServer ==
  /\ \/ server = "closing" /\ NoFault
     \/ server = "up" /\ Fault
  /\ server' = "down"
  /\ queued' = 0 /\ queueTimer' = FALSE
  /\ batch' = [b \in ScoreBatch |-> Unused] /\ sync' = Unused
  /\ submitted' = [s \in Submission |->
       IF submitted[s].stage \in {"read", "adding", "set"}
         THEN [submitted[s] EXCEPT !.stage = "lost"] ELSE submitted[s]]
  /\ Note("ended", queued > 0 \/ Writers # {} \/ Adding # {})
  /\ UNCHANGED <<score, latest, row>>

StartServer ==
  /\ server = "down"
  /\ server' = "up"
  /\ UNCHANGED <<score, latest, row, queued, queueTimer, submitted, batch,
                 sync, mishaps, serverFaults>>

ScoreNext ==
  \/ \E s \in Submission :
       \/ \E points \in 1..MaxPoints : Submit(s, points)
       \/ Record(s) \/ StoreScore(s) \/ Confirm(s)
  \/ \E b \in ScoreBatch : CommitBatch(b) \/ PublishBatch(b) \/ FailBatch(b)
  \/ FlushDue \/ SyncRead \/ SyncWrite
  \/ Sigterm \/ EndServer \/ StartServer

ScoreSpec == ScoreInit /\ [][ScoreNext]_scoreVars

(* The interval of the job fires as long as the process is there, its      *)
(* transaction ends, and a process that ended is started again.            *)
ScoreFairSpec ==
  /\ ScoreSpec
  /\ WF_scoreVars(SyncRead) /\ WF_scoreVars(SyncWrite)
  /\ WF_scoreVars(StartServer)

-----------------------------------------------------------------------------
(***************************************************************************)
(* ARCHITECTURE.md:98-107: only the highest score is kept.  Two            *)
(* submissions that overlap both compare with the score before them, and   *)
(* the lower may be written last (leaderboard-server.js:199-206).          *)
(***************************************************************************)
HighestIsKept ==
  \A s \in InStage("confirmed") : score >= submitted[s].points

(***************************************************************************)
(* A confirmed score is only ever replaced by a lower one when two         *)
(* submissions overlapped.  When nothing is queued or in flight, the table *)
(* has the score of the ZSET, unless a ZADD failed after its score was     *)
(* queued, a batch that failed was queued again over a newer score, two    *)
(* transactions were open at once (two batches, or a batch and the 30 s    *)
(* job), the job read the ZSET while the ZADD of a score was out whose     *)
(* batch was in the table already, or the process ended with scores queued *)
(* or ZADDs out (leaderboard-server.js:158-231, 437-456).                  *)
(***************************************************************************)
WritesAtRest ==
  /\ queued = 0 /\ sync = Unused /\ Adding = {}
  /\ \A b \in ScoreBatch : batch[b] = Unused

RowIsExplained ==
  /\ "overlap" \in mishaps \/ HighestIsKept
  /\ WritesAtRest /\ row # score => mishaps \ {"overlap"} # {}

(***************************************************************************)
(* ARCHITECTURE.md:127 and 183: the 30 s job reconciles any divergence, so *)
(* the table catches up eventually (leaderboard-server.js:437-456).        *)
(***************************************************************************)
DivergenceIsReconciled ==
  (WritesAtRest /\ row # score) ~> (row = score)
=============================================================================
