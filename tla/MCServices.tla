----------------------------- MODULE MCServices -----------------------------
(***************************************************************************)
(* Eleven parts of the system that keep their state to themselves, checked *)
(* one at a time: in a behaviour one of them runs and the others do not    *)
(* move.  What one says to another (an event handed to the publisher, a    *)
(* job on the mail queue, a delta on the channel, a change of the corpus)  *)
(* is an action of the part that says it and an input of the other.        *)
(***************************************************************************)
EXTENDS MongoWatcher, PgPoller, EmailWorker, LeaderboardFanout, FeatureFlags,
        HybridSearch, ScoreServer, ScoreReads, ScoreClient, Backup,
        WorkerHealth, TLC

CONSTANTS h1, h2, h3

VARIABLE service

apiVars == <<fanoutVars, flagVars, searchVars>>
workerVars == <<watcherVars, pollerVars, mailVars, healthVars>>
toolVars == <<scoreVars, readsVars, clientVars, backupVars>>
servicesVars == <<service, apiVars, workerVars, toolVars>>

Service == {"watcher", "poller", "mail", "health", "fanout", "flags",
            "search", "scores", "reads", "client", "backup"}

ServicesInit ==
  /\ service \in Service
  /\ WatcherInit /\ PollerInit /\ EmailInit /\ HealthInit
  /\ FanoutInit /\ FlagInit /\ SearchInit
  /\ ScoreInit /\ ReadsInit /\ ClientInit /\ BackupInit
  /\ service # "health" => kind = "queue"
  /\ service # "mail" => tries = [m \in Message |-> 0]
  /\ service # "search" => corpora = <<{}>>
  /\ service # "backup" => once /\ s3Enabled

(* The workers *)
Working ==
  /\ \/ /\ service = "watcher" /\ WatcherNext
        /\ UNCHANGED <<pollerVars, mailVars, healthVars>>
     \/ /\ service = "poller" /\ PollerNext
        /\ UNCHANGED <<watcherVars, mailVars, healthVars>>
     \/ /\ service = "mail" /\ EmailNext
        /\ UNCHANGED <<watcherVars, pollerVars, healthVars>>
     \/ /\ service = "health" /\ HealthNext
        /\ UNCHANGED <<watcherVars, pollerVars, mailVars>>
  /\ UNCHANGED <<service, apiVars, toolVars>>

(* The parts of the API *)
Fanning(action) ==
  /\ service = "fanout" /\ action
  /\ UNCHANGED <<service, flagVars, searchVars, workerVars, toolVars>>

Answering ==
  /\ \/ service = "flags" /\ FlagNext /\ UNCHANGED searchVars
     \/ service = "search" /\ SearchNext /\ UNCHANGED flagVars
  /\ UNCHANGED <<service, fanoutVars, workerVars, toolVars>>

(* The stand-alone leaderboard and the backup script *)
Standing ==
  /\ \/ /\ service = "scores" /\ ScoreNext
        /\ UNCHANGED <<readsVars, clientVars, backupVars>>
     \/ /\ service = "reads" /\ ReadsNext
        /\ UNCHANGED <<scoreVars, clientVars, backupVars>>
     \/ /\ service = "client" /\ ClientNext
        /\ UNCHANGED <<scoreVars, readsVars, backupVars>>
     \/ /\ service = "backup" /\ BackupNext
        /\ UNCHANGED <<scoreVars, readsVars, clientVars>>
  /\ UNCHANGED <<service, apiVars, workerVars>>

ServicesNext == Working \/ Fanning(FanoutNext) \/ Answering \/ Standing

(* The event loop runs a timer that is due, and calls its callback. *)
ServicesSpec ==
  /\ ServicesInit /\ [][ServicesNext]_servicesVars
  /\ WF_servicesVars(Fanning(TimerDue))
  /\ WF_servicesVars(Fanning(Flush))

(* The third chunk matches by trigrams only, the first has no embedding. *)
ByText == h1 :> 1 @@ h2 :> 2 @@ h3 :> 0
ByVector == h1 :> 0 @@ h2 :> 1 @@ h3 :> 2
ByTrigram == h1 :> 2 @@ h2 :> 0 @@ h3 :> 1

-----------------------------------------------------------------------------
(* Every variable is one of its values, in all parts. *)
TypeOK ==
  /\ WatcherTypeOK /\ PollerTypeOK /\ EmailTypeOK /\ HealthTypeOK
  /\ FanoutTypeOK /\ FlagTypeOK /\ SearchTypeOK
  /\ ScoreTypeOK /\ ReadsTypeOK /\ ClientTypeOK /\ BackupTypeOK

(***************************************************************************)
(* No change of a document and no new user is lost by the CDC worker       *)
(* without one of the causes the two parts name (cdcWorker.ts).            *)
(***************************************************************************)
LostChangeIsExplained == UnsentIsExplained /\ MissedUserIsExplained

(***************************************************************************)
(* What a read-through cache serves is what its source holds, but for the  *)
(* causes the parts name: flags by user (featureFlagService.ts), results   *)
(* of a search (searchService.ts), ranks and pages of the stand-alone      *)
(* leaderboard (leaderboard-server.js).                                    *)
(***************************************************************************)
CachedAnswerIsExplained ==
  StaleFlagIsExplained /\ SearchAnswerIsExplained /\ ReadsAreExplained

(***************************************************************************)
(* What a client of a leaderboard shows is the board's, or its own last    *)
(* submission, but for the causes the parts name (leaderboardRoutes.ts,    *)
(* leaderboard-client.js).                                                 *)
(***************************************************************************)
ClientViewIsExplained == StaleViewIsExplained /\ DisplayIsExplained

(***************************************************************************)
(* What a process says of itself is so, but for the causes the parts name: *)
(* the readiness of a worker (workerHealth.ts), the outcome of a backup    *)
(* (dbBackup.js).                                                          *)
(***************************************************************************)
ReportIsExplained == ReadyIsExplained /\ BackupIsExplained
=============================================================================
