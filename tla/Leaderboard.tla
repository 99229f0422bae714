----------------------------- MODULE Leaderboard ----------------------------
(***************************************************************************)
(* The leaderboard: the worker of leaderboardWorker.ts feeds score events  *)
(* from the queue "leaderboard.score.event" to recordEvent                 *)
(* (leaderboardService.ts), which counts them in Redis sorted sets; the    *)
(* API's readers merge the buckets of a rolling window into a cache key.   *)
(*                                                                         *)
(* Scores are abstracted to what the properties tell apart: how often each *)
(* event was added.  Every read or write of a board is then a function     *)
(* from events to counts, whoever scored and how much.  Kept are the       *)
(* all-time board and the buckets of one rolling window; the 7d and 24h    *)
(* windows have the same code, and `hour` is the hour of the one or the    *)
(* day of the other.  window[h] is the union of the bucket keys of hour h: *)
(* a ZINCRBY on the bucket of hour k is in the window of every hour from k *)
(* on.  The hour turns less often than a bucket needs to leave the window. *)
(* The rank reads and the detached INSERT and PUBLISH change no board.     *)
(*                                                                         *)
(* The Redis client of redisService.ts resends what was not answered when  *)
(* its connection is lost (autoResendUnfulfilledCommands), and a rejected  *)
(* command may have been applied all the same (commandTimeout).  A command *)
(* that is rejected here and applied, is applied before the rejection is   *)
(* seen; later would only touch boards of an event already in `failed`.    *)
(***************************************************************************)
EXTENDS RabbitConsumer

CONSTANTS
  Reader,      \* concurrent getLeaderboard / getUserRank calls
  MaxFaults,   \* bound: lost connections and resent pipelines together
  MaxTurns     \* bound: how often the hour turns; below 24 and 7

ASSUME MaxFaultsAssumption == MaxFaults \in Nat
ASSUME MaxTurnsAssumption == MaxTurns \in Nat

VARIABLES
  malformed, \* messages whose body is no LeaderboardScoreMessage; never changes
  hour,      \* hours turned so far
  alltime,   \* [Message -> times added], lb:score:alltime
  window,    \* [Hour -> [Message -> times added]], see above
  at,        \* [Message -> hour in which its run began; 0 when not counting]
  cache,     \* lb:cache:*: NoCache or a merged board, see Cached
  reader,    \* [Reader -> where the call stands]
  asOf,      \* [Reader -> hour whose keys its call may merge, or 0]
  fiber,     \* [Message -> where processMessage stands]
  recorded,  \* events a run of recordEvent of which came to its end
  failed,    \* events a run of which failed
  dlq,       \* events with a copy on dead.letter.leaderboard
  resends    \* times the Redis client resent the ZINCRBYs of an event

boardVars == <<alltime, window, cache>>
readerVars == <<reader, asOf>>
envVars == <<malformed, resends, hour>>   \* what the surroundings decide
outcomeVars == <<recorded, failed, dlq>>
workerVars == <<fiber, at, outcomeVars, envVars>>
vars == <<consumerVars, boardVars, readerVars, workerVars>>

Hour == 0..MaxTurns
Counts == [Message -> Nat]

(* The merged key: the hour whose bucket keys were merged, whether a later *)
(* hour had begun by then, and whether the key has a TTL.                  *)
NoCache == [exists |-> FALSE]
Cached(counts, keys, late, ttl) ==
  [exists |-> TRUE, counts |-> counts, keys |-> keys, late |-> late, ttl |-> ttl]

Empty(counts) == \A m \in Message : counts[m] = 0

TypeOK ==
  /\ ConsumerTypeOK
  /\ malformed \subseteq Message
  /\ hour \in Hour
  /\ alltime \in Counts
  /\ window \in [Hour -> Counts]
  /\ at \in [Message -> Hour]
  /\ \/ cache = NoCache
     \/ cache \in [exists : {TRUE}, counts : Counts, keys : Hour,
                  late : BOOLEAN, ttl : BOOLEAN]
  /\ reader \in [Reader -> {"idle", "checking", "building", "expiring", "reading"}]
  /\ asOf \in [Reader -> Hour]
  /\ fiber \in [Message -> {"none", "counting", "halfway", "invalidating",
                            "ranking", "recorded", "failing", "buried",
                            "stranded"}]
  /\ recorded \subseteq Message
  /\ failed \subseteq Message
  /\ dlq \subseteq Message
  /\ resends \in 0..MaxFaults

Init ==
  /\ ConsumerInit
  /\ malformed \in SUBSET Message
  /\ hour = 0
  /\ alltime = [m \in Message |-> 0]
  /\ window = [h \in Hour |-> [m \in Message |-> 0]]
  /\ at = [m \in Message |-> 0]
  /\ cache = NoCache
  /\ reader = [r \in Reader |-> "idle"]
  /\ asOf = [r \in Reader |-> 0]
  /\ fiber = [m \in Message |-> "none"]
  /\ recorded = {} /\ failed = {} /\ dlq = {} /\ resends = 0

-----------------------------------------------------------------------------
(* The worker.                                                             *)

(* Some service puts a score event on the queue. *)
SendEvent(m) ==
  /\ Enqueue(m)
  /\ UNCHANGED <<up, losses, boardVars, readerVars, workerVars>>

Goto(m, next) == fiber' = [fiber EXCEPT ![m] = next]

(* A rejected Redis promise is a defect: the catchCause handler runs. *)
Fail(m) ==
  /\ Goto(m, "failing")
  /\ failed' = failed \cup {m}

(* The run sends no more ZINCRBYs. *)
StopCounting(m) == at' = [at EXCEPT ![m] = 0]

(* recordEvent begins: its `now` names the buckets of the whole run. *)
Take(m) ==
  /\ place[m] = "unacked"
  /\ fiber[m] = "none"
  /\ m \notin malformed
  /\ at' = [at EXCEPT ![m] = hour]
  /\ Goto(m, "counting")
  /\ UNCHANGED <<consumerVars, boardVars, readerVars, outcomeVars, envVars>>

(* The body does not decode: nack, without a copy on the DLQ. *)
RejectMalformed(m) ==
  /\ place[m] = "unacked"
  /\ m \in malformed
  /\ Nack(m)
  /\ failed' = failed \cup {m}
  /\ UNCHANGED <<boardVars, readerVars, fiber, at, recorded, dlq, envVars>>

(* ZINCRBY for m on the all-time board, and on the bucket of its run. *)
AlltimeAdded(m) == [alltime EXCEPT ![m] = @ + 1]
BucketAdded(m) ==
  [h \in Hour |-> IF h >= at[m] THEN [window[h] EXCEPT ![m] = @ + 1]
                                ELSE window[h]]

(* Promise.all of the ZINCRBYs, which leave in one pipeline: Redis runs    *)
(* them in order, other clients' commands in between.                      *)
CountAlltime(m) ==
  /\ fiber[m] = "counting"
  /\ alltime' = AlltimeAdded(m)
  /\ Goto(m, "halfway")
  /\ UNCHANGED <<consumerVars, window, cache, readerVars, at, outcomeVars, envVars>>

(* Mutant: the fiber goes on whether or not the bucket was incremented. *)
CountBucketMaybe(m) ==
  /\ fiber[m] = "halfway"
  /\ window' \in {window, BucketAdded(m)}
  /\ StopCounting(m)
  /\ Goto(m, "invalidating")
  /\ UNCHANGED <<consumerVars, alltime, cache, readerVars, outcomeVars, envVars>>

CountBucket(m) ==
  /\ fiber[m] = "halfway"
  /\ window' = BucketAdded(m)
  /\ StopCounting(m)
  /\ Goto(m, "invalidating")
  /\ UNCHANGED <<consumerVars, alltime, cache, readerVars, outcomeVars, envVars>>

(* The Redis connection is lost before all replies are in: the client      *)
(* reconnects and sends the whole pipeline again.                          *)
ResendCounts(m) ==
  /\ fiber[m] = "halfway"
  /\ losses + resends < MaxFaults
  /\ resends' = resends + 1
  /\ window' \in {window, BucketAdded(m)}
  /\ Goto(m, "counting")
  /\ UNCHANGED <<consumerVars, alltime, cache, readerVars, at, outcomeVars,
                 malformed, hour>>

(* Mutant: a failure takes the increments of both boards back. *)
FailCountUndoing(m) ==
  /\ fiber[m] \in {"counting", "halfway"}
  /\ alltime' = [alltime EXCEPT ![m] = @ - 1]
  /\ window' = [h \in Hour |-> [window[h] EXCEPT ![m] = @ - 1]]
  /\ StopCounting(m)
  /\ Fail(m)
  /\ UNCHANGED <<consumerVars, cache, readerVars, recorded, dlq, envVars>>

(* A command is rejected: Promise.all rejects at once, and the others are  *)
(* applied or not.                                                         *)
FailCount(m) ==
  /\ \/ /\ fiber[m] = "counting"
        /\ alltime' \in {alltime, AlltimeAdded(m)}
     \/ fiber[m] = "halfway" /\ UNCHANGED alltime
  /\ window' \in {window, BucketAdded(m)}
  /\ StopCounting(m)
  /\ Fail(m)
  /\ UNCHANGED <<consumerVars, cache, readerVars, recorded, dlq, envVars>>

(* Mutant: the DEL is sent and its failure ignored. *)
InvalidateIgnored(m) ==
  /\ fiber[m] = "invalidating"
  /\ cache' \in {cache, NoCache}
  /\ Goto(m, "ranking")
  /\ UNCHANGED <<consumerVars, alltime, window, readerVars, at, outcomeVars, envVars>>

(* EXPIREAT on the buckets, which changes no count, then DEL of the merged *)
(* windows.                                                                *)
Invalidate(m) ==
  /\ fiber[m] = "invalidating"
  /\ \/ cache' = NoCache /\ Goto(m, "ranking") /\ UNCHANGED failed
     \/ cache' \in {cache, NoCache} /\ Fail(m)
  /\ UNCHANGED <<consumerVars, alltime, window, readerVars, at, recorded, dlq, envVars>>

(* The ranks for the delta; then INSERT and PUBLISH are detached and       *)
(* recordEvent returns.                                                    *)
RankEvent(m) ==
  /\ fiber[m] = "ranking"
  /\ \/ Goto(m, "recorded") /\ recorded' = recorded \cup {m} /\ UNCHANGED failed
     \/ Fail(m) /\ UNCHANGED recorded
  /\ UNCHANGED <<consumerVars, boardVars, readerVars, at, dlq, envVars>>

(* Mutant: an event is acked before it is counted. *)
AckFirst(m) ==
  /\ fiber[m] \in {"counting", "recorded"}
  /\ Ack(m)
  /\ Goto(m, "none")
  /\ UNCHANGED <<boardVars, readerVars, at, outcomeVars, envVars>>

AckRecorded(m) ==
  /\ fiber[m] = "recorded"
  /\ Ack(m)
  /\ Goto(m, "none")
  /\ UNCHANGED <<boardVars, readerVars, at, outcomeVars, envVars>>

(* Mutant: a failed event is counted again instead of being buried. *)
RetryInPlace(m) ==
  /\ fiber[m] = "failing"
  /\ Goto(m, "counting")
  /\ UNCHANGED <<consumerVars, boardVars, readerVars, at, outcomeVars, envVars>>

(* catchCause: a copy to the DLQ, then nack.  An error of dlq.publish ends *)
(* the fiber without one.                                                  *)
DeadLetter(m) ==
  /\ fiber[m] = "failing"
  /\ \/ dlq' = dlq \cup {m} /\ Goto(m, "buried")
     \/ dlq' \in {dlq, dlq \cup {m}} /\ Goto(m, "stranded")
  /\ UNCHANGED <<consumerVars, boardVars, readerVars, at, recorded, failed, envVars>>

NackBuried(m) ==
  /\ fiber[m] = "buried"
  /\ Nack(m)
  /\ Goto(m, "none")
  /\ UNCHANGED <<boardVars, readerVars, at, outcomeVars, envVars>>

LoseConnection ==
  /\ losses + resends < MaxFaults
  /\ Lose
  /\ fiber' = [m \in Message |-> "none"]
  /\ at' = [m \in Message |-> 0]
  /\ UNCHANGED <<boardVars, readerVars, outcomeVars, envVars>>

WorkerStep(m) ==
  \/ Take(m) \/ RejectMalformed(m)
  \/ CountAlltime(m) \/ CountBucket(m) \/ ResendCounts(m) \/ FailCount(m)
  \/ Invalidate(m) \/ RankEvent(m)
  \/ AckRecorded(m) \/ DeadLetter(m) \/ NackBuried(m)

-----------------------------------------------------------------------------
(* The readers, in the API processes.                                      *)

Go(r, next) == reader' = [reader EXCEPT ![r] = next]

(* The call takes its `now`: it names the keys to merge. *)
StartRead(r) ==
  /\ reader[r] = "idle"
  /\ asOf' = [asOf EXCEPT ![r] = hour]
  /\ Go(r, "checking")
  /\ UNCHANGED <<consumerVars, boardVars, workerVars>>

(* The call is past its ZUNIONSTORE, or needs none. *)
DropKeys(r) == asOf' = [asOf EXCEPT ![r] = 0]

(* EXISTS *)
CheckCache(r) ==
  /\ reader[r] = "checking"
  /\ \/ cache.exists /\ Go(r, "reading") /\ DropKeys(r)
     \/ ~cache.exists /\ Go(r, "building") /\ UNCHANGED asOf
  /\ UNCHANGED <<consumerVars, boardVars, workerVars>>

(* ZUNIONSTORE of the keys that were named before the EXISTS: it replaces  *)
(* the merged key and its TTL; the union of nothing is no key at all.      *)
BuildCache(r) ==
  LET keys == asOf[r] IN
  /\ reader[r] = "building"
  /\ cache' = IF Empty(window[keys]) THEN NoCache
              ELSE Cached(window[keys], keys, keys < hour, FALSE)
  /\ Go(r, "expiring")
  /\ DropKeys(r)
  /\ UNCHANGED <<consumerVars, alltime, window, workerVars>>

(* EXPIRE, which does nothing without the key. *)
ExpireCache(r) ==
  /\ reader[r] = "expiring"
  /\ cache' = IF cache.exists THEN [cache EXCEPT !.ttl = TRUE] ELSE NoCache
  /\ Go(r, "reading")
  /\ UNCHANGED <<consumerVars, alltime, window, asOf, workerVars>>

(* ZREVRANGE; the answer leaves the system. *)
ReadCache(r) ==
  /\ reader[r] = "reading"
  /\ Go(r, "idle")
  /\ UNCHANGED <<consumerVars, boardVars, asOf, workerVars>>

(* A Redis command fails, or the API process stops in the middle. *)
AbortRead(r) ==
  /\ reader[r] # "idle"
  /\ Go(r, "idle")
  /\ DropKeys(r)
  /\ UNCHANGED <<consumerVars, boardVars, workerVars>>

(* Thirty seconds passed. *)
CacheTimeout ==
  /\ cache.exists /\ cache.ttl
  /\ cache' = NoCache
  /\ UNCHANGED <<consumerVars, alltime, window, readerVars, workerVars>>

(* The hour turns, and with it the names of the current keys. *)
TurnHour ==
  /\ hour < MaxTurns
  /\ hour' = hour + 1
  /\ UNCHANGED <<consumerVars, boardVars, readerVars, fiber, at, outcomeVars,
                 malformed, resends>>

ReaderStep(r) ==
  \/ StartRead(r) \/ CheckCache(r) \/ BuildCache(r) \/ ExpireCache(r)
  \/ ReadCache(r) \/ AbortRead(r)

Next ==
  \/ \E m \in Message :
       \/ SendEvent(m)
       \/ Deliver(m) /\ UNCHANGED <<boardVars, readerVars, workerVars>>
       \/ WorkerStep(m)
  \/ LoseConnection
  \/ Restart /\ UNCHANGED <<boardVars, readerVars, workerVars>>
  \/ \E r \in Reader : ReaderStep(r)
  \/ CacheTimeout
  \/ TurnHour

Spec == Init /\ [][Next]_vars

-----------------------------------------------------------------------------
(***************************************************************************)
(* The worker keeps the contract of JobContract: an event is acked only    *)
(* after recordEvent ran to its end, and dropped only after a failed run   *)
(* (processMessage, leaderboardWorker.ts:53-98).                           *)
(***************************************************************************)
JobState(m) ==
  CASE place[m] = "absent"    -> "unsent"
    [] place[m] = "acked"     -> "finished"
    [] place[m] = "discarded" -> "dropped"
    [] OTHER                  -> "pending"

Contract == INSTANCE JobContract WITH
  Job <- Message, state <- [m \in Message |-> JobState(m)],
  done <- recorded, failed <- failed, buried <- dlq

KeepsContract == Contract!Spec

(***************************************************************************)
(* An acked event is on the all-time board and in the window of this hour, *)
(* and no event is on a board more often than once, once more for every    *)
(* lost connection of the worker and once more for every pipeline the      *)
(* Redis client resent: nothing else protects a score from being counted   *)
(* twice (leaderboardService.ts:152-158).                                  *)
(***************************************************************************)
CountedPerDelivery ==
  \A m \in Message :
    /\ place[m] = "acked" => alltime[m] >= 1 /\ window[hour][m] >= 1
    /\ alltime[m] <= 1 + losses + resends
    /\ \A h \in Hour : window[h][m] <= 1 + losses + resends

(***************************************************************************)
(* The boards disagree about an event only while its ZINCRBYs are on their *)
(* way, or if some run of it failed or a connection was lost on the way:   *)
(* however runs of several events and redeliveries mix, and wherever the   *)
(* hour turns.                                                             *)
(***************************************************************************)
BoardsAgree ==
  \A m \in Message :
    alltime[m] # window[hour][m] =>
      \/ fiber[m] = "halfway"
      \/ m \in failed
      \/ losses + resends > 0

(***************************************************************************)
(* A merged window that misses an event is about to be deleted: by the run *)
(* that counted it or, after a lost connection, by the next one; unless a  *)
(* run of that event failed.  This holds whatever readers build and expire *)
(* meanwhile (leaderboardService.ts:171-176 against 236-250), with one     *)
(* exception: a reader that named its keys before the hour turned may      *)
(* merge them after the run of the new hour deleted the window (233 and    *)
(* 263 against 240 and 246).  Such a window is the one of the earlier hour *)
(* and stays until its TTL or the next event ends it.                      *)
(***************************************************************************)
StaleCacheIsExplained ==
  cache.exists =>
    \A m \in Message :
      cache.counts[m] # window[hour][m] =>
        \/ fiber[m] \in {"counting", "halfway", "invalidating"}
        \/ m \in failed
        \/ losses > 0 /\ fiber[m] = "none" /\ ~Settled(m)
        \/ cache.late /\ cache.counts[m] = window[cache.keys][m]

(***************************************************************************)
(* leaderboardService.ts:11 says of the merged window "(TTL 30s)": while   *)
(* no reader is between its ZUNIONSTORE and its EXPIRE the cache has one.  *)
(***************************************************************************)
CacheHasTtl ==
  cache.exists /\ (\A r \in Reader : reader[r] # "expiring") => cache.ttl
=============================================================================
