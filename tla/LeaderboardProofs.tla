-------------------------- MODULE LeaderboardProofs -------------------------
(***************************************************************************)
(* Theorems about Leaderboard, for any events, readers, prefetch and       *)
(* numbers of turns, lost connections and resent pipelines.  No run counts *)
(* in a bucket of the future (Clock), so the windows of the hours to come  *)
(* are that of the current one.  The invariant bounds how often an event   *)
(* was added by what could have made its pipeline run again: every run     *)
(* that was cut off cost a connection, every pipeline that was resent cost *)
(* a resend, and only the last run may be complete.                        *)
(***************************************************************************)
EXTENDS Leaderboard, TLAPS

FiberHoldsMessage ==
  \A m \in Message :
    fiber[m] # "none" => place[m] = "unacked" /\ m \notin malformed

(* The buckets of a run are at most those of this hour, and what they hold *)
(* is in the window of every hour from now on.                             *)
Clock ==
  \A m \in Message :
    /\ at[m] <= hour
    /\ \A h \in Hour : h >= hour => window[h][m] = window[hour][m]

(* What each phase of a fiber rests on. *)
PhaseEvidence ==
  \A m \in Message :
    /\ fiber[m] = "recorded" => m \in recorded
    /\ fiber[m] \in {"failing", "buried", "stranded"} => m \in failed
    /\ fiber[m] = "buried" => m \in dlq

(* A run that is past a ZINCRBY counted its event. *)
CountedAtLeast ==
  \A m \in Message :
    /\ fiber[m] \in {"halfway", "invalidating", "ranking", "recorded"}
         => alltime[m] >= 1
    /\ fiber[m] \in {"invalidating", "ranking", "recorded"}
         => window[hour][m] >= 1
    /\ place[m] = "acked" => alltime[m] >= 1 /\ window[hour][m] >= 1

(* Before the current run has counted its event, only runs that a lost     *)
(* connection cut off and pipelines that were resent have.                 *)
Before(m) ==
  \/ place[m] \in {"absent", "ready"}
  \/ place[m] = "unacked" /\ fiber[m] \in {"none", "counting"}

CountedAtMost ==
  \A m \in Message :
    /\ Before(m) => alltime[m] <= losses + resends
    /\ Before(m) \/ fiber[m] = "halfway" =>
         \A h \in Hour : window[h][m] <= losses + resends
    /\ alltime[m] <= 1 + losses + resends
    /\ \A h \in Hour : window[h][m] <= 1 + losses + resends

(* Between the two ZINCRBYs the boards are one apart, unless an earlier    *)
(* run was cut off.                                                        *)
HalfwayApart ==
  \A m \in Message :
    fiber[m] = "halfway" =>
      \/ alltime[m] = window[hour][m] + 1
      \/ m \in failed
      \/ losses + resends > 0

IInv ==
  /\ TypeOK
  /\ FiberHoldsMessage /\ Clock /\ PhaseEvidence
  /\ CountedAtLeast /\ CountedAtMost /\ HalfwayApart
  /\ BoardsAgree
  /\ StaleCacheIsExplained

LEMMA InitInv == Init => IInv
<1> SUFFICES ASSUME Init PROVE IInv
  OBVIOUS
<1>1. TypeOK
  BY MaxLossesAssumption, MaxFaultsAssumption, MaxTurnsAssumption
     DEF Init, ConsumerInit, TypeOK, ConsumerTypeOK, Place, Counts, Hour
<1>2. /\ 0 \in Hour
      /\ \A m \in Message : alltime[m] = 0
      /\ \A h \in Hour, m \in Message : window[h][m] = 0
  BY MaxTurnsAssumption DEF Init, Hour
<1> QED
  BY <1>1, <1>2
     DEF Init, ConsumerInit, IInv, FiberHoldsMessage, Clock, PhaseEvidence,
         CountedAtLeast, CountedAtMost, HalfwayApart, BoardsAgree,
         StaleCacheIsExplained, NoCache

(* The parts of IInv that are arithmetic, for numbers that are known to be *)
(* some.                                                                   *)
Numeric ==
  /\ losses \in Nat /\ resends \in Nat
  /\ 0 \in Hour /\ hour \in Hour /\ Hour \subseteq Nat
  /\ \A m \in Message : alltime[m] \in Nat /\ at[m] \in Nat
  /\ \A h \in Hour, m \in Message : window[h][m] \in Nat

LEMMA Numbers == ASSUME TypeOK PROVE Numeric
BY MaxLossesAssumption, MaxFaultsAssumption, MaxTurnsAssumption
   DEF TypeOK, ConsumerTypeOK, Counts, Hour, Numeric

LEMMA CachedKeys == ASSUME TypeOK, cache.exists PROVE cache.keys \in Hour
<1>1. cache # NoCache
  BY DEF NoCache
<1>2. cache \in [exists : {TRUE}, counts : Counts, keys : Hour,
                late : BOOLEAN, ttl : BOOLEAN]
  BY <1>1 DEF TypeOK
<1> QED
  BY <1>2

(* What the two ZINCRBYs do to the boards. *)
LEMMA AddedCounts ==
  ASSUME TypeOK, NEW m \in Message
  PROVE  /\ AlltimeAdded(m) \in Counts
         /\ BucketAdded(m) \in [Hour -> Counts]
         /\ AlltimeAdded(m)[m] = alltime[m] + 1
         /\ \A n \in Message \ {m} : AlltimeAdded(m)[n] = alltime[n]
         /\ \A h \in Hour : BucketAdded(m)[h][m] =
              IF h >= at[m] THEN window[h][m] + 1 ELSE window[h][m]
         /\ \A h \in Hour, n \in Message \ {m} : BucketAdded(m)[h][n] = window[h][n]
<1>1. /\ AlltimeAdded(m) \in Counts /\ AlltimeAdded(m)[m] = alltime[m] + 1
      /\ \A n \in Message \ {m} : AlltimeAdded(m)[n] = alltime[n]
  BY DEF TypeOK, Counts, AlltimeAdded
<1>2. ASSUME NEW h \in Hour
      PROVE  /\ BucketAdded(m)[h] \in Counts
             /\ BucketAdded(m)[h][m] =
                  IF h >= at[m] THEN window[h][m] + 1 ELSE window[h][m]
             /\ \A n \in Message \ {m} : BucketAdded(m)[h][n] = window[h][n]
  <2>1. window[h] \in [Message -> Nat]
    BY DEF TypeOK, Counts
  <2>2. BucketAdded(m)[h] =
          IF h >= at[m] THEN [window[h] EXCEPT ![m] = @ + 1] ELSE window[h]
    BY DEF BucketAdded
  <2> QED
    BY <2>1, <2>2 DEF Counts
<1> QED
  BY <1>1, <1>2 DEF BucketAdded

-----------------------------------------------------------------------------
(* The queue, the connection, the readers *)

QueueStep ==
  \/ \E m \in Message :
       \/ SendEvent(m)
       \/ Deliver(m) /\ UNCHANGED <<boardVars, readerVars, workerVars>>
  \/ Restart /\ UNCHANGED <<boardVars, readerVars, workerVars>>

LEMMA QueueKeepsInv ==
  ASSUME IInv, QueueStep
  PROVE  IInv'
<1> USE DEF IInv, TypeOK, ConsumerTypeOK, boardVars, readerVars, workerVars,
            outcomeVars, envVars
<1>1. /\ place' \in [Message -> Place] /\ up' \in BOOLEAN
      /\ \A n \in Message :
           \/ place'[n] = place[n]
           \/ place[n] = "absent" /\ place'[n] = "ready"
           \/ place[n] = "ready" /\ place'[n] = "unacked"
  BY DEF QueueStep, SendEvent, Enqueue, Deliver, Restart, Place
<1>2. UNCHANGED <<losses, malformed, hour, alltime, window, at, cache, reader,
                  asOf, fiber, recorded, failed, dlq, resends>>
  BY DEF QueueStep, SendEvent, Enqueue, Deliver, Restart
<1>3. TypeOK'
  BY <1>1, <1>2
<1>4. FiberHoldsMessage' /\ Clock' /\ PhaseEvidence' /\ CountedAtLeast'
  BY <1>1, <1>2 DEF FiberHoldsMessage, Clock, PhaseEvidence, CountedAtLeast
<1>5. CountedAtMost'
  <2>1. \A n \in Message : Before(n)' => Before(n)
    BY <1>1, <1>2 DEF Before, FiberHoldsMessage
  <2> QED
    BY <2>1, <1>2 DEF CountedAtMost
<1>6. HalfwayApart' /\ BoardsAgree'
  BY <1>2 DEF HalfwayApart, BoardsAgree
<1>7. StaleCacheIsExplained'
  BY <1>1, <1>2 DEF StaleCacheIsExplained, Settled
<1> QED
  BY <1>3, <1>4, <1>5, <1>6, <1>7

(* A lost connection pays for the run it cuts off. *)
LEMMA LossKeepsInv ==
  ASSUME IInv, LoseConnection
  PROVE  IInv'
<1>n. Numeric
  BY Numbers DEF IInv
<1> USE DEF IInv, TypeOK, ConsumerTypeOK
<1>1. /\ place' \in [Message -> Place] /\ up' \in BOOLEAN
      /\ \A n \in Message :
           place'[n] = IF place[n] = "unacked" THEN "ready" ELSE place[n]
      /\ fiber' = [n \in Message |-> "none"]
      /\ at' = [n \in Message |-> 0]
      /\ losses' = losses + 1 /\ losses < MaxLosses
      /\ UNCHANGED <<malformed, hour, alltime, window, cache, reader, asOf,
                     recorded, failed, dlq, resends>>
  BY DEF LoseConnection, Lose, Place, boardVars, readerVars, outcomeVars, envVars
<1>2. losses' \in 0..MaxLosses
  BY <1>1, MaxLossesAssumption
<1>3. 0 \in Hour
  BY MaxTurnsAssumption DEF Hour
<1>t. TypeOK'
  BY <1>1, <1>2, <1>3
<1>4. FiberHoldsMessage' /\ PhaseEvidence' /\ HalfwayApart' /\ CountedAtLeast'
  BY <1>1 DEF FiberHoldsMessage, PhaseEvidence, HalfwayApart, CountedAtLeast
<1>c. Clock'
  BY <1>1, <1>n DEF Clock, Numeric
<1>5. CountedAtMost'
  <2>1. ASSUME NEW n \in Message
        PROVE  /\ alltime[n] <= losses' + resends
               /\ \A h \in Hour : window[h][n] <= losses' + resends
    BY <1>1, <1>n DEF CountedAtMost, Numeric
  <2>2. losses' + resends \in Nat
    BY <1>1, <1>n DEF Numeric
  <2>3. ASSUME NEW n \in Message
        PROVE  /\ alltime[n] <= 1 + losses' + resends
               /\ \A h \in Hour : window[h][n] <= 1 + losses' + resends
    BY <1>1, <2>1, <1>n DEF Numeric
  <2> QED
    BY <1>1, <2>1, <2>3 DEF CountedAtMost
<1>6. BoardsAgree'
  <2>1. losses' + resends' > 0
    BY <1>1, <1>n DEF Numeric
  <2> QED
    BY <2>1 DEF BoardsAgree
<1>7. StaleCacheIsExplained'
  <2>1. losses' > 0
    BY <1>1, <1>n DEF Numeric
  <2> SUFFICES ASSUME cache'.exists, NEW n \in Message,
                      cache'.counts[n] # window'[hour'][n]
               PROVE  \/ n \in failed'
                      \/ fiber'[n] = "none" /\ ~Settled(n)'
                      \/ cache'.late /\ cache'.counts[n] = window'[cache'.keys][n]
    BY <2>1 DEF StaleCacheIsExplained, Settled
  <2>2. \/ n \in failed \/ fiber[n] # "none" \/ ~Settled(n)
        \/ cache.late /\ cache.counts[n] = window[cache.keys][n]
    BY <1>1 DEF StaleCacheIsExplained
  <2> QED
    BY <1>1, <2>2 DEF Settled, FiberHoldsMessage
<1> QED
  BY <1>t, <1>4, <1>c, <1>5, <1>6, <1>7

(* The windows of the hours to come hold what this hour's does, so nothing *)
(* is missed when the hour turns.                                          *)
LEMMA TurnKeepsInv ==
  ASSUME IInv, TurnHour
  PROVE  IInv'
<1>n. Numeric
  BY Numbers DEF IInv
<1> USE DEF IInv, TypeOK, ConsumerTypeOK
<1>1. /\ hour < MaxTurns /\ hour' = hour + 1
      /\ UNCHANGED <<place, up, losses, malformed, alltime, window, at, cache,
                     reader, asOf, fiber, recorded, failed, dlq, resends>>
  BY DEF TurnHour, consumerVars, boardVars, readerVars, outcomeVars
<1>2. hour' \in Hour /\ hour' >= hour
  BY <1>1, MaxTurnsAssumption DEF Hour
<1>3. TypeOK'
  BY <1>1, <1>2
<1>4. \A n \in Message : window'[hour'][n] = window[hour][n]
  BY <1>1, <1>2 DEF Clock
<1>5. Clock'
  <2>1. \A n \in Message : at[n] <= hour'
    BY <1>1, <1>n DEF Clock, Numeric
  <2>2. ASSUME NEW n \in Message, NEW h \in Hour, h >= hour'
        PROVE  window[h][n] = window'[hour'][n]
    <3>1. h >= hour
      BY <1>1, <2>2, <1>n DEF Numeric
    <3> QED
      BY <1>4, <3>1 DEF Clock
  <2> QED
    BY <1>1, <2>1, <2>2 DEF Clock
<1>6. FiberHoldsMessage' /\ PhaseEvidence' /\ CountedAtMost'
  BY <1>1 DEF FiberHoldsMessage, PhaseEvidence, CountedAtMost, Before
<1>7. CountedAtLeast' /\ HalfwayApart' /\ BoardsAgree'
  BY <1>1, <1>4 DEF CountedAtLeast, HalfwayApart, BoardsAgree
<1>8. StaleCacheIsExplained'
  BY <1>1, <1>4 DEF StaleCacheIsExplained, Settled
<1> QED
  BY <1>3, <1>5, <1>6, <1>7, <1>8

(* A reader stores what the buckets it named hold at that moment: what     *)
(* this hour's do, unless the hour has turned since; every other step on   *)
(* the cache keeps its counts or drops it.                                 *)
LEMMA ReaderKeepsInv ==
  ASSUME IInv, CacheTimeout \/ \E r \in Reader : ReaderStep(r)
  PROVE  IInv'
<1>n. Numeric
  BY Numbers DEF IInv
<1> USE DEF IInv, TypeOK, boardVars, readerVars
<1> USE DEF CacheTimeout, ReaderStep, StartRead, CheckCache, BuildCache,
            ExpireCache, ReadCache, AbortRead, Go, DropKeys
<1>1. UNCHANGED <<consumerVars, alltime, window, workerVars>>
  OBVIOUS
<1>2. reader' \in [Reader -> {"idle", "checking", "building", "expiring",
                              "reading"}]
  <2>1. \/ reader' = reader
        \/ \E r \in Reader, next \in {"idle", "checking", "building", "expiring",
                                     "reading"} :
             reader' = [reader EXCEPT ![r] = next]
    BY DEF workerVars
  <2> QED
    BY <2>1
<1>3. asOf' \in [Reader -> Hour]
  <2>1. 0 \in Hour
    BY MaxTurnsAssumption DEF Hour
  <2> QED
    BY <2>1
<1>4. \/ cache' = NoCache
      \/ cache' = cache
      \/ \E k \in Hour : cache' = Cached(window[k], k, k < hour, FALSE)
      \/ cache.exists /\ cache' = [cache EXCEPT !.ttl = TRUE]
  OBVIOUS
<1> HIDE DEF CacheTimeout, ReaderStep, StartRead, CheckCache, BuildCache,
             ExpireCache, ReadCache, AbortRead, Go, DropKeys
<1>5. /\ \/ cache' = NoCache
         \/ cache' \in [exists : {TRUE}, counts : Counts, keys : Hour,
                       late : BOOLEAN, ttl : BOOLEAN]
      /\ cache'.exists =>
           \/ /\ cache.exists /\ cache'.counts = cache.counts
              /\ cache'.keys = cache.keys /\ cache'.late = cache.late
           \/ /\ cache'.keys \in Hour /\ cache'.counts = window[cache'.keys]
              /\ cache'.late = (cache'.keys < hour)
  <2>1. CASE cache' = NoCache
    BY <2>1 DEF NoCache
  <2>2. ASSUME NEW k \in Hour, cache' = Cached(window[k], k, k < hour, FALSE)
        PROVE  /\ cache' \in [exists : {TRUE}, counts : Counts, keys : Hour,
                              late : BOOLEAN, ttl : BOOLEAN]
               /\ cache'.keys = k /\ cache'.counts = window[k]
               /\ cache'.late = (k < hour)
    BY <2>2 DEF Cached
  <2>3. CASE cache.exists /\ cache' = [cache EXCEPT !.ttl = TRUE]
    <3>1. cache # NoCache
      BY <2>3 DEF NoCache
    <3> QED
      BY <2>3, <3>1
  <2>4. CASE cache' = cache
    BY <2>4
  <2> QED
    BY <1>4, <2>1, <2>2, <2>3, <2>4
<1> USE <1>1 DEF consumerVars, workerVars, outcomeVars, envVars
<1>6. TypeOK'
  BY <1>2, <1>3, <1>5 DEF ConsumerTypeOK
<1>7. FiberHoldsMessage' /\ Clock' /\ PhaseEvidence' /\ CountedAtLeast'
  BY DEF FiberHoldsMessage, Clock, PhaseEvidence, CountedAtLeast
<1>8. CountedAtMost' /\ HalfwayApart' /\ BoardsAgree'
  BY DEF CountedAtMost, Before, HalfwayApart, BoardsAgree
<1>9. StaleCacheIsExplained'
  <2>1. CASE /\ cache'.keys \in Hour /\ cache'.counts = window[cache'.keys]
             /\ cache'.late = (cache'.keys < hour)
    <3>1. CASE cache'.late
      BY <2>1, <3>1 DEF StaleCacheIsExplained
    <3>2. CASE ~cache'.late
      <4>1. cache'.keys >= hour
        <5>1. cache'.keys \in Nat /\ hour \in Nat
          BY <2>1, <1>n DEF Numeric
        <5>2. ~(cache'.keys < hour)
          BY <2>1, <3>2
        <5> HIDE DEF IInv, TypeOK
        <5>3. \A k \in Nat, l \in Nat : ~(k < l) => k >= l
          OBVIOUS
        <5> QED
          BY <5>1, <5>2, <5>3
      <4>2. \A n \in Message : cache'.counts[n] = window[hour][n]
        BY <2>1, <4>1 DEF Clock
      <4> QED
        BY <4>2 DEF StaleCacheIsExplained
    <3> QED
      BY <3>1, <3>2
  <2>2. CASE /\ cache.exists /\ cache'.counts = cache.counts
             /\ cache'.keys = cache.keys /\ cache'.late = cache.late
    BY <2>2 DEF StaleCacheIsExplained, Settled
  <2>3. CASE ~cache'.exists
    BY <2>3 DEF StaleCacheIsExplained
  <2> QED
    BY <1>5, <2>1, <2>2, <2>3
<1> QED
  BY <1>6, <1>7, <1>8, <1>9

-----------------------------------------------------------------------------
(* The worker *)

(* A step of a fiber is about its own event: the message stays where it is *)
(* or is settled, the sets grow by it at most, and the cache is left alone *)
(* or deleted.                                                             *)
LEMMA WorkerFrame ==
  ASSUME IInv, NEW m \in Message, WorkerStep(m)
  PROVE  /\ UNCHANGED <<up, losses, malformed, hour, reader, asOf>>
         /\ place[m] = "unacked"
         /\ \E p \in {"unacked", "acked", "discarded"} :
              place' = [place EXCEPT ![m] = p]
         /\ recorded' \in {recorded, recorded \cup {m}}
         /\ failed' \in {failed, failed \cup {m}}
         /\ dlq' \in {dlq, dlq \cup {m}}
         /\ cache' \in {cache, NoCache}
         /\ \A n \in Message \ {m} : fiber'[n] = fiber[n]
         /\ at' \in {at, [at EXCEPT ![m] = hour], [at EXCEPT ![m] = 0]}
<1> USE DEF IInv, TypeOK, ConsumerTypeOK, FiberHoldsMessage, Goto, Fail,
            StopCounting, consumerVars, boardVars, readerVars, outcomeVars, envVars
<1>1. CASE Take(m) \/ DeadLetter(m)
  BY <1>1 DEF Take, DeadLetter
<1>2. CASE RejectMalformed(m)
  BY <1>2 DEF RejectMalformed, Nack
<1>3. CASE CountAlltime(m) \/ CountBucket(m) \/ ResendCounts(m) \/ FailCount(m)
  BY <1>3 DEF CountAlltime, CountBucket, ResendCounts, FailCount
<1>4. CASE Invalidate(m) \/ RankEvent(m)
  BY <1>4 DEF Invalidate, RankEvent
<1>5. CASE AckRecorded(m)
  BY <1>5 DEF AckRecorded, Ack
<1>6. CASE NackBuried(m)
  BY <1>6 DEF NackBuried, Nack
<1> QED
  BY <1>1, <1>2, <1>3, <1>4, <1>5, <1>6 DEF WorkerStep

(* What a step of a fiber does to the boards.                              *)
LEMMA WorkerCounts ==
  ASSUME IInv, NEW m \in Message, WorkerStep(m)
  PROVE  /\ alltime' \in Counts /\ window' \in [Hour -> Counts]
         /\ \A n \in Message \ {m} :
              /\ alltime'[n] = alltime[n]
              /\ \A h \in Hour : window'[h][n] = window[h][n]
         /\ window' = window \/ window' = BucketAdded(m)
         /\ resends' \in 0..MaxFaults /\ resends' \in {resends, resends + 1}
<1>t. TypeOK
  BY DEF IInv
<1>n. Numeric
  BY <1>t, Numbers
<1> USE DEF WorkerStep, Take, RejectMalformed, CountAlltime, CountBucket,
            ResendCounts, FailCount, Invalidate, RankEvent, AckRecorded, DeadLetter,
            NackBuried, boardVars, envVars
<1>1. alltime' = alltime \/ alltime' = AlltimeAdded(m)
  OBVIOUS
<1>2. window' = window \/ window' = BucketAdded(m)
  OBVIOUS
<1>3. \/ resends' = resends
      \/ losses + resends < MaxFaults /\ resends' = resends + 1
  OBVIOUS
<1> HIDE DEF WorkerStep, Take, RejectMalformed, CountAlltime, CountBucket,
             ResendCounts, FailCount, Invalidate, RankEvent, AckRecorded, DeadLetter,
             NackBuried, boardVars, envVars
<1>4. resends' \in 0..MaxFaults
  <2>1. resends \in 0..MaxFaults
    BY <1>t DEF TypeOK
  <2> QED
    BY <2>1, <1>3, <1>n, MaxFaultsAssumption DEF Numeric
<1>5. /\ alltime' \in Counts
      /\ \A n \in Message \ {m} : alltime'[n] = alltime[n]
  <2>1. CASE alltime' = alltime
    BY <2>1, <1>t DEF TypeOK
  <2>2. CASE alltime' = AlltimeAdded(m)
    BY <2>2, <1>t, AddedCounts
  <2> QED
    BY <1>1, <2>1, <2>2
<1>6. /\ window' \in [Hour -> Counts]
      /\ \A n \in Message \ {m}, h \in Hour : window'[h][n] = window[h][n]
  <2>1. CASE window' = window
    BY <2>1, <1>t DEF TypeOK
  <2>2. CASE window' = BucketAdded(m)
    BY <2>2, <1>t, AddedCounts
  <2> QED
    BY <1>2, <2>1, <2>2
<1> QED
  BY <1>2, <1>3, <1>4, <1>5, <1>6

(* What the invariant says of one event: its fiber and the evidence, the   *)
(* counts of it, and the merged window.                                    *)
SoundFiber(m) ==
  /\ fiber[m] # "none" => place[m] = "unacked" /\ m \notin malformed
  /\ fiber[m] = "recorded" => m \in recorded
  /\ fiber[m] \in {"failing", "buried", "stranded"} => m \in failed
  /\ fiber[m] = "buried" => m \in dlq

SoundClock(m) ==
  /\ at[m] <= hour
  /\ \A h \in Hour : h >= hour => window[h][m] = window[hour][m]

SoundLeast(m) ==
  /\ fiber[m] \in {"halfway", "invalidating", "ranking", "recorded"}
       => alltime[m] >= 1
  /\ fiber[m] \in {"invalidating", "ranking", "recorded"}
       => window[hour][m] >= 1
  /\ place[m] = "acked" => alltime[m] >= 1 /\ window[hour][m] >= 1

SoundMost(m) ==
  /\ Before(m) => alltime[m] <= losses + resends
  /\ Before(m) \/ fiber[m] = "halfway" =>
       \A h \in Hour : window[h][m] <= losses + resends
  /\ alltime[m] <= 1 + losses + resends
  /\ \A h \in Hour : window[h][m] <= 1 + losses + resends

SoundApart(m) ==
  /\ fiber[m] = "halfway" =>
       \/ alltime[m] = window[hour][m] + 1
       \/ m \in failed
       \/ losses + resends > 0
  /\ alltime[m] # window[hour][m] =>
       fiber[m] = "halfway" \/ m \in failed \/ losses + resends > 0

SoundCache(m) ==
  cache.exists /\ cache.counts[m] # window[hour][m] =>
    \/ fiber[m] \in {"counting", "halfway", "invalidating"}
    \/ m \in failed
    \/ losses > 0 /\ fiber[m] = "none" /\ ~Settled(m)
    \/ cache.late /\ cache.counts[m] = window[cache.keys][m]

Sound(m) ==
  /\ SoundFiber(m) /\ SoundClock(m)
  /\ SoundLeast(m) /\ SoundMost(m) /\ SoundApart(m)
  /\ SoundCache(m)

LEMMA InvSound ==
  ASSUME IInv, NEW m \in Message
  PROVE  Sound(m)
BY DEF IInv, Sound, SoundFiber, SoundClock, SoundLeast, SoundMost, SoundApart,
       SoundCache, FiberHoldsMessage, Clock, PhaseEvidence, CountedAtLeast,
       CountedAtMost, Before, HalfwayApart, BoardsAgree, StaleCacheIsExplained

LEMMA FiberTypes ==
  ASSUME IInv, NEW m \in Message, WorkerStep(m)
  PROVE  /\ fiber \in [Message -> {"none", "counting", "halfway", "invalidating",
                                   "ranking", "recorded", "failing", "buried",
                                   "stranded"}]
         /\ fiber' \in [Message -> {"none", "counting", "halfway", "invalidating",
                                    "ranking", "recorded", "failing", "buried",
                                    "stranded"}]
BY DEF IInv, TypeOK, WorkerStep, Take, RejectMalformed, CountAlltime, CountBucket,
       ResendCounts, FailCount, Invalidate, RankEvent, AckRecorded, DeadLetter,
       NackBuried, Goto, Fail

(* A run that is counting adds its event to the windows of this hour and   *)
(* of all that follow.                                                     *)
LEMMA BucketStep ==
  ASSUME IInv, NEW m \in Message, window' = BucketAdded(m), hour' = hour
  PROVE  /\ window'[hour][m] = window[hour][m] + 1
         /\ \A h \in Hour : window'[h][m] \in {window[h][m], window[h][m] + 1}
         /\ \A h \in Hour : h >= hour => window'[h][m] = window'[hour][m]
<1>1. hour >= at[m] /\ hour \in Hour
  BY Numbers DEF IInv, Clock, Numeric
<1>2. \A h \in Hour : h >= hour => h >= at[m] /\ window[h][m] = window[hour][m]
  BY <1>1, Numbers DEF IInv, Clock, Numeric
<1> QED
  BY <1>1, <1>2, AddedCounts DEF IInv

LEMMA StepSound ==
  ASSUME IInv, NEW m \in Message, WorkerStep(m)
  PROVE  Sound(m)'
<1>s. Sound(m)
  BY InvSound
<1>n. /\ losses \in Nat /\ resends \in Nat /\ hour \in Hour /\ hour \in Nat
      /\ alltime[m] \in Nat /\ \A h \in Hour : window[h][m] \in Nat
  BY Numbers DEF IInv, Numeric
<1>f. /\ losses' = losses /\ malformed' = malformed /\ hour' = hour
      /\ place[m] = "unacked"
      /\ cache' \in {cache, NoCache}
      /\ ~NoCache.exists
  BY WorkerFrame DEF NoCache
<1>t. fiber \in [Message -> {"none", "counting", "halfway", "invalidating",
                             "ranking", "recorded", "failing", "buried",
                             "stranded"}]
  BY FiberTypes
<1>a. alltime' = AlltimeAdded(m) => alltime'[m] = alltime[m] + 1
  BY AddedCounts DEF IInv
<1>b. window' = BucketAdded(m) =>
        /\ window'[hour][m] = window[hour][m] + 1
        /\ \A h \in Hour : window'[h][m] \in {window[h][m], window[h][m] + 1}
  BY <1>f, BucketStep
<1>c. SoundClock(m)'
  <2>1. at'[m] \in {at[m], hour, 0}
    <3>1. at' \in {at, [at EXCEPT ![m] = hour], [at EXCEPT ![m] = 0]}
      BY WorkerFrame
    <3>2. at \in [Message -> Hour]
      BY DEF IInv, TypeOK
    <3> QED
      BY <3>1, <3>2
  <2>2. window' = window \/ window' = BucketAdded(m)
    BY WorkerCounts
  <2> QED
    BY <1>f, <1>n, <1>s, <2>1, <2>2, BucketStep DEF Sound, SoundClock
<1> USE DEF Sound, SoundFiber, SoundLeast, SoundMost, SoundApart, SoundCache,
            Before, Goto, Fail, consumerVars, boardVars, outcomeVars, envVars,
            Settled
<1>1. CASE Take(m)
  BY <1>1, <1>s, <1>f, <1>t, <1>c DEF Take
<1>2. CASE RejectMalformed(m)
  BY <1>2, <1>s, <1>f, <1>t, <1>n, <1>c DEF RejectMalformed, Nack
<1>3. CASE CountAlltime(m)
  <2>1. alltime'[m] = alltime[m] + 1 /\ window' = window
    BY <1>3, <1>a DEF CountAlltime
  <2> QED
    BY <1>3, <2>1, <1>s, <1>f, <1>t, <1>n, <1>c DEF CountAlltime
<1>4. CASE CountBucket(m)
  <2>1. /\ alltime' = alltime
        /\ window'[hour][m] = window[hour][m] + 1
        /\ \A h \in Hour : window'[h][m] \in {window[h][m], window[h][m] + 1}
    BY <1>4, <1>b DEF CountBucket
  <2> QED
    BY <1>4, <2>1, <1>s, <1>f, <1>t, <1>n, <1>c DEF CountBucket
<1>5. CASE ResendCounts(m)
  <2>1. /\ alltime' = alltime
        /\ \A h \in Hour : window'[h][m] \in {window[h][m], window[h][m] + 1}
    BY <1>5, <1>b DEF ResendCounts
  <2> QED
    BY <1>5, <2>1, <1>s, <1>f, <1>t, <1>n, <1>c DEF ResendCounts
<1>6. CASE FailCount(m)
  <2>1. /\ alltime'[m] <= 1 + losses + resends
        /\ \A h \in Hour : window'[h][m] <= 1 + losses + resends
    <3>1. \A h \in Hour : window'[h][m] \in {window[h][m], window[h][m] + 1}
      BY <1>6, <1>b DEF FailCount
    <3>2. \A h \in Hour : window[h][m] <= losses + resends
      BY <1>6, <1>s, <1>f DEF FailCount
    <3>3. alltime'[m] <= 1 + losses + resends
      BY <1>6, <1>a, <1>s, <1>f, <1>n DEF FailCount
    <3>4. ASSUME NEW h \in Hour PROVE window'[h][m] <= 1 + losses + resends
      <4>1. window'[h][m] \in {window[h][m], window[h][m] + 1}
        BY <3>1
      <4>2. window[h][m] <= losses + resends /\ window[h][m] \in Nat
        BY <3>2, <1>n
      <4> QED
        BY <4>1, <4>2, <1>n
    <3> QED
      BY <3>3, <3>4
  <2>2. /\ fiber'[m] = "failing" /\ m \in failed'
        /\ UNCHANGED <<place, resends, cache>>
        /\ m \notin malformed
    BY <1>6, <1>s, <1>t DEF FailCount
  <2> QED
    BY <2>1, <2>2, <1>f, <1>c
<1>7. CASE Invalidate(m) \/ RankEvent(m)
  BY <1>7, <1>s, <1>f, <1>t, <1>c DEF Invalidate, RankEvent
<1>8. CASE AckRecorded(m)
  BY <1>8, <1>s, <1>f, <1>t, <1>c DEF AckRecorded, Ack, IInv, TypeOK, ConsumerTypeOK
<1>9. CASE DeadLetter(m)
  BY <1>9, <1>s, <1>f, <1>t, <1>c DEF DeadLetter
<1>10. CASE NackBuried(m)
  BY <1>10, <1>s, <1>f, <1>t, <1>c DEF NackBuried, Nack, IInv, TypeOK, ConsumerTypeOK
<1> QED
  BY <1>1, <1>2, <1>3, <1>4, <1>5, <1>6, <1>7, <1>8, <1>9, <1>10 DEF WorkerStep

(* What holds of each event makes up the invariant. *)
LEMMA SoundInv ==
  ASSUME TypeOK', \A n \in Message : Sound(n)'
  PROVE  IInv'
<1> USE DEF Sound, SoundFiber, SoundClock, SoundLeast, SoundMost, SoundApart,
            SoundCache
<1>2. FiberHoldsMessage' /\ Clock' /\ PhaseEvidence'
  BY DEF FiberHoldsMessage, Clock, PhaseEvidence
<1>3. CountedAtLeast'
  BY DEF CountedAtLeast
<1>4. CountedAtMost'
  BY DEF CountedAtMost, Before
<1>5. HalfwayApart' /\ BoardsAgree'
  BY DEF HalfwayApart, BoardsAgree
<1>6. StaleCacheIsExplained'
  BY DEF StaleCacheIsExplained, Settled
<1> QED
  BY <1>2, <1>3, <1>4, <1>5, <1>6 DEF IInv

(* The other events do not notice, but for resends, which loosen their     *)
(* bounds, and a cache that is gone.                                       *)
LEMMA OthersSound ==
  ASSUME IInv, NEW m \in Message, WorkerStep(m), NEW n \in Message \ {m}
  PROVE  Sound(n)'
<1>s. Sound(n)
  BY InvSound
<1>t. TypeOK
  BY DEF IInv
<1>n. /\ losses \in Nat /\ resends \in Nat /\ hour \in Hour
      /\ alltime[n] \in Nat /\ \A h \in Hour : window[h][n] \in Nat
  BY Numbers DEF IInv, Numeric
<1>a. at' \in {at, [at EXCEPT ![m] = hour], [at EXCEPT ![m] = 0]}
  BY WorkerFrame
<1>b. at'[n] = at[n]
  BY <1>a, <1>t DEF TypeOK
<1>p. place'[n] = place[n]
  <2>1. \E p \in {"unacked", "acked", "discarded"} :
          place' = [place EXCEPT ![m] = p]
    BY WorkerFrame
  <2> QED
    BY <2>1, <1>t DEF TypeOK, ConsumerTypeOK
<1>1. /\ losses' = losses /\ malformed' = malformed /\ hour' = hour
      /\ place'[n] = place[n] /\ fiber'[n] = fiber[n] /\ at'[n] = at[n]
      /\ recorded \subseteq recorded' /\ failed \subseteq failed' /\ dlq \subseteq dlq'
      /\ cache' = cache \/ ~cache'.exists
  BY <1>b, <1>p, WorkerFrame DEF NoCache
<1>2. /\ alltime'[n] = alltime[n]
      /\ \A h \in Hour : window'[h][n] = window[h][n]
      /\ resends' \in Nat /\ resends' >= resends
  BY WorkerCounts, <1>n
<1>3. Before(n)' => Before(n)
  BY <1>1 DEF Before
<1>4. /\ losses' + resends' >= losses + resends
      /\ losses' \in Nat /\ resends' \in Nat
  BY <1>1, <1>2, <1>n
<1>5. SoundFiber(n)' /\ SoundClock(n)' /\ SoundLeast(n)'
  BY <1>s, <1>n, <1>1, <1>2 DEF Sound, SoundFiber, SoundClock, SoundLeast
<1>6. SoundMost(n)'
  BY <1>s, <1>1, <1>2, <1>3, <1>4, <1>n DEF Sound, SoundMost
<1>7. SoundApart(n)'
  <2>1. losses + resends > 0 => losses' + resends' > 0
    BY <1>4, <1>n
  <2>2. n \in failed => n \in failed'
    BY <1>1
  <2>3. SoundApart(n)
    BY <1>s DEF Sound
  <2> QED
    BY <1>n, <1>1, <1>2, <2>1, <2>2, <2>3 DEF SoundApart
<1>8. SoundCache(n)'
  <2>1. cache.exists => cache.keys \in Hour
    BY <1>t, CachedKeys
  <2> QED
    BY <1>s, <1>n, <1>1, <1>2, <2>1 DEF Sound, SoundCache, Settled
<1> QED
  BY <1>5, <1>6, <1>7, <1>8 DEF Sound

LEMMA WorkerKeepsInv ==
  ASSUME IInv, NEW m \in Message, WorkerStep(m)
  PROVE  IInv'
<1>t. TypeOK
  BY DEF IInv
<1>1. /\ place' \in [Message -> Place]
      /\ UNCHANGED <<up, losses, malformed, hour, reader, asOf>>
  <2>1. \E p \in {"unacked", "acked", "discarded"} :
          place' = [place EXCEPT ![m] = p]
    BY WorkerFrame
  <2> QED
    <3>1. place' \in [Message -> Place]
      BY <2>1, <1>t DEF TypeOK, ConsumerTypeOK, Place
    <3> QED
      BY <3>1, WorkerFrame
<1>a. at' \in [Message -> Hour]
  <2>1. at' \in {at, [at EXCEPT ![m] = hour], [at EXCEPT ![m] = 0]}
    BY WorkerFrame
  <2>2. hour \in Hour /\ 0 \in Hour /\ at \in [Message -> Hour]
    BY <1>t, Numbers DEF TypeOK, Numeric
  <2> QED
    BY <2>1, <2>2
<1>2. cache' = cache \/ cache' = NoCache
  BY WorkerFrame
<1>3. recorded' \subseteq Message /\ failed' \subseteq Message /\ dlq' \subseteq Message
  BY <1>t, WorkerFrame DEF TypeOK
<1>4. TypeOK'
  BY <1>1, <1>2, <1>3, <1>a, WorkerCounts, FiberTypes
     DEF IInv, TypeOK, ConsumerTypeOK
<1>5. \A n \in Message : Sound(n)'
  BY StepSound, OthersSound
<1> QED
  BY <1>4, <1>5, SoundInv

-----------------------------------------------------------------------------

(* The inductive invariant holds of the whole system. *)
THEOREM InductiveInvariant == Spec => []IInv
<1>1. IInv /\ [Next]_vars => IInv'
  <2> SUFFICES ASSUME IInv, [Next]_vars PROVE IInv'
    OBVIOUS
  <2>1. CASE UNCHANGED vars
    BY <2>1
       DEF vars, consumerVars, boardVars, readerVars, workerVars, outcomeVars,
           envVars, IInv, TypeOK, ConsumerTypeOK, FiberHoldsMessage, Clock,
           PhaseEvidence, CountedAtLeast, CountedAtMost, Before, HalfwayApart,
           BoardsAgree, StaleCacheIsExplained, Settled
  <2>2. ASSUME NEW m \in Message, WorkerStep(m) PROVE IInv'
    BY <2>2, WorkerKeepsInv
  <2>3. CASE QueueStep
    BY <2>3, QueueKeepsInv
  <2>4. CASE LoseConnection
    BY <2>4, LossKeepsInv
  <2>5. CASE CacheTimeout \/ \E r \in Reader : ReaderStep(r)
    BY <2>5, ReaderKeepsInv
  <2>6. CASE TurnHour
    BY <2>6, TurnKeepsInv
  <2> QED
    BY <2>1, <2>2, <2>3, <2>4, <2>5, <2>6 DEF Next, QueueStep
<1> QED
  BY <1>1, InitInv, PTL DEF Spec

(* Every variable has its type. *)
THEOREM TypeCorrect == Spec => []TypeOK
<1>1. IInv => TypeOK
  BY DEF IInv
<1> QED
  BY <1>1, InductiveInvariant, PTL

(* An acked event is on every board, and an event is never on a board more *)
(* often than lost connections and resent pipelines account for.           *)
THEOREM EventsAreCountedPerDelivery == Spec => []CountedPerDelivery
<1>1. IInv => CountedPerDelivery
  BY DEF IInv, CountedAtLeast, CountedAtMost, CountedPerDelivery
<1> QED
  BY <1>1, InductiveInvariant, PTL

(* The boards count an event alike, unless a run of it failed or was cut   *)
(* off, or is between its ZINCRBYs.                                        *)
THEOREM BoardsCountAlike == Spec => []BoardsAgree
<1>1. IInv => BoardsAgree
  BY DEF IInv
<1> QED
  BY <1>1, InductiveInvariant, PTL

(* A merged window that misses an event will be deleted by a run of it, or *)
(* a run of it failed, or it is the window of an hour that had turned by   *)
(* the time its keys were merged.                                          *)
THEOREM StaleCachesAreExplained == Spec => []StaleCacheIsExplained
<1>1. IInv => StaleCacheIsExplained
  BY DEF IInv
<1> QED
  BY <1>1, InductiveInvariant, PTL

-----------------------------------------------------------------------------
(* The leaderboard worker implements JobContract. *)

Jobs == [m \in Message |-> JobState(m)]

(* A job's state follows the place of its message. *)
LEMMA JobFollows ==
  ASSUME NEW m \in Message
  PROVE  /\ place[m] = "absent" => Jobs[m] = "unsent"
         /\ place[m] \in {"ready", "unacked"} => Jobs[m] = "pending"
         /\ place'[m] = "acked" => Jobs'[m] = "finished"
         /\ place'[m] = "discarded" => Jobs'[m] = "dropped"
         /\ place'[m] \in {"ready", "unacked"} => Jobs'[m] = "pending"
BY DEF Jobs, JobState

(* A settled message is a job that is over, and no other job moves. *)
LEMMA SettledJob ==
  ASSUME IInv, NEW m \in Message, place[m] = "unacked",
         NEW p \in {"acked", "discarded"}, place' = [place EXCEPT ![m] = p]
  PROVE  /\ Jobs[m] = "pending"
         /\ Jobs' = [Jobs EXCEPT ![m] = IF p = "acked" THEN "finished"
                                                       ELSE "dropped"]
<1>1. place'[m] = p /\ \A n \in Message \ {m} : place'[n] = place[n]
  BY DEF IInv, TypeOK, ConsumerTypeOK
<1>2. \A n \in Message \ {m} : Jobs'[n] = Jobs[n]
  BY <1>1 DEF Jobs, JobState
<1>3. Jobs[m] = "pending"
  BY JobFollows
<1>4. Jobs'[m] = IF p = "acked" THEN "finished" ELSE "dropped"
  BY <1>1, JobFollows
<1> QED
  BY <1>2, <1>3, <1>4 DEF Jobs

(* Moving between "ready" and "unacked" moves no job. *)
LEMMA JobsStay ==
  ASSUME \A n \in Message : \/ place'[n] = place[n]
                            \/ {place[n], place'[n]} \subseteq {"ready", "unacked"}
  PROVE  Jobs' = Jobs
<1>1. ASSUME NEW n \in Message PROVE JobState(n)' = JobState(n)
  BY DEF JobState
<1> QED
  BY <1>1 DEF Jobs

LEMMA InitRefines == Init => Contract!Init
BY DEF Init, ConsumerInit, Contract!Init, JobState

LEMMA StutterRefines ==
  ASSUME Jobs' = Jobs, UNCHANGED <<recorded, failed, dlq>>
  PROVE  UNCHANGED Contract!jobVars
BY DEF Contract!jobVars, Jobs

(* The queue and the connection move no job, but for the one that is sent. *)
LEMMA QueueRefines ==
  ASSUME IInv, QueueStep \/ LoseConnection
  PROVE  [Contract!Next]_(Contract!jobVars)
<1>1. UNCHANGED <<recorded, failed, dlq>>
  BY DEF QueueStep, SendEvent, LoseConnection, workerVars, outcomeVars
<1>2. ASSUME NEW m \in Message, SendEvent(m) PROVE Contract!Next
  <2>1. /\ place[m] = "absent" /\ place'[m] = "ready"
        /\ \A n \in Message \ {m} : place'[n] = place[n]
    BY <1>2 DEF SendEvent, Enqueue, IInv, TypeOK, ConsumerTypeOK
  <2>2. \A n \in Message \ {m} : Jobs'[n] = Jobs[n]
    BY <2>1 DEF Jobs, JobState
  <2>3. Jobs[m] = "unsent" /\ Jobs'[m] = "pending"
    BY <2>1, JobFollows
  <2>4. Jobs' = [Jobs EXCEPT ![m] = "pending"]
    BY <2>2, <2>3 DEF Jobs
  <2>5. Contract!Send(m)
    BY <1>1, <2>3, <2>4 DEF Contract!Send, Jobs
  <2> QED
    BY <2>5 DEF Contract!Next
<1>3. CASE ~\E m \in Message : SendEvent(m)
  <2>1. \A n \in Message : \/ place'[n] = place[n]
                           \/ {place[n], place'[n]} \subseteq {"ready", "unacked"}
    BY <1>3 DEF QueueStep, Deliver, LoseConnection, Lose, Restart, IInv, TypeOK,
                ConsumerTypeOK
  <2> QED
    BY <1>1, <2>1, JobsStay, StutterRefines
<1> QED
  BY <1>2, <1>3

(* An ack rests on a run of recordEvent that came to its end, a nack on a  *)
(* failed run: the evidence of the fiber's phase.                          *)
LEMMA WorkerRefines ==
  ASSUME IInv, NEW m \in Message, WorkerStep(m)
  PROVE  [Contract!Next]_(Contract!jobVars)
<1>h. place[m] = "unacked"
  BY WorkerFrame
<1>p. Jobs[m] = "pending"
  BY <1>h, JobFollows
<1>1. CASE RejectMalformed(m)
  <2>1. Jobs' = [Jobs EXCEPT ![m] = "dropped"]
    BY <1>1, <1>h, SettledJob DEF RejectMalformed, Nack
  <2>2. Contract!Reject(m)
    BY <1>1, <1>p, <2>1 DEF RejectMalformed, Contract!Reject, Jobs
  <2> QED
    BY <2>2 DEF Contract!Next
<1>2. CASE FailCount(m) \/ Invalidate(m) \/ RankEvent(m)
  <2>1. UNCHANGED <<place, dlq>>
    BY <1>2 DEF FailCount, Invalidate, RankEvent, consumerVars
  <2>2. /\ recorded' \in {recorded, recorded \cup {m}}
        /\ failed' \in {failed, failed \cup {m}}
    BY WorkerFrame
  <2>3. Jobs' = Jobs
    BY <2>1, JobsStay
  <2>4. Contract!Run(m)
    BY <1>p, <2>1, <2>2, <2>3 DEF Contract!Run, Jobs
  <2> QED
    BY <2>4 DEF Contract!Next
<1>3. CASE Take(m) \/ CountAlltime(m) \/ CountBucket(m) \/ ResendCounts(m)
  <2>1. UNCHANGED <<place, recorded, failed, dlq>>
    BY <1>3 DEF Take, CountAlltime, CountBucket, ResendCounts, consumerVars,
                outcomeVars
  <2> QED
    BY <2>1, JobsStay, StutterRefines
<1>4. CASE DeadLetter(m)
  <2>1. UNCHANGED <<place, recorded, failed>> /\ m \in failed
    BY <1>4 DEF DeadLetter, consumerVars, IInv, PhaseEvidence
  <2>2. Jobs' = Jobs
    BY <2>1, JobsStay
  <2>3. CASE dlq' = dlq
    BY <2>1, <2>2, <2>3, StutterRefines
  <2>4. CASE dlq' = dlq \cup {m}
    <3>1. Contract!Bury(m)
      BY <1>p, <2>1, <2>2, <2>4 DEF Contract!Bury, Jobs
    <3> QED
      BY <3>1 DEF Contract!Next
  <2> QED
    BY <1>4, <2>3, <2>4 DEF DeadLetter
<1>5. CASE AckRecorded(m)
  <2>1. Jobs' = [Jobs EXCEPT ![m] = "finished"]
    BY <1>5, <1>h, SettledJob DEF AckRecorded, Ack
  <2>2. m \in recorded
    BY <1>5 DEF AckRecorded, IInv, PhaseEvidence
  <2>3. Contract!Finish(m)
    BY <1>5, <1>p, <2>1, <2>2 DEF AckRecorded, outcomeVars, Contract!Finish, Jobs
  <2> QED
    BY <2>3 DEF Contract!Next
<1>6. CASE NackBuried(m)
  <2>1. Jobs' = [Jobs EXCEPT ![m] = "dropped"]
    BY <1>6, <1>h, SettledJob DEF NackBuried, Nack
  <2>2. m \in failed
    BY <1>6 DEF NackBuried, IInv, PhaseEvidence
  <2>3. Contract!Drop(m)
    BY <1>6, <1>p, <2>1, <2>2 DEF NackBuried, outcomeVars, Contract!Drop, Jobs
  <2> QED
    BY <2>3 DEF Contract!Next
<1> QED
  BY <1>1, <1>2, <1>3, <1>4, <1>5, <1>6 DEF WorkerStep

(* The leaderboard worker keeps the contract of JobContract, for any       *)
(* events: none is acked before recordEvent came to its end, none is       *)
(* dropped before a run of it failed.                                      *)
THEOREM ContractKept == Spec => KeepsContract
<1>1. IInv /\ [Next]_vars => [Contract!Next]_(Contract!jobVars)
  <2> SUFFICES ASSUME IInv, [Next]_vars
               PROVE  [Contract!Next]_(Contract!jobVars)
    OBVIOUS
  <2>1. CASE UNCHANGED <<consumerVars, outcomeVars>>
    BY <2>1, JobsStay, StutterRefines DEF consumerVars, outcomeVars
  <2>2. ASSUME NEW m \in Message, WorkerStep(m)
        PROVE  [Contract!Next]_(Contract!jobVars)
    BY <2>2, WorkerRefines
  <2>3. CASE QueueStep \/ LoseConnection
    BY <2>3, QueueRefines
  <2>4. CASE CacheTimeout \/ TurnHour \/ \E r \in Reader : ReaderStep(r)
    BY <2>1, <2>4
       DEF CacheTimeout, TurnHour, ReaderStep, StartRead, CheckCache, BuildCache,
           ExpireCache, ReadCache, AbortRead, workerVars
  <2> QED
    BY <2>1, <2>2, <2>3, <2>4 DEF Next, QueueStep, vars, workerVars
<1> QED
  BY <1>1, InitRefines, InductiveInvariant, PTL
     DEF Spec, KeepsContract, Contract!Spec
=============================================================================
