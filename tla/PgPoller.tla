------------------------------ MODULE PgPoller ------------------------------
(***************************************************************************)
(* The polling half of the CDC worker (cdcWorker.ts:175-236): every ten    *)
(* seconds, the users whose updated_at is after the last poll.  No UPDATE  *)
(* of this code sets updated_at, so what a poll finds are new rows, and a  *)
(* row carries the time its INSERT began (DEFAULT now()), which is before  *)
(* it can be seen.                                                         *)
(*                                                                         *)
(* Time is counted in polls: a stamp v lies between the start of the v-th  *)
(* poll and the next one.                                                  *)
(***************************************************************************)
EXTENDS Naturals, Sequences, FiniteSets

CONSTANTS
  NewUser,        \* users who register in the life of the model
  Batch,          \* PG_POLL_BATCH, 200
  MaxPolls,       \* bound: polls started
  MaxPollerStops  \* bound: how often the worker stops and starts again

ASSUME PollerAssumption ==
  Batch \in Nat \ {0} /\ MaxPolls \in Nat /\ MaxPollerStops \in Nat

VARIABLES
  time,       \* polls and restarts so far
  stamp,      \* [NewUser -> updated_at]
  insertion,  \* [NewUser -> "none", "running" or "committed"]
  readsAt,    \* [NewUser -> polls that had read when it was committed]
  lastPoll,   \* lastPollTime
  cutoff,     \* cutoff of the poll in progress
  polling,    \* "idle", "asking" or "emitting"
  rows,       \* rows of the poll that are still to be looked at
  seen,       \* ids that the dedup Map of the poller would skip
  offered,    \* users whose event was handed to the publisher
  polls,      \* [from, to, how] of the polls, in order; for the properties
  pollerStops

pollerVars == <<time, stamp, insertion, readsAt, lastPoll, cutoff, polling,
                rows, seen, offered, polls, pollerStops>>

Time == 0..(MaxPolls + MaxPollerStops)
PollRecord == [from : Time, to : Time, how : {"read", "full", "failed", "cut"}]

PollerTypeOK ==
  /\ time \in Time /\ lastPoll \in Time /\ cutoff \in Time
  /\ stamp \in [NewUser -> Time]
  /\ insertion \in [NewUser -> {"none", "running", "committed"}]
  /\ readsAt \in [NewUser -> 0..MaxPolls]
  /\ polling \in {"idle", "asking", "emitting"}
  /\ rows \subseteq NewUser /\ seen \subseteq NewUser
  /\ offered \subseteq NewUser
  /\ \A i \in DOMAIN polls : polls[i] \in PollRecord
  /\ pollerStops \in 0..MaxPollerStops

PollerInit ==
  /\ time = 0 /\ lastPoll = 0 /\ cutoff = 0
  /\ stamp = [u \in NewUser |-> 0]
  /\ insertion = [u \in NewUser |-> "none"]
  /\ readsAt = [u \in NewUser |-> 0]
  /\ polling = "idle"
  /\ rows = {} /\ seen = {} /\ offered = {}
  /\ polls = <<>>
  /\ pollerStops = 0

-----------------------------------------------------------------------------
(* INSERT INTO users begins, in some process of the API. *)
InsertUser(u) ==
  /\ insertion[u] = "none"
  /\ insertion' = [insertion EXCEPT ![u] = "running"]
  /\ stamp' = [stamp EXCEPT ![u] = time]
  /\ UNCHANGED <<time, readsAt, lastPoll, cutoff, polling, rows, seen, offered,
                 polls, pollerStops>>

CommitUser(u) ==
  /\ insertion[u] = "running"
  /\ insertion' = [insertion EXCEPT ![u] = "committed"]
  /\ readsAt' = [readsAt EXCEPT ![u] = Len(polls)]
  /\ UNCHANGED <<time, stamp, lastPoll, cutoff, polling, rows, seen, offered,
                 polls, pollerStops>>

MayPoll == polling = "idle" /\ time < MaxPolls

(* Mutant: lastPollTime is advanced before it is read. *)
PollStartSwapped ==
  /\ MayPoll
  /\ polling' = "asking"
  /\ time' = time + 1
  /\ lastPoll' = time + 1
  /\ cutoff' = time + 1
  /\ UNCHANGED <<stamp, insertion, readsAt, rows, seen, offered, polls,
                 pollerStops>>

(* lastPollTime moves on before the query is sent. *)
PollStart ==
  /\ MayPoll
  /\ polling' = "asking"
  /\ time' = time + 1
  /\ lastPoll' = time + 1
  /\ cutoff' = lastPoll
  /\ UNCHANGED <<stamp, insertion, readsAt, rows, seen, offered, polls,
                 pollerStops>>

Polled(how) == Append(polls, [from |-> cutoff, to |-> lastPoll, how |-> how])

(* SELECT ... WHERE updated_at > cutoff LIMIT 200, in no order. *)
PollRead ==
  LET newer == {u \in NewUser :
                  insertion[u] = "committed" /\ stamp[u] >= cutoff} IN
  /\ polling = "asking"
  /\ polling' = "emitting"
  /\ IF Cardinality(newer) <= Batch
       THEN rows' = newer /\ polls' = Polled("read")
       ELSE /\ rows' \in {some \in SUBSET newer : Cardinality(some) = Batch}
            /\ polls' = Polled("full")
  /\ UNCHANGED <<time, stamp, insertion, readsAt, lastPoll, cutoff, seen,
                 offered, pollerStops>>

(* The error of the query is logged; the next poll starts from lastPoll. *)
PollFails ==
  /\ polling = "asking"
  /\ polling' = "idle"
  /\ polls' = Polled("failed")
  /\ UNCHANGED <<time, stamp, insertion, readsAt, lastPoll, cutoff, rows, seen,
                 offered, pollerStops>>

(* One row of the loop: dedup, then emit, whose errors are ignored. *)
PollRow(u) ==
  /\ polling = "emitting" /\ u \in rows
  /\ rows' = rows \ {u}
  /\ seen' = seen \cup {u}
  /\ offered' = IF u \in seen THEN offered ELSE offered \cup {u}
  /\ UNCHANGED <<time, stamp, insertion, readsAt, lastPoll, cutoff, polling,
                 polls, pollerStops>>

PollEnds ==
  /\ polling = "emitting" /\ rows = {}
  /\ polling' = "idle"
  /\ UNCHANGED <<time, stamp, insertion, readsAt, lastPoll, cutoff, rows, seen,
                 offered, polls, pollerStops>>

(* 30 seconds later, or evicted: see DedupCache. *)
Forget(u) ==
  /\ u \in seen
  /\ seen' = seen \ {u}
  /\ UNCHANGED <<time, stamp, insertion, readsAt, lastPoll, cutoff, polling,
                 rows, offered, polls, pollerStops>>

(* The process ends and, after any time, another one starts, which looks   *)
(* back one minute.                                                        *)
RestartPoller ==
  /\ pollerStops < MaxPollerStops
  /\ pollerStops' = pollerStops + 1
  /\ polls' = CASE polling = "asking" -> Polled("cut")
                [] polling = "emitting" /\ rows # {} ->
                     [polls EXCEPT ![Len(polls)].how = "cut"]
                [] OTHER -> polls
  /\ polling' = "idle" /\ rows' = {} /\ seen' = {}
  /\ time' = time + 1
  /\ lastPoll' \in 0..(time + 1)
  /\ UNCHANGED <<stamp, insertion, readsAt, cutoff, offered>>

PollerNext ==
  \/ PollStart \/ PollRead \/ PollFails \/ PollEnds \/ RestartPoller
  \/ \E u \in NewUser :
       InsertUser(u) \/ CommitUser(u) \/ PollRow(u) \/ Forget(u)

-----------------------------------------------------------------------------
(***************************************************************************)
(* A new user whose event is never handed to the publisher was missed by   *)
(* the first poll that started after the row was stamped, for one of four  *)
(* reasons (cdcWorker.ts:186-212): that poll failed, was cut short or      *)
(* found more rows than it takes; the row was committed only after that    *)
(* poll had read; or the worker had been down for longer than it looks     *)
(* back.  No later poll looks for such a row.                              *)
(***************************************************************************)
MissedUserIsExplained ==
  \A u \in NewUser :
    insertion[u] = "committed" /\ u \notin offered /\ polling = "idle" =>
      LET due == {i \in DOMAIN polls : polls[i].to > stamp[u]}
      IN due # {} =>
           \E i \in due :
             /\ \A j \in due : i <= j
             /\ \/ polls[i].how \in {"failed", "full", "cut"}
                \/ readsAt[u] >= i
                \/ polls[i].from > stamp[u] /\ pollerStops > 0
=============================================================================
