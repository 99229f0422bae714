--------------------------- MODULE WebhookDelivery --------------------------
(***************************************************************************)
(* The webhook delivery worker (webhookDeliveryWorker.ts, webhookWorker.ts *)
(* and dlqService.ts) on the queue of RabbitConsumer, fed by               *)
(* WebhookPublisher.                                                       *)
(*                                                                         *)
(* Every message is handled by a fiber of its own.  fiber[m] is where that *)
(* fiber stands:                                                           *)
(*   "none"       no fiber: m is not at the worker, or waits in the Effect *)
(*                queue (then place[m] = "unacked")                        *)
(*   "posting"    deliverWebhook runs                                      *)
(*   "succeeded"  a 2xx came back     -> markDelivered -> "recorded"       *)
(*   "refused"    anything else       -> DLQ or markFailed                 *)
(*   "buried"     on the DLQ          -> markFailed    -> "exhausted"      *)
(*   "rescheduled" markFailed done, to be nacked                           *)
(*   "stranded"   dlq.publish failed: the fiber ended, m is not settled    *)
(*   "died"       signing threw: the fiber ended, m is not settled         *)
(***************************************************************************)
EXTENDS WebhookPublisher

CONSTANT MaxAttempts   \* BACKOFF_DELAYS_SECS.length, 5 in the code

ASSUME MaxAttemptsAssumption == MaxAttempts \in Nat /\ MaxAttempts > 2

VARIABLES
  fiber,     \* [Message -> Phase]
  accepted,  \* messages whose POST the subscriber's endpoint processed
  refused,   \* messages one of whose runs failed or was rejected
  dlq        \* messages with a copy on dead.letter.webhook-delivery

workerVars == <<fiber, accepted, refused, dlq>>
vars == <<consumerVars, publisherVars, workerVars>>

Phase == {"none", "posting", "succeeded", "recorded", "refused", "buried",
          "exhausted", "rescheduled", "stranded", "died"}

DeliveryOf(m) == m[1]

TypeOK ==
  /\ ConsumerTypeOK
  /\ PublisherTypeOK
  /\ fiber \in [Message -> Phase]
  /\ accepted \subseteq Message
  /\ refused \subseteq Message
  /\ dlq \subseteq Message

Init ==
  /\ ConsumerInit
  /\ PublisherInit
  /\ fiber = [m \in Message |-> "none"]
  /\ accepted = {} /\ refused = {} /\ dlq = {}

Goto(m, phase) == fiber' = [fiber EXCEPT ![m] = phase]

(* The job schema takes attempt numbers up to MAX_ATTEMPTS. *)
ValidJob(m) == AttemptOf[m] <= MaxAttempts

NextAttempt(m) == AttemptOf[m] + 1

(* Mutant: the comparison is turned around. *)
ExhaustedAlways(m) == NextAttempt(m) <= MaxAttempts

(* No attempt is left: the job goes to the dead-letter queue. *)
Exhausted(m) == NextAttempt(m) >= MaxAttempts

-----------------------------------------------------------------------------
(* The consumer loop: take a message, decode it, fork a fiber.             *)

Waiting(m) == place[m] = "unacked" /\ fiber[m] = "none"

Take(m) ==
  /\ Waiting(m)
  /\ ValidJob(m)
  /\ Goto(m, "posting")
  /\ UNCHANGED <<consumerVars, publisherVars, accepted, refused, dlq>>

RejectInvalid(m) ==
  /\ Waiting(m)
  /\ ~ValidJob(m)
  /\ Nack(m)
  /\ refused' = refused \cup {m}
  /\ UNCHANGED <<publisherVars, fiber, accepted, dlq>>

(* deliverWebhook: the POST.  The endpoint may process it and the answer   *)
(* be lost, or come back as an error; the fiber sees a 2xx or a failure.   *)
(* Before the POST the job is signed, and new Webhook(secret) or sign may  *)
(* throw: that is a defect, matchEffect does not see it and catchCause     *)
(* only logs it, so the fiber is over at whatever attempt this is.         *)
Post(m) ==
  /\ fiber[m] = "posting"
  /\ \/ /\ accepted' = accepted \cup {m}
        /\ Goto(m, "succeeded")
        /\ UNCHANGED refused
     \/ /\ accepted' \in {accepted, accepted \cup {m}}
        /\ Goto(m, "refused")
        /\ refused' = refused \cup {m}
     \/ /\ Goto(m, "died")
        /\ UNCHANGED <<accepted, refused>>
  /\ UNCHANGED <<consumerVars, publisherVars, dlq>>

(* UPDATE webhook_deliveries: nothing happens without the row, and an      *)
(* error is ignored.                                                       *)
UpdateRow(d, status, attempts, next) ==
  \/ /\ row[d].status # "absent"
     /\ row' = [row EXCEPT ![d] =
                  [status |-> status, attempts |-> attempts, next |-> next]]
  \/ UNCHANGED row

(* Mutant: the row is updated before the answer is known. *)
MarkDeliveredEagerly(m) ==
  LET d == DeliveryOf(m) IN
  /\ fiber[m] \in {"posting", "succeeded"}
  /\ UpdateRow(d, "delivered", row[d].attempts, row[d].next)
  /\ fiber' = [fiber EXCEPT ![m] = IF @ = "succeeded" THEN "recorded" ELSE @]
  /\ UNCHANGED <<consumerVars, sub, emitted, emission, calls,
                 accepted, refused, dlq>>

(* Mutant: a successful attempt is counted too. *)
MarkDeliveredCounting(m) ==
  LET d == DeliveryOf(m) IN
  /\ fiber[m] = "succeeded"
  /\ UpdateRow(d, "delivered", row[d].attempts + 1, row[d].next)
  /\ Goto(m, "recorded")
  /\ UNCHANGED <<consumerVars, sub, emitted, emission, calls,
                 accepted, refused, dlq>>

(* markDelivered leaves attempts and next_attempt_at as they are. *)
MarkDelivered(m) ==
  LET d == DeliveryOf(m) IN
  /\ fiber[m] = "succeeded"
  /\ UpdateRow(d, "delivered", row[d].attempts, row[d].next)
  /\ Goto(m, "recorded")
  /\ UNCHANGED <<consumerVars, sub, emitted, emission, calls,
                 accepted, refused, dlq>>

(* dlq.publish: "ok"; or the write buffer is full, the copy goes out yet   *)
(* the call fails; or it throws.  A failure ends the fiber: catchCause     *)
(* logs it and nobody acks or nacks.                                       *)
DeadLetter(m) ==
  /\ fiber[m] = "refused"
  /\ Exhausted(m)
  /\ \/ /\ dlq' = dlq \cup {m}
        /\ Goto(m, "buried")
     \/ /\ dlq' \in {dlq, dlq \cup {m}}
        /\ Goto(m, "stranded")
  /\ UNCHANGED <<consumerVars, publisherVars, accepted, refused>>

(* Mutant: attempts is taken back instead of counted up. *)
MarkFailedDown(m) ==
  LET d == DeliveryOf(m)
      last == NextAttempt(m) >= MaxAttempts - 1
  IN
  /\ \/ fiber[m] = "buried" /\ Goto(m, "exhausted")
     \/ fiber[m] = "refused" /\ ~Exhausted(m) /\ Goto(m, "rescheduled")
  /\ UpdateRow(d, IF last THEN "failed" ELSE "pending",
               row[d].attempts - 1, ~last)
  /\ UNCHANGED <<consumerVars, sub, emitted, emission, calls,
                 accepted, refused, dlq>>

(* Mutant: no return after the success branch, which runs on into the      *)
(* failure branch.                                                         *)
MarkFailedToo(m) ==
  LET d == DeliveryOf(m) IN
  /\ \/ fiber[m] = "buried" /\ Goto(m, "exhausted")
     \/ fiber[m] = "recorded" /\ Goto(m, "rescheduled")
     \/ fiber[m] = "refused" /\ ~Exhausted(m) /\ Goto(m, "rescheduled")
  /\ UpdateRow(d, "pending", row[d].attempts + 1, TRUE)
  /\ UNCHANGED <<consumerVars, sub, emitted, emission, calls,
                 accepted, refused, dlq>>

(* markFailed(id, null, nextAttempt), after the DLQ or before the nack.    *)
(* Its own limit is MAX_ATTEMPTS - 1 and it is given the next attempt.     *)
MarkFailed(m) ==
  LET d == DeliveryOf(m)
      last == NextAttempt(m) >= MaxAttempts - 1
  IN
  /\ \/ fiber[m] = "buried" /\ Goto(m, "exhausted")
     \/ fiber[m] = "refused" /\ ~Exhausted(m) /\ Goto(m, "rescheduled")
  /\ UpdateRow(d, IF last THEN "failed" ELSE "pending",
               row[d].attempts + 1, ~last)
  /\ UNCHANGED <<consumerVars, sub, emitted, emission, calls,
                 accepted, refused, dlq>>

(* Mutant: the job is acked as soon as the POST was made. *)
AckEarly(m) ==
  /\ fiber[m] \in {"posting", "recorded", "exhausted"}
  /\ Ack(m)
  /\ Goto(m, "none")
  /\ UNCHANGED <<publisherVars, accepted, refused, dlq>>

AckHandled(m) ==
  /\ fiber[m] \in {"recorded", "exhausted"}
  /\ Ack(m)
  /\ Goto(m, "none")
  /\ UNCHANGED <<publisherVars, accepted, refused, dlq>>

(* Mutant: the nack is forgotten and the fiber just ends. *)
NackForgotten(m) ==
  /\ fiber[m] = "rescheduled"
  /\ Goto(m, "stranded")
  /\ UNCHANGED <<consumerVars, publisherVars, accepted, refused, dlq>>

NackForRetry(m) ==
  /\ fiber[m] = "rescheduled"
  /\ Nack(m)
  /\ Goto(m, "none")
  /\ UNCHANGED <<publisherVars, accepted, refused, dlq>>

(* The process ends with its connection, and all its fibers with it. *)
LoseConnection ==
  /\ Lose
  /\ fiber' = [m \in Message |-> "none"]
  /\ UNCHANGED <<publisherVars, accepted, refused, dlq>>

WorkerStep(m) ==
  \/ Take(m) \/ RejectInvalid(m) \/ Post(m) \/ MarkDelivered(m)
  \/ DeadLetter(m) \/ MarkFailed(m) \/ AckHandled(m) \/ NackForRetry(m)

Next ==
  \/ PublisherNext /\ UNCHANGED workerVars
  \/ \E m \in Message : Deliver(m) /\ UNCHANGED <<publisherVars, workerVars>>
  \/ \E m \in Message : WorkerStep(m)
  \/ LoseConnection
  \/ Restart /\ UNCHANGED <<publisherVars, workerVars>>

Spec == Init /\ [][Next]_vars

(* The broker pushes, Node's event loop runs every fiber, the supervisor   *)
(* restarts the worker.  Nothing obliges the API to emit, an operator to   *)
(* replay, or the connection to break.                                     *)
Fairness ==
  /\ \A m \in Message :
       /\ WF_vars(Deliver(m) /\ UNCHANGED <<publisherVars, workerVars>>)
       /\ WF_vars(WorkerStep(m))
  /\ WF_vars(Restart /\ UNCHANGED <<publisherVars, workerVars>>)

FairSpec == Spec /\ Fairness

-----------------------------------------------------------------------------
(***************************************************************************)
(* The worker keeps the contract of JobContract: a webhook job is acked    *)
(* only when the endpoint processed a POST of it or it is on the DLQ, and  *)
(* is dropped only after a failed or rejected run, once and for good       *)
(* (processMessage, webhookDeliveryWorker.ts:102-148).                     *)
(***************************************************************************)
JobState(m) ==
  CASE place[m] = "absent"    -> "unsent"
    [] place[m] = "acked"     -> "finished"
    [] place[m] = "discarded" -> "dropped"
    [] OTHER                  -> "pending"

Contract == INSTANCE JobContract WITH
  Job <- Message, state <- [m \in Message |-> JobState(m)],
  done <- accepted, failed <- refused, buried <- dlq

KeepsContract == Contract!Spec

(***************************************************************************)
(* A row that says "delivered" tells the truth: the endpoint processed a   *)
(* POST for this delivery, whatever crashed or was redelivered in between  *)
(* (markDelivered, webhookDeliveryWorker.ts:59-74).                        *)
(***************************************************************************)
DeliveredRowIsTrue ==
  \A d \in Delivery : row[d].status = "delivered" =>
    \E m \in CopiesOf(d) : m \in accepted

(***************************************************************************)
(* The pipeline never gives up on a delivery by itself.  emit writes       *)
(* attempt 0 and no step counts it up, so the limits of processMessage and *)
(* markFailed are reached only by a job that was replayed by hand: it      *)
(* alone gets a row to "failed" and it alone reaches the DLQ               *)
(* (webhookDeliveryWorker.ts:88 and 125).                                  *)
(***************************************************************************)
GivesUpOnlyOnReplays ==
  /\ \A d \in Delivery : row[d].status = "failed" =>
       \E m \in CopiesOf(d) : IsReplay(m) /\ m \in refused
  /\ \A m \in dlq : IsReplay(m)

(***************************************************************************)
(* A delivered row goes back to pending or failed only because the job was *)
(* handled twice: it was redelivered after a lost connection, or a second  *)
(* copy of it was put on the queue (a publish retry or a replay).          *)
(***************************************************************************)
HandledTwice(d) ==
  \/ losses > 0
  \/ \E m, n \in CopiesOf(d) :
       m # n /\ place[m] # "absent" /\ place[n] # "absent"

FlipsOnlyByRerun ==
  [][\A d \in Delivery :
       /\ row[d].status = "delivered"
       /\ row'[d].status \in {"pending", "failed"}
       => HandledTwice(d)]_vars

(***************************************************************************)
(* The attempts column counts failed attempts only and none twice: as long *)
(* as no connection was lost it is at most the number of copies that       *)
(* failed (the sql`attempts + 1` of markFailed).                           *)
(***************************************************************************)
AttemptsCountFailures ==
  losses = 0 =>
    \A d \in Delivery :
      row[d].attempts <= Cardinality(refused \cap CopiesOf(d))

(***************************************************************************)
(* A message on the queue is settled in the end, unless its own fiber was  *)
(* lost, or as many fibers as the prefetch window is wide were: their      *)
(* messages are never acked and block the channel.  A fiber is lost in two *)
(* ways only: signing its job threw, or its job was out of attempts and    *)
(* dlq.publish failed (webhookWorker.ts:36-41,                             *)
(* webhookDeliveryWorker.ts:125-139 and 193-195).                          *)
(***************************************************************************)
Abandoned == {m \in Message :
                \/ fiber[m] = "died"
                \/ fiber[m] = "stranded" /\ Exhausted(m)}

QueuedIsSettled ==
  \A m \in Message :
    place[m] = "ready" ~>
      Settled(m) \/ m \in Abandoned \/ Cardinality(Abandoned) = Prefetch

(***************************************************************************)
(* What webhookDeliveryWorker.ts:10 says of a failed attempt: the row gets *)
(* its next_attempt_at and the message comes back through a dead-letter    *)
(* exchange.  So a pending row with a next attempt has a job that can      *)
(* still make it.                                                          *)
(***************************************************************************)
ScheduledRetryIsQueued ==
  \A d \in Delivery :
    row[d].status = "pending" /\ row[d].next =>
      \E m \in CopiesOf(d) : place[m] \in {"ready", "unacked"}
=============================================================================
