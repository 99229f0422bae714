---------------------------- MODULE ReceiptWorker ---------------------------
(***************************************************************************)
(* The receipt worker (pdfReceiptWorker.ts) on the queue                   *)
(* "receipts.generate": read the payment, make the PDF, upload it to S3,   *)
(* write its key into the payment's metadata.  The row it reads is written *)
(* by the webhooks of Payments meanwhile.                                  *)
(*                                                                         *)
(* Unlike the webhook, search and leaderboard workers this one handles     *)
(* every error of processJob, that of dlq.publish included, in one         *)
(* catchCause that nacks.  A PDF is represented by the status printed on   *)
(* it.                                                                     *)
(***************************************************************************)
EXTENDS RabbitConsumer, Payments

CONSTANTS
  PaymentOf,    \* [Message -> Payment]
  Attempts,     \* attempt numbers found in jobs
  MaxAttempts   \* MAX_ATTEMPTS, 3 in the code

ASSUME PaymentOfAssumption == PaymentOf \in [Message -> Payment]
ASSUME AttemptsAssumption == Attempts \subseteq Nat
ASSUME MaxAttemptsAssumption == MaxAttempts \in Nat \ {0}

VARIABLES
  attempt,   \* [Message -> attempt number in the job]; never changes
  fiber,     \* [Message -> where processJob stands]
  printed,   \* [Message -> status on the PDF to upload, else "none"]
  receipt,   \* [Payment -> status on the PDF in S3, or "none"]
  done,      \* messages a run of which uploaded its PDF
  failed,    \* messages a run of which failed or was rejected
  dlq        \* messages with a copy on dead.letter.pdf-receipt

workerVars == <<attempt, fiber, printed, receipt, done, failed, dlq>>
vars == <<consumerVars, paymentVars, workerVars>>

Phase == {"none", "uploading", "storing", "exhausted", "handled", "refused"}

TypeOK ==
  /\ ConsumerTypeOK
  /\ PaymentTypeOK
  /\ attempt \in [Message -> Attempts]
  /\ fiber \in [Message -> Phase]
  /\ printed \in [Message -> Status \cup {"none"}]
  /\ receipt \in [Payment -> Status \cup {"none"}]
  /\ done \subseteq Message
  /\ failed \subseteq Message
  /\ dlq \subseteq Message

Init ==
  /\ ConsumerInit
  /\ PaymentInit
  /\ attempt \in [Message -> Attempts]
  /\ fiber = [m \in Message |-> "none"]
  /\ printed = [m \in Message |-> "none"]
  /\ receipt = [p \in Payment |-> "none"]
  /\ done = {} /\ failed = {} /\ dlq = {}

Goto(m, phase) == fiber' = [fiber EXCEPT ![m] = phase]

Refuse(m) ==
  /\ Goto(m, "refused")
  /\ failed' = failed \cup {m}

(* External: someone asks for the receipt of a payment that has a row. *)
RequestReceipt(m) ==
  /\ row[PaymentOf[m]].exists
  /\ Enqueue(m)
  /\ UNCHANGED <<up, losses, paymentVars, workerVars>>

(* The job schema takes attempt numbers up to 5. *)
ValidJob(m) == attempt[m] <= 5

(* Mutant: an invalid job is logged and not nacked. *)
RejectForgotten(m) ==
  /\ place[m] = "unacked"
  /\ ~ValidJob(m)
  /\ failed' = failed \cup {m}
  /\ UNCHANGED <<consumerVars, paymentVars, attempt, fiber, printed, receipt,
                 done, dlq>>

RejectInvalid(m) ==
  /\ place[m] = "unacked"
  /\ ~ValidJob(m)
  /\ Nack(m)
  /\ failed' = failed \cup {m}
  /\ UNCHANGED <<paymentVars, attempt, fiber, printed, receipt, done, dlq>>

(* The loop forks processJob, which SELECTs the payment and makes the PDF   *)
(* from what it read.  No row, a database error and a failing PDF all end  *)
(* in a nack.                                                              *)
Fetch(m) ==
  LET p == PaymentOf[m] IN
  /\ place[m] = "unacked" /\ fiber[m] = "none"
  /\ ValidJob(m)
  /\ \/ /\ row[p].exists
        /\ printed' = [printed EXCEPT ![m] = row[p].status]
        /\ Goto(m, "uploading")
        /\ UNCHANGED failed
     \/ Refuse(m) /\ UNCHANGED printed
  /\ UNCHANGED <<consumerVars, paymentVars, attempt, receipt, done, dlq>>

Exhausted(m) == attempt[m] + 1 >= MaxAttempts

(* Mutant: the upload is started and not awaited. *)
UploadDetached(m) ==
  /\ fiber[m] = "uploading"
  /\ receipt' \in {receipt, [receipt EXCEPT ![PaymentOf[m]] = printed[m]]}
  /\ done' = done \cup {m}
  /\ Goto(m, "storing")
  /\ printed' = [printed EXCEPT ![m] = "none"]
  /\ UNCHANGED <<consumerVars, paymentVars, attempt, failed, dlq>>

(* The object may be there although the upload came back as an error. *)
Upload(m) ==
  LET uploaded == [receipt EXCEPT ![PaymentOf[m]] = printed[m]] IN
  /\ fiber[m] = "uploading"
  /\ \/ /\ receipt' = uploaded
        /\ done' = done \cup {m}
        /\ Goto(m, "storing")
        /\ UNCHANGED failed
     \/ /\ receipt' \in {receipt, uploaded}
        /\ failed' = failed \cup {m}
        /\ Goto(m, IF Exhausted(m) THEN "exhausted" ELSE "refused")
        /\ UNCHANGED done
  /\ printed' = [printed EXCEPT ![m] = "none"]
  /\ UNCHANGED <<consumerVars, paymentVars, attempt, dlq>>

DeadLetter(m) ==
  /\ fiber[m] = "exhausted"
  /\ \/ dlq' = dlq \cup {m} /\ Goto(m, "handled")
     \/ dlq' \in {dlq, dlq \cup {m}} /\ Goto(m, "refused")
  /\ UNCHANGED <<consumerVars, paymentVars, attempt, printed, receipt,
                 done, failed>>

(* UPDATE payments SET metadata; an error is ignored. *)
StoreKey(m) ==
  /\ fiber[m] = "storing"
  /\ row' \in {row, [row EXCEPT ![PaymentOf[m]].pdfKey = TRUE]}
  /\ Goto(m, "handled")
  /\ UNCHANGED <<consumerVars, sent, answered, repeats, disorder,
                 attempt, printed, receipt, done, failed, dlq>>

(* Mutant: an exhausted job is acked without waiting for its copy. *)
AckUnburied(m) ==
  /\ fiber[m] \in {"handled", "exhausted"}
  /\ Ack(m)
  /\ Goto(m, "none")
  /\ UNCHANGED <<paymentVars, attempt, printed, receipt, done, failed, dlq>>

AckHandled(m) ==
  /\ fiber[m] = "handled"
  /\ Ack(m)
  /\ Goto(m, "none")
  /\ UNCHANGED <<paymentVars, attempt, printed, receipt, done, failed, dlq>>

NackRefused(m) ==
  /\ fiber[m] = "refused"
  /\ Nack(m)
  /\ Goto(m, "none")
  /\ UNCHANGED <<paymentVars, attempt, printed, receipt, done, failed, dlq>>

LoseConnection ==
  /\ Lose
  /\ fiber' = [m \in Message |-> "none"]
  /\ printed' = [m \in Message |-> "none"]
  /\ UNCHANGED <<paymentVars, attempt, receipt, done, failed, dlq>>

WorkerStep(m) ==
  \/ RejectInvalid(m) \/ Fetch(m) \/ Upload(m) \/ StoreKey(m)
  \/ DeadLetter(m) \/ AckHandled(m) \/ NackRefused(m)

Next ==
  \/ PaymentNext /\ UNCHANGED <<consumerVars, workerVars>>
  \/ \E m \in Message :
       \/ RequestReceipt(m)
       \/ Deliver(m) /\ UNCHANGED <<paymentVars, workerVars>>
       \/ WorkerStep(m)
  \/ LoseConnection
  \/ Restart /\ UNCHANGED <<paymentVars, workerVars>>

Spec == Init /\ [][Next]_vars

Fairness ==
  /\ \A m \in Message :
       /\ WF_vars(Deliver(m) /\ UNCHANGED <<paymentVars, workerVars>>)
       /\ WF_vars(WorkerStep(m))
  /\ WF_vars(Restart /\ UNCHANGED <<paymentVars, workerVars>>)

FairSpec == Spec /\ Fairness

-----------------------------------------------------------------------------
(***************************************************************************)
(* The receipt worker keeps the contract of JobContract: a job is acked    *)
(* only after an upload or with a copy on the DLQ, and dropped only after  *)
(* a failed or rejected run (processJob, pdfReceiptWorker.ts:121-234).     *)
(***************************************************************************)
JobState(m) ==
  CASE place[m] = "absent"    -> "unsent"
    [] place[m] = "acked"     -> "finished"
    [] place[m] = "discarded" -> "dropped"
    [] OTHER                  -> "pending"

Contract == INSTANCE JobContract WITH
  Job <- Message, state <- [m \in Message |-> JobState(m)],
  done <- done, failed <- failed, buried <- dlq

KeepsContract == Contract!Spec

(***************************************************************************)
(* A receipt that says completed or refunded is one of a payment that was  *)
(* captured, and a payment whose metadata has a pdfKey has its PDF in S3,  *)
(* whatever crashes, reruns and reordered events lie between the provider  *)
(* and the bucket (pdfReceiptWorker.ts:176-220).                           *)
(***************************************************************************)
ReceiptIsBacked ==
  \A p \in Payment :
    /\ receipt[p] \in {"completed", "refunded"} => Happened(p, "captured")
    /\ row[p].pdfKey => receipt[p] # "none"

(***************************************************************************)
(* Every job that reaches the queue is settled, without exception: no      *)
(* error ends a fiber of this worker before its nack                       *)
(* (pdfReceiptWorker.ts:227-234).                                          *)
(***************************************************************************)
EveryJobIsSettled ==
  \A m \in Message : place[m] = "ready" ~> Settled(m)
=============================================================================
