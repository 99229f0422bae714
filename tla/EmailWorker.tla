----------------------------- MODULE EmailWorker ----------------------------
(***************************************************************************)
(* The mail worker (emailWorker.ts) on the queue "email.send".  Unlike the *)
(* other workers it handles one message after the other: the loop waits    *)
(* for processJob, and a second message waits in the Effect queue.         *)
(*                                                                         *)
(* A mail may reach Resend although send() fails or its answer is never    *)
(* seen.  send() counts as done when its promise resolves: an error that   *)
(* Resend reports in the resolved value is not looked at.                  *)
(***************************************************************************)
EXTENDS RabbitConsumer

CONSTANTS
  JobAttempts,      \* attempt numbers found in jobs
  MaxMailAttempts   \* MAX_ATTEMPTS, 3 in the code

ASSUME EmailAssumption == JobAttempts \subseteq Nat /\ MaxMailAttempts \in Nat

VARIABLES
  tries,      \* [Message -> attempt number in the job]; never changes
  working,    \* messages the loop is at: none or one
  step,       \* where processJob stands
  mails,      \* [Message -> mails Resend accepted for it]
  mailed,     \* messages a send() of which resolved
  failures,   \* messages a run of which failed, or that were rejected
  buriedMail, \* messages with a copy on dead.letter.email
  announced   \* messages for which email.sent was handed to the publisher

emailVars ==
  <<tries, working, step, mails, mailed, failures, buriedMail, announced>>
mailVars == <<consumerVars, emailVars>>

EmailTypeOK ==
  /\ ConsumerTypeOK
  /\ tries \in [Message -> JobAttempts]
  /\ Cardinality(working) <= 1 /\ working \subseteq Message
  /\ step \in {"take", "sending", "sent", "announcing", "exhausted",
              "buried", "refused"}
  /\ (working = {}) = (step = "take")
  /\ mails \in [Message -> 0..(losses + 1)]
  /\ mailed \subseteq Message /\ failures \subseteq Message
  /\ buriedMail \subseteq Message /\ announced \subseteq mailed

EmailInit ==
  /\ ConsumerInit
  /\ tries \in [Message -> JobAttempts]
  /\ working = {} /\ step = "take"
  /\ mails = [m \in Message |-> 0]
  /\ mailed = {} /\ failures = {} /\ buriedMail = {} /\ announced = {}

-----------------------------------------------------------------------------
ValidMail(m) == tries[m] <= 5

(* Queue.take: the loop is free, and the message is in its queue. *)
Takes(m) == place[m] = "unacked" /\ working = {}

RejectMail(m) ==
  /\ Takes(m)
  /\ ~ValidMail(m)
  /\ Nack(m)
  /\ failures' = failures \cup {m}
  /\ UNCHANGED <<tries, working, step, mails, mailed, buriedMail, announced>>

TakeMail(m) ==
  /\ Takes(m)
  /\ ValidMail(m)
  /\ working' = {m} /\ step' = "sending"
  /\ UNCHANGED <<consumerVars, tries, mails, mailed, failures, buriedMail,
                 announced>>

Finished == working' = {} /\ step' = "take"

(* resendLimiter runs the request at once or later, or refuses it because  *)
(* 50 are waiting.                                                         *)
SendMailJob(m) ==
  /\ m \in working /\ step = "sending"
  /\ mails' \in {mails, [mails EXCEPT ![m] = @ + 1]}
  /\ \/ step' = "sent" /\ mailed' = mailed \cup {m} /\ UNCHANGED failures
     \/ /\ step' = IF tries[m] + 1 >= MaxMailAttempts THEN "exhausted"
                                                      ELSE "refused"
        /\ failures' = failures \cup {m}
        /\ UNCHANGED mailed
  /\ UNCHANGED <<consumerVars, tries, working, buriedMail, announced>>

AckSent(m) ==
  /\ m \in working /\ step = "sent"
  /\ Ack(m)
  /\ step' = "announcing"
  /\ UNCHANGED <<tries, working, mails, mailed, failures, buriedMail,
                 announced>>

(* publisher.emit('email.sent'), which never fails (see WebhookPublisher). *)
Announce(m) ==
  /\ m \in working /\ step = "announcing"
  /\ announced' = announced \cup {m}
  /\ Finished
  /\ UNCHANGED <<consumerVars, tries, mails, mailed, failures, buriedMail>>

(* Mutant: an error of dlq.publish is ignored. *)
BuryIgnored(m) ==
  /\ m \in working /\ step = "exhausted"
  /\ step' = "buried"
  /\ buriedMail' \in {buriedMail, buriedMail \cup {m}}
  /\ UNCHANGED <<consumerVars, tries, working, mails, mailed, failures,
                 announced>>

(* dlq.publish; its error goes to the catch and its nack, although the     *)
(* copy may be there.                                                      *)
BuryMail(m) ==
  /\ m \in working /\ step = "exhausted"
  /\ \/ step' = "buried" /\ buriedMail' = buriedMail \cup {m}
     \/ step' = "refused" /\ buriedMail' \in {buriedMail, buriedMail \cup {m}}
  /\ UNCHANGED <<consumerVars, tries, working, mails, mailed, failures,
                 announced>>

AckBuried(m) ==
  /\ m \in working /\ step = "buried"
  /\ Ack(m)
  /\ Finished
  /\ UNCHANGED <<tries, mails, mailed, failures, buriedMail, announced>>

NackMail(m) ==
  /\ m \in working /\ step = "refused"
  /\ Nack(m)
  /\ Finished
  /\ UNCHANGED <<tries, mails, mailed, failures, buriedMail, announced>>

(* A mail that is on its way may be accepted all the same. *)
LoseMailWorker ==
  /\ Lose
  /\ Finished
  /\ mails' \in {mails} \cup
       {[mails EXCEPT ![m] = @ + 1] : m \in {x \in working : step = "sending"}}
  /\ UNCHANGED <<tries, mailed, failures, buriedMail, announced>>

EmailStep(m) ==
  \/ RejectMail(m) \/ TakeMail(m) \/ SendMailJob(m) \/ AckSent(m)
  \/ Announce(m) \/ BuryMail(m) \/ AckBuried(m) \/ NackMail(m)

EmailNext ==
  \/ \E m \in Message :
       \/ Enqueue(m) /\ UNCHANGED <<up, losses, emailVars>>
       \/ Deliver(m) /\ UNCHANGED emailVars
       \/ EmailStep(m)
  \/ LoseMailWorker
  \/ Restart /\ UNCHANGED emailVars

EmailSpec == EmailInit /\ [][EmailNext]_mailVars

-----------------------------------------------------------------------------
(***************************************************************************)
(* The mail worker keeps the contract of JobContract: a job is acked only  *)
(* after its send() resolved or with a copy on the DLQ, and dropped only   *)
(* after a run that failed or a body that was rejected (emailWorker.ts:47- *)
(* 102).  In particular nothing that goes wrong after the ack of a mail    *)
(* nacks its message.                                                      *)
(***************************************************************************)
MailState(m) ==
  CASE place[m] = "absent"    -> "unsent"
    [] place[m] = "acked"     -> "finished"
    [] place[m] = "discarded" -> "dropped"
    [] OTHER                  -> "pending"

MailContract == INSTANCE JobContract WITH
  Job <- Message, state <- [m \in Message |-> MailState(m)],
  done <- mailed, failed <- failures, buried <- buriedMail

EmailKeepsContract == MailContract!Spec
=============================================================================
