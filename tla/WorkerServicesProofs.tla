------------------------ MODULE WorkerServicesProofs ------------------------
(***************************************************************************)
(* Theorems about the parts of MCServices that are workers: the mail       *)
(* worker, the readiness of a worker, the poller and the change stream.    *)
(* Each part has an inductive invariant of its own, for any values of its  *)
(* constants, which the composition keeps because in a step of it the part *)
(* takes a step of its own or does not move.                               *)
(***************************************************************************)
EXTENDS MCServices, TLAPS, FiniteSetTheorems

(* In every step of the composition each part takes a step of its own or   *)
(* does not move, so an invariant of a part is one of the composition.     *)
LEMMA PartsStep ==
  ASSUME [ServicesNext]_servicesVars
  PROVE  /\ [WatcherNext]_watcherVars /\ [PollerNext]_pollerVars
         /\ [EmailNext]_mailVars /\ [HealthNext]_healthVars
         /\ [FanoutNext]_fanoutVars /\ [FlagNext]_flagVars
         /\ [SearchNext]_searchVars /\ [ScoreNext]_scoreVars
         /\ [ReadsNext]_readsVars /\ [ClientNext]_clientVars
         /\ [BackupNext]_backupVars
<1>1. CASE UNCHANGED servicesVars
  BY <1>1 DEF servicesVars, apiVars, workerVars, toolVars
<1>2. CASE Working
  BY <1>2 DEF Working, apiVars, toolVars
<1>3. CASE Fanning(FanoutNext)
  BY <1>3 DEF Fanning, workerVars, toolVars
<1>4. CASE Answering
  BY <1>4 DEF Answering, workerVars, toolVars
<1>5. CASE Standing
  BY <1>5 DEF Standing, workerVars, apiVars
<1> QED
  BY <1>1, <1>2, <1>3, <1>4, <1>5 DEF ServicesNext

-----------------------------------------------------------------------------
(***************************************************************************)
(* The mail worker handles one message at a time, so its invariant is      *)
(* about that one: the broker counts it as unacked until the ack, and the  *)
(* place in processJob is the evidence of the settlement to come.          *)
(***************************************************************************)
Steps == {"take", "sending", "sent", "announcing", "exhausted", "buried",
          "refused"}

(* The part of EmailTypeOK that the contract rests on. *)
MailTypes ==
  /\ ConsumerTypeOK
  /\ working \subseteq Message /\ step \in Steps
  /\ mailed \subseteq Message /\ failures \subseteq Message
  /\ buriedMail \subseteq Message

(* The loop is at one message, which it holds until it was settled. *)
OneAtATime == \A m, n \in working : m = n
WorksOnHeld ==
  \A m \in working :
    /\ step # "announcing" => place[m] = "unacked"
    /\ step = "announcing" => place[m] = "acked"

(* What each place in processJob rests on. *)
StepEvidence ==
  \A m \in working :
    /\ step \in {"sent", "announcing"} => m \in mailed
    /\ step \in {"exhausted", "buried", "refused"} => m \in failures
    /\ step = "buried" => m \in buriedMail

(* The inductive invariant that the contract rests on. *)
MailInv == MailTypes /\ OneAtATime /\ WorksOnHeld /\ StepEvidence

(* At the start nothing was accepted. *)
LEMMA MailInitInv == EmailInit => MailInv
BY MaxLossesAssumption
   DEF EmailInit, ConsumerInit, MailInv, MailTypes, ConsumerTypeOK, Place, Steps,
       OneAtATime, WorksOnHeld, StepEvidence

(* A new mail job and a delivery keep it. *)
LEMMA QueueKeepsMailInv ==
  ASSUME MailInv, UNCHANGED emailVars,
         \/ UNCHANGED consumerVars
         \/ \E m \in Message :
              (Enqueue(m) /\ UNCHANGED <<up, losses>>) \/ Deliver(m)
         \/ Restart
  PROVE  MailInv'
<1> USE DEF MailInv, MailTypes, ConsumerTypeOK, emailVars
<1>1. /\ ConsumerTypeOK'
      /\ \A n \in Message : place[n] \in {"unacked", "acked"} => place'[n] = place[n]
  BY DEF Enqueue, Deliver, Restart, consumerVars, Place
<1>2. UNCHANGED <<working, step, mailed, failures, buriedMail>>
  OBVIOUS
<1>3. WorksOnHeld'
  BY <1>1, <1>2 DEF WorksOnHeld
<1> QED
  BY <1>1, <1>2, <1>3 DEF OneAtATime, StepEvidence, Steps

(* So do a lost connection and a restart: the loop is at no message then. *)
LEMMA LossKeepsMailInv ==
  ASSUME MailInv, LoseMailWorker
  PROVE  MailInv'
<1> USE DEF MailInv, MailTypes
<1>1. place' \in [Message -> Place] /\ up' \in BOOLEAN
  BY DEF LoseMailWorker, Lose, ConsumerTypeOK, Place
<1>2. losses' \in 0..MaxLosses
  <2>1. losses' = losses + 1 /\ losses < MaxLosses /\ losses \in 0..MaxLosses
    BY DEF LoseMailWorker, Lose, ConsumerTypeOK
  <2> QED
    BY <2>1, MaxLossesAssumption
<1>3. working' = {} /\ step' = "take" /\ UNCHANGED <<mailed, failures, buriedMail>>
  BY DEF LoseMailWorker, Finished
<1> QED
  BY <1>1, <1>2, <1>3
     DEF ConsumerTypeOK, OneAtATime, WorksOnHeld, StepEvidence, Steps

(* So does every await of processJob. *)
LEMMA StepKeepsMailInv ==
  ASSUME MailInv, NEW m \in Message, EmailStep(m)
  PROVE  MailInv'
<1> USE DEF MailInv, MailTypes, ConsumerTypeOK, Place, Steps, OneAtATime,
            WorksOnHeld, StepEvidence
<1>1. CASE RejectMail(m)
  BY <1>1 DEF RejectMail, Takes, Nack
<1>2. CASE TakeMail(m)
  BY <1>2 DEF TakeMail, Takes, consumerVars
<1>3. CASE SendMailJob(m)
  BY <1>3 DEF SendMailJob, consumerVars
<1>4. CASE AckSent(m)
  BY <1>4 DEF AckSent, Ack
<1>5. CASE Announce(m)
  BY <1>5 DEF Announce, Finished, consumerVars
<1>6. CASE BuryMail(m)
  BY <1>6 DEF BuryMail, consumerVars
<1>7. CASE AckBuried(m)
  BY <1>7 DEF AckBuried, Finished, Ack
<1>8. CASE NackMail(m)
  BY <1>8 DEF NackMail, Finished, Nack
<1> QED
  BY <1>1, <1>2, <1>3, <1>4, <1>5, <1>6, <1>7, <1>8 DEF EmailStep

(* The inductive invariant of the mail worker. *)
THEOREM MailInvariant == EmailSpec => []MailInv
<1>1. MailInv /\ [EmailNext]_mailVars => MailInv'
  <2> SUFFICES ASSUME MailInv, [EmailNext]_mailVars PROVE MailInv'
    OBVIOUS
  <2>1. CASE UNCHANGED mailVars
    BY <2>1, QueueKeepsMailInv DEF mailVars
  <2>2. ASSUME NEW m \in Message, EmailStep(m) PROVE MailInv'
    BY <2>2, StepKeepsMailInv
  <2>3. ASSUME NEW m \in Message,
               \/ Enqueue(m) /\ UNCHANGED <<up, losses, emailVars>>
               \/ Deliver(m) /\ UNCHANGED emailVars
        PROVE  MailInv'
    <3>1. UNCHANGED emailVars
      BY <2>3
    <3>2. (Enqueue(m) /\ UNCHANGED <<up, losses>>) \/ Deliver(m)
      BY <2>3
    <3> QED
      BY <3>1, <3>2, QueueKeepsMailInv
  <2>4. CASE LoseMailWorker
    BY <2>4, LossKeepsMailInv
  <2>5. CASE Restart /\ UNCHANGED emailVars
    BY <2>5, QueueKeepsMailInv
  <2> QED
    BY <2>1, <2>2, <2>3, <2>4, <2>5 DEF EmailNext
<1> QED
  BY <1>1, MailInitInv, PTL DEF EmailSpec

-----------------------------------------------------------------------------
(* The mail worker implements JobContract. *)

Jobs == [m \in Message |-> MailState(m)]

(* A job's state follows the place of its message. *)
LEMMA JobFollows ==
  ASSUME NEW m \in Message
  PROVE  /\ place[m] = "absent" => Jobs[m] = "unsent"
         /\ place[m] \in {"ready", "unacked"} => Jobs[m] = "pending"
         /\ place'[m] = "acked" => Jobs'[m] = "finished"
         /\ place'[m] = "discarded" => Jobs'[m] = "dropped"
         /\ place'[m] \in {"ready", "unacked"} => Jobs'[m] = "pending"
BY DEF Jobs, MailState

(* One message moved: one job moved. *)
LEMMA JobMoves ==
  ASSUME NEW m \in Message, \A n \in Message \ {m} : place'[n] = place[n]
  PROVE  Jobs' = [Jobs EXCEPT ![m] = Jobs'[m]]
<1>1. \A n \in Message \ {m} : Jobs'[n] = Jobs[n]
  BY DEF Jobs, MailState
<1> QED
  BY <1>1 DEF Jobs

(* Moving between "ready" and "unacked" moves no job. *)
LEMMA JobsStay ==
  ASSUME \A n \in Message : \/ place'[n] = place[n]
                            \/ {place[n], place'[n]} \subseteq {"ready", "unacked"}
  PROVE  Jobs' = Jobs
<1>1. ASSUME NEW n \in Message PROVE MailState(n)' = MailState(n)
  BY DEF MailState
<1> QED
  BY <1>1 DEF Jobs

(* Initial states map to initial states. *)
LEMMA MailInitRefines == EmailInit => MailContract!Init
BY DEF EmailInit, ConsumerInit, MailContract!Init, MailState

(* A step that moves nothing the contract sees is a stutter. *)
LEMMA StutterRefines ==
  ASSUME Jobs' = Jobs, UNCHANGED <<mailed, failures, buriedMail>>
  PROVE  UNCHANGED MailContract!jobVars
BY DEF MailContract!jobVars, Jobs

(* A new job is a submission. *)
LEMMA EnqueueRefines ==
  ASSUME MailInv, NEW m \in Message, Enqueue(m), UNCHANGED emailVars
  PROVE  MailContract!Next
<1>1. \A n \in Message \ {m} : place'[n] = place[n]
  BY DEF Enqueue, MailInv, MailTypes, ConsumerTypeOK
<1>2. place[m] = "absent" /\ place'[m] = "ready"
  BY DEF Enqueue, MailInv, MailTypes, ConsumerTypeOK
<1>3. Jobs[m] = "unsent" /\ Jobs' = [Jobs EXCEPT ![m] = "pending"]
  BY <1>1, <1>2, JobFollows, JobMoves
<1>4. MailContract!Send(m)
  BY <1>3 DEF MailContract!Send, Jobs, emailVars
<1> QED
  BY <1>4 DEF MailContract!Next

(* Delivery, loss and restart are stutters of the contract. *)
LEMMA ConnectionRefines ==
  ASSUME MailInv,
         \/ \E m \in Message : Deliver(m) /\ UNCHANGED emailVars
         \/ LoseMailWorker
         \/ Restart /\ UNCHANGED emailVars
  PROVE  UNCHANGED MailContract!jobVars
<1>1. UNCHANGED <<mailed, failures, buriedMail>>
  BY DEF LoseMailWorker, emailVars
<1>2. \A n \in Message : \/ place'[n] = place[n]
                         \/ {place[n], place'[n]} \subseteq {"ready", "unacked"}
  BY DEF Deliver, LoseMailWorker, Lose, Restart, MailInv, MailTypes, ConsumerTypeOK
<1> QED
  BY <1>1, <1>2, JobsStay, StutterRefines

(* An ack rests on a resolved send() or a copy on the DLQ, a nack on a     *)
(* failed run: the evidence of the step.                                   *)
LEMMA StepRefines ==
  ASSUME MailInv, NEW m \in Message, EmailStep(m)
  PROVE  [MailContract!Next]_(MailContract!jobVars)
<1> USE DEF MailInv, MailTypes, ConsumerTypeOK
<1>1. CASE UNCHANGED <<place, mailed, failures, buriedMail>>
  BY <1>1, JobsStay, StutterRefines
<1>2. ASSUME place[m] = "unacked", UNCHANGED place
      PROVE  Jobs' = Jobs /\ Jobs[m] = "pending"
  BY <1>2, JobsStay, JobFollows
<1>3. ASSUME place[m] = "unacked", NEW p \in {"acked", "discarded"},
             place' = [place EXCEPT ![m] = p]
      PROVE  /\ Jobs[m] = "pending"
             /\ Jobs' = [Jobs EXCEPT ![m] = IF p = "acked" THEN "finished"
                                                           ELSE "dropped"]
  <2>1. \A n \in Message \ {m} : place'[n] = place[n]
    BY <1>3
  <2>2. place'[m] = p
    BY <1>3
  <2> QED
    BY <1>3, <2>1, <2>2, JobFollows, JobMoves
<1>4. CASE RejectMail(m)
  <2>1. /\ Jobs[m] = "pending" /\ Jobs' = [Jobs EXCEPT ![m] = "dropped"]
    BY <1>3, <1>4 DEF RejectMail, Nack
  <2>2. MailContract!Reject(m)
    BY <1>4, <2>1 DEF RejectMail, MailContract!Reject, Jobs
  <2> QED
    BY <2>2 DEF MailContract!Next
<1>5. CASE SendMailJob(m)
  <2>1. Jobs' = Jobs /\ Jobs[m] = "pending"
    BY <1>2, <1>5 DEF SendMailJob, WorksOnHeld, consumerVars
  <2>2. MailContract!Run(m)
    BY <1>5, <2>1 DEF SendMailJob, MailContract!Run, Jobs
  <2> QED
    BY <2>2 DEF MailContract!Next
<1>6. CASE BuryMail(m)
  <2>1. Jobs' = Jobs /\ Jobs[m] = "pending" /\ m \in failures
    BY <1>2, <1>6 DEF BuryMail, WorksOnHeld, StepEvidence, consumerVars
  <2>2. CASE buriedMail' = buriedMail
    BY <1>6, <2>1, <2>2, StutterRefines DEF BuryMail
  <2>3. CASE buriedMail' = buriedMail \cup {m}
    <3>1. MailContract!Bury(m)
      BY <1>6, <2>1, <2>3 DEF BuryMail, MailContract!Bury, Jobs
    <3> QED
      BY <3>1 DEF MailContract!Next
  <2> QED
    BY <1>6, <2>2, <2>3 DEF BuryMail
<1>7. CASE AckSent(m) \/ AckBuried(m)
  <2>1. /\ Jobs[m] = "pending" /\ Jobs' = [Jobs EXCEPT ![m] = "finished"]
    BY <1>3, <1>7 DEF AckSent, AckBuried, Ack
  <2>2. m \in mailed \cup buriedMail
    BY <1>7 DEF AckSent, AckBuried, StepEvidence
  <2>3. MailContract!Finish(m)
    BY <1>7, <2>1, <2>2 DEF AckSent, AckBuried, MailContract!Finish, Jobs
  <2> QED
    BY <2>3 DEF MailContract!Next
<1>8. CASE NackMail(m)
  <2>1. /\ Jobs[m] = "pending" /\ Jobs' = [Jobs EXCEPT ![m] = "dropped"]
    BY <1>3, <1>8 DEF NackMail, Nack
  <2>2. m \in failures
    BY <1>8 DEF NackMail, StepEvidence
  <2>3. MailContract!Drop(m)
    BY <1>8, <2>1, <2>2 DEF NackMail, MailContract!Drop, Jobs
  <2> QED
    BY <2>3 DEF MailContract!Next
<1> QED
  BY <1>1, <1>4, <1>5, <1>6, <1>7, <1>8
     DEF EmailStep, TakeMail, Announce, consumerVars

(* The mail worker keeps the contract of JobContract for any messages and  *)
(* attempt numbers: no mail's job is acked unsent and unburied, none is    *)
(* dropped without a failure.                                              *)
THEOREM EmailContractKept == EmailSpec => EmailKeepsContract
<1>1. MailInv /\ [EmailNext]_mailVars
        => [MailContract!Next]_(MailContract!jobVars)
  <2> SUFFICES ASSUME MailInv, [EmailNext]_mailVars
               PROVE  [MailContract!Next]_(MailContract!jobVars)
    OBVIOUS
  <2>1. CASE UNCHANGED mailVars
    BY <2>1, JobsStay, StutterRefines DEF mailVars, consumerVars, emailVars
  <2>2. ASSUME NEW m \in Message, Enqueue(m), UNCHANGED emailVars
        PROVE  MailContract!Next
    BY <2>2, EnqueueRefines
  <2>3. ASSUME NEW m \in Message, EmailStep(m)
        PROVE  [MailContract!Next]_(MailContract!jobVars)
    BY <2>3, StepRefines
  <2>4. CASE \/ \E m \in Message : Deliver(m) /\ UNCHANGED emailVars
             \/ LoseMailWorker
             \/ Restart /\ UNCHANGED emailVars
    BY <2>4, ConnectionRefines
  <2> QED
    BY <2>1, <2>2, <2>3, <2>4 DEF EmailNext
<1> QED
  BY <1>1, MailInitRefines, MailInvariant, PTL
     DEF EmailSpec, EmailKeepsContract, MailContract!Spec

-----------------------------------------------------------------------------
(* A mail goes out once per run, and a run starts again only after a loss. *)
MailsAreCounted ==
  \A m \in Message :
    /\ mails[m] <= losses + 1
    /\ IF m \in working THEN step = "sending" => mails[m] <= losses
         ELSE place[m] \in {"absent", "ready", "unacked"} => mails[m] <= losses

(* The type invariant of the mail worker, with what its counters rest on. *)
MailTypeInv ==
  /\ MailInv
  /\ tries \in [Message -> JobAttempts] /\ mails \in [Message -> Nat]
  /\ working = {} <=> step = "take"
  /\ announced \subseteq mailed
  /\ MailsAreCounted

(* At the start no mail was sent. *)
LEMMA MailTypeInitInv == EmailInit => MailTypeInv
BY MailInitInv DEF EmailInit, ConsumerInit, MailTypeInv, MailsAreCounted

(* It implies the module's type invariant. *)
LEMMA MailTypeInvType == MailTypeInv => EmailTypeOK
<1> SUFFICES ASSUME MailTypeInv PROVE EmailTypeOK
  OBVIOUS
<1>1. MailTypes /\ OneAtATime
  BY DEF MailTypeInv, MailInv
<1>2. Cardinality(working) <= 1
  <2>1. CASE working = {}
    BY <2>1, FS_EmptySet
  <2>2. CASE working # {}
    <3>1. PICK m : working = {m}
      BY <1>1, <2>2 DEF OneAtATime
    <3>2. Cardinality({m}) = 1
      BY FS_Singleton
    <3> QED
      BY <3>1, <3>2
  <2> QED
    BY <2>1, <2>2
<1>3. mails \in [Message -> 0..(losses + 1)]
  <2>1. losses \in Nat
    BY <1>1, MaxLossesAssumption DEF MailTypes, ConsumerTypeOK
  <2> QED
    BY <2>1 DEF MailTypeInv, MailsAreCounted
<1>4. (working = {}) = (step = "take")
  BY DEF MailTypeInv
<1> QED
  BY <1>1, <1>2, <1>3, <1>4 DEF MailTypeInv, EmailTypeOK, MailTypes, Steps

(* A new mail job and a delivery keep it. *)
LEMMA QueueKeepsMailTypes ==
  ASSUME MailTypeInv, UNCHANGED emailVars,
         \/ UNCHANGED consumerVars
         \/ \E m \in Message :
              (Enqueue(m) /\ UNCHANGED <<up, losses>>) \/ Deliver(m)
         \/ Restart
  PROVE  MailTypeInv'
<1>1. MailInv'
  BY QueueKeepsMailInv DEF MailTypeInv
<1>2. /\ losses' = losses
      /\ \A n \in Message : place'[n] \in {"absent", "ready", "unacked"} =>
           place[n] \in {"absent", "ready", "unacked"}
  BY DEF MailTypeInv, MailInv, MailTypes, ConsumerTypeOK, Enqueue, Deliver, Restart,
         consumerVars
<1>3. UNCHANGED <<tries, working, step, mails, mailed, announced>>
  BY DEF emailVars
<1>4. MailsAreCounted'
  BY <1>2, <1>3 DEF MailTypeInv, MailsAreCounted
<1> QED
  BY <1>1, <1>3, <1>4 DEF MailTypeInv

(* A lost connection gives every mail one more run. *)
LEMMA LossKeepsMailTypes ==
  ASSUME MailTypeInv, LoseMailWorker
  PROVE  MailTypeInv'
<1>1. MailInv'
  BY LossKeepsMailInv DEF MailTypeInv
<1>2. /\ losses \in Nat /\ losses' = losses + 1 /\ working' = {} /\ step' = "take"
      /\ UNCHANGED <<tries, mailed, announced>> /\ mails \in [Message -> Nat]
  BY MaxLossesAssumption
     DEF LoseMailWorker, Lose, Finished, MailTypeInv, MailInv, MailTypes,
         ConsumerTypeOK
<1>3. \/ mails' = mails
      \/ \E m \in working : step = "sending" /\ mails' = [mails EXCEPT ![m] = @ + 1]
  BY DEF LoseMailWorker
<1>4. \A n \in Message : mails'[n] \in Nat /\ mails'[n] <= losses'
  <2>1. \A n \in Message : /\ mails[n] \in Nat /\ mails[n] <= losses + 1
                           /\ n \in working /\ step = "sending" => mails[n] <= losses
    BY <1>2 DEF MailTypeInv, MailsAreCounted
  <2> QED
    BY <1>2, <1>3, <2>1
<1>5. mails' \in [Message -> Nat]
  BY <1>2, <1>3, <1>4
<1>6. MailsAreCounted'
  BY <1>2, <1>4 DEF MailsAreCounted
<1> QED
  BY <1>1, <1>2, <1>5, <1>6 DEF MailTypeInv

(* A run sends its mail once. *)
LEMMA StepKeepsMailTypes ==
  ASSUME MailTypeInv, NEW m \in Message, EmailStep(m)
  PROVE  MailTypeInv'
<1>1. MailInv'
  BY StepKeepsMailInv DEF MailTypeInv
<1>2. /\ losses \in Nat /\ place \in [Message -> Place] /\ mails \in [Message -> Nat]
      /\ \A n \in Message : n \in working => n = m \/ m \notin working
  BY MaxLossesAssumption
     DEF MailTypeInv, MailInv, MailTypes, ConsumerTypeOK, OneAtATime
<1>3. /\ losses' = losses /\ tries' = tries
      /\ working' = {} <=> step' = "take"
      /\ announced' \subseteq mailed'
  BY DEF MailTypeInv, MailInv, StepEvidence, EmailStep, RejectMail, TakeMail,
         SendMailJob, AckSent, Announce, BuryMail, AckBuried, NackMail, Finished,
         Takes, Ack, Nack, consumerVars
<1>4. \/ mails' = mails
      \/ SendMailJob(m) /\ mails' = [mails EXCEPT ![m] = @ + 1]
  BY DEF EmailStep, RejectMail, TakeMail, SendMailJob, AckSent, Announce,
         BuryMail, AckBuried, NackMail
<1>5. mails' \in [Message -> Nat]
  BY <1>2, <1>4
<1>6. ASSUME NEW n \in Message
      PROVE  /\ mails'[n] <= losses' + 1
             /\ IF n \in working' THEN step' = "sending" => mails'[n] <= losses'
                  ELSE place'[n] \in {"absent", "ready", "unacked"} => mails'[n] <= losses'
  <2>1. /\ mails[n] \in Nat /\ mails[n] <= losses + 1
        /\ IF n \in working THEN step = "sending" => mails[n] <= losses
             ELSE place[n] \in {"absent", "ready", "unacked"} => mails[n] <= losses
    BY <1>2 DEF MailTypeInv, MailsAreCounted
  <2>2. CASE SendMailJob(m)
    <3>1. m \in working /\ step = "sending" /\ step' # "sending"
          /\ working' = working /\ place' = place
      BY <2>2 DEF SendMailJob, consumerVars
    <3>2. n # m => mails'[n] = mails[n] /\ n \notin working
      BY <1>2, <1>4, <3>1
    <3>3. n = m => mails'[n] <= losses + 1
      BY <1>2, <1>4, <2>1, <3>1
    <3> QED
      BY <1>3, <2>1, <3>1, <3>2, <3>3
  <2>3. CASE mails' = mails /\ ~SendMailJob(m)
    <3>1. place'[n] = place[n] \/ (n = m /\ place'[n] \in {"acked", "discarded"})
      BY <2>3, <1>2 DEF EmailStep, RejectMail, TakeMail, AckSent, Announce, BuryMail,
            AckBuried, NackMail, Ack, Nack, consumerVars, Place
    <3>2. \/ working' = working /\ (step' = "sending" => step = "sending")
          \/ working' = {m} /\ working = {} /\ place[m] = "unacked"
          \/ working' = {} /\ n \in working /\ n = m
          \/ working' = {} /\ n \notin working
      BY <2>3, <1>2 DEF EmailStep, RejectMail, TakeMail, AckSent, Announce, BuryMail,
            AckBuried, NackMail, Takes, Finished
    <3>3. working' = {} /\ m \in working => place'[m] \in {"acked", "discarded"}
      BY <2>3, <1>2 DEF MailTypeInv, MailInv, WorksOnHeld, EmailStep, RejectMail,
            TakeMail, AckSent, Announce, BuryMail, AckBuried, NackMail, Takes,
            Finished, Ack, Nack, consumerVars
    <3> QED
      BY <1>3, <2>1, <2>3, <3>1, <3>2, <3>3
  <2> QED
    BY <1>4, <2>2, <2>3
<1>7. MailsAreCounted'
  BY <1>6 DEF MailsAreCounted
<1> QED
  BY <1>1, <1>3, <1>5, <1>7 DEF MailTypeInv

(* MailTypeInv is inductive. *)
LEMMA MailTypeStepInv ==
  ASSUME MailTypeInv, [EmailNext]_mailVars
  PROVE  MailTypeInv'
<1>1. CASE UNCHANGED mailVars
  BY <1>1, QueueKeepsMailTypes DEF mailVars
<1>2. ASSUME NEW m \in Message, EmailStep(m) PROVE MailTypeInv'
  BY <1>2, StepKeepsMailTypes
<1>3. ASSUME NEW m \in Message,
             \/ Enqueue(m) /\ UNCHANGED <<up, losses, emailVars>>
             \/ Deliver(m) /\ UNCHANGED emailVars
      PROVE  MailTypeInv'
  <2>1. UNCHANGED emailVars
    BY <1>3
  <2>2. (Enqueue(m) /\ UNCHANGED <<up, losses>>) \/ Deliver(m)
    BY <1>3
  <2> QED
    BY <2>1, <2>2, QueueKeepsMailTypes
<1>4. CASE LoseMailWorker
  BY <1>4, LossKeepsMailTypes
<1>5. CASE Restart /\ UNCHANGED emailVars
  BY <1>5, QueueKeepsMailTypes
<1> QED
  BY <1>1, <1>2, <1>3, <1>4, <1>5 DEF EmailNext

-----------------------------------------------------------------------------
(* Worker health.  Who answers ready is a running process with a server;   *)
(* a CDC worker that closes has stopped answering.                         *)
HealthInv ==
  /\ HealthTypeOK /\ ReadyIsExplained
  /\ process = "off" => probes = "closed" /\ ~isReady
  /\ isReady /\ kind = "queue" => source # "none"
  /\ process = "closing" /\ kind = "cdc" => ~isReady

(* At the start no worker runs. *)
LEMMA HealthInitInv == HealthInit => HealthInv
<1>1. 0 \in 0..MaxStarts
  BY HealthAssumption
<1> QED
  BY <1>1 DEF HealthInit, HealthInv, HealthTypeOK, ReadyIsExplained, AnswersReady

(* HealthInv is inductive. *)
LEMMA HealthStepInv ==
  ASSUME HealthInv, [HealthNext]_healthVars
  PROVE  HealthInv'
<1> USE DEF HealthInv, HealthTypeOK, ReadyIsExplained, AnswersReady
<1>1. CASE StartWorker
  <2>1. starts + 1 \in 0..MaxStarts
    BY <1>1, HealthAssumption DEF StartWorker
  <2> QED
    BY <1>1, <2>1 DEF StartWorker
<1>2. CASE Listen
  BY <1>2 DEF Listen
<1>3. CASE OpenSource
  BY <1>3 DEF OpenSource
<1>4. CASE SetReady
  BY <1>4 DEF SetReady
<1>5. CASE LoseSource
  BY <1>5 DEF LoseSource
<1>6. CASE CloseWithGrace
  BY <1>6 DEF CloseWithGrace
<1>7. CASE ExitWorker
  BY <1>7 DEF ExitWorker
<1>8. CASE UNCHANGED healthVars
  BY <1>8 DEF healthVars
<1> QED
  BY <1>1, <1>2, <1>3, <1>4, <1>5, <1>6, <1>7, <1>8 DEF HealthNext

-----------------------------------------------------------------------------
(***************************************************************************)
(* The poller.  FirstDue(u, i): the i-th poll is the first that started    *)
(* after the row of u was stamped.                                         *)
(***************************************************************************)
FirstDue(u, i) ==
  /\ i \in DOMAIN polls /\ polls[i].to > stamp[u]
  /\ \A j \in DOMAIN polls : j < i => polls[j].to <= stamp[u]

(* Where the last recorded poll started. *)
LastTo == IF polls = <<>> THEN 0 ELSE polls[Len(polls)].to

(* Until a restart, a poll looks back to the start of the one before it. *)
PollsJoin ==
  pollerStops = 0 => (IF polling = "asking" THEN cutoff ELSE lastPoll) = LastTo

(* Polls are recorded in order, and none lies in the future. *)
PollsArePast ==
  /\ lastPoll <= time /\ cutoff <= time /\ time <= MaxPolls + pollerStops
  /\ \A i \in DOMAIN polls : polls[i].to <= time
  /\ Len(polls) <= time /\ Len(polls) <= MaxPolls
  /\ polling = "asking" => Len(polls) < time /\ Len(polls) < MaxPolls
  /\ polling = "emitting" => polls # <<>>

(* What the first poll that is due for u has done, or still does, with u. *)
DuePollTells ==
  \A u \in NewUser, i \in DOMAIN polls :
    insertion[u] = "committed" /\ u \notin offered /\ FirstDue(u, i) =>
      \/ polls[i].how \in {"failed", "full", "cut"}
      \/ readsAt[u] >= i
      \/ polls[i].from > stamp[u] /\ pollerStops > 0
      \/ polling = "emitting" /\ u \in rows /\ i = Len(polls)

(* If any poll is due for a user, one of them is the first. *)
OneIsFirst ==
  \A u \in NewUser :
    (\E i \in DOMAIN polls : polls[i].to > stamp[u]) =>
       \E i \in DOMAIN polls : FirstDue(u, i)

(* The inductive invariant of the poller. *)
PollerInv ==
  /\ PollerTypeOK /\ polls \in Seq(PollRecord) /\ seen \subseteq offered
  /\ PollsJoin /\ PollsArePast /\ DuePollTells /\ OneIsFirst

(* At the start no poll was made. *)
LEMMA PollerInitInv == PollerInit => PollerInv
<1> SUFFICES ASSUME PollerInit PROVE PollerInv
  OBVIOUS
<1>1. 0 \in Time /\ 0 \in 0..MaxPolls /\ 0 \in 0..MaxPollerStops
  BY PollerAssumption DEF Time
<1>2. polls = <<>> /\ polls \in Seq(PollRecord) /\ DOMAIN polls = {} /\ Len(polls) = 0
  BY DEF PollerInit
<1>3. PollerTypeOK
  BY <1>1, <1>2 DEF PollerInit, PollerTypeOK
<1>4. PollsJoin /\ PollsArePast
  BY <1>1, <1>2, PollerAssumption DEF PollerInit, PollsJoin, LastTo, PollsArePast
<1>5. DuePollTells /\ OneIsFirst
  BY <1>2 DEF DuePollTells, OneIsFirst
<1> QED
  BY <1>2, <1>3, <1>4, <1>5 DEF PollerInit, PollerInv

(* A poll that is recorded is the last one; the others stay as they were. *)
LEMMA PollRecorded ==
  ASSUME PollerInv, NEW how \in {"read", "full", "failed", "cut"},
         polls' = Polled(how), polling = "asking",
         stamp' = stamp
  PROVE  /\ polls' \in Seq(PollRecord) /\ Len(polls') = Len(polls) + 1
         /\ DOMAIN polls' = 1..(Len(polls) + 1) /\ DOMAIN polls = 1..Len(polls)
         /\ Len(polls) \in Nat
         /\ \A i \in DOMAIN polls : polls'[i] = polls[i]
         /\ polls'[Len(polls) + 1] = [from |-> cutoff, to |-> lastPoll, how |-> how]
         /\ \A i \in DOMAIN polls' : polls'[i] \in PollRecord /\ polls'[i].to <= time
         /\ Len(polls') <= time /\ Len(polls') <= MaxPolls
         /\ OneIsFirst'
         /\ \A u, i : FirstDue(u, i)' => FirstDue(u, i) \/ i = Len(polls) + 1
<1> DEFINE r == [from |-> cutoff, to |-> lastPoll, how |-> how]
<1>1. r \in PollRecord
  BY DEF PollerInv, PollerTypeOK, PollRecord
<1>2. polls' = Append(polls, r) /\ polls \in Seq(PollRecord)
  BY DEF Polled, PollerInv
<1>3. /\ polls' \in Seq(PollRecord) /\ Len(polls') = Len(polls) + 1
      /\ DOMAIN polls' = 1..(Len(polls) + 1) /\ DOMAIN polls = 1..Len(polls)
      /\ Len(polls) \in Nat
      /\ \A i \in DOMAIN polls : polls'[i] = polls[i]
      /\ polls'[Len(polls) + 1] = r
  BY <1>1, <1>2
<1>4. Len(polls') <= time /\ Len(polls') <= MaxPolls /\ time \in Nat
  BY <1>3, PollerAssumption DEF PollerInv, PollsArePast, PollerTypeOK, Time
<1>5. \A i \in DOMAIN polls' : polls'[i] \in PollRecord /\ polls'[i].to <= time
  <2>1. \A i \in DOMAIN polls : polls[i] \in PollRecord /\ polls[i].to <= time
    BY DEF PollerInv, PollerTypeOK, PollsArePast
  <2>2. r.to <= time
    BY DEF PollerInv, PollsArePast
  <2>3. \A i \in DOMAIN polls' : i \in DOMAIN polls \/ i = Len(polls) + 1
    BY <1>3
  <2> QED
    BY <1>1, <1>3, <2>1, <2>2, <2>3
<1>6. \A u, i : FirstDue(u, i)' => FirstDue(u, i) \/ i = Len(polls) + 1
  <2> SUFFICES ASSUME NEW u, NEW i, FirstDue(u, i)', i # Len(polls) + 1
               PROVE  FirstDue(u, i)
    OBVIOUS
  <2>1. i \in DOMAIN polls
    BY <1>3 DEF FirstDue
  <2>2. \A j \in DOMAIN polls : j \in DOMAIN polls'
    BY <1>3
  <2> QED
    BY <2>1, <2>2, <1>3 DEF FirstDue
<1>7. OneIsFirst'
  <2> SUFFICES ASSUME NEW u \in NewUser,
                      \E i \in DOMAIN polls' : polls'[i].to > stamp[u]
               PROVE  \E i \in DOMAIN polls' : FirstDue(u, i)'
    BY DEF OneIsFirst
  <2>t. /\ stamp[u] \in Nat
        /\ \A i \in DOMAIN polls' : polls'[i].to \in Nat
    BY <1>5 DEF PollerInv, PollerTypeOK, PollRecord, Time
  <2>1. CASE \E i \in DOMAIN polls : polls[i].to > stamp[u]
    <3>1. PICK i \in DOMAIN polls : FirstDue(u, i)
      BY <2>1 DEF PollerInv, OneIsFirst
    <3>2. \A j \in DOMAIN polls' : j < i => j \in DOMAIN polls
      BY <1>3
    <3> QED
      BY <3>1, <3>2, <1>3 DEF FirstDue
  <2>2. CASE ~ \E i \in DOMAIN polls : polls[i].to > stamp[u]
    <3>1. \A i \in DOMAIN polls : polls'[i].to <= stamp[u]
      BY <2>2, <2>t, <1>3
    <3>2. \A i \in DOMAIN polls' : i \in DOMAIN polls \/ i = Len(polls) + 1
      BY <1>3
    <3>3. PICK last \in DOMAIN polls' : last = Len(polls) + 1
      BY <1>3
    <3>4. polls'[last].to > stamp[u]
      BY <3>1, <3>2, <3>3, <2>t, <1>3
    <3>5. \A j \in DOMAIN polls' : j < last => polls'[j].to <= stamp[u]
      BY <3>1, <3>3, <1>3
    <3>6. FirstDue(u, last)'
      BY <3>4, <3>5 DEF FirstDue
    <3> QED
      BY <3>6
  <2> QED
    BY <2>1, <2>2
<1> QED
  BY <1>3, <1>4, <1>5, <1>6, <1>7

(* PollerInv is inductive. *)
LEMMA PollerStepInv ==
  ASSUME PollerInv, [PollerNext]_pollerVars
  PROVE  PollerInv'
<1>t. /\ time \in Nat /\ lastPoll \in Nat /\ cutoff \in Nat /\ pollerStops \in Nat
      /\ Len(polls) \in Nat /\ polls \in Seq(PollRecord)
      /\ DOMAIN polls = 1..Len(polls)
      /\ \A u \in NewUser : stamp[u] \in Nat /\ readsAt[u] \in Nat
      /\ \A i \in DOMAIN polls :
           polls[i] \in PollRecord /\ polls[i].to \in Nat /\ polls[i].from \in Nat
  BY PollerAssumption DEF PollerInv, PollerTypeOK, PollRecord, Time
<1>1. ASSUME NEW u \in NewUser, InsertUser(u) PROVE PollerInv'
  <2>1. /\ insertion' = [insertion EXCEPT ![u] = "running"]
        /\ stamp' = [stamp EXCEPT ![u] = time]
        /\ UNCHANGED <<time, readsAt, lastPoll, cutoff, polling, rows, seen,
                       offered, polls, pollerStops>>
    BY <1>1 DEF InsertUser
  <2>2. /\ insertion'[u] = "running" /\ stamp'[u] = time
        /\ \A w \in NewUser \ {u} : insertion'[w] = insertion[w] /\ stamp'[w] = stamp[w]
    BY <2>1 DEF PollerInv, PollerTypeOK
  <2>3. PollerTypeOK' /\ PollsJoin' /\ PollsArePast'
    BY <2>1 DEF PollerInv, PollerTypeOK, PollsJoin, LastTo, PollsArePast
  <2>4. \A w, i : w \in NewUser \ {u} => (FirstDue(w, i)' <=> FirstDue(w, i))
    BY <2>1, <2>2 DEF FirstDue
  <2>5. DuePollTells'
    BY <2>1, <2>2, <2>4 DEF PollerInv, DuePollTells
  <2>6. OneIsFirst'
    <3>1. \A i \in DOMAIN polls : ~(polls'[i].to > stamp'[u])
      BY <2>1, <2>2, <1>t DEF PollerInv, PollsArePast
    <3> QED
      BY <2>1, <2>2, <2>4, <3>1 DEF PollerInv, OneIsFirst
  <2> QED
    BY <2>1, <2>3, <2>5, <2>6 DEF PollerInv
<1>2. ASSUME NEW u \in NewUser, CommitUser(u) PROVE PollerInv'
  <2>1. /\ insertion' = [insertion EXCEPT ![u] = "committed"]
        /\ readsAt' = [readsAt EXCEPT ![u] = Len(polls)]
        /\ UNCHANGED <<time, stamp, lastPoll, cutoff, polling, rows, seen,
                       offered, polls, pollerStops>>
    BY <1>2 DEF CommitUser
  <2>2. /\ readsAt'[u] = Len(polls)
        /\ \A w \in NewUser \ {u} : insertion'[w] = insertion[w] /\ readsAt'[w] = readsAt[w]
    BY <2>1 DEF PollerInv, PollerTypeOK
  <2>3. Len(polls) \in 0..MaxPolls
    BY <1>t, PollerAssumption DEF PollerInv, PollsArePast
  <2>4. PollerTypeOK' /\ PollsJoin' /\ PollsArePast' /\ OneIsFirst'
    BY <2>1, <2>3 DEF PollerInv, PollerTypeOK, PollsJoin, LastTo, PollsArePast,
                      OneIsFirst, FirstDue
  <2>5. \A w, i : FirstDue(w, i)' <=> FirstDue(w, i)
    BY <2>1 DEF FirstDue
  <2>6. \A i \in DOMAIN polls : readsAt'[u] >= i
    BY <2>2, <1>t
  <2>7. DuePollTells'
    BY <2>1, <2>2, <2>5, <2>6 DEF PollerInv, DuePollTells
  <2> QED
    BY <2>1, <2>4, <2>7 DEF PollerInv
<1>3. CASE PollStart
  <2>1. /\ polling = "idle" /\ time < MaxPolls
        /\ polling' = "asking" /\ time' = time + 1 /\ lastPoll' = time + 1
        /\ cutoff' = lastPoll
        /\ UNCHANGED <<stamp, insertion, readsAt, rows, seen, offered, polls,
                       pollerStops>>
    BY <1>3 DEF PollStart, MayPoll
  <2>2. PollerTypeOK'
    <3>1. time + 1 \in Time
      BY <2>1, <1>t, PollerAssumption DEF Time
    <3> QED
      BY <2>1, <3>1 DEF PollerInv, PollerTypeOK
  <2>3. PollsJoin'
    BY <2>1 DEF PollerInv, PollsJoin, LastTo
  <2>4. PollsArePast'
    BY <2>1, <1>t, PollerAssumption DEF PollerInv, PollsArePast
  <2>5. \A w, i : FirstDue(w, i)' <=> FirstDue(w, i)
    BY <2>1 DEF FirstDue
  <2>6. DuePollTells' /\ OneIsFirst'
    BY <2>1, <2>5 DEF PollerInv, DuePollTells, OneIsFirst
  <2> QED
    BY <2>1, <2>2, <2>3, <2>4, <2>6 DEF PollerInv
<1>4. CASE PollRead
  <2> DEFINE newer == {u \in NewUser : insertion[u] = "committed" /\ stamp[u] >= cutoff}
  <2>1. /\ polling = "asking" /\ polling' = "emitting"
        /\ UNCHANGED <<time, stamp, insertion, readsAt, lastPoll, cutoff, seen,
                       offered, pollerStops>>
    BY <1>4 DEF PollRead
  <2>2. PICK how \in {"read", "full"} :
          /\ polls' = Polled(how) /\ rows' \subseteq newer
          /\ how = "read" => rows' = newer
    BY <1>4 DEF PollRead
  <2> HIDE DEF newer
  <2>3. /\ polls' \in Seq(PollRecord) /\ Len(polls') = Len(polls) + 1
        /\ DOMAIN polls' = 1..(Len(polls) + 1)
        /\ \A i \in DOMAIN polls : polls'[i] = polls[i]
        /\ polls'[Len(polls) + 1] = [from |-> cutoff, to |-> lastPoll, how |-> how]
        /\ \A i \in DOMAIN polls' : polls'[i] \in PollRecord /\ polls'[i].to <= time
        /\ Len(polls') <= time /\ Len(polls') <= MaxPolls
        /\ OneIsFirst'
        /\ \A u, i : FirstDue(u, i)' => FirstDue(u, i) \/ i = Len(polls) + 1
    BY <2>1, <2>2, PollRecorded
  <2>4. PollerTypeOK'
    BY <2>1, <2>2, <2>3 DEF PollerInv, PollerTypeOK, newer
  <2>5. polls' # <<>>
    BY <2>3, <1>t
  <2>6. PollsJoin' /\ PollsArePast'
    BY <2>1, <2>3, <2>5 DEF PollerInv, PollsJoin, LastTo, PollsArePast
  <2>7. DuePollTells'
    <3> SUFFICES ASSUME NEW u \in NewUser, NEW i \in DOMAIN polls',
                        insertion'[u] = "committed", u \notin offered',
                        FirstDue(u, i)'
                 PROVE  \/ polls'[i].how \in {"failed", "full", "cut"}
                        \/ readsAt'[u] >= i
                        \/ polls'[i].from > stamp'[u] /\ pollerStops' > 0
                        \/ polling' = "emitting" /\ u \in rows' /\ i = Len(polls')
      BY DEF DuePollTells
    <3>1. CASE FirstDue(u, i) /\ i # Len(polls) + 1
      <4>1. i \in DOMAIN polls /\ polls'[i] = polls[i]
        BY <3>1, <2>3 DEF FirstDue
      <4> QED
        BY <3>1, <4>1, <2>1 DEF PollerInv, DuePollTells
    <3>2. CASE i = Len(polls) + 1
      <4>1. CASE u \in newer
        BY <4>1, <3>2, <2>1, <2>2, <2>3
      <4>2. CASE u \notin newer
        <5>1. cutoff > stamp[u]
          BY <4>2, <2>1, <1>t DEF newer
        <5>2. CASE pollerStops > 0
          BY <5>1, <5>2, <3>2, <2>1, <2>3
        <5>3. CASE ~(pollerStops > 0)
          <6>1. cutoff = LastTo
            BY <5>3, <2>1, <1>t DEF PollerInv, PollsJoin
          <6>2. polls # <<>>
            BY <5>1, <6>1, <1>t DEF LastTo
          <6>3. Len(polls) \in DOMAIN polls /\ Len(polls) < Len(polls) + 1
            BY <6>2, <1>t
          <6>4. polls'[Len(polls)].to = cutoff /\ Len(polls) \in DOMAIN polls'
            BY <6>1, <6>2, <6>3, <2>3, <1>t DEF LastTo
          <6>5. polls'[Len(polls)].to <= stamp[u]
            BY <3>2, <6>3, <6>4, <2>1 DEF FirstDue
          <6> QED
            BY <5>1, <6>4, <6>5, <1>t
        <5> QED
          BY <5>2, <5>3
      <4> QED
        BY <4>1, <4>2
    <3> QED
      BY <3>1, <3>2, <2>3
  <2> QED
    BY <2>1, <2>3, <2>4, <2>6, <2>7 DEF PollerInv
<1>5. CASE PollFails
  <2>1. /\ polling = "asking" /\ polling' = "idle" /\ polls' = Polled("failed")
        /\ UNCHANGED <<time, stamp, insertion, readsAt, lastPoll, cutoff, rows,
                       seen, offered, pollerStops>>
    BY <1>5 DEF PollFails
  <2>2. /\ polls' \in Seq(PollRecord) /\ Len(polls') = Len(polls) + 1
        /\ \A i \in DOMAIN polls : polls'[i] = polls[i]
        /\ polls'[Len(polls) + 1] = [from |-> cutoff, to |-> lastPoll, how |-> "failed"]
        /\ \A i \in DOMAIN polls' : polls'[i] \in PollRecord /\ polls'[i].to <= time
        /\ Len(polls') <= time /\ Len(polls') <= MaxPolls
        /\ OneIsFirst'
        /\ \A u, i : FirstDue(u, i)' => FirstDue(u, i) \/ i = Len(polls) + 1
    BY <2>1, PollRecorded
  <2>3. PollerTypeOK'
    BY <2>1, <2>2 DEF PollerInv, PollerTypeOK
  <2>4. polls' # <<>>
    BY <2>2, <1>t
  <2>5. PollsJoin' /\ PollsArePast'
    BY <2>1, <2>2, <2>4 DEF PollerInv, PollsJoin, LastTo, PollsArePast
  <2>6. DuePollTells'
    <3>1. \A u, i : FirstDue(u, i) => i \in DOMAIN polls
      BY DEF FirstDue
    <3> QED
      BY <3>1, <2>1, <2>2 DEF PollerInv, DuePollTells
  <2> QED
    BY <2>1, <2>2, <2>3, <2>5, <2>6 DEF PollerInv
<1>6. ASSUME NEW u \in NewUser, PollRow(u) PROVE PollerInv'
  <2>1. /\ polling = "emitting" /\ u \in rows /\ rows' = rows \ {u}
        /\ seen' = seen \cup {u} /\ offered' = offered \cup {u}
        /\ UNCHANGED <<time, stamp, insertion, readsAt, lastPoll, cutoff,
                       polling, polls, pollerStops>>
    BY <1>6 DEF PollRow, PollerInv
  <2>2. PollerTypeOK' /\ PollsJoin' /\ PollsArePast'
    BY <2>1 DEF PollerInv, PollerTypeOK, PollsJoin, LastTo, PollsArePast
  <2>3. \A w, i : FirstDue(w, i)' <=> FirstDue(w, i)
    BY <2>1 DEF FirstDue
  <2>4. DuePollTells' /\ OneIsFirst'
    BY <2>1, <2>3 DEF PollerInv, DuePollTells, OneIsFirst
  <2> QED
    BY <2>1, <2>2, <2>4 DEF PollerInv
<1>7. CASE PollEnds
  <2>1. /\ polling = "emitting" /\ rows = {} /\ polling' = "idle"
        /\ UNCHANGED <<time, stamp, insertion, readsAt, lastPoll, cutoff, rows,
                       seen, offered, polls, pollerStops>>
    BY <1>7 DEF PollEnds
  <2>2. PollerTypeOK' /\ PollsJoin' /\ PollsArePast'
    BY <2>1 DEF PollerInv, PollerTypeOK, PollsJoin, LastTo, PollsArePast
  <2>3. \A w, i : FirstDue(w, i)' <=> FirstDue(w, i)
    BY <2>1 DEF FirstDue
  <2>4. DuePollTells' /\ OneIsFirst'
    BY <2>1, <2>3 DEF PollerInv, DuePollTells, OneIsFirst
  <2> QED
    BY <2>1, <2>2, <2>4 DEF PollerInv
<1>8. ASSUME NEW u \in NewUser, Forget(u) PROVE PollerInv'
  <2>1. /\ seen' = seen \ {u}
        /\ UNCHANGED <<time, stamp, insertion, readsAt, lastPoll, cutoff,
                       polling, rows, offered, polls, pollerStops>>
    BY <1>8 DEF Forget
  <2>2. PollerTypeOK' /\ PollsJoin' /\ PollsArePast'
    BY <2>1 DEF PollerInv, PollerTypeOK, PollsJoin, LastTo, PollsArePast
  <2>3. \A w, i : FirstDue(w, i)' <=> FirstDue(w, i)
    BY <2>1 DEF FirstDue
  <2>4. DuePollTells' /\ OneIsFirst'
    BY <2>1, <2>3 DEF PollerInv, DuePollTells, OneIsFirst
  <2> QED
    BY <2>1, <2>2, <2>4 DEF PollerInv
<1>9. CASE RestartPoller
  <2>1. /\ pollerStops' = pollerStops + 1 /\ pollerStops + 1 \in 0..MaxPollerStops
        /\ polling' = "idle" /\ rows' = {} /\ seen' = {}
        /\ time' = time + 1 /\ lastPoll' \in 0..(time + 1)
        /\ UNCHANGED <<stamp, insertion, readsAt, cutoff, offered>>
    BY <1>9, <1>t, PollerAssumption DEF RestartPoller, PollerInv, PollerTypeOK
  <2>2. /\ time + 1 \in Time /\ lastPoll' \in Time /\ lastPoll' <= time'
        /\ time' <= MaxPolls + pollerStops'
    BY <2>1, <1>t, PollerAssumption DEF PollerInv, PollsArePast, Time
  <2>3. /\ polls' \in Seq(PollRecord)
        /\ \A i \in DOMAIN polls' : polls'[i] \in PollRecord /\ polls'[i].to <= time
        /\ Len(polls') <= time /\ Len(polls') <= MaxPolls /\ Len(polls') \in Nat
        /\ OneIsFirst' /\ DuePollTells'
    <3>1. CASE polling = "asking"
      <4>1. polls' = Polled("cut")
        BY <3>1, <1>9 DEF RestartPoller
      <4>2. /\ polls' \in Seq(PollRecord) /\ Len(polls') = Len(polls) + 1
            /\ \A i \in DOMAIN polls : polls'[i] = polls[i]
            /\ polls'[Len(polls) + 1] = [from |-> cutoff, to |-> lastPoll, how |-> "cut"]
            /\ \A i \in DOMAIN polls' : polls'[i] \in PollRecord /\ polls'[i].to <= time
            /\ Len(polls') <= time /\ Len(polls') <= MaxPolls
            /\ OneIsFirst'
            /\ \A u, i : FirstDue(u, i)' => FirstDue(u, i) \/ i = Len(polls) + 1
        BY <2>1, <3>1, <4>1, PollRecorded
      <4>3. \A u, i : FirstDue(u, i) => i \in DOMAIN polls
        BY DEF FirstDue
      <4>4. DuePollTells'
        <5> SUFFICES ASSUME NEW u \in NewUser, NEW i \in DOMAIN polls',
                            insertion'[u] = "committed", u \notin offered',
                            FirstDue(u, i)'
                     PROVE  \/ polls'[i].how \in {"failed", "full", "cut"}
                            \/ readsAt'[u] >= i
                            \/ polls'[i].from > stamp'[u] /\ pollerStops' > 0
          BY DEF DuePollTells
        <5>1. CASE FirstDue(u, i)
          BY <5>1, <4>2, <4>3, <3>1, <2>1, <1>t DEF PollerInv, DuePollTells
        <5>2. CASE i = Len(polls) + 1
          BY <5>2, <4>2
        <5> QED
          BY <5>1, <5>2, <4>2
      <4> QED
        BY <4>2, <4>4, <1>t
    <3>2. CASE polling = "emitting" /\ rows # {}
      <4>1. Len(polls) \in DOMAIN polls
        BY <3>2, <1>t DEF PollerInv, PollsArePast
      <4>2. polls' = [polls EXCEPT ![Len(polls)].how = "cut"]
        BY <3>2, <1>9 DEF RestartPoller
      <4> DEFINE r == [polls[Len(polls)] EXCEPT !.how = "cut"]
      <4>3. r \in PollRecord /\ r.to = polls[Len(polls)].to /\ r.how = "cut"
        BY <4>1, <1>t DEF PollRecord
      <4>4. polls' = [polls EXCEPT ![Len(polls)] = r]
        BY <4>2
      <4> HIDE DEF r
      <4>5. /\ polls' \in Seq(PollRecord) /\ DOMAIN polls' = DOMAIN polls
            /\ Len(polls') = Len(polls) /\ polls'[Len(polls)] = r
            /\ \A i \in DOMAIN polls : i # Len(polls) => polls'[i] = polls[i]
        BY <4>1, <4>3, <4>4, <1>t
      <4>6. \A i \in DOMAIN polls : polls'[i].to = polls[i].to /\ polls'[i] \in PollRecord
        BY <4>3, <4>5, <1>t
      <4>7. \A u, i : FirstDue(u, i)' <=> FirstDue(u, i)
        BY <4>5, <4>6, <2>1 DEF FirstDue
      <4>8. OneIsFirst'
        BY <4>5, <4>6, <4>7, <2>1 DEF PollerInv, OneIsFirst
      <4>9. DuePollTells'
        BY <4>3, <4>5, <4>7, <2>1, <3>2, <1>t DEF PollerInv, DuePollTells
      <4> QED
        BY <4>5, <4>6, <4>8, <4>9, <1>t DEF PollerInv, PollsArePast
    <3>3. CASE polling # "asking" /\ ~(polling = "emitting" /\ rows # {})
      <4>1. polls' = polls
        BY <3>3, <1>9 DEF RestartPoller
      <4>2. \A u, i : FirstDue(u, i)' <=> FirstDue(u, i)
        BY <4>1, <2>1 DEF FirstDue
      <4>3. OneIsFirst' /\ DuePollTells'
        BY <4>1, <4>2, <2>1, <3>3, <1>t DEF PollerInv, OneIsFirst, DuePollTells
      <4> QED
        BY <4>1, <4>3, <1>t DEF PollerInv, PollsArePast
    <3> QED
      BY <3>1, <3>2, <3>3
  <2>4. PollerTypeOK'
    BY <2>1, <2>2, <2>3 DEF PollerInv, PollerTypeOK
  <2>5. PollsJoin'
    BY <2>1, <1>t DEF PollsJoin
  <2>6. PollsArePast'
    <3>1. \A i \in DOMAIN polls' : polls'[i].to \in Nat
      BY <2>3, PollerAssumption DEF PollRecord, Time
    <3> QED
      BY <2>1, <2>2, <2>3, <3>1, <1>t DEF PollerInv, PollsArePast
  <2> QED
    BY <2>1, <2>3, <2>4, <2>5, <2>6 DEF PollerInv
<1>10. CASE UNCHANGED pollerVars
  <2>1. PollerTypeOK' /\ PollsJoin' /\ PollsArePast'
    BY <1>10 DEF pollerVars, PollerInv, PollerTypeOK, PollsJoin, LastTo, PollsArePast
  <2>2. \A w, i : FirstDue(w, i)' <=> FirstDue(w, i)
    BY <1>10 DEF pollerVars, FirstDue
  <2>3. DuePollTells' /\ OneIsFirst'
    BY <1>10, <2>2 DEF pollerVars, PollerInv, DuePollTells, OneIsFirst
  <2> QED
    BY <1>10, <2>1, <2>3 DEF pollerVars, PollerInv
<1> QED
  BY <1>1, <1>2, <1>3, <1>4, <1>5, <1>6, <1>7, <1>8, <1>9, <1>10 DEF PollerNext

(* A new user that was not emitted has one of the named causes. *)
LEMMA PollerInvExplains == PollerInv => MissedUserIsExplained
<1> SUFFICES ASSUME PollerInv, NEW u \in NewUser, insertion[u] = "committed",
                    u \notin offered, polling = "idle",
                    NEW k \in DOMAIN polls, polls[k].to > stamp[u]
             PROVE  \E i \in {j \in DOMAIN polls : polls[j].to > stamp[u]} :
                      /\ \A j \in {j \in DOMAIN polls : polls[j].to > stamp[u]} : i <= j
                      /\ \/ polls[i].how \in {"failed", "full", "cut"}
                         \/ readsAt[u] >= i
                         \/ polls[i].from > stamp[u] /\ pollerStops > 0
  BY DEF MissedUserIsExplained
<1>t. /\ stamp[u] \in Nat /\ DOMAIN polls \subseteq Nat
      /\ \A i \in DOMAIN polls : polls[i].to \in Nat
  BY PollerAssumption DEF PollerInv, PollerTypeOK, PollRecord, Time
<1>1. PICK i \in DOMAIN polls : FirstDue(u, i)
  BY DEF PollerInv, OneIsFirst
<1>2. \A j \in DOMAIN polls : polls[j].to > stamp[u] => i <= j
  BY <1>1, <1>t DEF FirstDue
<1>3. polls[i].to > stamp[u]
  BY <1>1 DEF FirstDue
<1>4. \/ polls[i].how \in {"failed", "full", "cut"}
      \/ readsAt[u] >= i
      \/ polls[i].from > stamp[u] /\ pollerStops > 0
  BY <1>1 DEF PollerInv, DuePollTells
<1> QED
  BY <1>2, <1>3, <1>4

-----------------------------------------------------------------------------
(***************************************************************************)
(* Sequences that repeat nothing.                                          *)
(***************************************************************************)
NoRepeat(s) == \A i, j \in DOMAIN s : s[i] = s[j] => i = j

(* Appending an element adds it to the members. *)
LEMMA MembersOfAppend ==
  ASSUME NEW S, NEW s \in Seq(S), NEW x \in S
  PROVE  Members(Append(s, x)) = Members(s) \cup {x}
<1>1. /\ DOMAIN s = 1..Len(s) /\ DOMAIN Append(s, x) = 1..(Len(s) + 1)
      /\ Len(s) \in Nat
      /\ \A i \in DOMAIN s : Append(s, x)[i] = s[i]
      /\ Append(s, x)[Len(s) + 1] = x
  OBVIOUS
<1>2. DOMAIN Append(s, x) = DOMAIN s \cup {Len(s) + 1}
  BY <1>1
<1> QED
  BY <1>1, <1>2 DEF Members

(* What the tail of a sequence is, and which elements it has. *)
LEMMA TailOfSequence ==
  ASSUME NEW S, NEW s \in Seq(S), s # <<>>
  PROVE  /\ Tail(s) \in Seq(S) /\ Len(Tail(s)) = Len(s) - 1 /\ Len(s) >= 1
         /\ \A i \in DOMAIN Tail(s) : i + 1 \in DOMAIN s /\ Tail(s)[i] = s[i + 1]
         /\ 1 \in DOMAIN s /\ Head(s) = s[1] /\ Len(s) \in Nat
         /\ DOMAIN s = 1..Len(s) /\ DOMAIN Tail(s) = 1..(Len(s) - 1)
         /\ Members(Tail(s)) \subseteq Members(s)
         /\ Members(s) \subseteq Members(Tail(s)) \cup {Head(s)}
<1>1. /\ Tail(s) \in Seq(S) /\ Len(Tail(s)) = Len(s) - 1 /\ Len(s) >= 1
      /\ Len(s) \in Nat /\ DOMAIN s = 1..Len(s)
      /\ DOMAIN Tail(s) = 1..(Len(s) - 1) /\ Head(s) = s[1]
  OBVIOUS
<1>2. \A i \in DOMAIN Tail(s) : i + 1 \in DOMAIN s /\ Tail(s)[i] = s[i + 1]
  BY <1>1
<1>3. 1 \in DOMAIN s
  BY <1>1
<1>4. Members(Tail(s)) \subseteq Members(s)
  BY <1>2 DEF Members
<1>5. Members(s) \subseteq Members(Tail(s)) \cup {Head(s)}
  <2> SUFFICES ASSUME NEW k \in DOMAIN s PROVE s[k] \in Members(Tail(s)) \cup {Head(s)}
    BY DEF Members
  <2>1. CASE k = 1
    BY <2>1, <1>1
  <2>2. CASE k # 1
    <3>1. k - 1 \in DOMAIN Tail(s) /\ k - 1 + 1 = k
      BY <2>2, <1>1
    <3>2. Tail(s)[k - 1] = s[k]
      BY <3>1, <1>2
    <3> QED
      BY <3>1, <3>2 DEF Members
  <2> QED
    BY <2>1, <2>2
<1> QED
  BY <1>1, <1>2, <1>3, <1>4, <1>5

(* A sequence that repeats nothing is as long as its range is large. *)
LEMMA CountOfMembers ==
  ASSUME NEW S, NEW s \in Seq(S), NoRepeat(s)
  PROVE  IsFiniteSet(Members(s)) /\ Cardinality(Members(s)) = Len(s)
<1>1. Len(s) \in Nat /\ DOMAIN s = 1..Len(s) /\ s = [i \in 1..Len(s) |-> s[i]]
  OBVIOUS
<1>2. IsFiniteSet(1..Len(s)) /\ Cardinality(1..Len(s)) = Len(s)
  <2>1. 1 \in Int /\ Len(s) \in Int
    BY <1>1
  <2>2. /\ IsFiniteSet(1..Len(s))
        /\ Cardinality(1..Len(s)) = IF 1 > Len(s) THEN 0 ELSE Len(s) - 1 + 1
    BY <2>1, FS_Interval
  <2> QED
    BY <2>2, <1>1
<1>3. s \in [1..Len(s) -> Members(s)]
  BY <1>1 DEF Members
<1>4. s \in Bijection(1..Len(s), Members(s))
  BY <1>1, <1>3 DEF NoRepeat, Members, Bijection, Injection, Surjection, IsInjective
<1> QED
  BY <1>2, <1>4, FS_Bijection DEF ExistsBijection

-----------------------------------------------------------------------------
(***************************************************************************)
(* The watcher.  The changes that wait, the held one first and then the    *)
(* queue, are in order and come after all that was handled; an id in the   *)
(* Map is that of a change that was let through.                           *)
(***************************************************************************)
LetThroughFates == {"taken", "sent", "unsent", "lost"}

(* Queue, Map and histories are sequences; the Map repeats no document. *)
WatcherSequences ==
  /\ changes \in Seq(Doc) /\ fate \in Seq(Fates) /\ Len(fate) = Len(changes)
  /\ queue \in Seq(Number) /\ cache \in Seq(Doc) /\ recent \in Seq(Doc)
  /\ NoRepeat(cache)

(* Queue, Map and window stay within their sizes. *)
WatcherBounds ==
  /\ stream \in {"opening", "open", "closed"}
  /\ Len(changes) <= MaxChanges /\ Len(queue) <= QueueSize
  /\ held \in Number \cup {0} /\ emitting \in Number \cup {0}
  /\ Len(cache) <= CacheSize /\ Len(recent) <= PerWindow
  /\ stops \in 0..MaxRestarts

(* What is in the queue or held by the debounce has the fate `queued`, and *)
(* what is being emitted was taken.                                        *)
WaitingIsQueued ==
  /\ \A i \in DOMAIN queue :
       queue[i] \in DOMAIN changes /\ fate[queue[i]] = "queued"
  /\ held # 0 => held \in DOMAIN changes /\ fate[held] = "queued"
  /\ emitting # 0 => emitting \in DOMAIN changes /\ fate[emitting] = "taken"

(* Changes wait in the order in which they were made, and after all that   *)
(* were handled.                                                           *)
WaitingIsInOrder ==
  /\ \A i, j \in DOMAIN queue : i < j => queue[i] < queue[j]
  /\ held # 0 => \A i \in DOMAIN queue : held < queue[i]
  /\ \A c, e \in DOMAIN changes : fate[c] = "queued" /\ Handled(e) => e < c

(* A document in the Map has a change that was let through. *)
CachedWereTaken ==
  \A d \in Members(cache) :
    \E e \in DOMAIN changes : changes[e] = d /\ fate[e] \in LetThroughFates

(* The inductive invariant of the change stream. *)
WatcherInv ==
  /\ WatcherSequences /\ WatcherBounds /\ WaitingIsQueued /\ WaitingIsInOrder
  /\ CachedWereTaken /\ UnsentIsExplained

(* At the start nothing changed. *)
LEMMA WatcherInitInv == WatcherInit => WatcherInv
<1> SUFFICES ASSUME WatcherInit PROVE WatcherInv
  OBVIOUS
<1>1. /\ changes = <<>> /\ fate = <<>> /\ queue = <<>> /\ cache = <<>> /\ recent = <<>>
      /\ held = 0 /\ emitting = 0 /\ stream = "opening" /\ stops = 0
  BY DEF WatcherInit, DedupInit
<1>2. DOMAIN changes = {} /\ DOMAIN queue = {} /\ DOMAIN cache = {} /\ DOMAIN recent = {}
  BY <1>1
<1>3. WatcherSequences
  BY <1>1, <1>2 DEF WatcherSequences, NoRepeat
<1>4. WatcherBounds
  BY <1>1, WatcherAssumption, DedupAssumption DEF WatcherBounds
<1>5. WaitingIsQueued /\ WaitingIsInOrder
  BY <1>1, <1>2 DEF WaitingIsQueued, WaitingIsInOrder
<1>6. CachedWereTaken
  BY <1>1, <1>2 DEF CachedWereTaken, Members
<1>7. UnsentIsExplained
  BY <1>2 DEF UnsentIsExplained
<1> QED
  BY <1>3, <1>4, <1>5, <1>6, <1>7 DEF WatcherInv

(***************************************************************************)
(* Fates change only so: what waits is merged, skipped, taken or lost, and *)
(* what is taken is sent, unsent or lost.                                  *)
(***************************************************************************)
FatesMove ==
  /\ changes' = changes /\ fate' \in Seq(Fates) /\ Len(fate') = Len(fate)
  /\ \A c \in DOMAIN changes :
       \/ fate'[c] = fate[c]
       \/ fate[c] = "queued" /\ fate'[c] \in {"merged", "skipped", "taken", "lost"}
       \/ fate[c] = "taken" /\ fate'[c] \in LetThroughFates

(* What moving fates leave true. *)
LEMMA FatesMoveKeep ==
  ASSUME WatcherInv, FatesMove
  PROVE  /\ \A e \in DOMAIN changes : Handled(e) => Handled(e)'
         /\ \A e \in DOMAIN changes :
              fate[e] \in LetThroughFates => fate'[e] \in LetThroughFates
         /\ \A c \in DOMAIN changes : fate'[c] = "queued" => fate[c] = "queued"
         /\ \A c \in DOMAIN changes : fate'[c] = "refused" =>
              Cardinality({e \in 1..(c - 1) : fate'[e] \notin {"unseen", "refused"}})
                >= QueueSize
<1>1. /\ \A e \in DOMAIN changes : Handled(e) => Handled(e)'
      /\ \A e \in DOMAIN changes :
           fate[e] \in LetThroughFates => fate'[e] \in LetThroughFates
      /\ \A c \in DOMAIN changes : fate'[c] = "queued" => fate[c] = "queued"
  BY DEF FatesMove, Handled, LetThroughFates
<1>2. ASSUME NEW c \in DOMAIN changes, fate'[c] = "refused"
      PROVE  Cardinality({e \in 1..(c - 1) : fate'[e] \notin {"unseen", "refused"}})
               >= QueueSize
  <2>1. fate[c] = "refused"
    BY <1>2 DEF FatesMove, LetThroughFates
  <2>2. \A e \in 1..(c - 1) : e \in DOMAIN changes
    BY DEF WatcherInv, WatcherSequences
  <2>3. \A e \in 1..(c - 1) :
          fate'[e] \in {"unseen", "refused"} <=> fate[e] \in {"unseen", "refused"}
    BY <2>2 DEF FatesMove, LetThroughFates
  <2>4. {e \in 1..(c - 1) : fate'[e] \notin {"unseen", "refused"}}
          = {e \in 1..(c - 1) : fate[e] \notin {"unseen", "refused"}}
    BY <2>3
  <2> QED
    BY <2>1, <2>4 DEF WatcherInv, UnsentIsExplained
<1> QED
  BY <1>1, <1>2

(* One fate is overwritten. *)
LEMMA FateOf ==
  ASSUME WatcherInv, NEW c \in DOMAIN changes, NEW what \in Fates,
         fate' = [fate EXCEPT ![c] = what]
  PROVE  /\ fate' \in Seq(Fates) /\ Len(fate') = Len(fate) /\ fate'[c] = what
         /\ DOMAIN fate' = DOMAIN changes
         /\ \A e \in DOMAIN changes : e # c => fate'[e] = fate[e]
<1>1. fate \in Seq(Fates) /\ DOMAIN fate = DOMAIN changes
  BY DEF WatcherInv, WatcherSequences
<1> QED
  BY <1>1

(* The id is let through: the Map stays below its size, and repeats nothing. *)
LEMMA SetKeeps ==
  ASSUME WatcherInv, NEW d \in Doc, LetThrough(d)
  PROVE  /\ cache' \in Seq(Doc) /\ recent' \in Seq(Doc) /\ NoRepeat(cache')
         /\ Len(cache') <= CacheSize /\ Len(recent') <= PerWindow
         /\ Members(cache') \subseteq Members(cache) \cup {d}
<1> DEFINE keep == IF Len(cache) >= CacheSize THEN Tail(cache) ELSE cache
<1>1. /\ cache \in Seq(Doc) /\ recent \in Seq(Doc) /\ NoRepeat(cache)
      /\ Len(cache) <= CacheSize /\ Len(recent) < PerWindow
      /\ CacheSize \in Nat /\ CacheSize > 0 /\ PerWindow \in Nat
      /\ Len(cache) \in Nat /\ Len(recent) \in Nat
  BY DedupAssumption DEF WatcherInv, WatcherSequences, WatcherBounds, LetThrough
<1>2. /\ keep \in Seq(Doc) /\ NoRepeat(keep) /\ Len(keep) < CacheSize
      /\ Members(keep) \subseteq Members(cache)
  <2>1. CASE Len(cache) >= CacheSize
    <3>1. cache # <<>>
      BY <2>1, <1>1
    <3>2. /\ Tail(cache) \in Seq(Doc) /\ Len(Tail(cache)) = Len(cache) - 1
          /\ \A i \in DOMAIN Tail(cache) :
               i + 1 \in DOMAIN cache /\ Tail(cache)[i] = cache[i + 1]
          /\ Members(Tail(cache)) \subseteq Members(cache)
          /\ DOMAIN Tail(cache) = 1..(Len(cache) - 1)
      BY <3>1, <1>1, TailOfSequence
    <3>3. NoRepeat(Tail(cache))
      BY <3>2, <1>1 DEF NoRepeat
    <3> QED
      BY <2>1, <3>2, <3>3, <1>1
  <2>2. CASE ~(Len(cache) >= CacheSize)
    BY <2>2, <1>1
  <2> QED
    BY <2>1, <2>2
<1>3. cache' = IF d \in Members(keep) THEN keep ELSE Append(keep, d)
  BY DEF LetThrough, Set
<1> HIDE DEF keep
<1>4. Len(keep) \in Nat
  BY <1>2
<1>5. CASE d \in Members(keep)
  BY <1>1, <1>2, <1>3, <1>4, <1>5 DEF LetThrough
<1>6. CASE d \notin Members(keep)
  <2>1. cache' = Append(keep, d)
    BY <1>3, <1>6
  <2>2. /\ cache' \in Seq(Doc) /\ Len(cache') = Len(keep) + 1
        /\ DOMAIN cache' = DOMAIN keep \cup {Len(keep) + 1}
        /\ \A i \in DOMAIN keep : cache'[i] = keep[i]
        /\ cache'[Len(keep) + 1] = d
    BY <2>1, <1>2, <1>4
  <2>3. \A i \in DOMAIN keep : keep[i] # d
    BY <1>6 DEF Members
  <2>4. NoRepeat(cache')
    BY <2>2, <2>3, <1>2 DEF NoRepeat
  <2>5. Members(cache') = Members(keep) \cup {d}
    BY <2>1, <1>2, MembersOfAppend
  <2> QED
    BY <2>2, <2>4, <2>5, <1>1, <1>2, <1>4 DEF LetThrough
<1> QED
  BY <1>5, <1>6

(* WatcherInv is inductive. *)
LEMMA WatcherStepInv ==
  ASSUME WatcherInv, [WatcherNext]_watcherVars
  PROVE  WatcherInv'
<1>t. /\ changes \in Seq(Doc) /\ fate \in Seq(Fates) /\ Len(fate) = Len(changes)
      /\ queue \in Seq(Number) /\ cache \in Seq(Doc) /\ recent \in Seq(Doc)
      /\ Len(changes) \in Nat /\ Len(queue) \in Nat /\ Len(cache) \in Nat
      /\ DOMAIN changes = 1..Len(changes) /\ DOMAIN fate = 1..Len(changes)
      /\ DOMAIN queue = 1..Len(queue) /\ held \in Nat /\ emitting \in Nat
      /\ \A i \in DOMAIN queue : queue[i] \in Nat
      /\ Len(recent) \in Nat /\ QueueSize \in Nat /\ MaxChanges \in Nat
      /\ WatcherSequences /\ WatcherBounds /\ WaitingIsQueued
      /\ WaitingIsInOrder /\ CachedWereTaken /\ UnsentIsExplained
  BY WatcherAssumption DEF WatcherInv, WatcherBounds, WatcherSequences, Number
<1>u. ASSUME UNCHANGED <<changes, fate, queue, held, emitting>>
      PROVE  WaitingIsQueued' /\ WaitingIsInOrder' /\ UnsentIsExplained'
  <2>1. Members(queue)' = Members(queue) /\ \A c : Handled(c)' <=> Handled(c)
    BY <1>u DEF Members, Handled
  <2>2. WaitingIsQueued' /\ WaitingIsInOrder'
    BY <1>t, <1>u, <2>1 DEF WaitingIsQueued, WaitingIsInOrder
  <2>3. UnsentIsExplained'
    BY <1>t, <1>u, <2>1 DEF UnsentIsExplained
  <2> QED
    BY <2>2, <2>3
<1>1. CASE OpenStream \/ StreamError
  <2>1. /\ stream' \in {"open", "closed"}
        /\ UNCHANGED <<changes, fate, queue, held, emitting, cache, recent, stops>>
    BY <1>1 DEF OpenStream, StreamError, dedupVars
  <2>2. WatcherSequences' /\ WatcherBounds' /\ CachedWereTaken'
    BY <2>1, <1>t DEF WatcherSequences, WatcherBounds, CachedWereTaken, Members,
                      NoRepeat
  <2> QED
    BY <1>u, <2>1, <2>2 DEF WatcherInv
<1>2. ASSUME Elapse, UNCHANGED <<stream, changes, fate, queue, held, emitting, stops>>
      PROVE  WatcherInv'
  <2>1. recent # <<>> /\ recent' = Tail(recent) /\ cache' = cache
    BY <1>2 DEF Elapse
  <2>2. recent' \in Seq(Doc) /\ Len(recent') = Len(recent) - 1
    BY <2>1, <1>t, TailOfSequence
  <2>3. Len(recent') <= PerWindow
    BY <2>2, <1>t, DedupAssumption DEF WatcherBounds
  <2>4. WatcherSequences' /\ WatcherBounds' /\ CachedWereTaken'
    BY <1>2, <2>1, <2>2, <2>3, <1>t
       DEF WatcherSequences, WatcherBounds, CachedWereTaken, Members, NoRepeat
  <2> QED
    BY <1>2, <1>u, <2>4 DEF WatcherInv
<1>3. ASSUME NEW d \in Doc, Change(d) PROVE WatcherInv'
  <2>0. PICK n \in Nat : n = Len(changes) + 1
    BY <1>t
  <2>1. PICK what \in {"unseen", "refused", "queued"} :
          /\ fate' = Append(fate, what)
          /\ queue' = IF what = "queued" THEN Append(queue, n) ELSE queue
          /\ what = "refused" => Len(queue) >= QueueSize
          /\ what = "queued" => ~(Len(queue) >= QueueSize)
    BY <1>3, <2>0 DEF Change
  <2>2. /\ Len(changes) < MaxChanges /\ changes' = Append(changes, d)
        /\ UNCHANGED <<stream, held, emitting, cache, recent, stops>>
    BY <1>3 DEF Change, dedupVars
  <2>3. /\ changes' \in Seq(Doc) /\ fate' \in Seq(Fates)
        /\ Len(changes') = n /\ Len(fate') = n /\ DOMAIN changes' = 1..n
        /\ changes'[n] = d /\ fate'[n] = what /\ n \in Nat
        /\ \A c \in DOMAIN changes :
             /\ c \in DOMAIN changes' /\ c < n
             /\ changes'[c] = changes[c] /\ fate'[c] = fate[c]
        /\ \A c \in DOMAIN changes' : c = n \/ c \in DOMAIN changes
    BY <2>0, <2>1, <2>2, <1>t DEF Fates
  <2>4. /\ queue' \in Seq(Number) /\ Len(queue') <= QueueSize
        /\ \A i \in DOMAIN queue : i \in DOMAIN queue' /\ queue'[i] = queue[i]
        /\ \A i \in DOMAIN queue' :
             i \in DOMAIN queue \/ (what = "queued" /\ i = Len(queue) + 1 /\ queue'[i] = n)
        /\ what = "queued" => Len(queue) + 1 \in DOMAIN queue' /\ queue'[Len(queue) + 1] = n
    <3>1. n \in Number
      BY <2>0, <2>2, <1>t DEF Number
    <3>2. CASE what = "queued"
      <4>1. queue' = Append(queue, n)
        BY <2>1, <3>2
      <4> QED
        BY <4>1, <2>1, <3>1, <3>2, <1>t
    <3>3. CASE what # "queued"
      BY <2>1, <3>3, <1>t DEF WatcherBounds
    <3> QED
      BY <3>2, <3>3
  <2>5. WatcherSequences' /\ WatcherBounds'
    <3>1. n <= MaxChanges
      BY <2>0, <2>2, <1>t
    <3> QED
      BY <2>2, <2>3, <2>4, <3>1, <1>t DEF WatcherSequences, WatcherBounds, NoRepeat
  <2>6. WaitingIsQueued'
    <3>1. \A i \in DOMAIN queue' :
            queue'[i] \in DOMAIN changes' /\ fate'[queue'[i]] = "queued"
      <4> TAKE i \in DOMAIN queue'
      <4>1. CASE i \in DOMAIN queue
        BY <4>1, <2>3, <2>4, <1>t DEF WaitingIsQueued
      <4>2. CASE i \notin DOMAIN queue
        <5>1. queue'[i] = n /\ what = "queued"
          BY <4>2, <2>4
        <5> QED
          BY <5>1, <2>0, <2>3, <1>t
      <4> QED
        BY <4>1, <4>2
    <3>2. held' # 0 => held' \in DOMAIN changes' /\ fate'[held'] = "queued"
      BY <2>2, <2>3, <1>t DEF WaitingIsQueued
    <3>3. emitting' # 0 => emitting' \in DOMAIN changes' /\ fate'[emitting'] = "taken"
      BY <2>2, <2>3, <1>t DEF WaitingIsQueued
    <3> QED
      BY <3>1, <3>2, <3>3 DEF WaitingIsQueued
  <2>7. WaitingIsInOrder'
    <3>1. \A i, j \in DOMAIN queue' : i < j => queue'[i] < queue'[j]
      BY <2>3, <2>4, <1>t DEF WaitingIsInOrder, WaitingIsQueued
    <3>2. held' # 0 => \A i \in DOMAIN queue' : held' < queue'[i]
      BY <2>2, <2>3, <2>4, <1>t DEF WaitingIsInOrder, WaitingIsQueued
    <3>3. \A c, e \in DOMAIN changes' : fate'[c] = "queued" /\ Handled(e)' => e < c
      <4>1. ~Handled(n)'
        BY <2>3 DEF Handled
      <4> QED
        BY <2>3, <4>1, <1>t DEF WaitingIsInOrder, Handled
    <3> QED
      BY <3>1, <3>2, <3>3 DEF WaitingIsInOrder
  <2>8. CachedWereTaken'
    <3>1. Members(cache)' = Members(cache)
      BY <2>2 DEF Members
    <3>2. ASSUME NEW d2 \in Members(cache)
          PROVE  \E e \in DOMAIN changes' : changes'[e] = d2 /\ fate'[e] \in LetThroughFates
      <4>1. PICK e \in DOMAIN changes : changes[e] = d2 /\ fate[e] \in LetThroughFates
        BY <1>t DEF CachedWereTaken
      <4> QED
        BY <4>1, <2>3
    <3> QED
      BY <3>1, <3>2 DEF CachedWereTaken, LetThroughFates
  <2>9. UnsentIsExplained'
    <3> SUFFICES ASSUME NEW c \in DOMAIN changes'
                 PROVE  /\ fate'[c] = "merged" =>
                             \E later \in DOMAIN changes' :
                               later > c /\ (later = held' \/ Handled(later)')
                        /\ fate'[c] = "skipped" =>
                             \E earlier \in 1..(c - 1) :
                               changes'[earlier] = changes'[c]
                                 /\ fate'[earlier] \in LetThroughFates
                        /\ fate'[c] = "refused" =>
                             Cardinality({e \in 1..(c - 1) :
                                            fate'[e] \notin {"unseen", "refused"}})
                               >= QueueSize
                        /\ fate'[c] = "queued" =>
                             c = held' \/ c \in Members(queue)'
      BY DEF UnsentIsExplained, LetThroughFates
    <3>0. \A i \in 1..(c - 1) : i \in DOMAIN changes
      BY <2>0, <2>3, <1>t
    <3>1. CASE c \in DOMAIN changes
      <4>1. fate'[c] = fate[c]
        BY <3>1, <2>3
      <4>2. fate'[c] = "merged" =>
              \E later \in DOMAIN changes' :
                later > c /\ (later = held' \/ Handled(later)')
        BY <3>1, <4>1, <2>2, <2>3, <1>t DEF UnsentIsExplained, Handled
      <4>3. fate'[c] = "skipped" =>
              \E earlier \in 1..(c - 1) :
                changes'[earlier] = changes'[c] /\ fate'[earlier] \in LetThroughFates
        BY <3>0, <3>1, <4>1, <2>3, <1>t DEF UnsentIsExplained, LetThroughFates
      <4>4. {e \in 1..(c - 1) : fate'[e] \notin {"unseen", "refused"}}
              = {e \in 1..(c - 1) : fate[e] \notin {"unseen", "refused"}}
        BY <3>0, <2>3
      <4>5. fate'[c] = "queued" => c = held' \/ c \in Members(queue)'
        <5>1. Members(queue) \subseteq Members(queue')
          BY <2>4 DEF Members
        <5>2. Members(queue)' = Members(queue')
          BY DEF Members
        <5> QED
          BY <5>1, <5>2, <3>1, <4>1, <2>2, <1>t DEF UnsentIsExplained
      <4> QED
        BY <3>1, <4>1, <4>2, <4>3, <4>4, <4>5, <1>t DEF UnsentIsExplained
    <3>2. CASE c = n
      <4>1. CASE what = "unseen"
        BY <3>2, <4>1, <2>3
      <4>2. CASE what = "queued"
        BY <3>2, <4>2, <2>3, <2>4 DEF Members
      <4>3. CASE what = "refused"
        <5> DEFINE met == {e \in 1..(c - 1) : fate'[e] \notin {"unseen", "refused"}}
        <5>1. Members(queue) \subseteq met
          BY <3>2, <2>3, <1>t DEF WaitingIsQueued, Members
        <5>2. IsFiniteSet(met)
          <6>1. 1 \in Int /\ c - 1 \in Int
            BY <3>2, <2>3
          <6>2. IsFiniteSet(1..(c - 1))
            BY <6>1, FS_Interval
          <6>3. met \subseteq 1..(c - 1)
            OBVIOUS
          <6> HIDE DEF met
          <6> QED
            BY <6>2, <6>3, FS_Subset
        <5>3. NoRepeat(queue)
          <6> SUFFICES ASSUME NEW i \in DOMAIN queue, NEW j \in DOMAIN queue,
                              queue[i] = queue[j], i # j
                       PROVE  FALSE
            BY DEF NoRepeat
          <6>1. queue[i] < queue[j] \/ queue[j] < queue[i]
            <7>1. i < j \/ j < i
              BY <1>t
            <7> QED
              BY <7>1, <1>t DEF WaitingIsInOrder
          <6> QED
            BY <6>1, <1>t
        <5>4. Cardinality(Members(queue)) = Len(queue)
          BY <5>3, <1>t, CountOfMembers
        <5> HIDE DEF met
        <5>5. Cardinality(Members(queue)) <= Cardinality(met) /\ Cardinality(met) \in Nat
          BY <5>1, <5>2, FS_Subset, FS_CardinalityType
        <5>6. Cardinality(met) >= QueueSize
          BY <5>4, <5>5, <4>3, <2>1, <1>t
        <5> QED
          BY <5>6, <3>2, <4>3, <2>3 DEF met
      <4> QED
        BY <4>1, <4>2, <4>3
    <3> QED
      BY <3>1, <3>2, <2>3
  <2> QED
    BY <2>5, <2>6, <2>7, <2>8, <2>9 DEF WatcherInv
<1>4. CASE Debounce
  <2>1. /\ queue # <<>> /\ held' = Head(queue) /\ queue' = Tail(queue)
        /\ UNCHANGED <<stream, changes, emitting, cache, recent, stops>>
        /\ held = 0 => fate' = fate
        /\ held # 0 => fate' = [fate EXCEPT ![held] = "merged"]
    BY <1>4 DEF Debounce, dedupVars
  <2>2. /\ queue' \in Seq(Number) /\ Len(queue') = Len(queue) - 1
        /\ \A i \in DOMAIN queue' : i + 1 \in DOMAIN queue /\ queue'[i] = queue[i + 1]
        /\ 1 \in DOMAIN queue /\ held' = queue[1] /\ DOMAIN queue' \subseteq Nat \ {0}
        /\ Members(queue) \subseteq Members(queue') \cup {held'}
    BY <2>1, <1>t, TailOfSequence
  <2>3. /\ fate' \in Seq(Fates) /\ Len(fate') = Len(fate)
        /\ held # 0 => held \in DOMAIN changes /\ fate'[held] = "merged"
        /\ \A c \in DOMAIN changes : c # held => fate'[c] = fate[c]
    <3>1. CASE held = 0
      BY <3>1, <2>1, <1>t
    <3>2. CASE held # 0
      <4>1. held \in DOMAIN changes /\ "merged" \in Fates
        BY <3>2, <1>t DEF WaitingIsQueued, Fates
      <4> QED
        BY <3>2, <4>1, <2>1, FateOf
    <3> QED
      BY <3>1, <3>2
  <2>4. FatesMove
    <3>1. \A c \in DOMAIN changes :
            fate'[c] = fate[c] \/ (fate[c] = "queued" /\ fate'[c] = "merged")
      BY <2>3, <1>t DEF WaitingIsQueued
    <3> QED
      BY <2>1, <2>3, <3>1 DEF FatesMove
  <2>5. /\ \A e \in DOMAIN changes : Handled(e) => Handled(e)'
        /\ \A e \in DOMAIN changes :
             fate[e] \in LetThroughFates => fate'[e] \in LetThroughFates
        /\ \A c \in DOMAIN changes : fate'[c] = "queued" => fate[c] = "queued"
        /\ \A c \in DOMAIN changes : fate'[c] = "refused" =>
             Cardinality({e \in 1..(c - 1) : fate'[e] \notin {"unseen", "refused"}})
               >= QueueSize
    BY <2>4, FatesMoveKeep
  <2>6. /\ held' \in Number /\ held' \in DOMAIN changes /\ held < held'
        /\ held' \in Nat /\ fate'[held'] = "queued"
        /\ \A i \in DOMAIN queue' : held' < queue'[i]
    <3>1. held < held'
      <4>1. held # 0 => held < queue[1]
        BY <2>2, <1>t DEF WaitingIsInOrder
      <4>2. queue[1] \in Nat /\ queue[1] > 0
        BY <2>2, <1>t DEF Number
      <4> QED
        BY <4>1, <4>2, <2>2
    <3>2. held' \in Number /\ held' \in DOMAIN changes /\ fate[held'] = "queued"
      BY <2>2, <1>t DEF WaitingIsQueued
    <3>3. \A i \in DOMAIN queue' : held' < queue'[i]
      <4> TAKE i \in DOMAIN queue'
      <4>1. i + 1 \in DOMAIN queue /\ 1 < i + 1 /\ 1 \in DOMAIN queue
        BY <2>2
      <4>2. queue[1] < queue[i + 1]
        BY <4>1, <1>t DEF WaitingIsInOrder
      <4> QED
        BY <4>2, <2>2
    <3>4. held' \in Nat /\ held' # held
      BY <3>1, <2>2, <1>t
    <3> QED
      BY <3>1, <3>2, <3>3, <3>4, <2>3
  <2>7. WatcherSequences' /\ WatcherBounds'
    BY <2>1, <2>2, <2>3, <2>6, <1>t DEF WatcherSequences, WatcherBounds, NoRepeat
  <2>8. \A i \in DOMAIN queue' :
          queue'[i] \in DOMAIN changes /\ fate'[queue'[i]] = "queued"
    BY <2>2, <2>3, <2>6, <1>t DEF WaitingIsQueued, WaitingIsInOrder
  <2>9. WaitingIsQueued'
    <3>1. emitting # 0 => emitting # held
      BY <1>t DEF WaitingIsQueued
    <3> QED
      BY <3>1, <2>1, <2>3, <2>6, <2>8, <1>t DEF WaitingIsQueued
  <2>10. WaitingIsInOrder'
    <3>1. \A e \in DOMAIN changes : Handled(e)' => Handled(e)
      BY <2>3 DEF Handled
    <3>2. \A c, e \in DOMAIN changes : fate'[c] = "queued" /\ Handled(e)' => e < c
      BY <3>1, <2>5, <1>t DEF WaitingIsInOrder
    <3>3. \A i, j \in DOMAIN queue' : i < j => queue'[i] < queue'[j]
      <4> TAKE i, j \in DOMAIN queue'
      <4>1. /\ i + 1 \in DOMAIN queue /\ j + 1 \in DOMAIN queue
            /\ i < j => i + 1 < j + 1
        BY <2>2
      <4> QED
        BY <4>1, <2>2, <1>t DEF WaitingIsInOrder
    <3> QED
      BY <2>1, <2>6, <3>2, <3>3 DEF WaitingIsInOrder
  <2>11. CachedWereTaken'
    <3>1. Members(cache)' = Members(cache)
      BY <2>1 DEF Members
    <3> QED
      BY <3>1, <2>1, <2>5, <1>t DEF CachedWereTaken, LetThroughFates
  <2>12. UnsentIsExplained'
    <3> SUFFICES ASSUME NEW c \in DOMAIN changes
                 PROVE  /\ fate'[c] = "merged" =>
                             \E later \in DOMAIN changes :
                               later > c /\ (later = held' \/ Handled(later)')
                        /\ fate'[c] = "skipped" =>
                             \E earlier \in 1..(c - 1) :
                               changes[earlier] = changes[c]
                                 /\ fate'[earlier] \in LetThroughFates
                        /\ fate'[c] = "queued" =>
                             c = held' \/ c \in Members(queue)'
      BY <2>1, <2>5 DEF UnsentIsExplained, LetThroughFates
    <3>1. CASE c = held
      BY <3>1, <2>3, <2>6, <1>t
    <3>2. CASE c # held
      <4>1. fate'[c] = fate[c]
        BY <3>2, <2>3
      <4>2. fate'[c] = "merged" =>
              \E later \in DOMAIN changes :
                later > c /\ (later = held' \/ Handled(later)')
        <5> SUFFICES ASSUME fate[c] = "merged"
                     PROVE  \E later \in DOMAIN changes :
                              later > c /\ (later = held' \/ Handled(later)')
          BY <4>1
        <5>1. PICK later \in DOMAIN changes :
                later > c /\ (later = held \/ Handled(later))
          BY <1>t DEF UnsentIsExplained
        <5>2. CASE Handled(later)
          BY <5>1, <5>2, <2>5
        <5>3. CASE later = held
          BY <5>1, <5>3, <2>6, <1>t
        <5> QED
          BY <5>1, <5>2, <5>3
      <4>3. \A i \in 1..(c - 1) : i \in DOMAIN changes
        BY <1>t
      <4>4. fate'[c] = "skipped" =>
              \E earlier \in 1..(c - 1) :
                changes[earlier] = changes[c] /\ fate'[earlier] \in LetThroughFates
        BY <4>1, <4>3, <2>5, <1>t DEF UnsentIsExplained, LetThroughFates
      <4>5. fate'[c] = "queued" => c = held' \/ c \in Members(queue)'
        <5>1. Members(queue)' = Members(queue')
          BY DEF Members
        <5> QED
          BY <5>1, <3>2, <4>1, <2>2, <1>t DEF UnsentIsExplained
      <4> QED
        BY <4>2, <4>4, <4>5
    <3> QED
      BY <3>1, <3>2
  <2> QED
    BY <2>7, <2>9, <2>10, <2>11, <2>12 DEF WatcherInv
<1>5. CASE Quiet
  <2>1. /\ held # 0 /\ queue = <<>> /\ emitting = 0 /\ held' = 0
        /\ UNCHANGED <<stream, changes, queue, stops>>
    BY <1>5 DEF Quiet
  <2>2. held \in DOMAIN changes /\ fate[held] = "queued" /\ changes[held] \in Doc
    BY <2>1, <1>t DEF WaitingIsQueued
  <2>3. PICK what \in {"skipped", "taken"} :
          /\ fate' = [fate EXCEPT ![held] = what]
          /\ what = "skipped" => Skips(changes[held]) /\ UNCHANGED <<emitting, dedupVars>>
          /\ what = "taken" => LetThrough(changes[held]) /\ emitting' = held
    BY <1>5 DEF Quiet
  <2>4. /\ fate' \in Seq(Fates) /\ Len(fate') = Len(fate) /\ fate'[held] = what
        /\ \A e \in DOMAIN changes : e # held => fate'[e] = fate[e]
    <3>1. what \in Fates
      BY DEF Fates
    <3> QED
      BY <2>2, <2>3, <3>1, FateOf
  <2>5. FatesMove
    <3>1. \A c \in DOMAIN changes :
            fate'[c] = fate[c]
              \/ (fate[c] = "queued" /\ fate'[c] \in {"skipped", "taken"})
      BY <2>2, <2>4
    <3> QED
      BY <2>1, <2>4, <3>1 DEF FatesMove
  <2>6. /\ \A e \in DOMAIN changes : Handled(e) => Handled(e)'
        /\ \A e \in DOMAIN changes :
             fate[e] \in LetThroughFates => fate'[e] \in LetThroughFates
        /\ \A c \in DOMAIN changes : fate'[c] = "queued" => fate[c] = "queued"
        /\ \A c \in DOMAIN changes : fate'[c] = "refused" =>
             Cardinality({e \in 1..(c - 1) : fate'[e] \notin {"unseen", "refused"}})
               >= QueueSize
    BY <2>5, FatesMoveKeep
  <2>7. /\ cache' \in Seq(Doc) /\ recent' \in Seq(Doc) /\ NoRepeat(cache')
        /\ Len(cache') <= CacheSize /\ Len(recent') <= PerWindow
        /\ emitting' \in {0, held} /\ (emitting' # 0 => what = "taken")
        /\ Members(cache') \subseteq
             Members(cache) \cup (IF what = "taken" THEN {changes[held]} ELSE {})
    <3>1. CASE what = "skipped"
      BY <3>1, <2>1, <2>3, <1>t DEF dedupVars, WatcherSequences, WatcherBounds
    <3>2. CASE what = "taken"
      <4>1. /\ cache' \in Seq(Doc) /\ recent' \in Seq(Doc) /\ NoRepeat(cache')
            /\ Len(cache') <= CacheSize /\ Len(recent') <= PerWindow
            /\ Members(cache') \subseteq Members(cache) \cup {changes[held]}
        BY <3>2, <2>2, <2>3, SetKeeps
      <4> QED
        BY <3>2, <4>1, <2>3
    <3> QED
      BY <3>1, <3>2
  <2>8. WatcherSequences' /\ WatcherBounds'
    BY <2>1, <2>4, <2>7, <1>t DEF WatcherSequences, WatcherBounds, NoRepeat
  <2>9. DOMAIN queue = {} /\ \A c \in DOMAIN changes : fate'[c] # "queued"
    <3>1. DOMAIN queue = {} /\ Members(queue) = {}
      BY <2>1 DEF Members
    <3>2. \A c \in DOMAIN changes : fate[c] = "queued" => c = held
      BY <3>1, <1>t DEF UnsentIsExplained
    <3> QED
      BY <3>1, <3>2, <2>4
  <2>10. WaitingIsQueued' /\ WaitingIsInOrder'
    <3>1. emitting' # 0 => emitting' \in DOMAIN changes /\ fate'[emitting'] = "taken"
      BY <2>2, <2>4, <2>7
    <3> QED
      BY <2>1, <2>9, <3>1 DEF WaitingIsQueued, WaitingIsInOrder
  <2>11. CachedWereTaken'
    <3>1. ASSUME NEW d \in Members(cache')
          PROVE  \E e \in DOMAIN changes : changes[e] = d /\ fate'[e] \in LetThroughFates
      <4>1. CASE d \in Members(cache)
        BY <4>1, <2>6, <1>t DEF CachedWereTaken
      <4>2. CASE d \notin Members(cache)
        <5>1. what = "taken" /\ d = changes[held]
          BY <4>2, <3>1, <2>7
        <5> QED
          BY <5>1, <2>2, <2>4 DEF LetThroughFates
      <4> QED
        BY <4>1, <4>2
    <3>2. Members(cache)' = Members(cache')
      BY DEF Members
    <3> QED
      BY <3>1, <3>2, <2>1 DEF CachedWereTaken, LetThroughFates
  <2>12. UnsentIsExplained'
    <3> SUFFICES ASSUME NEW c \in DOMAIN changes
                 PROVE  /\ fate'[c] = "merged" =>
                             \E later \in DOMAIN changes :
                               later > c /\ (later = held' \/ Handled(later)')
                        /\ fate'[c] = "skipped" =>
                             \E earlier \in 1..(c - 1) :
                               changes[earlier] = changes[c]
                                 /\ fate'[earlier] \in LetThroughFates
      BY <2>1, <2>6, <2>9 DEF UnsentIsExplained, LetThroughFates
    <3>0. \A i \in 1..(c - 1) : i \in DOMAIN changes
      BY <1>t
    <3>1. CASE c = held
      <4>1. CASE what = "skipped"
        <5>1. changes[held] \in Members(cache)
          BY <4>1, <2>3 DEF Skips
        <5>2. PICK e \in DOMAIN changes :
                changes[e] = changes[held] /\ fate[e] \in LetThroughFates
          BY <5>1, <1>t DEF CachedWereTaken
        <5>3. e < held
          BY <5>2, <2>2, <1>t DEF WaitingIsInOrder, Handled, LetThroughFates
        <5>4. e \in 1..(held - 1)
          BY <5>3, <2>2, <1>t
        <5> QED
          BY <3>1, <4>1, <5>2, <5>4, <2>4, <2>6
      <4>2. CASE what = "taken"
        BY <3>1, <4>2, <2>4
      <4> QED
        BY <4>1, <4>2
    <3>2. CASE c # held
      <4>1. fate'[c] = fate[c]
        BY <3>2, <2>4
      <4>3. fate'[c] = "merged" =>
              \E later \in DOMAIN changes :
                later > c /\ (later = held' \/ Handled(later)')
        <5> SUFFICES ASSUME fate[c] = "merged"
                     PROVE  \E later \in DOMAIN changes : later > c /\ Handled(later)'
          BY <4>1
        <5>1. PICK later \in DOMAIN changes :
                later > c /\ (later = held \/ Handled(later))
          BY <1>t DEF UnsentIsExplained
        <5>2. fate'[held] \in {"skipped", "taken"}
          BY <2>4
        <5>3. Handled(later)'
          BY <5>1, <5>2, <2>6 DEF Handled
        <5> QED
          BY <5>1, <5>3
      <4>4. fate'[c] = "skipped" =>
              \E earlier \in 1..(c - 1) :
                changes[earlier] = changes[c] /\ fate'[earlier] \in LetThroughFates
        BY <4>1, <3>0, <2>6, <1>t DEF UnsentIsExplained, LetThroughFates
      <4> QED
        BY <4>3, <4>4
    <3> QED
      BY <3>1, <3>2
  <2> QED
    BY <2>8, <2>10, <2>11, <2>12 DEF WatcherInv
<1>6. CASE EmitEnds \/ StopWatcher
  <2>1. FatesMove
    <3>1. CASE EmitEnds
      <4>1. emitting \in DOMAIN changes /\ fate[emitting] = "taken"
        BY <3>1, <1>t DEF EmitEnds, WaitingIsQueued
      <4>2. PICK how \in {"sent", "unsent"} : fate' = [fate EXCEPT ![emitting] = how]
        BY <3>1 DEF EmitEnds
      <4>3. /\ fate' \in Seq(Fates) /\ Len(fate') = Len(fate) /\ fate'[emitting] = how
            /\ \A e \in DOMAIN changes : e # emitting => fate'[e] = fate[e]
        <5>1. how \in Fates
          BY DEF Fates
        <5> QED
          BY <4>1, <4>2, <5>1, FateOf
      <4> QED
        BY <3>1, <4>1, <4>3 DEF EmitEnds, FatesMove, LetThroughFates
    <3>2. CASE StopWatcher
      <4>1. /\ changes' = changes
            /\ fate' = [c \in DOMAIN fate |->
                 IF fate[c] \in {"queued", "taken"} THEN "lost" ELSE fate[c]]
        BY <3>2 DEF StopWatcher
      <4>2. \A c \in DOMAIN fate : fate[c] \in Fates
        BY <1>t
      <4>3. \A c \in DOMAIN fate : fate'[c] \in Fates
        BY <4>1, <4>2 DEF Fates
      <4>4. fate' \in Seq(Fates) /\ Len(fate') = Len(fate)
        BY <4>1, <4>3, <1>t
      <4> QED
        BY <4>1, <4>4, <1>t DEF FatesMove, LetThroughFates
    <3> QED
      BY <1>6, <3>1, <3>2
  <2>2. /\ \A e \in DOMAIN changes : Handled(e) => Handled(e)'
        /\ \A e \in DOMAIN changes :
             fate[e] \in LetThroughFates => fate'[e] \in LetThroughFates
        /\ \A c \in DOMAIN changes : fate'[c] = "queued" => fate[c] = "queued"
        /\ \A c \in DOMAIN changes : fate'[c] = "refused" =>
             Cardinality({e \in 1..(c - 1) : fate'[e] \notin {"unseen", "refused"}})
               >= QueueSize
    BY <2>1, FatesMoveKeep
  <2>3. /\ changes' = changes /\ recent' = recent /\ emitting' = 0
        /\ cache' \in {cache, <<>>}
        /\ stream' \in {"opening", "open", "closed"} /\ stops' \in 0..MaxRestarts
        /\ fate' \in Seq(Fates) /\ Len(fate') = Len(fate)
        /\ \/ /\ queue' = queue /\ held' = held
              /\ \A c \in DOMAIN changes :
                   fate'[c] = fate[c] \/ (fate'[c] \in {"sent", "unsent"} /\ fate[c] = "taken")
           \/ /\ queue' = <<>> /\ held' = 0
              /\ \A c \in DOMAIN changes :
                   fate'[c] = IF fate[c] \in {"queued", "taken"} THEN "lost" ELSE fate[c]
    <3>1. CASE EmitEnds
      <4>1. emitting \in DOMAIN changes /\ fate[emitting] = "taken"
        BY <3>1, <1>t DEF EmitEnds, WaitingIsQueued
      <4>2. \A c \in DOMAIN changes :
              fate'[c] = fate[c] \/ (fate'[c] \in {"sent", "unsent"} /\ fate[c] = "taken")
        <5>1. PICK how \in {"sent", "unsent"} : fate' = [fate EXCEPT ![emitting] = how]
          BY <3>1 DEF EmitEnds
        <5>2. how \in Fates
          BY DEF Fates
        <5>3. /\ fate'[emitting] = how
              /\ \A e \in DOMAIN changes : e # emitting => fate'[e] = fate[e]
          BY <4>1, <5>1, <5>2, FateOf
        <5> QED
          <6> TAKE c \in DOMAIN changes
          <6>1. CASE c = emitting
            BY <6>1, <4>1, <5>3
          <6>2. CASE c # emitting
            BY <6>2, <5>3
          <6> QED
            BY <6>1, <6>2
      <4> QED
        BY <3>1, <4>2, <2>1, <1>t DEF EmitEnds, FatesMove, dedupVars, WatcherBounds
    <3>2. CASE StopWatcher
      <4>1. \A c \in DOMAIN changes :
              fate'[c] = IF fate[c] \in {"queued", "taken"} THEN "lost" ELSE fate[c]
        BY <3>2, <1>t DEF StopWatcher
      <4>2. stops' \in 0..MaxRestarts
        BY <3>2, <1>t, WatcherAssumption DEF StopWatcher, WatcherBounds
      <4>3. /\ changes' = changes /\ recent' = recent /\ emitting' = 0
            /\ cache' = <<>> /\ stream' = "opening" /\ queue' = <<>> /\ held' = 0
        BY <3>2 DEF StopWatcher
      <4> QED
        BY <4>1, <4>2, <4>3, <2>1 DEF FatesMove
    <3> QED
      BY <1>6, <3>1, <3>2
  <2>4. /\ cache' \in Seq(Doc) /\ NoRepeat(cache') /\ Len(cache') <= CacheSize
        /\ queue' \in Seq(Number) /\ Len(queue') <= QueueSize
        /\ Members(cache') \subseteq Members(cache)
    <3>1. <<>> \in Seq(Doc) /\ <<>> \in Seq(Number) /\ Len(<<>>) = 0 /\ DOMAIN <<>> = {}
      OBVIOUS
    <3>2. NoRepeat(<<>>) /\ Members(<<>>) = {}
      BY <3>1 DEF NoRepeat, Members
    <3> QED
      <4>1. /\ cache' \in Seq(Doc) /\ Members(cache') \subseteq Members(cache)
            /\ queue' \in Seq(Number)
        BY <3>1, <3>2, <2>3, <1>t
      <4>2. NoRepeat(cache')
        BY <3>2, <2>3, <1>t DEF WatcherSequences
      <4>3. Len(cache') <= CacheSize
        BY <3>1, <2>3, <1>t, DedupAssumption DEF WatcherBounds
      <4>4. Len(queue') <= QueueSize
        BY <3>1, <2>3, <1>t, WatcherAssumption DEF WatcherBounds
      <4> QED
        BY <4>1, <4>2, <4>3, <4>4
  <2>5. WatcherSequences' /\ WatcherBounds'
    BY <2>3, <2>4, <1>t DEF WatcherSequences, WatcherBounds, NoRepeat
  <2>6. CachedWereTaken'
    <3>1. Members(cache)' = Members(cache')
      BY DEF Members
    <3> QED
      BY <3>1, <2>2, <2>3, <2>4, <1>t DEF CachedWereTaken, LetThroughFates
  <2>7. ASSUME NEW c \in DOMAIN changes, fate'[c] = "skipped"
        PROVE  \E earlier \in 1..(c - 1) :
                 changes[earlier] = changes[c] /\ fate'[earlier] \in LetThroughFates
    <3>1. fate[c] = "skipped"
      BY <2>3, <2>7
    <3>2. \A i \in 1..(c - 1) : i \in DOMAIN changes
      BY <1>t
    <3> QED
      BY <3>1, <3>2, <2>2, <1>t DEF UnsentIsExplained, LetThroughFates
  <2>8. CASE /\ queue' = queue /\ held' = held
             /\ \A c \in DOMAIN changes :
                  fate'[c] = fate[c] \/ (fate'[c] \in {"sent", "unsent"} /\ fate[c] = "taken")
    <3>1. /\ \A c \in DOMAIN changes : fate[c] = "queued" <=> fate'[c] = "queued"
          /\ \A c \in DOMAIN changes : fate[c] = "merged" <=> fate'[c] = "merged"
      BY <2>8
    <3>2. \A c \in DOMAIN changes : Handled(c)' <=> Handled(c)
      BY <2>8 DEF Handled
    <3>3. WaitingIsQueued' /\ WaitingIsInOrder'
      BY <2>3, <2>8, <3>1, <3>2, <1>t DEF WaitingIsQueued, WaitingIsInOrder
    <3>4. Members(queue)' = Members(queue)
      BY <2>8 DEF Members
    <3>5. UnsentIsExplained'
      <4>1. \A c \in DOMAIN changes :
              /\ fate'[c] = "merged" =>
                   \E later \in DOMAIN changes :
                     later > c /\ (later = held' \/ Handled(later)')
              /\ fate'[c] = "queued" => c = held' \/ c \in Members(queue)'
        <5> TAKE c \in DOMAIN changes
        <5>1. /\ fate[c] = "merged" =>
                   \E later \in DOMAIN changes :
                     later > c /\ (later = held \/ Handled(later))
              /\ fate[c] = "queued" => c = held \/ c \in Members(queue)
          BY <1>t DEF UnsentIsExplained
        <5>2. /\ fate'[c] = "merged" => fate[c] = "merged"
              /\ fate'[c] = "queued" => fate[c] = "queued"
          BY <3>1
        <5> QED
          BY <5>1, <5>2, <2>8, <3>2, <3>4
      <4> QED
        BY <2>2, <2>3, <2>7, <4>1 DEF UnsentIsExplained, LetThroughFates
    <3> QED
      BY <2>5, <2>6, <3>3, <3>5 DEF WatcherInv
  <2>9. CASE /\ queue' = <<>> /\ held' = 0
             /\ \A c \in DOMAIN changes :
                  fate'[c] = IF fate[c] \in {"queued", "taken"} THEN "lost" ELSE fate[c]
    <3>1. \A c \in DOMAIN changes : fate'[c] # "queued"
      BY <2>9
    <3>2. WaitingIsQueued' /\ WaitingIsInOrder'
      BY <2>3, <2>9, <3>1 DEF WaitingIsQueued, WaitingIsInOrder
    <3>4. ASSUME NEW c \in DOMAIN changes, fate'[c] = "merged"
          PROVE  \E later \in DOMAIN changes : later > c /\ Handled(later)'
      <4>1. fate[c] = "merged"
        BY <3>4, <2>9
      <4>2. PICK later \in DOMAIN changes :
              later > c /\ (later = held \/ Handled(later))
        BY <4>1, <1>t DEF UnsentIsExplained
      <4>3. later = held => fate'[later] = "lost"
        BY <4>2, <2>9, <1>t DEF WaitingIsQueued
      <4>4. Handled(later)'
        BY <4>2, <4>3, <2>2 DEF Handled
      <4> QED
        BY <4>2, <4>4
    <3>5. UnsentIsExplained'
      BY <2>2, <2>3, <2>7, <3>1, <3>4 DEF UnsentIsExplained, LetThroughFates
    <3> QED
      BY <2>5, <2>6, <3>2, <3>5 DEF WatcherInv
  <2> QED
    BY <2>3, <2>8, <2>9
<1>7. CASE UNCHANGED watcherVars
  <2>1. UNCHANGED <<stream, changes, fate, queue, held, emitting, cache, recent, stops>>
    BY <1>7 DEF watcherVars, dedupVars
  <2>2. WatcherSequences' /\ WatcherBounds' /\ CachedWereTaken'
    BY <2>1, <1>t DEF WatcherSequences, WatcherBounds, CachedWereTaken, Members,
                      NoRepeat
  <2> QED
    BY <1>u, <2>1, <2>2 DEF WatcherInv
<1> QED
  BY <1>1, <1>2, <1>3, <1>4, <1>5, <1>6, <1>7 DEF WatcherNext

(* The type invariant, with the size of the Map. *)
LEMMA WatcherInvType == WatcherInv => WatcherTypeOK
<1> SUFFICES ASSUME WatcherInv PROVE WatcherTypeOK
  OBVIOUS
<1>1. WatcherSequences /\ WatcherBounds
  BY DEF WatcherInv
<1>2. Cardinality(Members(cache)) = Len(cache)
  BY <1>1, CountOfMembers DEF WatcherSequences
<1>3. \A S, s : s \in Seq(S) => Members(s) \subseteq S
  BY DEF Members
<1>4. /\ Members(changes) \subseteq Doc /\ Members(fate) \subseteq Fates
      /\ Members(queue) \subseteq Number /\ Members(cache) \subseteq Doc
      /\ Members(recent) \subseteq Doc
  BY <1>1, <1>3 DEF WatcherSequences
<1>5. DOMAIN fate = DOMAIN changes
  BY <1>1 DEF WatcherSequences
<1> QED
  BY <1>1, <1>2, <1>4, <1>5
     DEF WatcherTypeOK, DedupTypeOK, WatcherBounds

-----------------------------------------------------------------------------
(***************************************************************************)
(* The workers in the composition.                                         *)
(***************************************************************************)
WorkersInv == WatcherInv /\ PollerInv /\ MailTypeInv /\ HealthInv

(* The inductive invariant of the workers. *)
THEOREM WorkersInvariant == ServicesSpec => []WorkersInv
<1>1. ServicesInit => WorkersInv
  BY WatcherInitInv, PollerInitInv, MailTypeInitInv, HealthInitInv
     DEF ServicesInit, WorkersInv
<1>2. WorkersInv /\ [ServicesNext]_servicesVars => WorkersInv'
  BY PartsStep, WatcherStepInv, PollerStepInv, MailTypeStepInv, HealthStepInv
     DEF WorkersInv
<1> QED
  BY <1>1, <1>2, PTL DEF ServicesSpec

(* Neither a change of a document nor a new user is lost by the CDC worker *)
(* but for the causes the two parts name (cdcWorker.ts).                   *)
THEOREM LostChangesAreExplained == ServicesSpec => []LostChangeIsExplained
<1>1. WorkersInv => LostChangeIsExplained
  BY PollerInvExplains DEF WorkersInv, WatcherInv, LostChangeIsExplained
<1> QED
  BY <1>1, WorkersInvariant, PTL

(* The mail worker keeps its contract in the composition: every step of    *)
(* ServicesSpec is one of EmailSpec or leaves the mail worker alone.       *)
THEOREM MailContractKept == ServicesSpec => EmailKeepsContract
<1>1. ServicesInit => EmailInit
  BY DEF ServicesInit
<1>2. [ServicesNext]_servicesVars => [EmailNext]_mailVars
  BY PartsStep
<1>3. ServicesSpec => EmailSpec
  BY <1>1, <1>2, PTL DEF ServicesSpec, EmailSpec
<1> QED
  BY <1>3, EmailContractKept
=============================================================================
