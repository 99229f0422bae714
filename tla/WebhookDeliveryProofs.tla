------------------------ MODULE WebhookDeliveryProofs -----------------------
(***************************************************************************)
(* Theorems about WebhookDelivery, for any set of events, subscriptions    *)
(* and retries.  The inductive invariant IInv says what a fiber's phase    *)
(* means: a fiber exists only for a message the worker holds, and every    *)
(* phase carries the evidence (an accepted POST, a failed run, a copy on   *)
(* the DLQ) that the later ack, nack or row update rests on.               *)
(***************************************************************************)
EXTENDS WebhookDelivery, TLAPS, FiniteSetTheorems

(* A message names its delivery and is one of that delivery's copies. *)
LEMMA MessageDelivery ==
  /\ \A m \in Message : DeliveryOf(m) \in Delivery /\ m \in CopiesOf(DeliveryOf(m))
  /\ \A d \in Delivery : \A m \in CopiesOf(d) : m \in Message
BY MessageAssumption DEF DeliveryOf, CopiesOf

(* The publish calls of a delivery put copies of it on the queue. *)
LEMMA PublishedCopy ==
  ASSUME NEW d \in Delivery, NEW k \in 1..PublishCalls
  PROVE  <<d, k>> \in CopiesOf(d) /\ ~IsReplay(<<d, k>>)
BY PublishCallsAssumption, ReplaysAssumption DEF CopiesOf, Copy, IsReplay

-----------------------------------------------------------------------------
(* Type correctness *)

LEMMA InitTypeOK == Init => TypeOK
BY MaxLossesAssumption, PublishCallsAssumption
   DEF Init, ConsumerInit, PublisherInit, TypeOK, ConsumerTypeOK, Place,
       PublisherTypeOK, Row, NoRow, Phase

LEMMA UpdateRowType ==
  ASSUME TypeOK, NEW d \in Delivery, NEW status \in {"pending", "delivered", "failed"},
         NEW attempts \in Nat, NEW next \in BOOLEAN,
         UpdateRow(d, status, attempts, next)
  PROVE  row' \in [Delivery -> Row]
BY DEF TypeOK, PublisherTypeOK, UpdateRow, Row

LEMMA PublisherTypes ==
  ASSUME TypeOK, PublisherNext, UNCHANGED workerVars
  PROVE  TypeOK'
<1> USE DEF TypeOK, ConsumerTypeOK, PublisherTypeOK
<1>w. /\ fiber' \in [Message -> Phase]
      /\ accepted' \subseteq Message /\ refused' \subseteq Message /\ dlq' \subseteq Message
  BY DEF workerVars
<1>1. ASSUME NEW s \in Sub, CreateSubscription(s) PROVE TypeOK'
  BY <1>1, <1>w DEF CreateSubscription, consumerVars
<1>2. ASSUME NEW s \in Sub, DeleteSubscription(s) PROVE TypeOK'
  BY <1>2, <1>w DEF DeleteSubscription, consumerVars, NoRow, Row
<1>3. ASSUME NEW e \in Event, SelectSubscriptions(e) PROVE TypeOK'
  BY <1>3, <1>w DEF SelectSubscriptions, consumerVars
<1>4. ASSUME NEW d \in Delivery, InsertRow(d) PROVE TypeOK'
  <2>1. row' \in [Delivery -> Row]
    BY <1>4 DEF InsertRow, Row
  <2>2. emission' \in [Delivery -> {"idle", "insert", "publish", "done"}]
    BY <1>4 DEF InsertRow
  <2> QED
    BY <1>4, <1>w, <2>1, <2>2 DEF InsertRow, consumerVars
<1>5. ASSUME NEW d \in Delivery, Publish(d) PROVE TypeOK'
  <2>1. place' \in [Message -> Place]
    BY <1>5 DEF Publish, Enqueue, Place
  <2>2. emission' \in [Delivery -> {"idle", "insert", "publish", "done"}]
    BY <1>5 DEF Publish
  <2>3. calls' \in [Delivery -> 0..PublishCalls]
    BY <1>5, PublishCallsAssumption DEF Publish
  <2> QED
    BY <1>5, <1>w, <2>1, <2>2, <2>3 DEF Publish
<1>6. ASSUME NEW d \in Delivery, Replay(d) PROVE TypeOK'
  BY <1>6, <1>w DEF Replay, Enqueue, Place, publisherVars
<1> QED
  BY <1>1, <1>2, <1>3, <1>4, <1>5, <1>6 DEF PublisherNext

LEMMA WorkerTypes ==
  ASSUME TypeOK, NEW m \in Message, WorkerStep(m)
  PROVE  TypeOK'
<1> USE DEF TypeOK, ConsumerTypeOK, PublisherTypeOK, Goto, Phase, Place
<1>d. DeliveryOf(m) \in Delivery
  BY MessageDelivery
<1>1. CASE Take(m)
  BY <1>1 DEF Take, consumerVars, publisherVars
<1>2. CASE RejectInvalid(m)
  BY <1>2 DEF RejectInvalid, Nack, publisherVars
<1>3. CASE Post(m)
  BY <1>3 DEF Post, consumerVars, publisherVars
<1>4. CASE MarkDelivered(m)
  <2>1. row' \in [Delivery -> Row]
    <3>1. row[DeliveryOf(m)] \in Row
      BY <1>d
    <3>2. /\ row[DeliveryOf(m)].attempts \in Nat
          /\ row[DeliveryOf(m)].next \in BOOLEAN
      BY <3>1 DEF Row
    <3> QED
      BY <1>4, <1>d, <3>2, UpdateRowType DEF MarkDelivered
  <2> QED
    BY <1>4, <2>1 DEF MarkDelivered, consumerVars
<1>5. CASE DeadLetter(m)
  BY <1>5 DEF DeadLetter, consumerVars, publisherVars
<1>6. CASE MarkFailed(m)
  <2>1. row' \in [Delivery -> Row]
    <3>1. row[DeliveryOf(m)] \in Row
      BY <1>d
    <3>2. row[DeliveryOf(m)].attempts + 1 \in Nat
      BY <3>1 DEF Row
    <3>3. CASE NextAttempt(m) >= MaxAttempts - 1
      BY <1>6, <1>d, <3>2, <3>3, UpdateRowType DEF MarkFailed
    <3>4. CASE ~(NextAttempt(m) >= MaxAttempts - 1)
      BY <1>6, <1>d, <3>2, <3>4, UpdateRowType DEF MarkFailed
    <3> QED
      BY <3>3, <3>4
  <2>2. fiber' \in [Message -> Phase]
    BY <1>6 DEF MarkFailed
  <2> QED
    BY <1>6, <2>1, <2>2 DEF MarkFailed, consumerVars
<1>7. CASE AckHandled(m)
  BY <1>7 DEF AckHandled, Ack, publisherVars
<1>8. CASE NackForRetry(m)
  BY <1>8 DEF NackForRetry, Nack, publisherVars
<1> QED
  BY <1>1, <1>2, <1>3, <1>4, <1>5, <1>6, <1>7, <1>8 DEF WorkerStep

LEMMA ConnectionTypes ==
  ASSUME TypeOK,
         \/ \E m \in Message : Deliver(m) /\ UNCHANGED <<publisherVars, workerVars>>
         \/ LoseConnection
         \/ Restart /\ UNCHANGED <<publisherVars, workerVars>>
  PROVE  TypeOK'
<1> USE DEF TypeOK, ConsumerTypeOK, PublisherTypeOK
<1>1. ASSUME NEW m \in Message, Deliver(m), UNCHANGED <<publisherVars, workerVars>>
      PROVE  TypeOK'
  BY <1>1 DEF Deliver, Place, publisherVars, workerVars
<1>2. CASE LoseConnection
  <2>1. place' \in [Message -> Place]
    BY <1>2 DEF LoseConnection, Lose, Place
  <2>2. losses' \in 0..MaxLosses
    <3>1. losses' = losses + 1 /\ losses < MaxLosses /\ losses \in 0..MaxLosses
      BY <1>2 DEF LoseConnection, Lose
    <3> QED
      BY <3>1, MaxLossesAssumption
  <2>4. up' \in BOOLEAN
    BY <1>2 DEF LoseConnection, Lose
  <2>3. fiber' \in [Message -> Phase]
    BY <1>2 DEF LoseConnection, Phase
  <2> QED
    BY <1>2, <2>1, <2>2, <2>3, <2>4 DEF LoseConnection, publisherVars
<1>3. CASE Restart /\ UNCHANGED <<publisherVars, workerVars>>
  BY <1>3 DEF Restart, publisherVars, workerVars
<1> QED
  BY <1>1, <1>2, <1>3

(* Every variable keeps its type. *)
THEOREM TypeCorrect == Spec => []TypeOK
<1>1. TypeOK /\ [Next]_vars => TypeOK'
  <2> SUFFICES ASSUME TypeOK, [Next]_vars PROVE TypeOK'
    OBVIOUS
  <2>1. CASE UNCHANGED vars
    BY <2>1 DEF vars, consumerVars, publisherVars, workerVars,
                TypeOK, ConsumerTypeOK, PublisherTypeOK
  <2>2. CASE PublisherNext /\ UNCHANGED workerVars
    BY <2>2, PublisherTypes
  <2>3. CASE \E m \in Message : WorkerStep(m)
    BY <2>3, WorkerTypes
  <2>4. CASE \/ \E m \in Message : Deliver(m) /\ UNCHANGED <<publisherVars, workerVars>>
             \/ LoseConnection
             \/ Restart /\ UNCHANGED <<publisherVars, workerVars>>
    BY <2>4, ConnectionTypes
  <2> QED
    BY <2>1, <2>2, <2>3, <2>4 DEF Next
<1> QED
  BY <1>1, InitTypeOK, PTL DEF Spec

-----------------------------------------------------------------------------
(* Safety *)

(* A fiber runs only for a message its process holds. *)
FiberHoldsMessage ==
  \A m \in Message : fiber[m] # "none" => place[m] = "unacked"

(* What each phase rests on. *)
PhaseEvidence ==
  \A m \in Message :
    /\ fiber[m] \in {"succeeded", "recorded"} => m \in accepted
    /\ fiber[m] \in {"refused", "buried", "exhausted", "rescheduled"} => m \in refused
    /\ fiber[m] \in {"buried", "exhausted"} => m \in dlq
    /\ fiber[m] \in {"buried", "exhausted"} => Exhausted(m)
    /\ m \in dlq => m \in refused

IInv ==
  /\ TypeOK
  /\ FiberHoldsMessage
  /\ PhaseEvidence
  /\ DeliveredRowIsTrue
  /\ GivesUpOnlyOnReplays

ConnectionStep ==
  \/ \E m \in Message : Deliver(m) /\ UNCHANGED <<publisherVars, workerVars>>
  \/ LoseConnection
  \/ Restart /\ UNCHANGED <<publisherVars, workerVars>>

(* Only a replay can carry an attempt number near the limit. *)
LEMMA LateIsReplay ==
  ASSUME NEW m \in Message, NextAttempt(m) >= MaxAttempts - 1
  PROVE  IsReplay(m)
<1>1. AttemptOf[m] # 0
  BY AttemptAssumption, MaxAttemptsAssumption DEF NextAttempt
<1> QED
  BY <1>1, AttemptAssumption

LEMMA ExhaustedIsReplay ==
  ASSUME NEW m \in Message, Exhausted(m)
  PROVE  IsReplay(m)
<1>1. NextAttempt(m) >= MaxAttempts - 1
  BY AttemptAssumption, MaxAttemptsAssumption DEF Exhausted, NextAttempt
<1> QED
  BY <1>1, LateIsReplay

LEMMA InitIInv == Init => IInv
<1> SUFFICES ASSUME Init PROVE IInv
  OBVIOUS
<1>1. TypeOK
  BY InitTypeOK DEF Init
<1>2. \A d \in Delivery : row[d].status = "absent"
  BY DEF Init, PublisherInit, NoRow
<1> QED
  BY <1>1, <1>2 DEF Init, IInv, FiberHoldsMessage, PhaseEvidence,
                    DeliveredRowIsTrue, GivesUpOnlyOnReplays

(* The publisher touches the queue only by putting a message on it. *)
LEMMA PublisherQueue ==
  ASSUME TypeOK, PublisherNext
  PROVE  \/ UNCHANGED consumerVars
         \/ \E m \in Message : Enqueue(m) /\ UNCHANGED <<up, losses>>
<1>1. ASSUME NEW d \in Delivery, Publish(d)
      PROVE  \/ UNCHANGED consumerVars
             \/ \E m \in Message : Enqueue(m) /\ UNCHANGED <<up, losses>>
  <2>1. calls[d] \in Nat /\ calls[d] < PublishCalls
    BY <1>1, PublishCallsAssumption DEF Publish, TypeOK, PublisherTypeOK
  <2>2. calls[d] + 1 \in Copy
    BY <2>1, PublishCallsAssumption, ReplaysAssumption DEF Copy
  <2>3. <<d, calls[d] + 1>> \in Message
    BY <2>2, MessageAssumption
  <2> QED
    BY <1>1, <2>3 DEF Publish, consumerVars
<1>2. ASSUME NEW d \in Delivery, Replay(d)
      PROVE  \E m \in Message : Enqueue(m) /\ UNCHANGED <<up, losses>>
  BY <1>2, MessageDelivery DEF Replay
<1> QED
  BY <1>1, <1>2 DEF PublisherNext, CreateSubscription, DeleteSubscription,
                    SelectSubscriptions, InsertRow

(* The publisher moves neither a fiber nor the evidence, and the rows it   *)
(* writes are absent or pending, or were there before.                     *)
LEMMA PublisherSafe ==
  ASSUME IInv, PublisherNext, UNCHANGED workerVars
  PROVE  /\ FiberHoldsMessage' /\ PhaseEvidence'
         /\ DeliveredRowIsTrue' /\ GivesUpOnlyOnReplays'
<1> USE DEF IInv
<1>0. UNCHANGED <<fiber, accepted, refused, dlq>>
  BY DEF workerVars
<1>1. \A m \in Message : place[m] = "unacked" => place'[m] = "unacked"
  BY PublisherQueue DEF Enqueue, TypeOK, ConsumerTypeOK, consumerVars
<1>2. \A d \in Delivery :
        row'[d].status \in {"delivered", "failed"} => row'[d].status = row[d].status
  <2>1. ASSUME NEW s \in Sub, DeleteSubscription(s)
        PROVE  \A d \in Delivery : row'[d] = NoRow \/ row'[d] = row[d]
    BY <2>1 DEF DeleteSubscription
  <2>2. ASSUME NEW c \in Delivery, InsertRow(c)
        PROVE  \A d \in Delivery : row'[d].status = "pending" \/ row'[d] = row[d]
    <3>1. \/ row' = [row EXCEPT ![c].status = "pending"]
          \/ row' = row
      BY <2>2 DEF InsertRow
    <3>2. row \in [Delivery -> Row]
      BY DEF TypeOK, PublisherTypeOK
    <3> QED
      BY <3>1, <3>2 DEF Row
  <2>3. ASSUME ~\E s \in Sub : DeleteSubscription(s),
               ~\E c \in Delivery : InsertRow(c)
        PROVE  UNCHANGED row
    BY <2>3 DEF PublisherNext, CreateSubscription, SelectSubscriptions,
                Publish, Replay, publisherVars
  <2> QED
    BY <2>1, <2>2, <2>3 DEF NoRow
<1>3. FiberHoldsMessage'
  BY <1>0, <1>1 DEF FiberHoldsMessage
<1>4. PhaseEvidence'
  BY <1>0 DEF PhaseEvidence, Exhausted, NextAttempt
<1>5. DeliveredRowIsTrue'
  BY <1>0, <1>2 DEF DeliveredRowIsTrue
<1>6. GivesUpOnlyOnReplays'
  BY <1>0, <1>2 DEF GivesUpOnlyOnReplays
<1> QED
  BY <1>3, <1>4, <1>5, <1>6

(* Deliver, LoseConnection and Restart touch no row and no evidence. *)
LEMMA ConnectionSafe ==
  ASSUME IInv, ConnectionStep
  PROVE  /\ FiberHoldsMessage' /\ PhaseEvidence'
         /\ DeliveredRowIsTrue' /\ GivesUpOnlyOnReplays'
<1> USE DEF IInv
<1>1. UNCHANGED <<row, accepted, refused, dlq>>
  BY DEF ConnectionStep, LoseConnection, publisherVars, workerVars
<1>2. \A m \in Message : fiber'[m] = fiber[m] \/ fiber'[m] = "none"
  BY DEF ConnectionStep, LoseConnection, workerVars
<1>3. FiberHoldsMessage'
  <2>1. ASSUME NEW m \in Message, Deliver(m), UNCHANGED workerVars
        PROVE  FiberHoldsMessage'
    BY <2>1 DEF Deliver, FiberHoldsMessage, workerVars, TypeOK, ConsumerTypeOK
  <2>2. CASE LoseConnection
    BY <2>2 DEF LoseConnection, FiberHoldsMessage
  <2>3. CASE Restart /\ UNCHANGED workerVars
    BY <2>3 DEF Restart, FiberHoldsMessage, workerVars
  <2> QED
    BY <2>1, <2>2, <2>3 DEF ConnectionStep
<1>4. PhaseEvidence'
  BY <1>1, <1>2 DEF PhaseEvidence, Exhausted, NextAttempt
<1>5. DeliveredRowIsTrue'
  BY <1>1 DEF DeliveredRowIsTrue
<1>6. GivesUpOnlyOnReplays'
  BY <1>1 DEF GivesUpOnlyOnReplays
<1> QED
  BY <1>3, <1>4, <1>5, <1>6

(* A fiber's step moves that fiber alone, between phases of a message it   *)
(* holds, and ends it when the message is settled.                         *)
LEMMA WorkerHolds ==
  ASSUME IInv, NEW m \in Message, WorkerStep(m)
  PROVE  FiberHoldsMessage'
<1> USE DEF IInv, TypeOK, ConsumerTypeOK, FiberHoldsMessage, Goto
<1>1. CASE Take(m) \/ Post(m) \/ DeadLetter(m) \/ MarkDelivered(m) \/ MarkFailed(m)
  <2>1. place[m] = "unacked" /\ UNCHANGED place
    BY <1>1 DEF Take, Waiting, Post, DeadLetter, MarkDelivered, MarkFailed,
                consumerVars
  <2>2. \A n \in Message : n # m => fiber'[n] = fiber[n]
    BY <1>1 DEF Take, Post, DeadLetter, MarkDelivered, MarkFailed
  <2> QED
    BY <2>1, <2>2
<1>2. CASE RejectInvalid(m) \/ AckHandled(m) \/ NackForRetry(m)
  <2>1. fiber'[m] = "none"
    BY <1>2 DEF RejectInvalid, Waiting, AckHandled, NackForRetry
  <2>2. \A n \in Message : n # m => fiber'[n] = fiber[n] /\ place'[n] = place[n]
    BY <1>2 DEF RejectInvalid, AckHandled, NackForRetry, Ack, Nack
  <2> QED
    BY <2>1, <2>2
<1> QED
  BY <1>1, <1>2 DEF WorkerStep

LEMMA WorkerEvidence ==
  ASSUME IInv, NEW m \in Message, WorkerStep(m)
  PROVE  PhaseEvidence'
<1> USE DEF IInv, TypeOK, PhaseEvidence, Goto, Exhausted, NextAttempt
<1>1. CASE Take(m)
  BY <1>1 DEF Take
<1>2. CASE RejectInvalid(m)
  BY <1>2 DEF RejectInvalid
<1>3. CASE Post(m)
  BY <1>3 DEF Post
<1>4. CASE MarkDelivered(m)
  BY <1>4 DEF MarkDelivered
<1>5. CASE DeadLetter(m)
  BY <1>5 DEF DeadLetter
<1>6. CASE MarkFailed(m)
  BY <1>6 DEF MarkFailed
<1>7. CASE AckHandled(m)
  BY <1>7 DEF AckHandled
<1>8. CASE NackForRetry(m)
  BY <1>8 DEF NackForRetry
<1> QED
  BY <1>1, <1>2, <1>3, <1>4, <1>5, <1>6, <1>7, <1>8 DEF WorkerStep

(* Evidence only grows. *)
LEMMA EvidenceGrows ==
  ASSUME NEW m \in Message, WorkerStep(m)
  PROVE  accepted \subseteq accepted' /\ refused \subseteq refused'
BY DEF WorkerStep, Take, RejectInvalid, Post, MarkDelivered, DeadLetter,
       MarkFailed, AckHandled, NackForRetry

(* Rows change in MarkDelivered and MarkFailed only. *)
LEMMA RowWritten ==
  ASSUME IInv, NEW m \in Message, WorkerStep(m), NEW d \in Delivery
  PROVE  \/ row'[d] = row[d]
         \/ /\ d = DeliveryOf(m) /\ row'[d].status = "delivered"
            /\ m \in accepted
         \/ /\ d = DeliveryOf(m) /\ row'[d].status \in {"pending", "failed"}
            /\ row'[d].status = "failed" => IsReplay(m) /\ m \in refused
<1> USE DEF IInv, TypeOK, PublisherTypeOK
<1>0. DeliveryOf(m) \in Delivery
  BY MessageDelivery
<1>1. CASE MarkDelivered(m)
  <2>1. m \in accepted
    BY <1>1 DEF MarkDelivered, PhaseEvidence
  <2> QED
    BY <1>0, <1>1, <2>1 DEF MarkDelivered, UpdateRow
<1>2. CASE MarkFailed(m)
  <2>1. m \in refused
    BY <1>2 DEF MarkFailed, PhaseEvidence
  <2>2. CASE NextAttempt(m) >= MaxAttempts - 1
    BY <1>0, <1>2, <2>1, <2>2, LateIsReplay DEF MarkFailed, UpdateRow
  <2>3. CASE ~(NextAttempt(m) >= MaxAttempts - 1)
    BY <1>0, <1>2, <2>3 DEF MarkFailed, UpdateRow
  <2> QED
    BY <2>2, <2>3
<1>3. CASE UNCHANGED row
  BY <1>3
<1> QED
  BY <1>1, <1>2, <1>3 DEF WorkerStep, Take, RejectInvalid, Post, DeadLetter,
                          AckHandled, NackForRetry, publisherVars

LEMMA WorkerSafe ==
  ASSUME IInv, NEW m \in Message, WorkerStep(m)
  PROVE  /\ FiberHoldsMessage' /\ PhaseEvidence'
         /\ DeliveredRowIsTrue' /\ GivesUpOnlyOnReplays'
<1> USE DEF IInv
<1>1. DeliveredRowIsTrue'
  BY RowWritten, EvidenceGrows, MessageDelivery DEF DeliveredRowIsTrue
<1>2. \A d \in Delivery : row'[d].status = "failed" =>
        \E n \in CopiesOf(d) : IsReplay(n) /\ n \in refused'
  BY RowWritten, EvidenceGrows, MessageDelivery DEF GivesUpOnlyOnReplays
<1>3. \A n \in dlq' : IsReplay(n)
  <2>1. CASE DeadLetter(m)
    BY <2>1, ExhaustedIsReplay DEF DeadLetter, GivesUpOnlyOnReplays
  <2>2. CASE UNCHANGED dlq
    BY <2>2 DEF GivesUpOnlyOnReplays
  <2> QED
    BY <2>1, <2>2 DEF WorkerStep, Take, RejectInvalid, Post, MarkDelivered,
                      MarkFailed, AckHandled, NackForRetry
<1> QED
  BY <1>1, <1>2, <1>3, WorkerHolds, WorkerEvidence DEF GivesUpOnlyOnReplays

THEOREM InductiveInvariant == Spec => []IInv
<1>1. IInv /\ [Next]_vars => IInv'
  <2> SUFFICES ASSUME IInv, [Next]_vars PROVE IInv'
    OBVIOUS
  <2>1. CASE UNCHANGED vars
    <3>1. TypeOK'
      BY <2>1 DEF vars, consumerVars, publisherVars, workerVars,
                  IInv, TypeOK, ConsumerTypeOK, PublisherTypeOK
    <3> QED
      BY <2>1, <3>1 DEF vars, consumerVars, publisherVars, workerVars, IInv,
           FiberHoldsMessage, PhaseEvidence, Exhausted, NextAttempt,
           DeliveredRowIsTrue, GivesUpOnlyOnReplays
  <2>2. CASE PublisherNext /\ UNCHANGED workerVars
    BY <2>2, PublisherTypes, PublisherSafe DEF IInv, Next
  <2>3. CASE \E m \in Message : WorkerStep(m)
    BY <2>3, WorkerTypes, WorkerSafe DEF IInv, Next
  <2>4. CASE ConnectionStep
    BY <2>4, ConnectionTypes, ConnectionSafe
       DEF IInv, Next, ConnectionStep
  <2> QED
    BY <2>1, <2>2, <2>3, <2>4 DEF Next, ConnectionStep
<1> QED
  BY <1>1, InitIInv, PTL DEF Spec

(* A row that says "delivered" tells the truth. *)
THEOREM DeliveredIsTrue == Spec => []DeliveredRowIsTrue
BY InductiveInvariant, PTL DEF IInv

(* Without a replay no row fails and nothing reaches the DLQ. *)
THEOREM NeverGivesUpAlone == Spec => []GivesUpOnlyOnReplays
BY InductiveInvariant, PTL DEF IInv

-----------------------------------------------------------------------------
(* Refinement of JobContract *)

Jobs == [m \in Message |-> JobState(m)]

(* A job's state follows the place of its message. *)
LEMMA JobStateOf ==
  ASSUME NEW m \in Message
  PROVE  /\ place[m] = "absent" => Jobs[m] = "unsent"
         /\ place[m] = "acked" => Jobs[m] = "finished"
         /\ place[m] = "discarded" => Jobs[m] = "dropped"
         /\ place[m] \in {"ready", "unacked"} => Jobs[m] = "pending"
BY DEF Jobs, JobState

LEMMA JobStateOfNext ==
  ASSUME NEW m \in Message
  PROVE  /\ place'[m] = "absent" => Jobs'[m] = "unsent"
         /\ place'[m] = "acked" => Jobs'[m] = "finished"
         /\ place'[m] = "discarded" => Jobs'[m] = "dropped"
         /\ place'[m] \in {"ready", "unacked"} => Jobs'[m] = "pending"
BY DEF Jobs, JobState

(* One message moved: one job moved. *)
LEMMA JobMoves ==
  ASSUME TypeOK, TypeOK', NEW m \in Message,
         \A n \in Message : n # m => place'[n] = place[n]
  PROVE  Jobs' = [Jobs EXCEPT ![m] = Jobs'[m]]
<1>1. \A n \in Message : n # m => Jobs'[n] = Jobs[n]
  BY DEF Jobs, JobState
<1> QED
  BY <1>1 DEF Jobs

(* Moving between "ready" and "unacked" moves no job. *)
LEMMA JobsStay ==
  ASSUME TypeOK, TypeOK',
         \A n \in Message : \/ place'[n] = place[n]
                            \/ {place[n], place'[n]} \subseteq {"ready", "unacked"}
  PROVE  Jobs' = Jobs
<1>1. ASSUME NEW n \in Message PROVE Jobs'[n] = Jobs[n]
  <2>1. CASE place'[n] = place[n]
    BY <2>1 DEF Jobs, JobState
  <2>2. CASE {place[n], place'[n]} \subseteq {"ready", "unacked"}
    BY <2>2, JobStateOf, JobStateOfNext
  <2> QED
    BY <2>1, <2>2
<1> QED
  BY <1>1 DEF Jobs

LEMMA InitRefines == Init => Contract!Init
BY DEF Init, ConsumerInit, Contract!Init, JobState

LEMMA StutterRefines ==
  ASSUME Jobs' = Jobs, UNCHANGED <<accepted, refused, dlq>>
  PROVE  UNCHANGED Contract!jobVars
BY DEF Contract!jobVars, Jobs

(* A buffered publish call or a replay sends a job. *)
LEMMA PublisherRefines ==
  ASSUME TypeOK, TypeOK', PublisherNext, UNCHANGED workerVars
  PROVE  [Contract!Next]_(Contract!jobVars)
<1>0. UNCHANGED <<accepted, refused, dlq>>
  BY DEF workerVars
<1>1. CASE UNCHANGED consumerVars
  BY <1>0, <1>1, JobsStay, StutterRefines DEF consumerVars
<1>2. ASSUME NEW m \in Message, Enqueue(m) PROVE Contract!Send(m)
  <2>1. Jobs[m] = "unsent" /\ Jobs'[m] = "pending"
    BY <1>2, JobStateOf, JobStateOfNext DEF Enqueue, TypeOK, ConsumerTypeOK
  <2>2. Jobs' = [Jobs EXCEPT ![m] = "pending"]
    BY <1>2, <2>1, JobMoves DEF Enqueue, TypeOK, ConsumerTypeOK
  <2> QED
    BY <1>0, <2>1, <2>2 DEF Contract!Send, Jobs
<1> QED
  BY <1>1, <1>2, PublisherQueue DEF Contract!Next

LEMMA ConnectionRefines ==
  ASSUME TypeOK, TypeOK', ConnectionStep
  PROVE  UNCHANGED Contract!jobVars
<1>1. UNCHANGED <<accepted, refused, dlq>>
  BY DEF ConnectionStep, LoseConnection, workerVars
<1>2. \A n \in Message : \/ place'[n] = place[n]
                         \/ {place[n], place'[n]} \subseteq {"ready", "unacked"}
  BY DEF ConnectionStep, Deliver, LoseConnection, Lose, Restart, TypeOK,
         ConsumerTypeOK
<1> QED
  BY <1>1, <1>2, JobsStay, StutterRefines

(* An ack rests on an accepted POST or a copy on the DLQ, a nack on a      *)
(* failed run: the evidence of the fiber's phase.                          *)
LEMMA WorkerRefines ==
  ASSUME IInv, TypeOK', NEW m \in Message, WorkerStep(m)
  PROVE  [Contract!Next]_(Contract!jobVars)
<1> USE DEF IInv
<1>1. place[m] = "unacked" /\ Jobs[m] = "pending"
  <2>1. place[m] = "unacked"
    BY DEF WorkerStep, Take, RejectInvalid, Waiting, Post, MarkDelivered, DeadLetter,
           MarkFailed, AckHandled, NackForRetry, FiberHoldsMessage
  <2> QED
    BY <2>1, JobStateOf
<1>2. CASE UNCHANGED <<place, accepted, refused, dlq>>
  BY <1>2, JobsStay, StutterRefines
<1>3. CASE RejectInvalid(m)
  <2>1. Jobs' = [Jobs EXCEPT ![m] = "dropped"]
    BY <1>3, JobMoves, JobStateOfNext DEF RejectInvalid, Nack, TypeOK, ConsumerTypeOK
  <2>2. Contract!Reject(m)
    BY <1>1, <1>3, <2>1 DEF RejectInvalid, Contract!Reject, Jobs
  <2> QED
    BY <2>2 DEF Contract!Next
<1>4. CASE Post(m)
  <2>1. Jobs' = Jobs
    BY <1>4, JobsStay DEF Post, consumerVars
  <2>2. Contract!Run(m)
    BY <1>1, <1>4, <2>1 DEF Post, Contract!Run, Jobs
  <2> QED
    BY <2>2 DEF Contract!Next
<1>5. CASE DeadLetter(m)
  <2>1. Jobs' = Jobs
    BY <1>5, JobsStay DEF DeadLetter, consumerVars
  <2>2. m \in refused
    BY <1>5 DEF DeadLetter, PhaseEvidence
  <2>3. CASE dlq' = dlq
    BY <1>5, <2>1, <2>3, StutterRefines DEF DeadLetter
  <2>4. CASE dlq' = dlq \cup {m}
    <3>1. Contract!Bury(m)
      BY <1>1, <1>5, <2>1, <2>2, <2>4 DEF DeadLetter, Contract!Bury, Jobs
    <3> QED
      BY <3>1 DEF Contract!Next
  <2> QED
    BY <1>5, <2>3, <2>4 DEF DeadLetter
<1>6. CASE AckHandled(m)
  <2>1. m \in accepted \cup dlq
    BY <1>6 DEF AckHandled, PhaseEvidence
  <2>2. Jobs' = [Jobs EXCEPT ![m] = "finished"]
    BY <1>6, JobMoves, JobStateOfNext DEF AckHandled, Ack, TypeOK, ConsumerTypeOK
  <2>3. Contract!Finish(m)
    BY <1>1, <1>6, <2>1, <2>2 DEF AckHandled, Contract!Finish, Jobs
  <2> QED
    BY <2>3 DEF Contract!Next
<1>7. CASE NackForRetry(m)
  <2>1. m \in refused
    BY <1>7 DEF NackForRetry, PhaseEvidence
  <2>2. Jobs' = [Jobs EXCEPT ![m] = "dropped"]
    BY <1>7, JobMoves, JobStateOfNext DEF NackForRetry, Nack, TypeOK, ConsumerTypeOK
  <2>3. Contract!Drop(m)
    BY <1>1, <1>7, <2>1, <2>2 DEF NackForRetry, Contract!Drop, Jobs
  <2> QED
    BY <2>3 DEF Contract!Next
<1> QED
  BY <1>2, <1>3, <1>4, <1>5, <1>6, <1>7
     DEF WorkerStep, Take, MarkDelivered, MarkFailed, consumerVars

(* The worker keeps the contract of JobContract for any set of messages:   *)
(* nothing is acked without an effect or a burial, nothing is dropped      *)
(* without a failure.                                                      *)
THEOREM ContractKept == Spec => KeepsContract
<1>1. IInv /\ IInv' /\ [Next]_vars => [Contract!Next]_(Contract!jobVars)
  <2> SUFFICES ASSUME IInv, IInv', [Next]_vars
               PROVE  [Contract!Next]_(Contract!jobVars)
    OBVIOUS
  <2>1. CASE UNCHANGED vars
    BY <2>1, JobsStay, StutterRefines DEF vars, consumerVars, workerVars, IInv
  <2>2. CASE PublisherNext /\ UNCHANGED workerVars
    BY <2>2, PublisherRefines DEF IInv
  <2>3. CASE \E m \in Message : WorkerStep(m)
    BY <2>3, WorkerRefines DEF IInv
  <2>4. CASE ConnectionStep
    BY <2>4, ConnectionRefines DEF IInv
  <2> QED
    BY <2>1, <2>2, <2>3, <2>4 DEF Next, ConnectionStep
<1> QED
  BY <1>1, InitRefines, InductiveInvariant, PTL DEF Spec, KeepsContract, Contract!Spec
-----------------------------------------------------------------------------
(***************************************************************************)
(* What WebhookDelivery does to a row as long as no connection is lost:    *)
(* every copy of a job then runs once.  So a delivered row flips back only *)
(* for a second copy, and the attempts column counts no failure twice.     *)
(* The theorems hold for any events, subscriptions, retries and replays.   *)
(***************************************************************************)

(* Nothing is published, and nothing replayed, before emit's INSERT.       *)
UnsentYet ==
  \A d \in Delivery :
    /\ EventOf(d) \notin emitted => emission[d] = "idle"
    /\ emission[d] \in {"idle", "insert"} =>
         \A m \in CopiesOf(d) : place[m] = "absent"

AcceptedWasSent == \A m \in accepted : place[m] # "absent"

(* A run that is still to come, or has no answer yet, is the first one.    *)
FirstRun(m) ==
  \/ place[m] \in {"absent", "ready"}
  \/ place[m] = "unacked" /\ fiber[m] \in {"none", "posting"}

FirstRunIsClean == \A m \in Message : FirstRun(m) => m \notin refused

(* The run that wrote "delivered" is over, but for its ack.                *)
RunIsOver(m) == fiber[m] = "recorded" \/ Settled(m)

DeliveredHasRun ==
  \A d \in Delivery :
    row[d].status = "delivered" => \E m \in CopiesOf(d) : RunIsOver(m)

(* The copies whose failure is in the attempts column, or was left out of  *)
(* it by an UPDATE that failed.                                            *)
Counted(d) ==
  {m \in CopiesOf(d) : m \in refused /\ fiber[m] \notin {"refused", "buried"}}

AttemptsCounted ==
  \A d \in Delivery : row[d].attempts <= Cardinality(Counted(d))

RunInv ==
  /\ UnsentYet /\ AcceptedWasSent
  /\ losses = 0 => FirstRunIsClean /\ DeliveredHasRun /\ AttemptsCounted

-----------------------------------------------------------------------------

LEMMA CopiesAreFinite ==
  ASSUME NEW d \in Delivery
  PROVE  IsFiniteSet(CopiesOf(d))
<1>1. IsFiniteSet(Copy)
  BY FS_Interval, PublishCallsAssumption, ReplaysAssumption DEF Copy
<1>2. IsFiniteSet({d})
  BY FS_Singleton
<1>3. IsFiniteSet({d} \X Copy)
  BY <1>1, <1>2, FS_Product
<1>4. CopiesOf(d) = {d} \X Copy
  BY DEF CopiesOf
<1> QED
  BY <1>3, <1>4

LEMMA CountedIsFinite ==
  ASSUME NEW d \in Delivery
  PROVE  /\ IsFiniteSet(Counted(d)) /\ Cardinality(Counted(d)) \in Nat
         /\ IsFiniteSet(Counted(d)') /\ Cardinality(Counted(d)') \in Nat
<1>1. Counted(d) \in SUBSET CopiesOf(d) /\ Counted(d)' \in SUBSET CopiesOf(d)
  BY DEF Counted
<1> QED
  BY <1>1, CopiesAreFinite, FS_Subset, FS_CardinalityType

LEMMA InitRunInv == Init => RunInv
<1> SUFFICES ASSUME Init PROVE RunInv
  OBVIOUS
<1>1. UnsentYet /\ AcceptedWasSent /\ FirstRunIsClean
  BY MessageDelivery
     DEF Init, ConsumerInit, PublisherInit, UnsentYet, AcceptedWasSent,
         FirstRunIsClean
<1>2. DeliveredHasRun
  BY DEF Init, PublisherInit, NoRow, DeliveredHasRun
<1>3. AttemptsCounted
  <2> SUFFICES ASSUME NEW d \in Delivery
               PROVE  row[d].attempts <= Cardinality(Counted(d))
    BY DEF AttemptsCounted
  <2>1. row[d].attempts = 0
    BY DEF Init, PublisherInit, NoRow
  <2> QED
    BY <2>1, CountedIsFinite
<1> QED
  BY <1>1, <1>2, <1>3 DEF RunInv

(* More copies counted, no attempt added: the bound stays. *)
LEMMA CountedGrows ==
  ASSUME NEW d \in Delivery, row[d].attempts \in Nat,
         row[d].attempts <= Cardinality(Counted(d)),
         Counted(d) \subseteq Counted(d)',
         row'[d].attempts \in {0, row[d].attempts}
  PROVE  row'[d].attempts <= Cardinality(Counted(d)')
<1>1. Cardinality(Counted(d)) <= Cardinality(Counted(d)')
  BY CountedIsFinite, FS_Subset
<1> QED
  BY <1>1, CountedIsFinite

(* The failure that is added is one that was not counted before. *)
LEMMA CountedAdds ==
  ASSUME NEW d \in Delivery, row[d].attempts \in Nat,
         row[d].attempts <= Cardinality(Counted(d)),
         NEW m \in Counted(d)', m \notin Counted(d),
         Counted(d) \subseteq Counted(d)',
         row'[d].attempts = row[d].attempts + 1
  PROVE  row'[d].attempts <= Cardinality(Counted(d)')
<1>1. Cardinality(Counted(d) \cup {m}) = Cardinality(Counted(d)) + 1
  BY CountedIsFinite, FS_AddElement
<1>2. Counted(d) \cup {m} \in SUBSET Counted(d)'
  OBVIOUS
<1>3. Cardinality(Counted(d) \cup {m}) <= Cardinality(Counted(d)')
  BY <1>2, CountedIsFinite, FS_Subset
<1> QED
  BY <1>1, <1>3, CountedIsFinite

-----------------------------------------------------------------------------
(* The publisher *)

(* What an enqueued message tells: emit is past its INSERT. *)
LEMMA EnqueuedIsPast ==
  ASSUME TypeOK, UnsentYet, PublisherNext, NEW m \in Message, place'[m] # place[m]
  PROVE  /\ place[m] = "absent" /\ place'[m] = "ready"
         /\ emission[DeliveryOf(m)] \notin {"idle", "insert"}
<1>1. PICK d \in Delivery : Publish(d) \/ Replay(d)
  BY DEF PublisherNext, CreateSubscription, DeleteSubscription,
         SelectSubscriptions, InsertRow, consumerVars
<1>2. PICK n \in CopiesOf(d) : Enqueue(n)
  <2>1. CASE Publish(d)
    <3>1. calls[d] + 1 \in 1..PublishCalls
      BY <2>1, PublishCallsAssumption DEF Publish, TypeOK, PublisherTypeOK
    <3> QED
      BY <2>1, <3>1, PublishedCopy DEF Publish
  <2>2. CASE Replay(d)
    BY <2>2 DEF Replay
  <2> QED
    BY <1>1, <2>1, <2>2
<1>3. m = n /\ place[m] = "absent" /\ place'[m] = "ready"
  BY <1>2, MessageDelivery DEF Enqueue, TypeOK, ConsumerTypeOK
<1>4. DeliveryOf(m) = d
  BY <1>3 DEF CopiesOf, DeliveryOf
<1>5. emission[d] \notin {"idle", "insert"}
  <2>1. CASE Publish(d)
    BY <2>1 DEF Publish
  <2>2. CASE Replay(d)
    BY <2>2, MessageDelivery DEF Replay, Settled, UnsentYet
  <2> QED
    BY <1>1, <2>1, <2>2
<1> QED
  BY <1>3, <1>4, <1>5

LEMMA PublisherKeepsRuns ==
  ASSUME IInv, RunInv, PublisherNext, UNCHANGED workerVars
  PROVE  RunInv'
<1> USE DEF IInv, RunInv
<1>0. UNCHANGED <<fiber, accepted, refused, dlq>>
  BY DEF workerVars
<1>1. \A m \in Message :
        \/ place'[m] = place[m]
        \/ /\ place[m] = "absent" /\ place'[m] = "ready"
           /\ emission[DeliveryOf(m)] \notin {"idle", "insert"}
  BY EnqueuedIsPast
<1>2. losses' = losses
  BY PublisherQueue DEF consumerVars
<1>3. \A d \in Delivery :
        /\ EventOf(d) \notin emitted' =>
             EventOf(d) \notin emitted /\ emission'[d] = emission[d]
        /\ emission'[d] \in {"idle", "insert"} => emission[d] \in {"idle", "insert"}
  <2> USE DEF TypeOK, PublisherTypeOK, UnsentYet
  <2>1. ASSUME NEW e \in Event, SelectSubscriptions(e)
        PROVE  \A d \in Delivery :
                 /\ EventOf(d) \notin emitted' =>
                      EventOf(d) \notin emitted /\ emission'[d] = emission[d]
                 /\ emission'[d] \in {"idle", "insert"} =>
                      emission[d] \in {"idle", "insert"}
    BY <2>1 DEF SelectSubscriptions
  <2>2. ASSUME NEW c \in Delivery, InsertRow(c) \/ Publish(c)
        PROVE  \A d \in Delivery :
                 /\ EventOf(d) \notin emitted' =>
                      EventOf(d) \notin emitted /\ emission'[d] = emission[d]
                 /\ emission'[d] \in {"idle", "insert"} =>
                      emission[d] \in {"idle", "insert"}
    BY <2>2 DEF InsertRow, Publish
  <2>3. CASE UNCHANGED <<emitted, emission>>
    BY <2>3
  <2> QED
    BY <2>1, <2>2, <2>3
       DEF PublisherNext, CreateSubscription, DeleteSubscription, Replay,
           publisherVars
<1>4. \A d \in Delivery :
        /\ row'[d].status = "delivered" => row[d].status = "delivered"
        /\ row[d].attempts \in Nat
        /\ row'[d].attempts \in {0, row[d].attempts}
  <2>0. row \in [Delivery -> Row]
    BY DEF TypeOK, PublisherTypeOK
  <2>1. ASSUME NEW s \in Sub, DeleteSubscription(s)
        PROVE  \A d \in Delivery : row'[d] = NoRow \/ row'[d] = row[d]
    BY <2>1 DEF DeleteSubscription
  <2>2. ASSUME NEW c \in Delivery, InsertRow(c)
        PROVE  \A d \in Delivery :
                 /\ row'[d].status \in {"pending", row[d].status}
                 /\ row'[d].attempts = row[d].attempts
    BY <2>0, <2>2 DEF InsertRow, Row
  <2>3. ASSUME ~\E s \in Sub : DeleteSubscription(s),
               ~\E c \in Delivery : InsertRow(c)
        PROVE  UNCHANGED row
    BY <2>3 DEF PublisherNext, CreateSubscription, SelectSubscriptions,
                Publish, Replay, publisherVars
  <2>4. \A d \in Delivery : row[d].attempts \in Nat
    BY <2>0 DEF Row
  <2> QED
    BY <2>1, <2>2, <2>3, <2>4 DEF NoRow
<1>5. UnsentYet'
  <2> SUFFICES ASSUME NEW d \in Delivery
               PROVE  /\ EventOf(d) \notin emitted' => emission'[d] = "idle"
                      /\ emission'[d] \in {"idle", "insert"} =>
                           \A m \in CopiesOf(d) : place'[m] = "absent"
    BY DEF UnsentYet, EventOf, CopiesOf
  <2>1. \A m \in CopiesOf(d) : m \in Message /\ DeliveryOf(m) = d
    BY MessageDelivery DEF CopiesOf, DeliveryOf
  <2> QED
    BY <1>1, <1>3, <2>1 DEF UnsentYet
<1>6. AcceptedWasSent'
  BY <1>0, <1>1 DEF AcceptedWasSent, TypeOK
<1>7. ASSUME losses = 0 PROVE FirstRunIsClean'
  BY <1>0, <1>1, <1>7 DEF FirstRunIsClean, FirstRun
<1>8. ASSUME losses = 0 PROVE DeliveredHasRun'
  <2>1. \A m \in Message : RunIsOver(m) => RunIsOver(m)'
    BY <1>0, <1>1 DEF RunIsOver, Settled
  <2> QED
    BY <1>4, <1>8, <2>1, MessageDelivery DEF DeliveredHasRun, CopiesOf
<1>9. ASSUME losses = 0 PROVE AttemptsCounted'
  <2> SUFFICES ASSUME NEW d \in Delivery
               PROVE  row'[d].attempts <= Cardinality(Counted(d)')
    BY DEF AttemptsCounted, Counted, CopiesOf
  <2>1. Counted(d)' = Counted(d)
    BY <1>0 DEF Counted
  <2>2. row[d].attempts <= Cardinality(Counted(d))
    BY <1>9 DEF AttemptsCounted
  <2> QED
    BY <1>4, <2>1, <2>2, CountedGrows
<1> QED
  BY <1>2, <1>5, <1>6, <1>7, <1>8, <1>9

-----------------------------------------------------------------------------
(* The connection *)

LEMMA ConnectionKeepsRuns ==
  ASSUME IInv, RunInv, ConnectionStep
  PROVE  RunInv'
<1> USE DEF IInv, RunInv
<1>1. UNCHANGED <<row, emitted, emission, accepted, refused>>
  BY DEF ConnectionStep, LoseConnection, publisherVars, workerVars
<1>2. \A m \in Message : \/ place'[m] = place[m]
                         \/ {place[m], place'[m]} \subseteq {"ready", "unacked"}
  BY DEF ConnectionStep, Deliver, LoseConnection, Lose, Restart, TypeOK,
         ConsumerTypeOK
<1>3. UnsentYet'
  BY <1>1, <1>2, MessageDelivery DEF UnsentYet, EventOf, CopiesOf
<1>4. AcceptedWasSent'
  BY <1>1, <1>2 DEF AcceptedWasSent, TypeOK
<1>5. CASE LoseConnection
  <2>1. losses' # 0
    BY <1>5 DEF LoseConnection, Lose, TypeOK, ConsumerTypeOK
  <2> QED
    BY <1>3, <1>4, <2>1
<1>6. CASE ~LoseConnection
  <2>1. losses' = losses /\ fiber' = fiber
    BY <1>6 DEF ConnectionStep, Deliver, Restart, workerVars
  <2>2. \A m \in Message : FirstRun(m)' => FirstRun(m)
    <3>1. \A m \in Message : \/ place'[m] = place[m]
                             \/ place[m] = "ready"
      BY <1>6 DEF ConnectionStep, Deliver, Restart, TypeOK, ConsumerTypeOK
    <3> QED
      BY <2>1, <3>1 DEF FirstRun
  <2>3. \A m \in Message : RunIsOver(m) => RunIsOver(m)'
    BY <1>2, <2>1 DEF RunIsOver, Settled
  <2>4. losses = 0 => FirstRunIsClean'
    BY <1>1, <2>2 DEF FirstRunIsClean
  <2>5. losses = 0 => DeliveredHasRun'
    BY <1>1, <2>3, MessageDelivery DEF DeliveredHasRun, CopiesOf
  <2>6. losses = 0 => AttemptsCounted'
    BY <1>1, <2>1 DEF AttemptsCounted, Counted, CopiesOf
  <2> QED
    BY <1>3, <1>4, <2>1, <2>4, <2>5, <2>6
<1> QED
  BY <1>5, <1>6

-----------------------------------------------------------------------------
(* The worker *)

(* A step of m's fiber moves m alone; m was held by the worker. *)
LEMMA WorkerMovesOwn ==
  ASSUME IInv, NEW m \in Message, WorkerStep(m)
  PROVE  /\ place[m] = "unacked" /\ place'[m] # "absent"
         /\ \A n \in Message : n # m =>
              /\ fiber'[n] = fiber[n] /\ place'[n] = place[n]
              /\ n \in refused' <=> n \in refused
              /\ n \in accepted' <=> n \in accepted
<1> USE DEF IInv, TypeOK, ConsumerTypeOK, FiberHoldsMessage, Goto, consumerVars
<1>1. CASE Take(m)
  BY <1>1 DEF Take, Waiting
<1>2. CASE RejectInvalid(m)
  BY <1>2 DEF RejectInvalid, Waiting, Nack
<1>3. CASE Post(m)
  BY <1>3 DEF Post
<1>4. CASE MarkDelivered(m)
  BY <1>4 DEF MarkDelivered
<1>5. CASE DeadLetter(m)
  BY <1>5 DEF DeadLetter
<1>6. CASE MarkFailed(m)
  BY <1>6 DEF MarkFailed
<1>7. CASE AckHandled(m)
  BY <1>7 DEF AckHandled, Ack
<1>8. CASE NackForRetry(m)
  BY <1>8 DEF NackForRetry, Nack
<1> QED
  BY <1>1, <1>2, <1>3, <1>4, <1>5, <1>6, <1>7, <1>8 DEF WorkerStep

(* The first run ends with its answer; what follows it is settled once. *)
LEMMA WorkerRunOrder ==
  ASSUME IInv, NEW m \in Message, WorkerStep(m)
  PROVE  /\ FirstRun(m)' => FirstRun(m) /\ refused' = refused
         /\ RunIsOver(m) => RunIsOver(m)'
<1> USE DEF IInv, TypeOK, ConsumerTypeOK, FirstRun, RunIsOver, Settled, Goto,
            consumerVars
<1>0. place[m] = "unacked"
  BY WorkerMovesOwn
<1>1. CASE Take(m)
  BY <1>0, <1>1 DEF Take, Waiting
<1>2. CASE RejectInvalid(m)
  BY <1>0, <1>2 DEF RejectInvalid, Waiting, Nack
<1>3. CASE Post(m)
  BY <1>0, <1>3 DEF Post
<1>4. CASE MarkDelivered(m)
  BY <1>0, <1>4 DEF MarkDelivered
<1>5. CASE DeadLetter(m)
  BY <1>0, <1>5 DEF DeadLetter
<1>6. CASE MarkFailed(m)
  BY <1>0, <1>6 DEF MarkFailed
<1>7. CASE AckHandled(m)
  BY <1>0, <1>7 DEF AckHandled, Ack
<1>8. CASE NackForRetry(m)
  BY <1>0, <1>8 DEF NackForRetry, Nack
<1> QED
  BY <1>1, <1>2, <1>3, <1>4, <1>5, <1>6, <1>7, <1>8 DEF WorkerStep

(* The attempts column moves in MarkFailed alone, by one. *)
LEMMA WorkerAttempts ==
  ASSUME IInv, NEW m \in Message, WorkerStep(m), NEW d \in Delivery
  PROVE  \/ row'[d].attempts = row[d].attempts
         \/ /\ MarkFailed(m) /\ d = DeliveryOf(m)
            /\ row'[d].attempts = row[d].attempts + 1
<1> USE DEF IInv, TypeOK, PublisherTypeOK
<1>0. DeliveryOf(m) \in Delivery
  BY MessageDelivery
<1>1. CASE MarkDelivered(m)
  BY <1>0, <1>1 DEF MarkDelivered, UpdateRow
<1>2. CASE MarkFailed(m)
  BY <1>0, <1>2 DEF MarkFailed, UpdateRow
<1>3. CASE UNCHANGED row
  BY <1>3
<1> QED
  BY <1>1, <1>2, <1>3 DEF WorkerStep, Take, RejectInvalid, Post, DeadLetter,
                          AckHandled, NackForRetry, publisherVars

(* MarkFailed counts a copy that was not counted before. *)
LEMMA MarkFailedCounts ==
  ASSUME IInv, NEW m \in Message, MarkFailed(m)
  PROVE  m \notin Counted(DeliveryOf(m)) /\ m \in Counted(DeliveryOf(m))'
<1>1. m \in CopiesOf(DeliveryOf(m))
  BY MessageDelivery
<1>2. m \in refused /\ fiber[m] \in {"refused", "buried"}
  BY DEF MarkFailed, IInv, PhaseEvidence
<1>3. m \in refused' /\ fiber'[m] \in {"exhausted", "rescheduled"}
  BY <1>2 DEF MarkFailed, Goto, IInv, TypeOK
<1> QED
  BY <1>1, <1>2, <1>3 DEF Counted

(* No copy that was counted is handled again. *)
LEMMA WorkerCounts ==
  ASSUME IInv, FirstRunIsClean, NEW m \in Message, WorkerStep(m), NEW d \in Delivery
  PROVE  Counted(d) \subseteq Counted(d)'
<1> SUFFICES ASSUME NEW n \in CopiesOf(d), n \in refused,
                    fiber[n] \notin {"refused", "buried"}
             PROVE  n \in refused' /\ fiber'[n] \notin {"refused", "buried"}
  BY DEF Counted, CopiesOf
<1>1. n \in Message /\ n \in refused'
  BY MessageDelivery, EvidenceGrows
<1>2. CASE n # m
  BY <1>1, <1>2, WorkerMovesOwn
<1>3. CASE n = m
  <2>1. ~FirstRun(m)
    BY <1>1, <1>3 DEF FirstRunIsClean
  <2>2. fiber[m] \notin {"none", "posting"}
    BY <2>1, WorkerMovesOwn DEF FirstRun
  <2> QED
    BY <1>3, <2>2 DEF WorkerStep, Take, Waiting, RejectInvalid, Post, MarkDelivered,
           DeadLetter, MarkFailed, AckHandled, NackForRetry, Goto, IInv, TypeOK
<1> QED
  BY <1>1, <1>2, <1>3

LEMMA WorkerKeepsRuns ==
  ASSUME IInv, RunInv, NEW m \in Message, WorkerStep(m)
  PROVE  RunInv'
<1> USE DEF RunInv
<1>1. UNCHANGED <<emitted, emission, losses>>
  BY DEF WorkerStep, Take, RejectInvalid, Nack, Post, MarkDelivered, DeadLetter,
         MarkFailed, AckHandled, Ack, NackForRetry, publisherVars, consumerVars
<1>2. \A n \in Message : place'[n] = "absent" <=> place[n] = "absent"
  BY WorkerMovesOwn
<1>3. UnsentYet'
  BY <1>1, <1>2, MessageDelivery DEF UnsentYet, EventOf, CopiesOf
<1>4. AcceptedWasSent'
  <2>1. \A n \in accepted' : n \in Message
    BY WorkerTypes DEF IInv, TypeOK
  <2> QED
    BY <2>1, <1>2, WorkerMovesOwn DEF AcceptedWasSent
<1>5. ASSUME losses = 0 PROVE FirstRunIsClean'
  <2> SUFFICES ASSUME NEW n \in Message, FirstRun(n)' PROVE n \notin refused'
    BY DEF FirstRunIsClean
  <2>1. CASE n = m
    BY <1>5, <2>1, WorkerRunOrder DEF FirstRunIsClean
  <2>2. CASE n # m
    <3>1. FirstRun(n)
      BY <2>2, WorkerMovesOwn DEF FirstRun
    <3> QED
      BY <1>5, <2>2, <3>1, WorkerMovesOwn DEF FirstRunIsClean
  <2> QED
    BY <2>1, <2>2
<1>6. ASSUME losses = 0 PROVE DeliveredHasRun'
  <2>1. \A n \in Message : RunIsOver(n) => RunIsOver(n)'
    <3> SUFFICES ASSUME NEW n \in Message, RunIsOver(n) PROVE RunIsOver(n)'
      OBVIOUS
    <3>1. CASE n = m
      BY <3>1, WorkerRunOrder
    <3>2. CASE n # m
      BY <3>2, WorkerMovesOwn DEF RunIsOver, Settled
    <3> QED
      BY <3>1, <3>2
  <2> SUFFICES ASSUME NEW d \in Delivery, row'[d].status = "delivered"
               PROVE  \E n \in CopiesOf(d) : RunIsOver(n)'
    BY DEF DeliveredHasRun, CopiesOf
  <2>2. CASE row[d].status = "delivered"
    BY <1>6, <2>1, <2>2, MessageDelivery DEF DeliveredHasRun
  <2>3. CASE row[d].status # "delivered"
    <3>1. d = DeliveryOf(m) /\ row'[d] # row[d]
      BY <2>3, RowWritten
    <3>2. MarkDelivered(m)
      <4>1. CASE MarkFailed(m)
        BY <3>1, <4>1 DEF MarkFailed, UpdateRow, IInv, TypeOK, PublisherTypeOK
      <4> QED
        BY <3>1, <4>1 DEF WorkerStep, Take, RejectInvalid, Post, DeadLetter,
                          AckHandled, NackForRetry, publisherVars
    <3>3. fiber'[m] = "recorded"
      BY <3>2 DEF MarkDelivered, Goto, IInv, TypeOK
    <3> QED
      BY <3>1, <3>3, MessageDelivery DEF RunIsOver
  <2> QED
    BY <2>2, <2>3
<1>7. ASSUME losses = 0 PROVE AttemptsCounted'
  <2> SUFFICES ASSUME NEW d \in Delivery
               PROVE  row'[d].attempts <= Cardinality(Counted(d)')
    BY DEF AttemptsCounted, Counted, CopiesOf
  <2>1. row[d].attempts \in Nat /\ row[d].attempts <= Cardinality(Counted(d))
    BY <1>7 DEF AttemptsCounted, IInv, TypeOK, PublisherTypeOK, Row
  <2>2. Counted(d) \subseteq Counted(d)'
    BY <1>7, WorkerCounts
  <2>3. CASE row'[d].attempts = row[d].attempts
    BY <2>1, <2>2, <2>3, CountedGrows
  <2>4. CASE /\ MarkFailed(m) /\ d = DeliveryOf(m)
             /\ row'[d].attempts = row[d].attempts + 1
    BY <2>1, <2>2, <2>4, MarkFailedCounts, CountedAdds
  <2> QED
    BY <2>3, <2>4, WorkerAttempts
<1> QED
  BY <1>1, <1>3, <1>4, <1>5, <1>6, <1>7

-----------------------------------------------------------------------------
(* The theorems *)

(* RunInv is an invariant, on top of the inductive invariant IInv. *)
THEOREM RunInvariant == Spec => []RunInv
<1>1. IInv /\ RunInv /\ [Next]_vars => RunInv'
  <2> SUFFICES ASSUME IInv, RunInv, [Next]_vars PROVE RunInv'
    OBVIOUS
  <2>1. CASE UNCHANGED vars
    BY <2>1 DEF vars, consumerVars, publisherVars, workerVars, RunInv, UnsentYet,
           AcceptedWasSent, FirstRunIsClean, FirstRun, DeliveredHasRun, RunIsOver,
           Settled, AttemptsCounted, Counted, EventOf, CopiesOf
  <2>2. CASE PublisherNext /\ UNCHANGED workerVars
    BY <2>2, PublisherKeepsRuns
  <2>3. CASE \E m \in Message : WorkerStep(m)
    BY <2>3, WorkerKeepsRuns
  <2>4. CASE ConnectionStep
    BY <2>4, ConnectionKeepsRuns
  <2> QED
    BY <2>1, <2>2, <2>3, <2>4 DEF Next, ConnectionStep
<1> QED
  BY <1>1, InitRunInv, InductiveInvariant, PTL DEF Spec

(* Without a lost connection the attempts column of a delivery is at most  *)
(* the number of its copies that failed: no failure is counted twice.      *)
THEOREM AttemptsAreCounted == Spec => []AttemptsCountFailures
<1>1. IInv /\ RunInv => AttemptsCountFailures
  <2> SUFFICES ASSUME IInv, RunInv, losses = 0, NEW d \in Delivery
               PROVE  row[d].attempts <= Cardinality(refused \cap CopiesOf(d))
    BY DEF AttemptsCountFailures
  <2>1. row[d].attempts \in Nat /\ row[d].attempts <= Cardinality(Counted(d))
    BY DEF RunInv, AttemptsCounted, IInv, TypeOK, PublisherTypeOK, Row
  <2>2. refused \cap CopiesOf(d) \in SUBSET CopiesOf(d)
    OBVIOUS
  <2>3. /\ IsFiniteSet(refused \cap CopiesOf(d))
        /\ Cardinality(refused \cap CopiesOf(d)) \in Nat
    BY <2>2, CopiesAreFinite, FS_Subset, FS_CardinalityType
  <2>4. Counted(d) \in SUBSET (refused \cap CopiesOf(d))
    BY DEF Counted
  <2>5. Cardinality(Counted(d)) <= Cardinality(refused \cap CopiesOf(d))
    BY <2>3, <2>4, FS_Subset
  <2> QED
    BY <2>1, <2>3, <2>5, CountedIsFinite
<1> QED
  BY <1>1, InductiveInvariant, RunInvariant, PTL

(* A delivered row flips back only when its job was handled twice.         *)
THEOREM FlipsAreExplained == Spec => FlipsOnlyByRerun
<1>1. IInv /\ RunInv /\ [Next]_vars =>
        [\A d \in Delivery :
           /\ row[d].status = "delivered"
           /\ row'[d].status \in {"pending", "failed"}
           => HandledTwice(d)]_vars
  <2> SUFFICES ASSUME IInv, RunInv, [Next]_vars, NEW d \in Delivery,
                      row[d].status = "delivered",
                      row'[d].status \in {"pending", "failed"},
                      ~(losses > 0)
               PROVE  HandledTwice(d)
    BY DEF HandledTwice
  <2>1. losses = 0
    BY DEF IInv, TypeOK, ConsumerTypeOK
  <2>2. row'[d] # row[d]
    OBVIOUS
  <2>3. CASE PublisherNext /\ UNCHANGED workerVars
    <3>1. \A s \in Sub : ~DeleteSubscription(s)
      BY <2>2 DEF DeleteSubscription, NoRow
    <3>2. PICK c \in Delivery : InsertRow(c)
      BY <2>2, <2>3, <3>1 DEF PublisherNext, CreateSubscription,
                        SelectSubscriptions, Publish, Replay, publisherVars
    <3>3. emission[d] = "insert"
      BY <2>2, <3>2 DEF InsertRow, IInv, TypeOK, PublisherTypeOK
    <3>4. PICK n \in CopiesOf(d) : n \in accepted
      BY DEF IInv, DeliveredRowIsTrue
    <3> QED
      BY <3>3, <3>4 DEF RunInv, UnsentYet, AcceptedWasSent
  <2>4. ASSUME NEW m \in Message, WorkerStep(m) PROVE HandledTwice(d)
    <3>1. d = DeliveryOf(m) /\ MarkFailed(m)
      <4>1. d = DeliveryOf(m)
        BY <2>2, <2>4, RowWritten
      <4>2. CASE MarkDelivered(m)
        BY <2>2, <4>1, <4>2 DEF MarkDelivered, UpdateRow, IInv, TypeOK, PublisherTypeOK
      <4> QED
        BY <2>2, <2>4, <4>1, <4>2
           DEF WorkerStep, Take, RejectInvalid, Post, DeadLetter, AckHandled,
               NackForRetry, publisherVars
    <3>2. place[m] = "unacked" /\ ~RunIsOver(m)
      BY <2>4, <3>1, WorkerMovesOwn DEF MarkFailed, RunIsOver, Settled
    <3>3. PICK n \in CopiesOf(d) : RunIsOver(n)
      BY <2>1 DEF RunInv, DeliveredHasRun
    <3>4. n # m /\ place[n] # "absent"
      BY <3>2, <3>3, MessageDelivery
         DEF RunIsOver, Settled, IInv, FiberHoldsMessage
    <3> QED
      BY <3>1, <3>2, <3>3, <3>4, MessageDelivery DEF HandledTwice
  <2>5. CASE ConnectionStep \/ UNCHANGED vars
    BY <2>2, <2>5 DEF ConnectionStep, LoseConnection, publisherVars, vars
  <2> QED
    BY <2>3, <2>4, <2>5 DEF Next, ConnectionStep
<1> QED
  BY <1>1, InductiveInvariant, RunInvariant, PTL DEF Spec, FlipsOnlyByRerun
=============================================================================
