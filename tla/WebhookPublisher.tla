-------------------------- MODULE WebhookPublisher --------------------------
(***************************************************************************)
(* Webhook subscriptions (webhookRoutes.ts) and WebhookPublisher.emit      *)
(* (webhookPublisher.ts): a domain event becomes one webhook_deliveries    *)
(* row and one job on "webhooks.deliver" per enabled subscription.         *)
(*                                                                         *)
(* A delivery is named by its event and its subscription: emit makes a     *)
(* fresh id for every pair.  A message is a delivery and the number of the *)
(* publish call that put it on the queue (RabbitMQService.publish retries  *)
(* after a call that did buffer the message); the numbers above            *)
(* PublishCalls are for jobs that an operator puts back by hand.           *)
(***************************************************************************)
EXTENDS RabbitConsumer

CONSTANTS
  Event,         \* domain events, each emitted at most once
  Sub,           \* webhook subscriptions that list every event
  PublishCalls,  \* channel.publish calls per message: the first and its retries
  Replays,       \* bound: how often a delivery's job is replayed by hand
  AttemptOf      \* the attempt number written in each job

Delivery == Event \X Sub

EventOf(d) == d[1]
SubOf(d) == d[2]

Copy == 1..(PublishCalls + Replays)
CopiesOf(d) == {<<d, k>> : k \in Copy}
IsReplay(m) == m[2] > PublishCalls

ASSUME PublishCallsAssumption == PublishCalls \in Nat \ {0}
ASSUME ReplaysAssumption == Replays \in Nat
ASSUME MessageAssumption == Message = Delivery \X Copy
(* emit writes attempt 0; only a job replayed by hand can carry another.   *)
ASSUME AttemptAssumption ==
  /\ AttemptOf \in [Message -> Nat]
  /\ \A m \in Message : ~IsReplay(m) => AttemptOf[m] = 0

VARIABLES
  sub,       \* [Sub -> {"none", "enabled", "deleted"}]
  emitted,   \* events whose emit has read the subscriptions
  emission,  \* [Delivery -> step of emit for this subscription]
  calls,     \* [Delivery -> publish calls made]
  row        \* [Delivery -> Row], the webhook_deliveries table

publisherVars == <<sub, emitted, emission, calls, row>>

Row == [status : {"absent", "pending", "delivered", "failed"},
        attempts : Nat,       \* column attempts
        next : BOOLEAN]       \* next_attempt_at is not null

NoRow == [status |-> "absent", attempts |-> 0, next |-> FALSE]

PublisherTypeOK ==
  /\ sub \in [Sub -> {"none", "enabled", "deleted"}]
  /\ emitted \subseteq Event
  /\ emission \in [Delivery -> {"idle", "insert", "publish", "done"}]
  /\ calls \in [Delivery -> 0..PublishCalls]
  /\ row \in [Delivery -> Row]

PublisherInit ==
  /\ sub = [s \in Sub |-> "none"]
  /\ emitted = {}
  /\ emission = [d \in Delivery |-> "idle"]
  /\ calls = [d \in Delivery |-> 0]
  /\ row = [d \in Delivery |-> NoRow]

(* POST /webhooks *)
CreateSubscription(s) ==
  /\ sub[s] = "none"
  /\ sub' = [sub EXCEPT ![s] = "enabled"]
  /\ UNCHANGED <<consumerVars, emitted, emission, calls, row>>

(* DELETE /webhooks/:id; the rows go with it, ON DELETE CASCADE. *)
DeleteSubscription(s) ==
  /\ sub[s] = "enabled"
  /\ sub' = [sub EXCEPT ![s] = "deleted"]
  /\ row' = [d \in Delivery |-> IF SubOf(d) = s THEN NoRow ELSE row[d]]
  /\ UNCHANGED <<consumerVars, emitted, emission, calls>>

(* emit: SELECT the enabled subscriptions; a query error ends the emit. *)
SelectSubscriptions(e) ==
  /\ e \notin emitted
  /\ emitted' = emitted \cup {e}
  /\ \E found \in {{}, {s \in Sub : sub[s] = "enabled"}} :
       emission' = [d \in Delivery |->
                      IF EventOf(d) = e /\ SubOf(d) \in found
                        THEN "insert" ELSE emission[d]]
  /\ UNCHANGED <<consumerVars, sub, calls, row>>

(* INSERT the pending row.  A database error, or a subscription deleted    *)
(* since the SELECT (foreign key), is ignored and the job goes out anyway. *)
InsertRow(d) ==
  /\ emission[d] = "insert"
  /\ emission' = [emission EXCEPT ![d] = "publish"]
  /\ \/ /\ sub[SubOf(d)] = "enabled"
        /\ row' = [row EXCEPT ![d].status = "pending"]
     \/ UNCHANGED row
  /\ UNCHANGED <<consumerVars, sub, emitted, calls>>

(* RabbitMQService.publish: one channel.publish call.                      *)
(*   "ok"     the write is buffered; emit goes on                          *)
(*   "full"   channel.publish returns false: buffered too, yet a failure   *)
(*   "error"  it throws (channel closed): nothing is written               *)
(* A failed call is retried until PublishCalls calls were made; then the   *)
(* error is ignored.  A buffered write may still be lost: the channel has  *)
(* no confirms, and an exchange without a matching binding drops it.       *)
Publish(d) ==
  LET call == calls[d] + 1 IN
  /\ emission[d] = "publish"
  /\ calls[d] < PublishCalls
  /\ calls' = [calls EXCEPT ![d] = call]
  /\ \E answer \in {"ok", "full", "error"} :
       /\ emission' = [emission EXCEPT ![d] =
            IF answer = "ok" \/ call = PublishCalls THEN "done" ELSE @]
       /\ \/ answer # "error" /\ Enqueue(<<d, call>>)
          \/ UNCHANGED place
  /\ UNCHANGED <<up, losses, sub, emitted, row>>

(* External: an operator publishes a job again, by hand, once a copy of it *)
(* was settled.                                                            *)
Replay(d) ==
  /\ \E m \in CopiesOf(d) : Settled(m)
  /\ \E m \in CopiesOf(d) : IsReplay(m) /\ Enqueue(m)
  /\ UNCHANGED <<up, losses, publisherVars>>

PublisherNext ==
  \/ \E s \in Sub : CreateSubscription(s) \/ DeleteSubscription(s)
  \/ \E e \in Event : SelectSubscriptions(e)
  \/ \E d \in Delivery : InsertRow(d) \/ Publish(d) \/ Replay(d)
=============================================================================
