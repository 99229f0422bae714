--------------------------- MODULE RabbitConsumer ---------------------------
(***************************************************************************)
(* One durable RabbitMQ queue and the consumer every worker process puts   *)
(* on it: src/workers/shared/rabbitConsumer.ts.                            *)
(*                                                                         *)
(* place[m] is where the broker has message m.  A message that is          *)
(* "unacked" was pushed to the worker's channel and sits either in the     *)
(* in-process Effect queue or in the fiber that handles it; the workers'   *)
(* modules keep that part.  `up` says whether the worker process holds its *)
(* connection: losing the connection shuts the Effect queue down, the main *)
(* fiber fails and the process exits, and its supervisor starts it again.  *)
(*                                                                         *)
(* Order: with a prefetch above one and a fiber per message nothing in the *)
(* workers depends on the broker's FIFO order, so the ready messages are a *)
(* set and Deliver takes any of them.                                      *)
(***************************************************************************)
EXTENDS Naturals, FiniteSets

CONSTANTS
  Message,    \* every message that is ever put on the queue
  Prefetch,   \* ConsumeOptions.prefetch
  MaxLosses   \* bound: how often the worker loses its connection or exits

ASSUME PrefetchAssumption == Prefetch \in Nat \ {0}
ASSUME MaxLossesAssumption == MaxLosses \in Nat

VARIABLES
  place,   \* [Message -> Place]
  up,      \* the worker process runs and its channel is open
  losses   \* connections lost so far

consumerVars == <<place, up, losses>>

Place == {"absent", "ready", "unacked", "acked", "discarded"}

InPlace(p) == {m \in Message : place[m] = p}

ConsumerTypeOK ==
  /\ place \in [Message -> Place]
  /\ up \in BOOLEAN
  /\ losses \in 0..MaxLosses

ConsumerInit ==
  /\ place = [m \in Message |-> "absent"]
  /\ up = TRUE
  /\ losses = 0

(* A producer's message reaches the queue. *)
Enqueue(m) ==
  /\ place[m] = "absent"
  /\ place' = [place EXCEPT ![m] = "ready"]

(* The broker pushes a ready message while fewer than Prefetch messages    *)
(* are unacknowledged on the channel.                                      *)
Deliver(m) ==
  /\ up
  /\ place[m] = "ready"
  /\ Cardinality(InPlace("unacked")) < Prefetch
  /\ place' = [place EXCEPT ![m] = "unacked"]
  /\ UNCHANGED <<up, losses>>

(* ch.ack(msg) *)
Ack(m) ==
  /\ place[m] = "unacked"
  /\ place' = [place EXCEPT ![m] = "acked"]
  /\ UNCHANGED <<up, losses>>

(* ch.nack(msg, false, false): no requeue.  The queue is declared with     *)
(* { durable: true } alone, so it has no dead-letter exchange and the      *)
(* broker throws the message away.                                         *)
Nack(m) ==
  /\ place[m] = "unacked"
  /\ place' = [place EXCEPT ![m] = "discarded"]
  /\ UNCHANGED <<up, losses>>

(* The channel or connection closes, or the process is stopped: the broker *)
(* requeues what was not settled, the Effect queue is shut down and the    *)
(* process ends.                                                           *)
Lose ==
  /\ up
  /\ losses < MaxLosses
  /\ up' = FALSE
  /\ losses' = losses + 1
  /\ place' = [m \in Message |->
                 IF place[m] = "unacked" THEN "ready" ELSE place[m]]

(* The supervisor starts the worker again and it consumes. *)
Restart ==
  /\ ~up
  /\ up' = TRUE
  /\ UNCHANGED <<place, losses>>

-----------------------------------------------------------------------------

Settled(m) == place[m] \in {"acked", "discarded"}
=============================================================================
