----------------------------- MODULE WorkerHealth ---------------------------
(***************************************************************************)
(* The life of a worker process as its health server tells it              *)
(* (workerHealth.ts): /ready answers 200 while isReady is set.  A worker   *)
(* with a RabbitMQ queue (webhookDeliveryWorker.ts; the others are alike)  *)
(* listens, then opens its consumer, then is ready; the CDC worker listens *)
(* and is ready while its streams are opened beside it.                    *)
(***************************************************************************)
EXTENDS Naturals

CONSTANT MaxStarts  \* bound: how often the supervisor starts it

ASSUME HealthAssumption == MaxStarts \in Nat

VARIABLES
  kind,     \* "queue" or "cdc"
  process,  \* "off", "up" or "closing"
  probes,   \* the health server: "closed" or "listening"
  isReady,
  source,   \* the consumer, or the streams: "none", "open" or "lost"
  starts

healthVars == <<kind, process, probes, isReady, source, starts>>

HealthTypeOK ==
  /\ kind \in {"queue", "cdc"}
  /\ process \in {"off", "up", "closing"}
  /\ probes \in {"closed", "listening"}
  /\ isReady \in BOOLEAN
  /\ source \in {"none", "open", "lost"}
  /\ starts \in 0..MaxStarts

HealthInit ==
  /\ kind \in {"queue", "cdc"}
  /\ process = "off" /\ probes = "closed" /\ isReady = FALSE
  /\ source = "none" /\ starts = 0

(* The supervisor starts the process. *)
StartWorker ==
  /\ process = "off" /\ starts < MaxStarts
  /\ starts' = starts + 1
  /\ process' = "up"
  /\ UNCHANGED <<kind, probes, isReady, source>>

(* health.start *)
Listen ==
  /\ process = "up" /\ probes = "closed"
  /\ probes' = "listening"
  /\ UNCHANGED <<kind, process, isReady, source, starts>>

(* consumer.consume after the server is bound, or the streams beside it. *)
OpenSource ==
  /\ process = "up" /\ source = "none"
  /\ kind = "queue" => probes = "listening"
  /\ source' = "open"
  /\ UNCHANGED <<kind, process, probes, isReady, starts>>

(* Mutant: a worker with a queue is ready as soon as it listens. *)
ReadyEarly ==
  /\ process = "up" /\ probes = "listening" /\ ~isReady
  /\ isReady' = TRUE
  /\ UNCHANGED <<kind, process, probes, source, starts>>

(* health.setReady(true) *)
SetReady ==
  /\ process = "up" /\ probes = "listening" /\ ~isReady
  /\ kind = "queue" => source # "none"
  /\ isReady' = TRUE
  /\ UNCHANGED <<kind, process, probes, source, starts>>

(* The connection closes, or a stream fails, opened or not: the queue is   *)
(* shut down, or "mongo watcher stopped" is logged.                        *)
LoseSource ==
  /\ process # "off"
  /\ source = "open" \/ (source = "none" /\ kind = "cdc")
  /\ source' = "lost"
  /\ UNCHANGED <<kind, process, probes, isReady, starts>>

(* SIGTERM: the CDC worker says that it is not ready and stops answering;  *)
(* the others dispose of their connections.                                *)
CloseWithGrace ==
  /\ process = "up"
  /\ process' = "closing"
  /\ IF kind = "cdc" THEN isReady' = FALSE /\ probes' = "closed"
     ELSE UNCHANGED <<isReady, probes>>
  /\ UNCHANGED <<kind, source, starts>>

(* process.exit: after the grace, or the fatal handler of a worker whose   *)
(* queue was shut down or could not be opened.                             *)
ExitWorker ==
  /\ \/ process = "closing"
     \/ process = "up" /\ kind = "queue" /\ source \in {"none", "lost"}
  /\ process' = "off" /\ probes' = "closed" /\ isReady' = FALSE
  /\ source' = "none"
  /\ UNCHANGED <<kind, starts>>

HealthNext ==
  \/ StartWorker \/ Listen \/ OpenSource \/ SetReady \/ LoseSource
  \/ CloseWithGrace \/ ExitWorker

-----------------------------------------------------------------------------
(***************************************************************************)
(* A worker that answers ready consumes, or did until its connection was   *)
(* lost: a worker with a queue is then about to exit.  Only the CDC worker *)
(* answers ready without having opened anything, or for good after its     *)
(* streams stopped (cdcWorker.ts:321-323), and none does once it was told  *)
(* to close (cdcWorker.ts:316) and a queue was never opened.               *)
(***************************************************************************)
AnswersReady == probes = "listening" /\ isReady

ReadyIsExplained ==
  AnswersReady =>
    \/ source = "open"
    \/ kind = "cdc" /\ process = "up"
    \/ kind = "queue" /\ source = "lost"
=============================================================================
