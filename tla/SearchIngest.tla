---------------------------- MODULE SearchIngest ----------------------------
(***************************************************************************)
(* Document ingestion for hybrid search: SearchService.ingestDocument and  *)
(* deleteDocument (searchService.ts) on the API side, the worker of        *)
(* searchIngestWorker.ts on the queue "search.ingest", and between them    *)
(* three stores without a common transaction: Postgres (documents and      *)
(* chunks), Redis (job status) and the broker.                             *)
(*                                                                         *)
(* A request stands for its HTTP call, for the job id it makes and, if it  *)
(* inserts one, for its document.  A message is a request and the number   *)
(* of the publish call that buffered it.  One tenant is modelled: every    *)
(* query filters by tenant, so tenants do not meet.                        *)
(***************************************************************************)
EXTENDS RabbitConsumer

CONSTANTS
  Request,      \* POST /ingest calls
  Content,      \* normalised contents
  ContentOf,    \* [Request -> Content]
  ChunkCount,   \* [Content -> chunks]; 0 only for the blank content
  PublishCalls  \* channel.publish calls per job: the first and its retries

Copy == 1..PublishCalls
CopiesOf(r) == {<<r, k>> : k \in Copy}

ASSUME ContentAssumption == ContentOf \in [Request -> Content]
ASSUME ChunkCountAssumption == ChunkCount \in [Content -> Nat]
ASSUME PublishCallsAssumption == PublishCalls \in Nat \ {0}
ASSUME MessageAssumption == Message = Request \X Copy

VARIABLES
  phase,    \* [Request -> where ingestDocument stands]
  calls,    \* [Request -> publish calls made]
  doc,      \* requests whose search_documents row exists
  chunks,   \* [Request -> chunk indices in search_chunks]
  job,      \* [Request -> status under search:job:<id> in Redis]
  fiber,    \* [Message -> where processMessage stands]
  written,  \* [Message -> chunks this run has upserted]
  indexed,  \* messages a run of which upserted every chunk
  failed,   \* messages a run of which failed or was rejected
  dlq       \* messages with a copy on dead.letter.search-ingest

apiVars == <<phase, calls>>
storeVars == <<doc, chunks, job>>
workerVars == <<fiber, written, indexed, failed, dlq>>
vars == <<consumerVars, apiVars, storeVars, workerVars>>

RequestPhase == {"new", "insert", "publish", "track",
                 "queued", "duplicate", "failed"}
JobStatus == {"none", "queued", "processing", "completed", "failed"}
FiberPhase == {"none", "embedding", "writing", "counting", "completing",
               "completed", "failing", "reported", "buried", "stranded"}

Chunks(r) == 1..ChunkCount[ContentOf[r]]
RequestOf(m) == m[1]
MessageChunks(m) == Chunks(RequestOf(m))

TypeOK ==
  /\ ConsumerTypeOK
  /\ phase \in [Request -> RequestPhase]
  /\ calls \in [Request -> 0..PublishCalls]
  /\ doc \subseteq Request
  /\ \A r \in Request : chunks[r] \subseteq Chunks(r)
  /\ DOMAIN chunks = Request
  /\ job \in [Request -> JobStatus]
  /\ fiber \in [Message -> FiberPhase]
  /\ written \in [Message -> Nat]
  /\ indexed \subseteq Message
  /\ failed \subseteq Message
  /\ dlq \subseteq Message

Init ==
  /\ ConsumerInit
  /\ phase = [r \in Request |-> "new"]
  /\ calls = [r \in Request |-> 0]
  /\ doc = {}
  /\ chunks = [r \in Request |-> {}]
  /\ job = [r \in Request |-> "none"]
  /\ fiber = [m \in Message |-> "none"]
  /\ written = [m \in Message |-> 0]
  /\ indexed = {} /\ failed = {} /\ dlq = {}

-----------------------------------------------------------------------------
(* The API.                                                                *)

Proceed(r, next) == phase' = [phase EXCEPT ![r] = next]

SameContent(r) == {q \in Request : ContentOf[q] = ContentOf[r]}

(* findDocumentByHash: a hit ends the request as a duplicate, a database   *)
(* error as a failure.                                                     *)
FindByHash(r) ==
  /\ phase[r] = "new"
  /\ \/ Proceed(r, IF doc \cap SameContent(r) = {} THEN "insert" ELSE "duplicate")
     \/ Proceed(r, "failed")
  /\ UNCHANGED <<consumerVars, calls, storeVars, workerVars>>

(* insertDocument: the unique index on (tenant, hash) turns a second row   *)
(* for the content away.                                                   *)
InsertDocument(r) ==
  /\ phase[r] = "insert"
  /\ \/ /\ doc \cap SameContent(r) = {}
        /\ doc' = doc \cup {r}
        /\ Proceed(r, "publish")
     \/ /\ Proceed(r, "failed")
        /\ UNCHANGED doc
  /\ UNCHANGED <<consumerVars, calls, chunks, job, workerVars>>

(* rabbit.publish("", QUEUE_INGEST, ...): as in WebhookPublisher a full    *)
(* write buffer is a failed call whose message goes out, and a buffered    *)
(* write may be lost.  When the last retry fails the request fails, and    *)
(* its document stays.                                                     *)
PublishJob(r) ==
  LET call == calls[r] + 1 IN
  /\ phase[r] = "publish"
  /\ calls[r] < PublishCalls
  /\ calls' = [calls EXCEPT ![r] = call]
  /\ \E answer \in {"ok", "full", "error"} :
       /\ CASE answer = "ok"           -> Proceed(r, "track")
            [] answer # "ok" /\ call = PublishCalls -> Proceed(r, "failed")
            [] OTHER                   -> UNCHANGED phase
       /\ \/ answer # "error" /\ Enqueue(<<r, call>>)
          \/ UNCHANGED place
  /\ UNCHANGED <<up, losses, storeVars, workerVars>>

(* redis.setBuffer(search:job:<id>, "queued"), after the publish; an error *)
(* is ignored.  Then the client gets its answer.                           *)
TrackJob(r) ==
  /\ phase[r] = "track"
  /\ job' \in {job, [job EXCEPT ![r] = "queued"]}
  /\ Proceed(r, "queued")
  /\ UNCHANGED <<consumerVars, calls, doc, chunks, workerVars>>

(* The API process stops in the middle of a request. *)
AbortRequest(r) ==
  /\ phase[r] \in {"insert", "publish", "track"}
  /\ Proceed(r, "failed")
  /\ UNCHANGED <<consumerVars, calls, storeVars, workerVars>>

(* DELETE /document/:id; the chunks go with it, ON DELETE CASCADE. *)
DeleteDocument(r) ==
  /\ r \in doc
  /\ doc' = doc \ {r}
  /\ chunks' = [chunks EXCEPT ![r] = {}]
  /\ UNCHANGED <<consumerVars, apiVars, job, workerVars>>

ApiStep(r) ==
  \/ FindByHash(r) \/ InsertDocument(r) \/ PublishJob(r) \/ TrackJob(r)
  \/ AbortRequest(r) \/ DeleteDocument(r)

-----------------------------------------------------------------------------
(* The worker.                                                             *)

Goto(m, next) == fiber' = [fiber EXCEPT ![m] = next]

(* redis.set on the job's key; an error is ignored. *)
SetJob(m, status) == job' \in {job, [job EXCEPT ![RequestOf(m)] = status]}

Waiting(m) == place[m] = "unacked" /\ fiber[m] = "none"

(* The message schema wants a non-empty content.  The job of a document of *)
(* white space alone carries "" and is thrown away.                        *)
RejectBlank(m) ==
  /\ Waiting(m)
  /\ MessageChunks(m) = {}
  /\ Nack(m)
  /\ failed' = failed \cup {m}
  /\ UNCHANGED <<apiVars, storeVars, fiber, written, indexed, dlq>>

Begin(m) ==
  /\ Waiting(m)
  /\ MessageChunks(m) # {}
  /\ SetJob(m, "processing")
  /\ Goto(m, "embedding")
  /\ UNCHANGED <<consumerVars, apiVars, doc, chunks, written, indexed, failed, dlq>>

(* Any error below ends in the catchCause handler. *)
Fail(m) ==
  /\ Goto(m, "failing")
  /\ failed' = failed \cup {m}
  /\ written' = [written EXCEPT ![m] = 0]
  /\ UNCHANGED <<doc, chunks, indexed>>

EmbedChunks(m) ==
  /\ fiber[m] = "embedding"
  /\ \/ Goto(m, "writing") /\ UNCHANGED <<doc, chunks, written, indexed, failed>>
     \/ Fail(m)
  /\ UNCHANGED <<consumerVars, apiVars, job, dlq>>

(* Mutant: the last chunk is left out. *)
UpsertChunkShort(m) ==
  LET r == RequestOf(m)
      next == written[m] + 1
      last == next >= ChunkCount[ContentOf[r]] - 1
  IN
  /\ fiber[m] = "writing"
  /\ \/ /\ r \in doc
        /\ chunks' = [chunks EXCEPT ![r] = @ \cup {next}]
        /\ written' = [written EXCEPT ![m] = IF last THEN 0 ELSE next]
        /\ Goto(m, IF last THEN "counting" ELSE "writing")
        /\ indexed' = IF last THEN indexed \cup {m} ELSE indexed
        /\ UNCHANGED <<doc, failed>>
     \/ Fail(m)
  /\ UNCHANGED <<consumerVars, apiVars, job, dlq>>

(* Mutant: the loop runs one chunk too far. *)
UpsertChunkLong(m) ==
  LET r == RequestOf(m)
      next == written[m] + 1
      last == next > ChunkCount[ContentOf[r]]
  IN
  /\ fiber[m] = "writing"
  /\ \/ /\ r \in doc
        /\ chunks' = [chunks EXCEPT ![r] = @ \cup {next}]
        /\ written' = [written EXCEPT ![m] = IF last THEN 0 ELSE next]
        /\ Goto(m, IF last THEN "counting" ELSE "writing")
        /\ indexed' = IF last THEN indexed \cup {m} ELSE indexed
        /\ UNCHANGED <<doc, failed>>
     \/ Fail(m)
  /\ UNCHANGED <<consumerVars, apiVars, job, dlq>>

(* upsertChunks: one INSERT ... ON CONFLICT per chunk, in no transaction.  *)
(* Without the document the foreign key refuses it.                        *)
UpsertChunk(m) ==
  LET r == RequestOf(m)
      next == written[m] + 1
      last == next = ChunkCount[ContentOf[r]]
  IN
  /\ fiber[m] = "writing"
  /\ \/ /\ r \in doc
        /\ chunks' = [chunks EXCEPT ![r] = @ \cup {next}]
        /\ written' = [written EXCEPT ![m] = IF last THEN 0 ELSE next]
        /\ Goto(m, IF last THEN "counting" ELSE "writing")
        /\ indexed' = IF last THEN indexed \cup {m} ELSE indexed
        /\ UNCHANGED <<doc, failed>>
     \/ Fail(m)
  /\ UNCHANGED <<consumerVars, apiVars, job, dlq>>

(* countChunksForDocument and perhaps ANALYZE; the count can fail, though  *)
(* all the chunks are there.                                               *)
CountChunks(m) ==
  /\ fiber[m] = "counting"
  /\ \/ Goto(m, "completing") /\ UNCHANGED <<doc, chunks, written, indexed, failed>>
     \/ Fail(m)
  /\ UNCHANGED <<consumerVars, apiVars, job, dlq>>

(* Mutant: the job is reported complete before the chunks are written. *)
CompleteJobEarly(m) ==
  /\ \/ fiber[m] = "completing" /\ Goto(m, "completed")
     \/ fiber[m] = "writing" /\ UNCHANGED fiber
  /\ SetJob(m, "completed")
  /\ UNCHANGED <<consumerVars, apiVars, doc, chunks, written, indexed, failed, dlq>>

CompleteJob(m) ==
  /\ fiber[m] = "completing"
  /\ SetJob(m, "completed")
  /\ Goto(m, "completed")
  /\ UNCHANGED <<consumerVars, apiVars, doc, chunks, written, indexed, failed, dlq>>

(* Mutant: a failed run is acked too. *)
AckAlways(m) ==
  /\ fiber[m] \in {"completed", "failing"}
  /\ Ack(m)
  /\ Goto(m, "none")
  /\ UNCHANGED <<apiVars, storeVars, written, indexed, failed, dlq>>

AckCompleted(m) ==
  /\ fiber[m] = "completed"
  /\ Ack(m)
  /\ Goto(m, "none")
  /\ UNCHANGED <<apiVars, storeVars, written, indexed, failed, dlq>>

(* Mutant: reporting the failure runs on a completed job as well. *)
ReportFailureToo(m) ==
  /\ \/ fiber[m] = "failing" /\ Goto(m, "reported")
     \/ fiber[m] = "completed" /\ UNCHANGED fiber
  /\ SetJob(m, "failed")
  /\ UNCHANGED <<consumerVars, apiVars, doc, chunks, written, indexed, failed, dlq>>

(* The catchCause handler: status "failed", a copy to the DLQ, nack.       *)
ReportFailure(m) ==
  /\ fiber[m] = "failing"
  /\ SetJob(m, "failed")
  /\ Goto(m, "reported")
  /\ UNCHANGED <<consumerVars, apiVars, doc, chunks, written, indexed, failed, dlq>>

(* Mutant: the error of dlq.publish is ignored and the nack follows. *)
DeadLetterIgnored(m) ==
  /\ fiber[m] = "reported"
  /\ dlq' \in {dlq, dlq \cup {m}}
  /\ Goto(m, "buried")
  /\ UNCHANGED <<consumerVars, apiVars, storeVars, written, indexed, failed>>

(* dlq.publish fails although the copy went out when the write buffer is   *)
(* full.  An error here leaves the handler too: the fiber ends and the     *)
(* message is neither acked nor nacked.                                    *)
DeadLetter(m) ==
  /\ fiber[m] = "reported"
  /\ \/ dlq' = dlq \cup {m} /\ Goto(m, "buried")
     \/ dlq' \in {dlq, dlq \cup {m}} /\ Goto(m, "stranded")
  /\ UNCHANGED <<consumerVars, apiVars, storeVars, written, indexed, failed>>

(* Mutant: the nack does not wait for the copy on the DLQ. *)
NackUnburied(m) ==
  /\ fiber[m] \in {"reported", "buried"}
  /\ Nack(m)
  /\ Goto(m, "none")
  /\ UNCHANGED <<apiVars, storeVars, written, indexed, failed, dlq>>

NackBuried(m) ==
  /\ fiber[m] = "buried"
  /\ Nack(m)
  /\ Goto(m, "none")
  /\ UNCHANGED <<apiVars, storeVars, written, indexed, failed, dlq>>

LoseConnection ==
  /\ Lose
  /\ fiber' = [m \in Message |-> "none"]
  /\ written' = [m \in Message |-> 0]
  /\ UNCHANGED <<apiVars, storeVars, indexed, failed, dlq>>

WorkerStep(m) ==
  \/ RejectBlank(m) \/ Begin(m) \/ EmbedChunks(m) \/ UpsertChunk(m)
  \/ CountChunks(m) \/ CompleteJob(m) \/ AckCompleted(m)
  \/ ReportFailure(m) \/ DeadLetter(m) \/ NackBuried(m)

Next ==
  \/ \E r \in Request : ApiStep(r)
  \/ \E m \in Message :
       \/ Deliver(m) /\ UNCHANGED <<apiVars, storeVars, workerVars>>
       \/ WorkerStep(m)
  \/ LoseConnection
  \/ Restart /\ UNCHANGED <<apiVars, storeVars, workerVars>>

Spec == Init /\ [][Next]_vars

(* As for the webhook worker: the broker pushes, fibers run, the worker is *)
(* started again.                                                          *)
Fairness ==
  /\ \A m \in Message :
       /\ WF_vars(Deliver(m) /\ UNCHANGED <<apiVars, storeVars, workerVars>>)
       /\ WF_vars(WorkerStep(m))
  /\ WF_vars(Restart /\ UNCHANGED <<apiVars, storeVars, workerVars>>)

FairSpec == Spec /\ Fairness

-----------------------------------------------------------------------------
(***************************************************************************)
(* The ingest worker keeps the contract of JobContract: a job is acked     *)
(* only after a run of it wrote every chunk, and dropped only after a run  *)
(* failed (processMessage, searchIngestWorker.ts:69-177).                  *)
(***************************************************************************)
JobState(m) ==
  CASE place[m] = "absent"    -> "unsent"
    [] place[m] = "acked"     -> "finished"
    [] place[m] = "discarded" -> "dropped"
    [] OTHER                  -> "pending"

Contract == INSTANCE JobContract WITH
  Job <- Message, state <- [m \in Message |-> JobState(m)],
  done <- indexed, failed <- failed, buried <- dlq

KeepsContract == Contract!Spec

(***************************************************************************)
(* A job that reads "completed" has all its chunks in Postgres, as long as *)
(* the document was not deleted, whatever crashed, ran twice or overwrote  *)
(* the status in between (searchIngestWorker.ts:138-142).                  *)
(***************************************************************************)
CompletedIsIndexed ==
  \A r \in doc : job[r] = "completed" => chunks[r] = Chunks(r)

(***************************************************************************)
(* A document that lacks chunks is not simply forgotten.  Its request is   *)
(* still at work or was answered with an error; or its job is on the queue *)
(* or at the worker, or on the DLQ; or every write to the broker that      *)
(* carried it was lost.                                                    *)
(***************************************************************************)
UnindexedIsExplained ==
  \A r \in doc : chunks[r] # Chunks(r) =>
    \/ phase[r] \in {"publish", "failed"}
    \/ \E m \in CopiesOf(r) : place[m] \in {"ready", "unacked"} \/ m \in dlq
    \/ \A m \in CopiesOf(r) : place[m] = "absent"

(***************************************************************************)
(* Unlike the webhook worker this one throws no job away before a copy of  *)
(* it is on the dead-letter queue; only the job of a blank document goes   *)
(* without (searchIngestWorker.ts:149-176 and 211-218).                    *)
(***************************************************************************)
DiscardedIsBuried ==
  \A m \in Message :
    place[m] = "discarded" => m \in dlq \/ MessageChunks(m) = {}

(***************************************************************************)
(* A job that reached "completed" or "failed" changes its status again for *)
(* two reasons only: ingestDocument writes "queued" after its publish and  *)
(* the worker was faster (searchService.ts:214-228), or the job runs a     *)
(* second time.                                                            *)
(***************************************************************************)
RunsTwice(r) ==
  \/ losses > 0
  \/ \E m, n \in CopiesOf(r) :
       m # n /\ place[m] # "absent" /\ place[n] # "absent"

FinalStatusChangesByRace ==
  [][\A r \in Request :
       /\ job[r] \in {"completed", "failed"}
       /\ job'[r] # job[r]
       => RunsTwice(r) \/ (job'[r] = "queued" /\ phase[r] = "track")]_vars

(***************************************************************************)
(* A document whose client was told "queued" becomes searchable, unless it *)
(* is deleted, a copy of its job failed for good (on the DLQ, or its fiber *)
(* died on dlq.publish), its job never reached the broker, or dead fibers  *)
(* hold the whole prefetch window.                                         *)
(***************************************************************************)
Stranded == {m \in Message : fiber[m] = "stranded"}

AcceptedBecomesSearchable ==
  \A r \in Request :
    phase[r] = "queued" ~>
      \/ r \notin doc
      \/ chunks[r] = Chunks(r)
      \/ CopiesOf(r) \cap (dlq \cup Stranded) # {}
      \/ \A m \in CopiesOf(r) : place[m] = "absent"
      \/ Cardinality(Stranded) = Prefetch

(***************************************************************************)
(* "Callers MUST call ack() or nack() on every message"                    *)
(* (rabbitConsumer.ts:50): a message handed to the worker is settled, or   *)
(* goes back to the queue with a lost connection.                          *)
(***************************************************************************)
EveryMessageIsSettled ==
  \A m \in Message : place[m] = "unacked" ~> place[m] # "unacked"
=============================================================================
