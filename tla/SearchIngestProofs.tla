------------------------- MODULE SearchIngestProofs -------------------------
(***************************************************************************)
(* Theorems about SearchIngest, for any requests, contents and numbers of  *)
(* chunks and publish calls.  The invariant follows a job through three    *)
(* stores: a message exists only for a request that is past its INSERT, a  *)
(* fiber only for a message the worker holds, the chunks a run has         *)
(* upserted are there as long as the document is, and the phase of a fiber *)
(* is the evidence for the status, the ack or the nack that follows.       *)
(***************************************************************************)
EXTENDS SearchIngest, TLAPS

(* Messages are copies of a request's job. *)
LEMMA MessageRequest ==
  /\ \A m \in Message : RequestOf(m) \in Request /\ m \in CopiesOf(RequestOf(m))
  /\ \A r \in Request : \A m \in CopiesOf(r) : m \in Message /\ RequestOf(m) = r
BY MessageAssumption DEF RequestOf, CopiesOf

LEMMA ChunkCounts ==
  \A r \in Request : ChunkCount[ContentOf[r]] \in Nat
BY ContentAssumption, ChunkCountAssumption

(* Only requests past their INSERT have messages. *)
SentIsInserted ==
  \A m \in Message :
    place[m] # "absent" => phase[RequestOf(m)] \notin {"new", "insert"}

FiberHoldsMessage ==
  \A m \in Message : fiber[m] # "none" => place[m] = "unacked"

(* A run is at a chunk that the content has; what it upserted is there.    *)
RunIsAtChunk ==
  \A m \in Message :
    /\ fiber[m] # "none" => ChunkCount[ContentOf[RequestOf(m)]] > 0
    /\ fiber[m] # "writing" => written[m] = 0
    /\ fiber[m] = "writing" => written[m] < ChunkCount[ContentOf[RequestOf(m)]]

WrittenIsThere ==
  \A m \in Message :
    fiber[m] = "writing" /\ RequestOf(m) \in doc =>
      1..written[m] \subseteq chunks[RequestOf(m)]

IndexedIsThere ==
  \A m \in indexed :
    /\ place[m] # "absent"
    /\ RequestOf(m) \in doc => chunks[RequestOf(m)] = Chunks(RequestOf(m))

(* What each phase of a fiber rests on. *)
PhaseEvidence ==
  \A m \in Message :
    /\ fiber[m] \in {"counting", "completing", "completed"} => m \in indexed
    /\ fiber[m] \in {"failing", "reported", "buried", "stranded"} => m \in failed
    /\ fiber[m] = "buried" => m \in dlq

CompletedWasIndexed ==
  \A r \in Request :
    job[r] = "completed" => \E m \in indexed : RequestOf(m) = r

AckedIsIndexed == \A m \in Message : place[m] = "acked" => m \in indexed

(* A final status was written by a run that has nothing left to write.     *)
(* Only a lost connection starts a run over.                               *)
RanToItsEnd(m) ==
  \/ Settled(m)
  \/ fiber[m] \in {"completed", "reported", "buried", "stranded"}

FinalHasRun ==
  losses = 0 =>
    \A r \in Request : job[r] \in {"completed", "failed"} =>
      \E m \in CopiesOf(r) : RanToItsEnd(m)

IInv ==
  /\ TypeOK
  /\ SentIsInserted /\ FiberHoldsMessage
  /\ RunIsAtChunk /\ WrittenIsThere /\ IndexedIsThere
  /\ PhaseEvidence /\ CompletedWasIndexed
  /\ DiscardedIsBuried /\ AckedIsIndexed
  /\ FinalHasRun

LEMMA InitInv == Init => IInv
<1> SUFFICES ASSUME Init PROVE IInv
  OBVIOUS
<1>1. TypeOK
  BY MaxLossesAssumption, PublishCallsAssumption
     DEF Init, ConsumerInit, TypeOK, ConsumerTypeOK, Place, RequestPhase,
         JobStatus, FiberPhase
<1> QED
  BY <1>1, MessageRequest
     DEF Init, ConsumerInit, IInv, SentIsInserted, FiberHoldsMessage,
         RunIsAtChunk, WrittenIsThere, IndexedIsThere, PhaseEvidence,
         CompletedWasIndexed, DiscardedIsBuried, AckedIsIndexed, FinalHasRun

-----------------------------------------------------------------------------
(* The API *)

LEMMA ApiTypes ==
  ASSUME TypeOK, NEW r \in Request, ApiStep(r)
  PROVE  TypeOK'
<1> USE DEF TypeOK, ConsumerTypeOK, consumerVars, storeVars, workerVars,
            RequestPhase
<1>1. CASE FindByHash(r)
  BY <1>1 DEF FindByHash, Proceed
<1>2. CASE InsertDocument(r)
  BY <1>2 DEF InsertDocument, Proceed
<1>3. CASE PublishJob(r)
  <2>1. place' \in [Message -> Place]
    BY <1>3 DEF PublishJob, Enqueue, Place
  <2>2. phase' \in [Request -> RequestPhase]
    BY <1>3 DEF PublishJob, Proceed
  <2>3. calls' \in [Request -> 0..PublishCalls]
    BY <1>3, PublishCallsAssumption DEF PublishJob
  <2> QED
    BY <1>3, <2>1, <2>2, <2>3 DEF PublishJob
<1>4. CASE TrackJob(r)
  BY <1>4 DEF TrackJob, Proceed, JobStatus
<1>5. CASE AbortRequest(r)
  BY <1>5 DEF AbortRequest, Proceed
<1>6. CASE DeleteDocument(r)
  BY <1>6 DEF DeleteDocument, apiVars
<1> QED
  BY <1>1, <1>2, <1>3, <1>4, <1>5, <1>6 DEF ApiStep

(* A request sends its messages only after its INSERT, and never returns   *)
(* to it.                                                                  *)
LEMMA ApiOrder ==
  ASSUME IInv, NEW r \in Request, ApiStep(r)
  PROVE  /\ \A m \in Message :
              \/ place'[m] = place[m]
              \/ /\ place[m] = "absent" /\ place'[m] = "ready"
                 /\ RequestOf(m) = r /\ phase[r] = "publish"
         /\ \A q \in Request :
              phase[q] \notin {"new", "insert"} => phase'[q] \notin {"new", "insert"}
<1> USE DEF IInv, TypeOK, ConsumerTypeOK
<1>1. CASE PublishJob(r)
  BY <1>1 DEF PublishJob, Enqueue, Proceed, RequestOf
<1>2. CASE ~PublishJob(r)
  <2>1. place' = place
    BY <1>2 DEF ApiStep, FindByHash, InsertDocument, TrackJob, AbortRequest,
                DeleteDocument, consumerVars
  <2>2. \A q \in Request :
          phase[q] \notin {"new", "insert"} => phase'[q] \notin {"new", "insert"}
    BY <1>2 DEF ApiStep, FindByHash, InsertDocument, TrackJob, AbortRequest,
                DeleteDocument, Proceed, apiVars
  <2> QED
    BY <2>1, <2>2
<1> QED
  BY <1>1, <1>2

(* A document is inserted while its request has no message yet, and its    *)
(* chunks go with it only.                                                 *)
LEMMA ApiDocuments ==
  ASSUME IInv, NEW r \in Request, ApiStep(r)
  PROVE  \A m \in Message :
           place[m] # "absent" /\ RequestOf(m) \in doc' =>
             RequestOf(m) \in doc /\ chunks'[RequestOf(m)] = chunks[RequestOf(m)]
<1> USE DEF IInv, TypeOK
<1>1. CASE InsertDocument(r)
  BY <1>1, MessageRequest DEF InsertDocument, SentIsInserted
<1>2. CASE DeleteDocument(r)
  BY <1>2, MessageRequest DEF DeleteDocument
<1>3. CASE ~InsertDocument(r) /\ ~DeleteDocument(r)
  BY <1>3 DEF ApiStep, FindByHash, PublishJob, TrackJob, AbortRequest, storeVars
<1> QED
  BY <1>1, <1>2, <1>3

LEMMA ApiKeepsInv ==
  ASSUME IInv, NEW r \in Request, ApiStep(r)
  PROVE  IInv'
<1>t. TypeOK'
  BY ApiTypes DEF IInv
<1>w. UNCHANGED workerVars
  BY DEF ApiStep, FindByHash, InsertDocument, PublishJob, TrackJob, AbortRequest,
         DeleteDocument
<1>o. /\ \A m \in Message :
           \/ place'[m] = place[m]
           \/ /\ place[m] = "absent" /\ place'[m] = "ready"
              /\ RequestOf(m) = r /\ phase[r] = "publish"
      /\ \A q \in Request :
           phase[q] \notin {"new", "insert"} => phase'[q] \notin {"new", "insert"}
  BY ApiOrder
<1>d. \A m \in Message :
        place[m] # "absent" /\ RequestOf(m) \in doc' =>
          RequestOf(m) \in doc /\ chunks'[RequestOf(m)] = chunks[RequestOf(m)]
  BY ApiDocuments
<1> USE DEF IInv, TypeOK, workerVars
<1>1. SentIsInserted'
  BY <1>o, MessageRequest DEF SentIsInserted
<1>2. FiberHoldsMessage'
  BY <1>w, <1>o DEF FiberHoldsMessage
<1>3. RunIsAtChunk'
  BY <1>w DEF RunIsAtChunk
<1>4. WrittenIsThere'
  BY <1>w, <1>d DEF WrittenIsThere, FiberHoldsMessage
<1>5. IndexedIsThere'
  BY <1>w, <1>o, <1>d DEF IndexedIsThere, Chunks
<1>6. PhaseEvidence'
  BY <1>w DEF PhaseEvidence
<1>7. CompletedWasIndexed'
  <2>1. \A q \in Request : job'[q] = "completed" => job[q] = "completed"
    BY DEF ApiStep, FindByHash, InsertDocument, PublishJob, TrackJob, AbortRequest,
           DeleteDocument, storeVars
  <2> QED
    BY <1>w, <2>1 DEF CompletedWasIndexed
<1>8. DiscardedIsBuried'
  BY <1>w, <1>o DEF DiscardedIsBuried, MessageChunks, Chunks
<1>9. AckedIsIndexed'
  BY <1>w, <1>o DEF AckedIsIndexed
<1>10. FinalHasRun'
  <2>1. losses' = losses
    BY DEF ApiStep, FindByHash, InsertDocument, PublishJob, TrackJob, AbortRequest,
           DeleteDocument, consumerVars
  <2>2. \A q \in Request :
          job'[q] \in {"completed", "failed"} => job'[q] = job[q]
    BY DEF ApiStep, FindByHash, InsertDocument, PublishJob, TrackJob, AbortRequest,
           DeleteDocument, storeVars
  <2>3. \A m \in Message : RanToItsEnd(m) => RanToItsEnd(m)'
    BY <1>w, <1>o DEF RanToItsEnd, Settled
  <2> QED
    BY <2>1, <2>2, <2>3, MessageRequest DEF FinalHasRun, CopiesOf
<1> QED
  BY <1>t, <1>1, <1>2, <1>3, <1>4, <1>5, <1>6, <1>7, <1>8, <1>9, <1>10

-----------------------------------------------------------------------------
(* The connection *)

ConnectionStep ==
  \/ \E m \in Message : Deliver(m) /\ UNCHANGED <<apiVars, storeVars, workerVars>>
  \/ LoseConnection
  \/ Restart /\ UNCHANGED <<apiVars, storeVars, workerVars>>

LEMMA ConnectionTypes ==
  ASSUME TypeOK, ConnectionStep
  PROVE  TypeOK'
<1> USE DEF TypeOK, ConsumerTypeOK
<1>1. ASSUME NEW m \in Message, Deliver(m), UNCHANGED <<apiVars, storeVars, workerVars>>
      PROVE  TypeOK'
  BY <1>1 DEF Deliver, Place, apiVars, storeVars, workerVars
<1>2. CASE LoseConnection
  <2>1. place' \in [Message -> Place] /\ up' \in BOOLEAN
    BY <1>2 DEF LoseConnection, Lose, Place
  <2>2. losses' \in 0..MaxLosses
    <3>1. losses' = losses + 1 /\ losses < MaxLosses /\ losses \in 0..MaxLosses
      BY <1>2 DEF LoseConnection, Lose
    <3> QED
      BY <3>1, MaxLossesAssumption
  <2>3. fiber' \in [Message -> FiberPhase] /\ written' \in [Message -> Nat]
    BY <1>2 DEF LoseConnection, FiberPhase
  <2> QED
    BY <1>2, <2>1, <2>2, <2>3 DEF LoseConnection, apiVars, storeVars
<1>3. CASE Restart /\ UNCHANGED <<apiVars, storeVars, workerVars>>
  BY <1>3 DEF Restart, apiVars, storeVars, workerVars
<1> QED
  BY <1>1, <1>2, <1>3 DEF ConnectionStep

LEMMA ConnectionKeepsInv ==
  ASSUME IInv, ConnectionStep
  PROVE  IInv'
<1>t. TypeOK'
  BY ConnectionTypes DEF IInv
<1> USE DEF IInv, TypeOK, ConsumerTypeOK
<1>p. \A m \in Message : \/ place'[m] = place[m]
                         \/ {place[m], place'[m]} \subseteq {"ready", "unacked"}
  BY DEF ConnectionStep, Deliver, LoseConnection, Lose, Restart
<1>u. UNCHANGED <<phase, doc, chunks, job, indexed, failed, dlq>>
  BY DEF ConnectionStep, LoseConnection, apiVars, storeVars, workerVars
<1>f. \A m \in Message :
        \/ fiber'[m] = "none" /\ written'[m] = 0
        \/ fiber'[m] = fiber[m] /\ written'[m] = written[m]
  BY DEF ConnectionStep, LoseConnection, workerVars
<1>h. FiberHoldsMessage'
  <2>1. CASE LoseConnection
    BY <2>1 DEF LoseConnection, FiberHoldsMessage
  <2>2. CASE ~LoseConnection
    BY <2>2 DEF ConnectionStep, Deliver, Restart, workerVars, FiberHoldsMessage
  <2> QED
    BY <2>1, <2>2
<1>1. SentIsInserted'
  BY <1>p, <1>u DEF SentIsInserted
<1>2. RunIsAtChunk' /\ PhaseEvidence'
  BY <1>u, <1>f DEF RunIsAtChunk, PhaseEvidence
<1>3. WrittenIsThere'
  BY <1>u, <1>f DEF WrittenIsThere
<1>4. IndexedIsThere'
  BY <1>p, <1>u DEF IndexedIsThere, Chunks
<1>5. CompletedWasIndexed' /\ DiscardedIsBuried'
  BY <1>p, <1>u DEF CompletedWasIndexed, DiscardedIsBuried, MessageChunks, Chunks
<1>6. AckedIsIndexed'
  BY <1>p, <1>u DEF AckedIsIndexed
<1>7. FinalHasRun'
  <2>1. CASE LoseConnection
    <3>1. losses' # 0
      BY <2>1 DEF LoseConnection, Lose
    <3> QED
      BY <3>1 DEF FinalHasRun
  <2>2. CASE ~LoseConnection
    <3>1. losses' = losses /\ fiber' = fiber
      BY <2>2 DEF ConnectionStep, Deliver, Restart, workerVars
    <3>2. \A m \in Message : RanToItsEnd(m) => RanToItsEnd(m)'
      BY <3>1, <1>p DEF RanToItsEnd, Settled
    <3> QED
      BY <1>u, <3>1, <3>2, MessageRequest DEF FinalHasRun, CopiesOf
  <2> QED
    BY <2>1, <2>2
<1> QED
  BY <1>t, <1>h, <1>1, <1>2, <1>3, <1>4, <1>5, <1>6, <1>7

-----------------------------------------------------------------------------
(* The worker *)

(* A step of a fiber is about its own message: the message stays where it  *)
(* is or is settled, documents stay, and chunks only come.                 *)
LEMMA WorkerFrame ==
  ASSUME IInv, NEW m \in Message, WorkerStep(m)
  PROVE  /\ UNCHANGED <<up, losses, apiVars, doc>>
         /\ place[m] = "unacked"
         /\ \E p \in {"unacked", "acked", "discarded"} :
              place' = [place EXCEPT ![m] = p]
         /\ \A n \in Message \ {m} :
              fiber'[n] = fiber[n] /\ written'[n] = written[n]
<1> USE DEF IInv, TypeOK, ConsumerTypeOK, FiberHoldsMessage, Goto, Fail,
            consumerVars, storeVars, apiVars
<1>1. CASE RejectBlank(m)
  BY <1>1 DEF RejectBlank, Waiting, Nack
<1>2. CASE Begin(m)
  BY <1>2 DEF Begin, Waiting
<1>3. CASE EmbedChunks(m)
  BY <1>3 DEF EmbedChunks
<1>4. CASE UpsertChunk(m)
  BY <1>4 DEF UpsertChunk
<1>5. CASE CountChunks(m)
  BY <1>5 DEF CountChunks
<1>6. CASE CompleteJob(m) \/ ReportFailure(m) \/ DeadLetter(m)
  BY <1>6 DEF CompleteJob, ReportFailure, DeadLetter
<1>7. CASE AckCompleted(m)
  BY <1>7 DEF AckCompleted, Ack
<1>8. CASE NackBuried(m)
  BY <1>8 DEF NackBuried, Nack
<1> QED
  BY <1>1, <1>2, <1>3, <1>4, <1>5, <1>6, <1>7, <1>8 DEF WorkerStep

(* The chunk a run upserts is one of the content's; after the last of them *)
(* the run counts as having indexed the document, which it has.            *)
LEMMA UpsertKeepsInv ==
  ASSUME IInv, NEW m \in Message, UpsertChunk(m)
  PROVE  IInv'
<1> DEFINE r == RequestOf(m)
           next == written[m] + 1
           total == ChunkCount[ContentOf[r]]
<1> USE DEF IInv, TypeOK, ConsumerTypeOK
<1>r. r \in Request /\ total \in Nat
  BY MessageRequest, ChunkCounts
<1>m. fiber[m] = "writing" /\ place[m] = "unacked"
  BY DEF UpsertChunk, FiberHoldsMessage
<1>u. UNCHANGED <<place, up, losses, phase, calls, doc, job, dlq>>
  BY DEF UpsertChunk, Fail, consumerVars, apiVars
<1>n. written[m] \in Nat /\ written[m] < total /\ next \in 1..total
  BY <1>r, <1>m DEF RunIsAtChunk
<1>e. FinalHasRun'
  <2>1. \A n \in Message : fiber'[n] = fiber[n] \/ n = m
    BY WorkerFrame DEF WorkerStep
  <2>2. \A n \in Message : RanToItsEnd(n) => RanToItsEnd(n)'
    BY <2>1, <1>u, <1>m DEF RanToItsEnd, Settled
  <2> QED
    BY <1>u, <2>2, MessageRequest DEF FinalHasRun, CopiesOf
<1>1. CASE Fail(m)
  <2>1. /\ fiber' = [fiber EXCEPT ![m] = "failing"]
        /\ failed' = failed \cup {m}
        /\ written' = [written EXCEPT ![m] = 0]
        /\ UNCHANGED <<chunks, indexed>>
    BY <1>1 DEF Fail, Goto
  <2>2. TypeOK'
    BY <1>u, <2>1 DEF FiberPhase, Chunks
  <2> QED
    BY <1>u, <1>m, <1>e, <2>1, <2>2
       DEF SentIsInserted, FiberHoldsMessage, RunIsAtChunk, WrittenIsThere,
           IndexedIsThere, PhaseEvidence, CompletedWasIndexed, DiscardedIsBuried,
           AckedIsIndexed, MessageChunks, Chunks
<1>2. CASE /\ r \in doc
           /\ chunks' = [chunks EXCEPT ![r] = @ \cup {next}]
           /\ UNCHANGED failed
           /\ \/ /\ next = total
                 /\ written' = [written EXCEPT ![m] = 0]
                 /\ fiber' = [fiber EXCEPT ![m] = "counting"]
                 /\ indexed' = indexed \cup {m}
              \/ /\ next # total
                 /\ written' = [written EXCEPT ![m] = next]
                 /\ fiber' = [fiber EXCEPT ![m] = "writing"]
                 /\ indexed' = indexed
  <2>c. /\ \A q \in Request : chunks'[q] =
                IF q = r THEN chunks[r] \cup {next} ELSE chunks[q]
        /\ DOMAIN chunks' = Request
    BY <1>2, <1>r
  <2>g. \A q \in Request :
          /\ chunks[q] \subseteq chunks'[q]
          /\ chunks'[q] \subseteq Chunks(q)
    BY <2>c, <1>n, <1>r DEF Chunks
  <2>t. TypeOK'
    <3>1. \A q \in Request : chunks'[q] \subseteq Chunks(q)'
      BY <2>g DEF Chunks
    <3>2. fiber' \in [Message -> FiberPhase]
      BY <1>2 DEF FiberPhase
    <3>3. written' \in [Message -> Nat]
      BY <1>2, <1>n
    <3>4. indexed' \subseteq Message /\ failed' = failed
      BY <1>2
    <3> QED
      BY <1>u, <2>c, <3>1, <3>2, <3>3, <3>4
  <2>1. SentIsInserted' /\ FiberHoldsMessage'
    BY <1>u, <1>2, <1>m DEF SentIsInserted, FiberHoldsMessage
  <2>2. RunIsAtChunk'
    <3>1. \A n \in Message \ {m} :
            fiber'[n] = fiber[n] /\ written'[n] = written[n]
      BY <1>2
    <3>2. total > 0
      BY <1>n, <1>r
    <3>3. \/ fiber'[m] = "counting" /\ written'[m] = 0
          \/ fiber'[m] = "writing" /\ written'[m] = next /\ next # total
      BY <1>2
    <3>4. next # total => next < total
      BY <1>n, <1>r
    <3> QED
      BY <3>1, <3>2, <3>3, <3>4 DEF RunIsAtChunk
  <2>3. WrittenIsThere'
    <3> SUFFICES ASSUME NEW n \in Message, fiber'[n] = "writing",
                        RequestOf(n) \in doc'
                 PROVE  1..written'[n] \subseteq chunks'[RequestOf(n)]
      BY DEF WrittenIsThere, RequestOf
    <3>1. CASE n = m
      <4>1. written'[m] = next
        BY <1>2, <3>1
      <4>2. 1..written[m] \subseteq chunks[r]
        BY <1>m, <1>2 DEF WrittenIsThere
      <4>3. 1..next = 1..written[m] \cup {next}
        BY <1>n
      <4> QED
        BY <3>1, <4>1, <4>2, <4>3, <2>c, <1>r
    <3>2. CASE n # m
      <4>1. fiber[n] = "writing" /\ written'[n] = written[n]
        BY <1>2, <3>2
      <4> QED
        BY <4>1, <1>u, <2>g, MessageRequest DEF WrittenIsThere
    <3> QED
      BY <3>1, <3>2
  <2>4. IndexedIsThere'
    <3> SUFFICES ASSUME NEW n \in indexed'
                 PROVE  /\ place'[n] # "absent"
                        /\ RequestOf(n) \in doc' =>
                             chunks'[RequestOf(n)] = Chunks(RequestOf(n))
      BY DEF IndexedIsThere, RequestOf, Chunks
    <3>1. CASE n \in indexed
      <4>1. n \in Message /\ RequestOf(n) \in Request
        BY <3>1, MessageRequest
      <4>2. /\ place[n] # "absent"
            /\ RequestOf(n) \in doc => chunks[RequestOf(n)] = Chunks(RequestOf(n))
        BY <3>1 DEF IndexedIsThere
      <4>3. /\ chunks[RequestOf(n)] \subseteq chunks'[RequestOf(n)]
            /\ chunks'[RequestOf(n)] \subseteq Chunks(RequestOf(n))
        BY <4>1, <2>g
      <4> QED
        BY <4>2, <4>3, <1>u
    <3>2. CASE n = m /\ next = total
      <4>1. 1..written[m] \subseteq chunks[r]
        BY <1>m, <1>2 DEF WrittenIsThere
      <4>2. Chunks(r) = 1..written[m] \cup {next}
        BY <1>n, <3>2 DEF Chunks
      <4>3. chunks'[r] = Chunks(r)
        BY <4>1, <4>2, <2>c, <2>g, <1>r
      <4> QED
        BY <3>2, <4>3, <1>u, <1>m
    <3> QED
      BY <1>2, <3>1, <3>2
  <2>5. PhaseEvidence'
    BY <1>2, <1>u DEF PhaseEvidence
  <2>6. CompletedWasIndexed' /\ DiscardedIsBuried' /\ AckedIsIndexed'
    BY <1>2, <1>u DEF CompletedWasIndexed, DiscardedIsBuried, AckedIsIndexed,
                      MessageChunks, Chunks
  <2> QED
    BY <1>e, <2>t, <2>1, <2>2, <2>3, <2>4, <2>5, <2>6
<1> QED
  BY <1>1, <1>2 DEF UpsertChunk, Goto

(* A run that came to its end stays there, short of a lost connection.     *)
LEMMA RunsOnlyEnd ==
  ASSUME IInv, NEW m \in Message, WorkerStep(m)
  PROVE  \A n \in Message : RanToItsEnd(n) => RanToItsEnd(n)'
<1>1. \A n \in Message \ {m} : place'[n] = place[n] /\ fiber'[n] = fiber[n]
  BY WorkerFrame DEF IInv, TypeOK, ConsumerTypeOK
<1>2. RanToItsEnd(m) => RanToItsEnd(m)'
  <2> USE DEF RanToItsEnd, Settled, Goto, Fail, FiberHoldsMessage, IInv, TypeOK,
              ConsumerTypeOK, consumerVars
  <2>1. CASE RejectBlank(m) \/ Begin(m)
    BY <2>1 DEF RejectBlank, Begin, Waiting
  <2>2. CASE EmbedChunks(m) \/ UpsertChunk(m) \/ CountChunks(m)
    BY <2>2 DEF EmbedChunks, UpsertChunk, CountChunks
  <2>3. CASE CompleteJob(m) \/ ReportFailure(m) \/ DeadLetter(m)
    BY <2>3 DEF CompleteJob, ReportFailure, DeadLetter
  <2>4. CASE AckCompleted(m)
    BY <2>4 DEF AckCompleted, Ack
  <2>5. CASE NackBuried(m)
    BY <2>5 DEF NackBuried, Nack
  <2> QED
    BY <2>1, <2>2, <2>3, <2>4, <2>5 DEF WorkerStep
<1> QED
  BY <1>1, <1>2 DEF RanToItsEnd, Settled

(* Who writes the status: a run that begins, or one that comes to its end. *)
LEMMA StatusWriters ==
  ASSUME IInv, NEW m \in Message, WorkerStep(m),
         job'[RequestOf(m)] # job[RequestOf(m)]
  PROVE  /\ ~RanToItsEnd(m)
         /\ place[m] # "absent"
         /\ job'[RequestOf(m)] \in {"completed", "failed"} => RanToItsEnd(m)'
<1> USE DEF RanToItsEnd, Settled, Goto, SetJob, FiberHoldsMessage, IInv, TypeOK,
            ConsumerTypeOK
<1>1. CASE Begin(m)
  BY <1>1, MessageRequest DEF Begin, Waiting
<1>2. CASE CompleteJob(m) \/ ReportFailure(m)
  BY <1>2, MessageRequest DEF CompleteJob, ReportFailure
<1> QED
  BY <1>1, <1>2
     DEF WorkerStep, RejectBlank, EmbedChunks, UpsertChunk, CountChunks,
         AckCompleted, DeadLetter, NackBuried, storeVars

(* A fiber writes no other job's status. *)
LEMMA WritesOwnStatus ==
  ASSUME IInv, NEW m \in Message, WorkerStep(m), NEW q \in Request,
         job'[q] # job[q]
  PROVE  q = RequestOf(m)
BY DEF IInv, TypeOK, WorkerStep, RejectBlank, Begin, EmbedChunks, UpsertChunk,
       CountChunks, CompleteJob, AckCompleted, ReportFailure, DeadLetter,
       NackBuried, SetJob, storeVars

(* The steps of a fiber that touch neither chunks nor documents.           *)
LEMMA PhaseStepsKeepInv ==
  ASSUME IInv, NEW m \in Message, WorkerStep(m), ~UpsertChunk(m)
  PROVE  IInv'
<1> USE DEF IInv, TypeOK, ConsumerTypeOK
<1>f. /\ UNCHANGED <<up, losses, phase, calls, doc>>
      /\ place[m] = "unacked"
      /\ \A n \in Message \ {m} :
           fiber'[n] = fiber[n] /\ written'[n] = written[n]
  BY WorkerFrame DEF apiVars
<1>p. /\ place' \in [Message -> Place]
      /\ \A n \in Message : place'[n] # "absent" => place[n] # "absent"
  BY WorkerFrame DEF Place
<1>c. chunks' = chunks
  BY DEF WorkerStep, RejectBlank, Begin, EmbedChunks, CountChunks, CompleteJob,
         AckCompleted, ReportFailure, DeadLetter, NackBuried, Fail, storeVars
<1>j. \/ job' = job
      \/ \E s \in {"processing", "failed"} :
           job' = [job EXCEPT ![RequestOf(m)] = s]
      \/ /\ job' = [job EXCEPT ![RequestOf(m)] = "completed"]
         /\ fiber[m] = "completing"
  BY DEF WorkerStep, RejectBlank, Begin, EmbedChunks, CountChunks, CompleteJob,
         AckCompleted, ReportFailure, DeadLetter, NackBuried, Fail, SetJob,
         storeVars
<1>i. /\ indexed' = indexed
      /\ failed' \in {failed, failed \cup {m}}
      /\ dlq' \in {dlq, dlq \cup {m}}
  BY DEF WorkerStep, RejectBlank, Begin, EmbedChunks, CountChunks, CompleteJob,
         AckCompleted, ReportFailure, DeadLetter, NackBuried, Fail
<1>w. written' \in [Message -> Nat] 
  BY DEF WorkerStep, RejectBlank, Begin, EmbedChunks, CountChunks, CompleteJob,
         AckCompleted, ReportFailure, DeadLetter, NackBuried, Fail
<1>g. /\ fiber' \in [Message -> FiberPhase]
      /\ fiber'[m] # "none" => place'[m] = "unacked"
      /\ fiber'[m] # "none" => ChunkCount[ContentOf[RequestOf(m)]] > 0
      /\ fiber'[m] = "writing" => fiber[m] = "embedding"
      /\ written'[m] = 0
      /\ fiber'[m] \in {"counting", "completing", "completed"} => m \in indexed
      /\ fiber'[m] \in {"failing", "reported", "buried", "stranded"} => m \in failed'
      /\ fiber'[m] = "buried" => m \in dlq'
      /\ place'[m] = "discarded" => m \in dlq' \/ MessageChunks(m) = {}
      /\ place'[m] = "acked" => m \in indexed
  <2> USE DEF FiberPhase, Goto, FiberHoldsMessage, PhaseEvidence, RunIsAtChunk
  <2>1. CASE RejectBlank(m)
    BY <2>1 DEF RejectBlank, Waiting, Nack
  <2>2. CASE Begin(m)
    <3>1. ChunkCount[ContentOf[RequestOf(m)]] > 0
      BY <2>2, MessageRequest, ChunkCounts DEF Begin, MessageChunks, Chunks
    <3>2. written'[m] = 0
      BY <2>2 DEF Begin, Waiting
    <3> QED
      BY <2>2, <3>1, <3>2, <1>f DEF Begin, consumerVars
  <2>3. CASE EmbedChunks(m) \/ CountChunks(m)
    BY <2>3, <1>f DEF EmbedChunks, CountChunks, Fail, consumerVars
  <2>4. CASE CompleteJob(m) \/ ReportFailure(m) \/ DeadLetter(m)
    BY <2>4, <1>f DEF CompleteJob, ReportFailure, DeadLetter, consumerVars
  <2>5. CASE AckCompleted(m)
    BY <2>5 DEF AckCompleted, Ack
  <2>6. CASE NackBuried(m)
    BY <2>6 DEF NackBuried, Nack
  <2> QED
    BY <2>1, <2>2, <2>3, <2>4, <2>5, <2>6 DEF WorkerStep
<1>t. TypeOK'
  BY <1>f, <1>p, <1>c, <1>j, <1>i, <1>w, <1>g DEF JobStatus, Chunks
<1>1. SentIsInserted'
  BY <1>f, <1>p DEF SentIsInserted
<1>2. FiberHoldsMessage'
  BY <1>f, <1>g, WorkerFrame DEF FiberHoldsMessage
<1>3. RunIsAtChunk'
  BY <1>f, <1>g DEF RunIsAtChunk
<1>4. WrittenIsThere'
  <2> SUFFICES ASSUME NEW n \in Message, fiber'[n] = "writing",
                      RequestOf(n) \in doc'
               PROVE  1..written'[n] \subseteq chunks'[RequestOf(n)]
    BY DEF WrittenIsThere, RequestOf
  <2>1. CASE n = m
    <3>1. written'[n] = 0
      BY <2>1, <1>g
    <3> QED
      BY <3>1
  <2>2. CASE n # m
    BY <2>2, <1>f, <1>c DEF WrittenIsThere
  <2> QED
    BY <2>1, <2>2
<1>5. IndexedIsThere'
  <2>1. \A n \in indexed : place'[n] # "absent"
    BY WorkerFrame DEF IndexedIsThere
  <2> QED
    BY <2>1, <1>f, <1>c, <1>i DEF IndexedIsThere, Chunks
<1>6. PhaseEvidence'
  <2>1. \A n \in Message \ {m} : fiber'[n] = fiber[n]
    BY <1>f
  <2>2. \A n \in Message \ {m} :
          /\ fiber'[n] \in {"counting", "completing", "completed"} => n \in indexed
          /\ fiber'[n] \in {"failing", "reported", "buried", "stranded"} => n \in failed'
          /\ fiber'[n] = "buried" => n \in dlq'
    BY <2>1, <1>i DEF PhaseEvidence
  <2> QED
    BY <2>2, <1>g, <1>i DEF PhaseEvidence
<1>7. CompletedWasIndexed'
  <2>1. CASE job' = [job EXCEPT ![RequestOf(m)] = "completed"] /\ fiber[m] = "completing"
    <3>1. m \in indexed
      BY <2>1 DEF PhaseEvidence
    <3> QED
      BY <2>1, <3>1, <1>i DEF CompletedWasIndexed
  <2>2. CASE \A q \in Request : job'[q] = "completed" => job[q] = "completed"
    BY <2>2, <1>i DEF CompletedWasIndexed
  <2>3. ASSUME NEW s \in {"processing", "failed"},
               job' = [job EXCEPT ![RequestOf(m)] = s]
        PROVE  \A q \in Request : job'[q] = "completed" => job[q] = "completed"
    BY <2>3
  <2> QED
    BY <2>1, <2>2, <2>3, <1>j
<1>8. DiscardedIsBuried'
  <2>1. \A n \in Message \ {m} : place'[n] = place[n]
    BY WorkerFrame
  <2> QED
    BY <2>1, <1>g, <1>i DEF DiscardedIsBuried, MessageChunks, Chunks
<1>9. AckedIsIndexed'
  <2>1. \A n \in Message \ {m} : place'[n] = place[n]
    BY WorkerFrame
  <2> QED
    BY <2>1, <1>g, <1>i DEF AckedIsIndexed
<1>10. FinalHasRun'
  <2> SUFFICES ASSUME losses = 0, NEW q \in Request,
                      job'[q] \in {"completed", "failed"}
               PROVE  \E n \in CopiesOf(q) : RanToItsEnd(n)'
    BY <1>f DEF FinalHasRun, RanToItsEnd, Settled
  <2>1. \A n \in Message : RanToItsEnd(n) => RanToItsEnd(n)'
    BY RunsOnlyEnd
  <2>2. CASE job'[q] = job[q]
    BY <2>1, <2>2, MessageRequest DEF FinalHasRun
  <2>3. CASE job'[q] # job[q]
    <3>1. q = RequestOf(m)
      BY <2>3, <1>j
    <3>2. RanToItsEnd(m)'
      BY <2>3, StatusWriters, <3>1
    <3> QED
      BY <3>1, <3>2, MessageRequest
  <2> QED
    BY <2>2, <2>3
<1> QED
  BY <1>t, <1>1, <1>2, <1>3, <1>4, <1>5, <1>6, <1>7, <1>8, <1>9, <1>10

LEMMA WorkerKeepsInv ==
  ASSUME IInv, NEW m \in Message, WorkerStep(m)
  PROVE  IInv'
BY UpsertKeepsInv, PhaseStepsKeepInv

-----------------------------------------------------------------------------

(* The inductive invariant holds of the whole system. *)
THEOREM InductiveInvariant == Spec => []IInv
<1>1. IInv /\ [Next]_vars => IInv'
  <2> SUFFICES ASSUME IInv, [Next]_vars PROVE IInv'
    OBVIOUS
  <2>1. CASE UNCHANGED vars
    BY <2>1
       DEF vars, consumerVars, apiVars, storeVars, workerVars, IInv, TypeOK,
           ConsumerTypeOK, SentIsInserted, FiberHoldsMessage, RunIsAtChunk,
           WrittenIsThere, IndexedIsThere, PhaseEvidence, CompletedWasIndexed,
           DiscardedIsBuried, AckedIsIndexed, FinalHasRun, RanToItsEnd, Settled,
           MessageChunks, Chunks
  <2>2. ASSUME NEW r \in Request, ApiStep(r) PROVE IInv'
    BY <2>2, ApiKeepsInv
  <2>3. ASSUME NEW m \in Message, WorkerStep(m) PROVE IInv'
    BY <2>3, WorkerKeepsInv
  <2>4. CASE ConnectionStep
    BY <2>4, ConnectionKeepsInv
  <2> QED
    BY <2>1, <2>2, <2>3, <2>4 DEF Next, ConnectionStep
<1> QED
  BY <1>1, InitInv, PTL DEF Spec

(* Every variable has its type; in particular no run leaves the chunks of  *)
(* its document.                                                           *)
THEOREM TypeCorrect == Spec => []TypeOK
<1>1. IInv => TypeOK
  BY DEF IInv
<1> QED
  BY <1>1, InductiveInvariant, PTL

(* A job that reads "completed" has its chunks in Postgres as long as its  *)
(* document is there: some run wrote them all, and chunks leave with the   *)
(* document only.                                                          *)
THEOREM CompletedAreIndexed == Spec => []CompletedIsIndexed
<1>1. IInv => CompletedIsIndexed
  <2> SUFFICES ASSUME IInv, NEW r \in doc, job[r] = "completed"
               PROVE  chunks[r] = Chunks(r)
    BY DEF CompletedIsIndexed
  <2>1. r \in Request
    BY DEF IInv, TypeOK
  <2>2. PICK m \in indexed : RequestOf(m) = r
    BY <2>1 DEF IInv, CompletedWasIndexed
  <2> QED
    BY <2>2 DEF IInv, IndexedIsThere
<1> QED
  BY <1>1, InductiveInvariant, PTL

(* No job is thrown away without a copy on the dead-letter queue, but for  *)
(* the jobs of blank documents.                                            *)
THEOREM DiscardedAreBuried == Spec => []DiscardedIsBuried
<1>1. IInv => DiscardedIsBuried
  BY DEF IInv
<1> QED
  BY <1>1, InductiveInvariant, PTL

(* A document without its chunks is at work, on the DLQ, or its job was    *)
(* lost on the way to the broker or its request failed: a settled message  *)
(* was indexed, buried, or asked for nothing.                              *)
THEOREM UnindexedAreExplained == Spec => []UnindexedIsExplained
<1>1. IInv => UnindexedIsExplained
  <2> SUFFICES ASSUME IInv, NEW r \in doc, NEW m \in CopiesOf(r),
                      place[m] \notin {"ready", "unacked", "absent"}, m \notin dlq
               PROVE  chunks[r] = Chunks(r)
    BY DEF UnindexedIsExplained
  <2>1. r \in Request /\ m \in Message /\ RequestOf(m) = r
    BY MessageRequest DEF IInv, TypeOK
  <2>2. place[m] \in {"acked", "discarded"}
    BY <2>1 DEF IInv, TypeOK, ConsumerTypeOK, Place
  <2>3. CASE place[m] = "acked"
    BY <2>1, <2>3 DEF IInv, AckedIsIndexed, IndexedIsThere
  <2>4. CASE place[m] = "discarded"
    <3>1. Chunks(r) = {}
      BY <2>1, <2>4 DEF IInv, DiscardedIsBuried, MessageChunks
    <3>2. chunks[r] \subseteq Chunks(r)
      BY <2>1 DEF IInv, TypeOK
    <3> QED
      BY <3>1, <3>2
  <2> QED
    BY <2>2, <2>3, <2>4
<1> QED
  BY <1>1, InductiveInvariant, PTL

(* A final status is overwritten by the request's own "queued" or because  *)
(* the job runs a second time: the run that wrote it writes no more.       *)
THEOREM FinalStatusChangesAreExplained == Spec => FinalStatusChangesByRace
<1>1. IInv /\ [Next]_vars =>
        [\A r \in Request :
           /\ job[r] \in {"completed", "failed"}
           /\ job'[r] # job[r]
           => RunsTwice(r) \/ (job'[r] = "queued" /\ phase[r] = "track")]_vars
  <2> SUFFICES ASSUME IInv, [Next]_vars, NEW r \in Request,
                      job[r] \in {"completed", "failed"}, job'[r] # job[r],
                      ~RunsTwice(r)
               PROVE  job'[r] = "queued" /\ phase[r] = "track"
    OBVIOUS
  <2>1. losses = 0
    BY DEF RunsTwice, IInv, TypeOK, ConsumerTypeOK
  <2>2. CASE UNCHANGED vars
    BY <2>2 DEF vars, storeVars
  <2>3. ASSUME NEW q \in Request, ApiStep(q)
        PROVE  job'[r] = "queued" /\ phase[r] = "track"
    <3>1. TrackJob(q)
      BY <2>3 DEF ApiStep, FindByHash, InsertDocument, PublishJob, AbortRequest,
                  DeleteDocument, storeVars
    <3> QED
      BY <3>1 DEF TrackJob, IInv, TypeOK
  <2>4. ASSUME NEW m \in Message, WorkerStep(m)
        PROVE  FALSE
    <3>1. r = RequestOf(m)
      BY <2>4, WritesOwnStatus
    <3>2. ~RanToItsEnd(m) /\ place[m] # "absent" /\ m \in CopiesOf(r)
      BY <2>4, <3>1, StatusWriters, MessageRequest
    <3>3. PICK n \in CopiesOf(r) : RanToItsEnd(n)
      BY <2>1 DEF IInv, FinalHasRun
    <3>4. n # m /\ place[n] # "absent"
      BY <3>2, <3>3, MessageRequest
         DEF RanToItsEnd, Settled, IInv, FiberHoldsMessage
    <3> QED
      BY <3>2, <3>4 DEF RunsTwice
  <2>5. CASE ConnectionStep
    BY <2>5 DEF ConnectionStep, LoseConnection, storeVars
  <2> QED
    BY <2>2, <2>3, <2>4, <2>5 DEF Next, ConnectionStep
<1> QED
  BY <1>1, InductiveInvariant, PTL DEF Spec, FinalStatusChangesByRace

-----------------------------------------------------------------------------
(* The ingest worker implements JobContract. *)

Jobs == [m \in Message |-> JobState(m)]

(* A job's state follows the place of its message. *)
LEMMA JobFollows ==
  ASSUME NEW m \in Message
  PROVE  /\ place[m] = "absent" => Jobs[m] = "unsent"
         /\ place[m] \in {"ready", "unacked"} => Jobs[m] = "pending"
         /\ place'[m] = "acked" => Jobs'[m] = "finished"
         /\ place'[m] = "discarded" => Jobs'[m] = "dropped"
         /\ place'[m] \in {"ready", "unacked"} => Jobs'[m] = "pending"
BY DEF Jobs, JobState

(* A settled message is a job that is over, and no other job moves. *)
LEMMA SettledJob ==
  ASSUME IInv, NEW m \in Message, place[m] = "unacked",
         NEW p \in {"acked", "discarded"}, place' = [place EXCEPT ![m] = p]
  PROVE  /\ Jobs[m] = "pending"
         /\ Jobs' = [Jobs EXCEPT ![m] = IF p = "acked" THEN "finished"
                                                       ELSE "dropped"]
<1>1. place'[m] = p /\ \A n \in Message \ {m} : place'[n] = place[n]
  BY DEF IInv, TypeOK, ConsumerTypeOK
<1>2. \A n \in Message \ {m} : Jobs'[n] = Jobs[n]
  BY <1>1 DEF Jobs, JobState
<1>3. Jobs[m] = "pending"
  BY JobFollows
<1>4. Jobs'[m] = IF p = "acked" THEN "finished" ELSE "dropped"
  BY <1>1, JobFollows
<1> QED
  BY <1>2, <1>3, <1>4 DEF Jobs

(* Moving between "ready" and "unacked" moves no job. *)
LEMMA JobsStay ==
  ASSUME \A n \in Message : \/ place'[n] = place[n]
                            \/ {place[n], place'[n]} \subseteq {"ready", "unacked"}
  PROVE  Jobs' = Jobs
<1>1. ASSUME NEW n \in Message PROVE JobState(n)' = JobState(n)
  BY DEF JobState
<1> QED
  BY <1>1 DEF Jobs

LEMMA InitRefines == Init => Contract!Init
BY DEF Init, ConsumerInit, Contract!Init, JobState

LEMMA StutterRefines ==
  ASSUME Jobs' = Jobs, UNCHANGED <<indexed, failed, dlq>>
  PROVE  UNCHANGED Contract!jobVars
BY DEF Contract!jobVars, Jobs

(* A publish call that reaches the broker sends a job; nothing else the    *)
(* API does is seen there.                                                 *)
LEMMA ApiRefines ==
  ASSUME IInv, NEW r \in Request, ApiStep(r)
  PROVE  [Contract!Next]_(Contract!jobVars)
<1>1. UNCHANGED <<indexed, failed, dlq>>
  BY DEF ApiStep, FindByHash, InsertDocument, PublishJob, TrackJob, AbortRequest,
         DeleteDocument, workerVars
<1>2. CASE UNCHANGED place
  BY <1>1, <1>2, JobsStay, StutterRefines
<1>3. ASSUME NEW m \in Message, Enqueue(m) PROVE Contract!Next
  <2>1. /\ place[m] = "absent" /\ place'[m] = "ready"
        /\ \A n \in Message \ {m} : place'[n] = place[n]
    BY <1>3 DEF Enqueue, IInv, TypeOK, ConsumerTypeOK
  <2>2. \A n \in Message \ {m} : Jobs'[n] = Jobs[n]
    BY <2>1 DEF Jobs, JobState
  <2>3. Jobs[m] = "unsent" /\ Jobs'[m] = "pending"
    BY <2>1, JobFollows
  <2>4. Jobs' = [Jobs EXCEPT ![m] = "pending"]
    BY <2>2, <2>3 DEF Jobs
  <2>5. Contract!Send(m)
    BY <1>1, <2>3, <2>4 DEF Contract!Send, Jobs
  <2> QED
    BY <2>5 DEF Contract!Next
<1>4. CASE PublishJob(r)
  <2>1. <<r, calls[r] + 1>> \in Message
    <3>1. calls[r] + 1 \in Copy
      BY <1>4, PublishCallsAssumption DEF PublishJob, Copy, IInv, TypeOK
    <3> QED
      BY <3>1, MessageAssumption
  <2>2. UNCHANGED place \/ Enqueue(<<r, calls[r] + 1>>)
    BY <1>4 DEF PublishJob
  <2> QED
    BY <1>2, <1>3, <2>1, <2>2
<1>5. CASE ~PublishJob(r)
  <2>1. UNCHANGED place
    BY <1>5 DEF ApiStep, FindByHash, InsertDocument, TrackJob, AbortRequest,
                DeleteDocument, consumerVars
  <2> QED
    BY <2>1, <1>2
<1> QED
  BY <1>4, <1>5

LEMMA ConnectionRefines ==
  ASSUME IInv, ConnectionStep
  PROVE  UNCHANGED Contract!jobVars
<1>1. UNCHANGED <<indexed, failed, dlq>>
  BY DEF ConnectionStep, LoseConnection, workerVars
<1>2. \A n \in Message : \/ place'[n] = place[n]
                         \/ {place[n], place'[n]} \subseteq {"ready", "unacked"}
  BY DEF ConnectionStep, Deliver, LoseConnection, Lose, Restart, IInv, TypeOK,
         ConsumerTypeOK
<1> QED
  BY <1>1, <1>2, JobsStay, StutterRefines

(* An ack rests on a run that wrote every chunk, a nack on a failed run:   *)
(* the evidence of the fiber's phase.                                      *)
LEMMA WorkerRefines ==
  ASSUME IInv, NEW m \in Message, WorkerStep(m)
  PROVE  [Contract!Next]_(Contract!jobVars)
<1>h. place[m] = "unacked"
  BY WorkerFrame
<1>p. Jobs[m] = "pending"
  BY <1>h, JobFollows
<1>1. CASE RejectBlank(m)
  <2>1. Jobs' = [Jobs EXCEPT ![m] = "dropped"]
    BY <1>1, <1>h, SettledJob DEF RejectBlank, Nack
  <2>2. Contract!Reject(m)
    BY <1>1, <1>p, <2>1 DEF RejectBlank, Contract!Reject, Jobs
  <2> QED
    BY <2>2 DEF Contract!Next
<1>2. CASE EmbedChunks(m) \/ UpsertChunk(m) \/ CountChunks(m)
  <2>1. UNCHANGED <<place, dlq>>
    BY <1>2 DEF EmbedChunks, UpsertChunk, CountChunks, consumerVars
  <2>2. /\ indexed' \in {indexed, indexed \cup {m}}
        /\ failed' \in {failed, failed \cup {m}}
    BY <1>2 DEF EmbedChunks, UpsertChunk, CountChunks, Fail
  <2>3. Jobs' = Jobs
    BY <2>1, JobsStay
  <2>4. Contract!Run(m)
    BY <1>p, <2>1, <2>2, <2>3 DEF Contract!Run, Jobs
  <2> QED
    BY <2>4 DEF Contract!Next
<1>3. CASE Begin(m) \/ CompleteJob(m) \/ ReportFailure(m)
  <2>1. UNCHANGED <<place, indexed, failed, dlq>>
    BY <1>3 DEF Begin, CompleteJob, ReportFailure, consumerVars
  <2> QED
    BY <2>1, JobsStay, StutterRefines
<1>4. CASE DeadLetter(m)
  <2>1. UNCHANGED <<place, indexed, failed>> /\ m \in failed
    BY <1>4 DEF DeadLetter, consumerVars, IInv, PhaseEvidence
  <2>2. Jobs' = Jobs
    BY <2>1, JobsStay
  <2>3. CASE dlq' = dlq
    BY <2>1, <2>2, <2>3, StutterRefines
  <2>4. CASE dlq' = dlq \cup {m}
    <3>1. Contract!Bury(m)
      BY <1>p, <2>1, <2>2, <2>4 DEF Contract!Bury, Jobs
    <3> QED
      BY <3>1 DEF Contract!Next
  <2> QED
    BY <1>4, <2>3, <2>4 DEF DeadLetter
<1>5. CASE AckCompleted(m)
  <2>1. Jobs' = [Jobs EXCEPT ![m] = "finished"]
    BY <1>5, <1>h, SettledJob DEF AckCompleted, Ack
  <2>2. m \in indexed
    BY <1>5 DEF AckCompleted, IInv, PhaseEvidence
  <2>3. Contract!Finish(m)
    BY <1>5, <1>p, <2>1, <2>2 DEF AckCompleted, Contract!Finish, Jobs
  <2> QED
    BY <2>3 DEF Contract!Next
<1>6. CASE NackBuried(m)
  <2>1. Jobs' = [Jobs EXCEPT ![m] = "dropped"]
    BY <1>6, <1>h, SettledJob DEF NackBuried, Nack
  <2>2. m \in failed
    BY <1>6 DEF NackBuried, IInv, PhaseEvidence
  <2>3. Contract!Drop(m)
    BY <1>6, <1>p, <2>1, <2>2 DEF NackBuried, Contract!Drop, Jobs
  <2> QED
    BY <2>3 DEF Contract!Next
<1> QED
  BY <1>1, <1>2, <1>3, <1>4, <1>5, <1>6 DEF WorkerStep

(* The ingest worker keeps the contract of JobContract, for any requests,  *)
(* contents and prefetch: no job is acked before all its chunks were       *)
(* written, none is dropped before a run of it failed.                     *)
THEOREM ContractKept == Spec => KeepsContract
<1>1. IInv /\ [Next]_vars => [Contract!Next]_(Contract!jobVars)
  <2> SUFFICES ASSUME IInv, [Next]_vars
               PROVE  [Contract!Next]_(Contract!jobVars)
    OBVIOUS
  <2>1. CASE UNCHANGED vars
    BY <2>1, JobsStay, StutterRefines DEF vars, consumerVars, workerVars
  <2>2. ASSUME NEW r \in Request, ApiStep(r)
        PROVE  [Contract!Next]_(Contract!jobVars)
    BY <2>2, ApiRefines
  <2>3. ASSUME NEW m \in Message, WorkerStep(m)
        PROVE  [Contract!Next]_(Contract!jobVars)
    BY <2>3, WorkerRefines
  <2>4. CASE ConnectionStep
    BY <2>4, ConnectionRefines
  <2> QED
    BY <2>1, <2>2, <2>3, <2>4 DEF Next, ConnectionStep
<1> QED
  BY <1>1, InitRefines, InductiveInvariant, PTL
     DEF Spec, KeepsContract, Contract!Spec
=============================================================================
