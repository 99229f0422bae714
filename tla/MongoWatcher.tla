---------------------------- MODULE MongoWatcher ----------------------------
(***************************************************************************)
(* The change-stream half of the CDC worker (cdcWorker.ts): changes of     *)
(* watched documents go into a dropping queue, a debounce keeps the last   *)
(* one of every burst, and a cache of document ids skips what was sent     *)
(* less than 30 seconds ago.                                               *)
(*                                                                         *)
(* A change is its number in `changes`.  A burst may be over whenever the  *)
(* queue is empty; the debounce lets at most one change through every 500  *)
(* ms, 60 in the window of DedupCache.                                     *)
(***************************************************************************)
EXTENDS DedupCache

CONSTANTS
  QueueSize,    \* capacity of changeQueue, 1000
  MaxChanges,   \* bound: changes in the life of the model
  MaxRestarts   \* bound: how often the worker stops

ASSUME WatcherAssumption ==
  QueueSize \in Nat \ {0} /\ MaxChanges \in Nat /\ MaxRestarts \in Nat

VARIABLES
  stream,    \* of the change stream: "opening", "open" or "closed"
  changes,   \* the documents changed, in order; for the properties
  fate,      \* what became of each change; for the properties
  queue,     \* changeQueue
  held,      \* the change whose debounce timer runs, or 0
  emitting,  \* the change that is being emitted, or 0
  stops      \* stops so far

watcherVars ==
  <<dedupVars, stream, changes, fate, queue, held, emitting, stops>>

Fates == {"unseen", "refused", "queued", "merged", "skipped", "taken", "sent",
          "unsent", "lost"}
Number == 1..MaxChanges

WatcherTypeOK ==
  /\ stream \in {"opening", "open", "closed"}
  /\ Members(changes) \subseteq Doc /\ Len(changes) <= MaxChanges
  /\ DOMAIN fate = DOMAIN changes /\ Members(fate) \subseteq Fates
  /\ Members(queue) \subseteq Number /\ Len(queue) <= QueueSize
  /\ {held, emitting} \subseteq Number \cup {0}
  /\ DedupTypeOK
  /\ stops \in 0..MaxRestarts

WatcherInit ==
  /\ stream = "opening"
  /\ changes = <<>> /\ fate = <<>>
  /\ queue = <<>> /\ held = 0 /\ emitting = 0
  /\ DedupInit
  /\ stops = 0

-----------------------------------------------------------------------------
(* The layers are built and the database is watched. *)
OpenStream ==
  /\ stream = "opening"
  /\ stream' = "open"
  /\ UNCHANGED <<changes, fate, queue, held, emitting, dedupVars, stops>>

(* The "change" event, or a change nobody listens for.  Queue.dropping      *)
(* refuses an offer when it is full.                                       *)
Change(d) ==
  /\ Len(changes) < MaxChanges
  /\ changes' = Append(changes, d)
  /\ LET what == CASE stream # "open"         -> "unseen"
                   [] Len(queue) >= QueueSize -> "refused"
                   [] OTHER                   -> "queued"
     IN /\ fate' = Append(fate, what)
        /\ queue' = IF what = "queued" THEN Append(queue, Len(changes) + 1)
                                       ELSE queue
  /\ UNCHANGED <<stream, held, emitting, dedupVars, stops>>

(* Mutant: the first change of a burst is kept. *)
DebounceFirst ==
  /\ queue # <<>>
  /\ held' = IF held = 0 THEN Head(queue) ELSE held
  /\ queue' = Tail(queue)
  /\ fate' = IF held = 0 THEN fate ELSE [fate EXCEPT ![Head(queue)] = "merged"]
  /\ UNCHANGED <<stream, changes, emitting, dedupVars, stops>>

(* Stream.debounce takes the next change: it replaces the one that waits,  *)
(* whatever document that was about, and its timer starts again.           *)
Debounce ==
  /\ queue # <<>>
  /\ held' = Head(queue)
  /\ queue' = Tail(queue)
  /\ fate' = IF held = 0 THEN fate ELSE [fate EXCEPT ![held] = "merged"]
  /\ UNCHANGED <<stream, changes, emitting, dedupVars, stops>>

(* 500 ms without a change, and the last one was handled: shouldProcess. *)
Quiet ==
  /\ held # 0 /\ queue = <<>> /\ emitting = 0
  /\ held' = 0
  /\ \/ /\ Skips(changes[held])
        /\ fate' = [fate EXCEPT ![held] = "skipped"]
        /\ UNCHANGED <<emitting, dedupVars>>
     \/ /\ LetThrough(changes[held])
        /\ fate' = [fate EXCEPT ![held] = "taken"]
        /\ emitting' = held
  /\ UNCHANGED <<stream, changes, queue, stops>>

(* publisher.emit ends; its errors are ignored. *)
EmitEnds ==
  /\ emitting # 0
  /\ emitting' = 0
  /\ \E how \in {"sent", "unsent"} : fate' = [fate EXCEPT ![emitting] = how]
  /\ UNCHANGED <<stream, changes, queue, held, dedupVars, stops>>

(* The driver gives the stream up: the "error" listener only logs, and     *)
(* nothing opens another one.                                              *)
StreamError ==
  /\ stream = "open"
  /\ stream' = "closed"
  /\ UNCHANGED <<changes, fate, queue, held, emitting, dedupVars, stops>>

(* A signal, a crash, or no connection to MongoDB: everything in memory is *)
(* lost, and the next process watches from then on.                        *)
StopWatcher ==
  /\ stops < MaxRestarts
  /\ stops' = stops + 1
  /\ stream' = "opening"
  /\ queue' = <<>> /\ held' = 0 /\ emitting' = 0 /\ cache' = <<>>
  /\ fate' = [c \in DOMAIN fate |->
                IF fate[c] \in {"queued", "taken"} THEN "lost" ELSE fate[c]]
  /\ UNCHANGED <<changes, recent>>

WatcherNext ==
  \/ OpenStream \/ Debounce \/ Quiet \/ EmitEnds
  \/ StreamError \/ StopWatcher
  \/ Elapse /\ UNCHANGED <<stream, changes, fate, queue, held, emitting, stops>>
  \/ \E d \in Doc : Change(d)

-----------------------------------------------------------------------------
(***************************************************************************)
(* A change whose event is not sent is accounted for (cdcWorker.ts:109-    *)
(* 170): while the worker runs, a merged change gave way to a later one    *)
(* that is held or was handled, a skipped one follows an event about the   *)
(* same document, and a refused one came after no fewer accepted changes   *)
(* than the queue holds.  In particular the last change that was queued is *)
(* never merged away.                                                      *)
(***************************************************************************)
Handled(c) == fate[c] \in {"skipped", "taken", "sent", "unsent", "lost"}

UnsentIsExplained ==
  \A c \in DOMAIN changes :
    /\ fate[c] = "merged" =>
         \E later \in DOMAIN changes :
           later > c /\ (later = held \/ Handled(later))
    /\ fate[c] = "skipped" =>
         \E earlier \in 1..(c - 1) :
           changes[earlier] = changes[c]
             /\ fate[earlier] \in {"taken", "sent", "unsent", "lost"}
    /\ fate[c] = "refused" =>
         Cardinality({e \in 1..(c - 1) : fate[e] \notin {"unseen", "refused"}})
           >= QueueSize
    /\ fate[c] = "queued" => c = held \/ c \in Members(queue)
=============================================================================
