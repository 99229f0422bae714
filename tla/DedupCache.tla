----------------------------- MODULE DedupCache -----------------------------
(***************************************************************************)
(* The dedup guard of both halves of the CDC worker (makeDedup,            *)
(* cdcWorker.ts:65-84): a Map from ids to the time they were last let      *)
(* through, which skips an id for 30 seconds and is kept below a size by   *)
(* deleting its first key.                                                 *)
(*                                                                         *)
(* Time is in `recent`, the ids stamped in the last 30 seconds: a key of   *)
(* the Map is fresh when it is in `recent`.  The callers let at most       *)
(* PerWindow ids through in 30 seconds: the debounce one every 500 ms, the *)
(* poller 200 every 10 seconds.                                            *)
(***************************************************************************)
EXTENDS Naturals, Sequences, FiniteSets

CONSTANTS
  Doc,         \* ids
  CacheSize,   \* DEDUP_MAX_SIZE, 5000
  PerWindow    \* ids let through in DEDUP_TTL_MS

ASSUME DedupAssumption ==
  /\ CacheSize \in Nat \ {0} /\ PerWindow \in Nat \ {0}
  /\ PerWindow < CacheSize

VARIABLES
  cache,   \* the keys of the Map, in its order
  recent   \* ids stamped less than 30 seconds ago, oldest first

dedupVars == <<cache, recent>>

Members(s) == {s[i] : i \in DOMAIN s}

DedupTypeOK ==
  /\ Members(cache) \subseteq Doc /\ Len(cache) <= CacheSize
  /\ Cardinality(Members(cache)) = Len(cache)
  /\ Members(recent) \subseteq Doc /\ Len(recent) <= PerWindow

DedupInit == cache = <<>> /\ recent = <<>>

Skips(d) == d \in Members(cache) /\ d \in Members(recent)

(* Mutant: a list, to which every id is appended. *)
SetAppended(d) ==
  Append(IF Len(cache) >= CacheSize THEN Tail(cache) ELSE cache, d)

(* A Map that is full loses its first key; setting a key that is there     *)
(* leaves it where it is in the order.                                     *)
Set(d) ==
  LET kept == IF Len(cache) >= CacheSize THEN Tail(cache) ELSE cache
  IN IF d \in Members(kept) THEN kept ELSE Append(kept, d)

(* shouldProcess returns true. *)
LetThrough(d) ==
  /\ ~Skips(d)
  /\ Len(recent) < PerWindow
  /\ cache' = Set(d)
  /\ recent' = Append(recent, d)

(* 30 seconds have passed since the oldest stamp. *)
Elapse ==
  /\ recent # <<>>
  /\ recent' = Tail(recent)
  /\ UNCHANGED cache

DedupSpec ==
  DedupInit /\ [][Elapse \/ \E d \in Doc : LetThrough(d)]_dedupVars

(***************************************************************************)
(* cdcWorker.ts:14-15: "Dedup via an LRU-style Map<docId, timestamp>:      *)
(* skips events for the same document emitted within a 30-second window",  *)
(* with more room in the Map than ids are let through in that time.        *)
(***************************************************************************)
SkipsWithinWindow ==
  [][\A d \in Doc :
       recent' = Append(recent, d) => d \notin Members(recent)]_dedupVars
=============================================================================
