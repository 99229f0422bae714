---------------------------- MODULE FeatureFlags ----------------------------
(***************************************************************************)
(* Feature flags (featureFlagService.ts): isEnabled answers from a cache   *)
(* of 30 seconds or reads the row and fills it, invalidate deletes the     *)
(* entries of a flag.  The routes that should change flags are stubs, so   *)
(* the row is changed and invalidate is called from outside.               *)
(*                                                                         *)
(* A cache key is the flag with the user it was asked for, or NoUser.      *)
(***************************************************************************)
EXTENDS Naturals, Sequences

CONSTANTS
  Flag,
  FlagUser,
  FlagCall,    \* calls of isEnabled under way at once
  MaxVersions  \* bound: versions of a flag's row

ASSUME FlagAssumption == MaxVersions \in Nat \ {0}

NoUser == "no user"
CacheKey == Flag \X (FlagUser \cup {NoUser})

VARIABLES
  flagRows,   \* [Flag -> its rows so far, the last one the current one]
  cleared,    \* [Flag -> version its last invalidate found]
  flagCache,  \* [CacheKey -> Entry]
  asking      \* [FlagCall -> Asking]

flagVars == <<flagRows, cleared, flagCache, asking>>

FlagRow == [exists : BOOLEAN, enabled : BOOLEAN, userIds : SUBSET FlagUser]
NoFlagRow == [exists |-> FALSE, enabled |-> FALSE, userIds |-> {}]

(* `version` is the row that was read, and `crossed` says that the flag    *)
(* was invalidated between the read and the store.                         *)
Entry == [cached : BOOLEAN, value : BOOLEAN, version : 0..MaxVersions,
          crossed : BOOLEAN]
Empty == [cached |-> FALSE, value |-> FALSE, version |-> 0, crossed |-> FALSE]

NotAsking == [phase |-> "idle"]
Asking == {NotAsking} \cup
  [phase : {"select", "store"}, key : CacheKey, value : BOOLEAN,
   version : 0..MaxVersions, crossed : BOOLEAN]

FlagTypeOK ==
  /\ \A f \in Flag : /\ Len(flagRows[f]) \in 1..MaxVersions
                     /\ \A i \in DOMAIN flagRows[f] : flagRows[f][i] \in FlagRow
  /\ cleared \in [Flag -> 0..MaxVersions]
  /\ flagCache \in [CacheKey -> Entry]
  /\ asking \in [FlagCall -> Asking]

Version(f) == Len(flagRows[f])

(* No row, the user in targeting.userIds, or the toggle. *)
ValueFor(flagRow, u) ==
  flagRow.exists /\ (u \in flagRow.userIds \/ flagRow.enabled)

FlagInit ==
  /\ flagRows = [f \in Flag |-> <<NoFlagRow>>]
  /\ cleared = [f \in Flag |-> 0]
  /\ flagCache = [k \in CacheKey |-> Empty]
  /\ asking = [c \in FlagCall |-> NotAsking]

-----------------------------------------------------------------------------
(* External: the row of a flag is made, changed or deleted. *)
ChangeFlag(f) ==
  /\ Version(f) < MaxVersions
  /\ \E new \in FlagRow \ {flagRows[f][Version(f)]} :
       /\ ~new.exists => new = NoFlagRow
       /\ flagRows' = [flagRows EXCEPT ![f] = Append(@, new)]
  /\ UNCHANGED <<cleared, flagCache, asking>>

(* isEnabled misses; a hit changes nothing. *)
AskFlag(c) ==
  /\ asking[c].phase = "idle"
  /\ \E k \in CacheKey :
       /\ ~flagCache[k].cached
       /\ asking' = [asking EXCEPT ![c] =
            [phase |-> "select", key |-> k, value |-> FALSE, version |-> 0,
             crossed |-> FALSE]]
  /\ UNCHANGED <<flagRows, cleared, flagCache>>

(* The SELECT runs, or fails: then the answer is FALSE and not cached. *)
SelectFlag(c) ==
  /\ asking[c].phase = "select"
  /\ LET f == asking[c].key[1] IN
     \/ asking' = [asking EXCEPT ![c].phase = "store",
          ![c].value = ValueFor(flagRows[f][Version(f)], asking[c].key[2]),
          ![c].version = Version(f)]
     \/ asking' = [asking EXCEPT ![c] = NotAsking]
  /\ UNCHANGED <<flagRows, cleared, flagCache>>

(* Its rows arrive: cache.set and the answer. *)
StoreFlag(c) ==
  /\ asking[c].phase = "store"
  /\ flagCache' = [flagCache EXCEPT ![asking[c].key] =
       [cached |-> TRUE, value |-> asking[c].value,
        version |-> asking[c].version, crossed |-> asking[c].crossed]]
  /\ asking' = [asking EXCEPT ![c] = NotAsking]
  /\ UNCHANGED <<flagRows, cleared>>

(* invalidate(f), of whom every call that has read f does not know. *)
Cleared(f, keys) ==
  /\ flagCache' = [k \in CacheKey |-> IF k \in keys THEN Empty
                                                    ELSE flagCache[k]]
  /\ cleared' = [cleared EXCEPT ![f] = Version(f)]
  /\ asking' = [c \in FlagCall |->
       IF asking[c].phase = "store" /\ asking[c].key[1] = f
         THEN [asking[c] EXCEPT !.crossed = TRUE] ELSE asking[c]]
  /\ UNCHANGED flagRows

(* Mutant: the entries of single users are not deleted. *)
InvalidateBase(f) == Cleared(f, {<<f, NoUser>>})

Invalidate(f) == Cleared(f, {k \in CacheKey : k[1] = f})

(* Thirty seconds old, or evicted by the 501st entry. *)
ExpireFlag(k) ==
  /\ flagCache[k].cached
  /\ flagCache' = [flagCache EXCEPT ![k] = Empty]
  /\ UNCHANGED <<flagRows, cleared, asking>>

FlagNext ==
  \/ \E f \in Flag : ChangeFlag(f) \/ Invalidate(f)
  \/ \E c \in FlagCall : AskFlag(c) \/ SelectFlag(c) \/ StoreFlag(c)
  \/ \E k \in CacheKey : ExpireFlag(k)

-----------------------------------------------------------------------------
(***************************************************************************)
(* Every cached answer is the one some row of its flag gives to its user,  *)
(* and that row is no older than the last invalidate of the flag, unless   *)
(* the row had been read and not yet stored when invalidate deleted the    *)
(* entries (featureFlagService.ts:22-61): such an answer lasts 30 seconds. *)
(***************************************************************************)
StaleFlagIsExplained ==
  \A f \in Flag, u \in FlagUser \cup {NoUser} :
    LET entry == flagCache[<<f, u>>] IN
    entry.cached =>
      /\ entry.value = ValueFor(flagRows[f][entry.version], u)
      /\ entry.version >= cleared[f] \/ entry.crossed
=============================================================================
