------------------------------ MODULE ScoreReads ----------------------------
(***************************************************************************)
(* The read path of the stand-alone leaderboard server                     *)
(* (docs/WS-leaderboard/leaderboard-server.js): the position of a player   *)
(* and a page of the board, both through caches in Redis that live for 60  *)
(* seconds, and the clients that watch a player.                           *)
(*                                                                         *)
(* The board is its version: every score that is recorded makes a new one. *)
(* A rank or a page is the version it was read from, and a player's score  *)
(* the version in which he changed it last.  Zero stands for no entry.     *)
(* recordScore (see ScoreServer) is here what it does to the caches; an    *)
(* answer that leaves nothing behind is not a step.                        *)
(***************************************************************************)
EXTENDS Naturals

CONSTANTS
  Rival,    \* players
  Viewer,   \* requests of clients
  MaxBoards \* bound: versions of the board

ASSUME ReadsAssumption == MaxBoards \in Nat \ {0} /\ Rival # {}

VARIABLES
  version,     \* of the board
  changed,     \* [Rival -> version]
  clearing,    \* [Rival -> what recordScore has still to delete]
  rankCache,   \* [Rival -> version]
  pageCache,   \* version
  viewer,      \* [Viewer -> his request and what he was told]
  rankCrossed, \* players with a read in flight as their rank was deleted
  pageCrossed  \* a read was in flight as the page was deleted

readsVars == <<version, changed, clearing, rankCache, pageCache, viewer,
               rankCrossed, pageCrossed>>

BoardVersion == 0..MaxBoards
SomeRival == CHOOSE p \in Rival : TRUE
Away == [stage |-> "away", of |-> SomeRival, rank |-> 0, score |-> 0,
         cached |-> FALSE, missed |-> FALSE]

Positions(stages, p) ==
  {v \in Viewer : viewer[v].stage \in stages /\ viewer[v].of = p}
Announced(p) == clearing[p] = "no"

ReadsTypeOK ==
  /\ version \in BoardVersion /\ changed \in [Rival -> BoardVersion]
  /\ clearing \in [Rival -> {"no", "rank", "pages"}]
  /\ rankCache \in [Rival -> BoardVersion] /\ pageCache \in BoardVersion
  /\ viewer \in [Viewer ->
       [stage : {"away", "ranked", "scored", "watching", "paged"},
        of : Rival, rank : BoardVersion, score : BoardVersion,
        cached : BOOLEAN, missed : BOOLEAN]]
  /\ rankCrossed \subseteq Rival /\ pageCrossed \in BOOLEAN

ReadsInit ==
  /\ version = 1 /\ changed = [p \in Rival |-> 1]
  /\ clearing = [p \in Rival |-> "no"]
  /\ rankCache = [p \in Rival |-> 0] /\ pageCache = 0
  /\ viewer = [v \in Viewer |-> Away]
  /\ rankCrossed = {} /\ pageCrossed = FALSE

-----------------------------------------------------------------------------
(* recordScore: ZADD; then invalidateRankCache deletes the player's rank   *)
(* and every page; then his watchers are told.                             *)
SetScore(p) ==
  /\ Announced(p) /\ version < MaxBoards
  /\ version' = version + 1
  /\ changed' = [changed EXCEPT ![p] = version + 1]
  /\ clearing' = [clearing EXCEPT ![p] = "rank"]
  /\ UNCHANGED <<rankCache, pageCache, viewer, rankCrossed, pageCrossed>>

(* Mutant: the pattern of the deletion does not match the key. *)
ClearNoRank(p) ==
  /\ clearing[p] = "rank"
  /\ clearing' = [clearing EXCEPT ![p] = "pages"]
  /\ UNCHANGED <<version, changed, rankCache, pageCache, viewer, rankCrossed,
                 pageCrossed>>

ClearRank(p) ==
  /\ clearing[p] = "rank"
  /\ clearing' = [clearing EXCEPT ![p] = "pages"]
  /\ rankCache' = [rankCache EXCEPT ![p] = 0]
  /\ rankCrossed' = IF Positions({"ranked", "scored"}, p) # {}
                      THEN rankCrossed \cup {p} ELSE rankCrossed
  /\ UNCHANGED <<version, changed, pageCache, viewer, pageCrossed>>

ClearPages(p) ==
  /\ clearing[p] = "pages"
  /\ clearing' = [clearing EXCEPT ![p] = "no"]
  /\ pageCache' = 0
  /\ pageCrossed' = (pageCrossed \/ \E v \in Viewer : viewer[v].stage = "paged")
  /\ viewer' = [v \in Viewer |->
       IF v \in Positions({"watching"}, p)
         THEN [viewer[v] EXCEPT !.score = changed[p]]
       ELSE IF v \in Positions({"scored"}, p)
         THEN [viewer[v] EXCEPT !.missed = TRUE] ELSE viewer[v]]
  /\ UNCHANGED <<version, changed, rankCache, rankCrossed>>

(* KEYS or DEL failed: the submitter gets an error, nobody is told. *)
FailClearing(p) ==
  /\ ~Announced(p)
  /\ clearing' = [clearing EXCEPT ![p] = "no"]
  /\ rankCrossed' = IF clearing[p] = "rank" THEN rankCrossed \cup {p}
                      ELSE rankCrossed
  /\ pageCrossed' = TRUE
  /\ viewer' = [v \in Viewer |->
       IF v \in Positions({"ranked", "scored", "watching"}, p)
         THEN [viewer[v] EXCEPT !.missed = TRUE] ELSE viewer[v]]
  /\ UNCHANGED <<version, changed, rankCache, pageCache>>

-----------------------------------------------------------------------------
(* getUserPosition, of getUserPosition and watchUserRank. *)

(* The cached rank, or ZREVRANK. *)
AskPosition(v, p) ==
  /\ viewer[v].stage = "away"
  /\ viewer' = [viewer EXCEPT ![v] =
       [Away EXCEPT !.stage = "ranked", !.of = p,
                    !.cached = rankCache[p] # 0,
                    !.rank = IF rankCache[p] # 0 THEN rankCache[p]
                             ELSE version]]
  /\ UNCHANGED <<version, changed, clearing, rankCache, pageCache,
                 rankCrossed, pageCrossed>>

(* ZSCORE *)
AskScore(v) ==
  /\ viewer[v].stage = "ranked"
  /\ viewer' = [viewer EXCEPT ![v].stage = "scored",
                              ![v].score = changed[viewer[v].of]]
  /\ UNCHANGED <<version, changed, clearing, rankCache, pageCache,
                 rankCrossed, pageCrossed>>

(* A rank from the ZSET is cached; who watches joins the player's room. *)
AnswerPosition(v) ==
  /\ viewer[v].stage = "scored"
  /\ rankCache' = IF viewer[v].cached THEN rankCache
                  ELSE [rankCache EXCEPT ![viewer[v].of] = viewer[v].rank]
  /\ \/ viewer' = [viewer EXCEPT ![v].stage = "watching", ![v].rank = 0,
                                 ![v].cached = FALSE]
     \/ viewer' = [viewer EXCEPT ![v] = Away]
  /\ UNCHANGED <<version, changed, clearing, pageCache, rankCrossed,
                 pageCrossed>>

(* getLeaderboard, where the page is not cached: ZREVRANGE. *)
AskPage(v) ==
  /\ viewer[v].stage = "away"
  /\ pageCache = 0
  /\ viewer' = [viewer EXCEPT ![v].stage = "paged", ![v].rank = version]
  /\ UNCHANGED <<version, changed, clearing, rankCache, pageCache,
                 rankCrossed, pageCrossed>>

AnswerPage(v) ==
  /\ viewer[v].stage = "paged"
  /\ pageCache' = viewer[v].rank
  /\ viewer' = [viewer EXCEPT ![v] = Away]
  /\ UNCHANGED <<version, changed, clearing, rankCache, rankCrossed,
                 pageCrossed>>

(* The client goes, or its request failed; it may ask again. *)
Leave(v) ==
  /\ viewer[v].stage # "away"
  /\ viewer' = [viewer EXCEPT ![v] = Away]
  /\ UNCHANGED <<version, changed, clearing, rankCache, pageCache,
                 rankCrossed, pageCrossed>>

(* 60 seconds *)
ExpireReads ==
  /\ \/ /\ \E p \in Rival : rankCache[p] # 0
                            /\ rankCache' = [rankCache EXCEPT ![p] = 0]
        /\ UNCHANGED pageCache
     \/ /\ pageCache # 0 /\ pageCache' = 0
        /\ UNCHANGED rankCache
  /\ UNCHANGED <<version, changed, clearing, viewer, rankCrossed, pageCrossed>>

ReadsNext ==
  \/ \E p \in Rival : SetScore(p) \/ ClearRank(p) \/ ClearPages(p)
                      \/ FailClearing(p)
  \/ \E v \in Viewer :
       \/ \E p \in Rival : AskPosition(v, p)
       \/ AskScore(v) \/ AnswerPosition(v) \/ AskPage(v) \/ AnswerPage(v)
       \/ Leave(v)
  \/ ExpireReads

-----------------------------------------------------------------------------
(***************************************************************************)
(* A cached rank is no older than the player's own last score, but may be  *)
(* older than the others'; a cached page is the board's.  Otherwise a read *)
(* was in flight while the entry was deleted, and stored what it had read, *)
(* or the deletion failed.  A client that watches a player was told his    *)
(* score, unless the player was announced between the client's answer and  *)
(* its joining the room (leaderboard-server.js:45-51, 198-213, 256-285,    *)
(* 374-376, 422-432).                                                      *)
(***************************************************************************)
ReadsAreExplained ==
  /\ \A p \in Rival : Announced(p) =>
       /\ rankCache[p] >= changed[p] \/ rankCache[p] = 0 \/ p \in rankCrossed
       /\ \A v \in Positions({"watching"}, p) :
            viewer[v].score = changed[p] \/ viewer[v].missed
  /\ (\A p \in Rival : Announced(p)) =>
       pageCache \in {0, version} \/ pageCrossed
=============================================================================
