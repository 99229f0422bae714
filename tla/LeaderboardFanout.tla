-------------------------- MODULE LeaderboardFanout -------------------------
(***************************************************************************)
(* The WebSocket fan-out of the leaderboard (leaderboardRoutes.ts): deltas *)
(* that arrive over Redis pub/sub are collected until none came for 200    *)
(* ms and then sent as one batch to every client; a new client also gets a *)
(* snapshot.                                                               *)
(*                                                                         *)
(* One user's all-time score is followed: after the n-th score event it is *)
(* n, and the n-th delta carries it.  A snapshot carries the score as it   *)
(* was read.  Every message tells the client a score, and the client shows *)
(* what it was told last.                                                  *)
(***************************************************************************)
EXTENDS Naturals, Sequences

CONSTANTS
  Client,     \* connections
  MaxScore,   \* bound: score events in the life of the model
  MaxBreaks   \* bound: how often Redis or the API process goes away

ASSUME FanoutAssumption == MaxScore \in Nat /\ MaxBreaks \in Nat

VARIABLES
  board,     \* the score in Redis
  flying,    \* deltas that were published or are about to be
  pending,   \* pendingDeltas
  timer,     \* debounceHandle: "off", "running" or "fired"
  session,   \* [Client -> "new", "open" or "closed"]
  snapshot,  \* [Client -> "none", "reading", "read", "sent" or "failed"]
  scoreRead, \* [Client -> score its snapshot found]
  joined,    \* [Client -> score when it connected]
  shown,     \* [Client -> scores it was told, in order]
  missed,    \* deltas that reached no process
  late,      \* deltas that were overtaken by later ones on their way
  breaks

fanoutVars == <<board, flying, pending, timer, session, snapshot, scoreRead,
                joined, shown, missed, late, breaks>>

Score == 0..MaxScore
ScoresIn(s) == {s[i] : i \in DOMAIN s}

FanoutTypeOK ==
  /\ board \in Score
  /\ flying \subseteq Score /\ missed \subseteq Score /\ late \subseteq Score
  /\ ScoresIn(pending) \subseteq Score
  /\ timer \in {"off", "running", "fired"}
  /\ session \in [Client -> {"new", "open", "closed"}]
  /\ snapshot \in [Client -> {"none", "reading", "read", "sent", "failed"}]
  /\ scoreRead \in [Client -> Score] /\ joined \in [Client -> Score]
  /\ \A c \in Client : ScoresIn(shown[c]) \subseteq Score
  /\ breaks \in 0..MaxBreaks

FanoutInit ==
  /\ board = 0 /\ flying = {} /\ pending = <<>> /\ timer = "off"
  /\ session = [c \in Client |-> "new"]
  /\ snapshot = [c \in Client |-> "none"]
  /\ scoreRead = [c \in Client |-> 0] /\ joined = [c \in Client |-> 0]
  /\ shown = [c \in Client |-> <<>>]
  /\ missed = {} /\ late = {} /\ breaks = 0

-----------------------------------------------------------------------------
(* LeaderboardService.recordEvent, of POST /leaderboard/event or of the    *)
(* worker: ZINCRBY, and several awaits later PUBLISH (see Leaderboard).    *)
ScoreEvent ==
  /\ board < MaxScore
  /\ board' = board + 1
  /\ flying' = flying \cup {board + 1}
  /\ UNCHANGED <<pending, timer, session, snapshot, scoreRead, joined, shown,
                 missed, late, breaks>>

(* Mutant: every delta clears the timer, the first of a batch sets it. *)
ReceiveFirst(n) ==
  /\ n \in flying
  /\ flying' = flying \ {n}
  /\ pending' = Append(pending, n)
  /\ timer' = IF pending = <<>> THEN "running" ELSE "off"
  /\ UNCHANGED <<board, session, snapshot, scoreRead, joined, shown, missed,
                 late, breaks>>

(* The "message" handler.  Two events of two fibers or processes may       *)
(* publish in another order than they counted in.                          *)
Receive(n) ==
  /\ n \in flying
  /\ flying' = flying \ {n}
  /\ pending' = Append(pending, n)
  /\ timer' = "running"
  /\ late' = IF \E k \in 1..board : k > n /\ k \notin flying
               THEN late \cup {n} ELSE late
  /\ UNCHANGED <<board, session, snapshot, scoreRead, joined, shown, missed,
                 breaks>>

(* The subscriber is not connected, or PUBLISH failed. *)
Miss(n) ==
  /\ n \in flying
  /\ breaks < MaxBreaks
  /\ breaks' = breaks + 1
  /\ flying' = flying \ {n}
  /\ missed' = missed \cup {n}
  /\ UNCHANGED <<board, pending, timer, session, snapshot, scoreRead, joined,
                 shown, late>>

(* The 200 ms pass without another delta. *)
TimerDue ==
  /\ timer = "running"
  /\ timer' = "fired"
  /\ UNCHANGED <<board, flying, pending, session, snapshot, scoreRead, joined,
                 shown, missed, late, breaks>>

(* Its callback: one batch to all open clients. *)
Flush ==
  /\ timer = "fired"
  /\ timer' = "off"
  /\ pending' = <<>>
  /\ shown' = [c \in Client |->
       IF session[c] = "open" THEN shown[c] \o pending ELSE shown[c]]
  /\ UNCHANGED <<board, flying, session, snapshot, scoreRead, joined, missed,
                 late, breaks>>

(* Mutant: the socket becomes a client once its snapshot was read. *)
ConnectLate(c) ==
  /\ session[c] = "new"
  /\ session' = [session EXCEPT ![c] = "open"]
  /\ snapshot' = [snapshot EXCEPT ![c] = "read"]
  /\ \E n \in 0..board : scoreRead' = [scoreRead EXCEPT ![c] = n]
  /\ joined' = [joined EXCEPT ![c] = board]
  /\ UNCHANGED <<board, flying, pending, timer, shown, missed, late, breaks>>

(* The socket is among websocketServer.clients from the start; its handler *)
(* begins to compute the snapshot.                                         *)
Connect(c) ==
  /\ session[c] = "new"
  /\ session' = [session EXCEPT ![c] = "open"]
  /\ snapshot' = [snapshot EXCEPT ![c] = "reading"]
  /\ joined' = [joined EXCEPT ![c] = board]
  /\ UNCHANGED <<board, flying, pending, timer, scoreRead, shown, missed, late,
                 breaks>>

(* svc.getLeaderboard, or it fails and the client waits for deltas. *)
ReadSnapshot(c) ==
  /\ snapshot[c] = "reading"
  /\ \/ /\ snapshot' = [snapshot EXCEPT ![c] = "read"]
        /\ scoreRead' = [scoreRead EXCEPT ![c] = board]
     \/ /\ snapshot' = [snapshot EXCEPT ![c] = "failed"]
        /\ UNCHANGED scoreRead
  /\ UNCHANGED <<board, flying, pending, timer, session, joined, shown, missed,
                 late, breaks>>

(* The other two windows were read too, and a microtask later it is sent   *)
(* if the socket is still open.                                            *)
SendSnapshot(c) ==
  /\ snapshot[c] = "read"
  /\ snapshot' = [snapshot EXCEPT ![c] = "sent"]
  /\ shown' = IF session[c] = "open"
                THEN [shown EXCEPT ![c] = Append(@, scoreRead[c])] ELSE shown
  /\ UNCHANGED <<board, flying, pending, timer, session, scoreRead, joined,
                 missed, late, breaks>>

Disconnect(c) ==
  /\ session[c] = "open"
  /\ session' = [session EXCEPT ![c] = "closed"]
  /\ UNCHANGED <<board, flying, pending, timer, snapshot, scoreRead, joined,
                 shown, missed, late, breaks>>

(* onClose: the timer is cleared, what is pending is lost and every socket *)
(* is closed.                                                              *)
CloseServer ==
  /\ breaks < MaxBreaks
  /\ breaks' = breaks + 1
  /\ timer' = "off" /\ pending' = <<>>
  /\ session' = [c \in Client |->
                   IF session[c] = "open" THEN "closed" ELSE session[c]]
  /\ snapshot' = [c \in Client |->
       IF snapshot[c] \in {"reading", "read"} THEN "failed" ELSE snapshot[c]]
  /\ UNCHANGED <<board, flying, scoreRead, joined, shown, missed, late>>

FanoutNext ==
  \/ ScoreEvent \/ TimerDue \/ Flush \/ CloseServer
  \/ \E n \in flying : Receive(n) \/ Miss(n)
  \/ \E c \in Client :
       Connect(c) \/ ReadSnapshot(c) \/ SendSnapshot(c) \/ Disconnect(c)

-----------------------------------------------------------------------------
(***************************************************************************)
(* When nothing is on its way, an open client shows the score of the board *)
(* unless it was told it and an older score after it (an older delta that  *)
(* was late, or a snapshot read before a batch and sent after it), or the  *)
(* delta that carried it was missed, or its snapshot failed and nothing    *)
(* has changed since it connected (leaderboardRoutes.ts:64-91, 214-237).   *)
(* No delta falls between a snapshot and the batches that follow it.       *)
(***************************************************************************)
FanoutAtRest == flying = {} /\ pending = <<>>

ShowsLatest(c) == shown[c] # <<>> /\ shown[c][Len(shown[c])] = board

StaleViewIsExplained ==
  FanoutAtRest =>
    \A c \in Client :
      session[c] = "open" /\ snapshot[c] \in {"sent", "failed"} =>
        \/ ShowsLatest(c)
        \/ board \in ScoresIn(shown[c])
             /\ (late # {} \/ scoreRead[c] < board)
        \/ board \in missed
        \/ snapshot[c] = "failed" /\ joined[c] = board

(***************************************************************************)
(* Every delta that was received is flushed (or lost with its process): a  *)
(* timer that runs is due once no delta has come for 200 ms, which it is   *)
(* here because score events end (leaderboardRoutes.ts:70-85).             *)
(***************************************************************************)
PendingIsFlushed == pending # <<>> ~> pending = <<>>
=============================================================================
