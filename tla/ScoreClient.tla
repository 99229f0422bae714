------------------------------ MODULE ScoreClient ---------------------------
(***************************************************************************)
(* The client of the stand-alone leaderboard server and its optimistic     *)
(* display (docs/WS-leaderboard/leaderboard-client.js): a submitted score  *)
(* is shown before the server has it, and withdrawn if the server refuses. *)
(* The answer to a request is a callback that is called at most once, and  *)
(* never if the connection is lost first; answers come in any order, as    *)
(* the handlers of the server await Redis independently.                   *)
(***************************************************************************)
EXTENDS Naturals

CONSTANTS
  Ask,       \* requests of the client
  MaxSubmit, \* bound: scores that are submitted
  MaxTries,  \* reconnectionAttempts
  NoAsk      \* a value that is not a request

ASSUME ClientAssumption ==
  NoAsk \notin Ask /\ MaxSubmit \in Nat /\ MaxTries \in Nat

VARIABLES
  socket,    \* "connecting", "online", "closed" or "given_up"
  attempts,  \* reconnectAttempts
  ask,       \* [Ask -> its kind, its stage and the score submitted]
  entry,     \* the player's entry in pendingScores
  newest,    \* the last submission, and the last refresh
  crossing,  \* whether it was made while another of its kind was out
  displayed  \* the refresh whose answer is displayedLeaderboard

clientVars == <<socket, attempts, ask, entry, newest, crossing, displayed>>

Kind == {"submit", "refresh"}
NoEntry == [score |-> 0, confirmed |-> FALSE]
Out == {"sent", "accepted", "failed"}

ClientTypeOK ==
  /\ socket \in {"connecting", "online", "closed", "given_up"}
  /\ attempts \in 0..MaxTries
  /\ ask \in [Ask ->
       [kind : Kind, score : 0..MaxSubmit,
        stage : Out \cup {"new", "answered", "refused", "lost"}]]
  /\ entry \in [score : 0..MaxSubmit, confirmed : BOOLEAN]
  /\ newest \in [Kind -> Ask \cup {NoAsk}]
  /\ crossing \in [Kind -> BOOLEAN]
  /\ displayed \in Ask \cup {NoAsk}

ClientInit ==
  /\ socket = "connecting" /\ attempts = 0
  /\ ask = [a \in Ask |-> [kind |-> "refresh", stage |-> "new", score |-> 0]]
  /\ entry = NoEntry
  /\ newest = [k \in Kind |-> NoAsk] /\ crossing = [k \in Kind |-> FALSE]
  /\ displayed = NoAsk

-----------------------------------------------------------------------------
Connected ==
  /\ socket = "connecting"
  /\ socket' = "online" /\ attempts' = 0
  /\ UNCHANGED <<ask, entry, newest, crossing, displayed>>

(* connect_error; socket.io gives up after the last attempt. *)
ConnectError ==
  /\ socket = "connecting" /\ attempts < MaxTries
  /\ attempts' = attempts + 1
  /\ socket' = IF attempts + 1 = MaxTries THEN "given_up" ELSE "connecting"
  /\ UNCHANGED <<ask, entry, newest, crossing, displayed>>

(* The connection breaks and is tried again, or disconnect() closes it: no *)
(* callback that is out is ever called.                                    *)
Disconnected ==
  /\ socket \in {"online", "connecting"}
  /\ socket' \in {"connecting", "closed"}
  /\ ask' = [a \in Ask |->
       IF ask[a].stage \in Out THEN [ask[a] EXCEPT !.stage = "lost"]
       ELSE ask[a]]
  /\ UNCHANGED <<attempts, entry, newest, crossing, displayed>>

(* A request goes out, or is refused at once when there is no connection.  *)
MakeAsk(a, kind, score) ==
  /\ ask[a].stage = "new"
  /\ ask' = [ask EXCEPT ![a] =
       [kind |-> kind, score |-> score,
        stage |-> IF socket = "online" THEN "sent" ELSE "refused"]]
  /\ newest' = [newest EXCEPT ![kind] = a]
  /\ crossing' = [crossing EXCEPT ![kind] =
       \E b \in Ask : ask[b].kind = kind /\ ask[b].stage \in Out]
  /\ UNCHANGED <<socket, attempts, displayed>>

(* submitScoreOptimistic; submitScore without a connection calls back with *)
(* an error before it returns.                                             *)
SubmitOptimistic(a) ==
  \E score \in 1..MaxSubmit :
    /\ MakeAsk(a, "submit", score)
    /\ entry' = IF socket = "online"
                    THEN [score |-> score, confirmed |-> FALSE] ELSE NoEntry

(* refreshLeaderboard, getLeaderboard *)
Refresh(a) == MakeAsk(a, "refresh", 0) /\ UNCHANGED entry

(* The server's handler calls back, with an error or not (see ScoreServer  *)
(* and ScoreReads).                                                        *)
ServeAsk(a) ==
  /\ ask[a].stage = "sent"
  /\ \E stage \in {"accepted", "failed"} :
       ask' = [ask EXCEPT ![a].stage = stage]
  /\ UNCHANGED <<socket, attempts, entry, newest, crossing, displayed>>

(* The answer to a refresh: it is displayed, or the promise rejects. *)
RefreshAnswered(a) ==
  /\ ask[a].kind = "refresh"
  /\ \/ /\ ask[a].stage = "accepted"
        /\ ask' = [ask EXCEPT ![a].stage = "answered"]
        /\ displayed' = a
     \/ /\ ask[a].stage = "failed"
        /\ ask' = [ask EXCEPT ![a].stage = "refused"]
        /\ UNCHANGED displayed
  /\ UNCHANGED <<socket, attempts, entry, newest, crossing>>

(* The answer to a submission: the entry there is, whoever put it there,   *)
(* is marked as confirmed.                                                 *)
SubmitConfirmed(a) ==
  /\ ask[a].kind = "submit" /\ ask[a].stage = "accepted"
  /\ ask' = [ask EXCEPT ![a].stage = "answered"]
  /\ entry' = IF entry = NoEntry THEN entry
                ELSE [entry EXCEPT !.confirmed = TRUE]
  /\ UNCHANGED <<socket, attempts, newest, crossing, displayed>>

(* Mutant: a refused submission leaves its entry. *)
SubmitRefusedKept(a) ==
  /\ ask[a].kind = "submit" /\ ask[a].stage = "failed"
  /\ ask' = [ask EXCEPT ![a].stage = "refused"]
  /\ UNCHANGED <<socket, attempts, entry, newest, crossing, displayed>>

(* Or it is withdrawn. *)
SubmitRefused(a) ==
  /\ ask[a].kind = "submit" /\ ask[a].stage = "failed"
  /\ ask' = [ask EXCEPT ![a].stage = "refused"]
  /\ entry' = NoEntry
  /\ UNCHANGED <<socket, attempts, newest, crossing, displayed>>

ClientNext ==
  \/ Connected \/ ConnectError \/ Disconnected
  \/ \E a \in Ask :
       \/ SubmitOptimistic(a) \/ Refresh(a) \/ ServeAsk(a)
       \/ RefreshAnswered(a) \/ SubmitConfirmed(a) \/ SubmitRefused(a)

-----------------------------------------------------------------------------
(***************************************************************************)
(* The optimistic entry is the last submission's, confirmed if that was    *)
(* accepted and gone if it was refused.  One whose connection was lost     *)
(* stays, unconfirmed, for good: ARCHITECTURE.md:119-120 has updates that  *)
(* are in flight queued locally and retried, but nothing reads or fills    *)
(* the client's scoreQueue (leaderboard-client.js:11).  What is displayed  *)
(* is the last refresh that was answered.  Otherwise it was made while an  *)
(* earlier one of its kind was out, whose answer came later and was taken  *)
(* for its own (leaderboard-client.js:96-112, 185-232).                    *)
(***************************************************************************)
EntryOf(a) ==
  IF ask[a].stage = "refused" THEN NoEntry
  ELSE [score |-> ask[a].score, confirmed |-> ask[a].stage = "answered"]

DisplayIsExplained ==
  /\ LET a == newest["submit"] IN
       a # NoAsk /\ ~crossing["submit"] => entry = EntryOf(a)
  /\ LET a == newest["refresh"] IN
       a # NoAsk /\ ~crossing["refresh"] =>
         (ask[a].stage = "answered" => displayed = a)
=============================================================================
