--------------------------- MODULE ServicesProofs ---------------------------
(***************************************************************************)
(* Theorems about the parts of MCServices that answer requests: the        *)
(* fan-out of deltas, feature flags, hybrid search, and the stand-alone    *)
(* leaderboard with its client; and about the backup script.  As in        *)
(* WorkerServicesProofs each part has an inductive invariant of its own;   *)
(* the last section states the properties of the composition.              *)
(***************************************************************************)
EXTENDS WorkerServicesProofs

(***************************************************************************)
(* The fan-out.  The delta of the score that is on the board is on its     *)
(* way, or missed, or every client that was there when it was published    *)
(* has it.  As long as no delta was late, the last one that was received   *)
(* is the newest one there is.                                             *)
(***************************************************************************)
FanoutTypes ==
  /\ FanoutTypeOK
  /\ pending \in Seq(Score) /\ shown \in [Client -> Seq(Score)]

(* What a client joined at and what its snapshot read are scores the board *)
(* has had, in this order; a snapshot that was sent is shown.              *)
SnapshotsArePast ==
  \A c \in Client :
    /\ joined[c] <= board /\ scoreRead[c] <= board
    /\ session[c] = "new" => snapshot[c] = "none"
    /\ snapshot[c] \in {"none", "reading"} => scoreRead[c] = 0
    /\ snapshot[c] \in {"read", "sent"} => joined[c] <= scoreRead[c]
    /\ session[c] = "open" /\ snapshot[c] = "failed" => scoreRead[c] = 0
    /\ session[c] = "open" /\ snapshot[c] = "sent" =>
         scoreRead[c] \in ScoresIn(shown[c])

(* The newest score, if it came after a client joined, is in flight,       *)
(* missed, pending, or shown to it.                                        *)
NewestIsAccountedFor ==
  \A c \in Client : session[c] = "open" /\ board > joined[c] =>
    board \in flying \cup missed \cup ScoresIn(pending) \cup ScoresIn(shown[c])

(* As long as none was late, whatever is newer than the last pending delta *)
(* is in flight or missed.                                                 *)
LastReceivedIsNewest ==
  late = {} /\ pending # <<>> =>
    \A k \in 1..board : k > pending[Len(pending)] => k \in flying \cup missed

(* As long as none was late and none is on its way, a client with a        *)
(* snapshot shows the newest score last.                                   *)
LastShownIsNewest ==
  \A c \in Client :
    /\ session[c] = "open" /\ snapshot[c] = "sent" /\ scoreRead[c] = board
    /\ late = {} /\ pending = <<>> /\ board \notin flying \cup missed
    => ShowsLatest(c)

(* A delta carries a score the board had. *)
DeltasArePast == flying \cup ScoresIn(pending) \subseteq 0..board

(* The inductive invariant of the fan-out. *)
FanoutInv ==
  FanoutTypes /\ DeltasArePast /\ SnapshotsArePast /\ NewestIsAccountedFor
  /\ LastReceivedIsNewest /\ LastShownIsNewest

(* At the start no client is there. *)
LEMMA FanoutInitInv == FanoutInit => FanoutInv
<1> SUFFICES ASSUME FanoutInit PROVE FanoutInv
  OBVIOUS
<1>1. 0 \in Score /\ 0 \in 0..MaxBreaks
  BY FanoutAssumption DEF Score
<1>2. \A c \in Client : shown[c] = <<>>
  BY DEF FanoutInit
<1>3. ScoresIn(<<>>) = {}
  BY DEF ScoresIn
<1>4. FanoutTypes
  BY <1>1, <1>2, <1>3 DEF FanoutInit, FanoutTypes, FanoutTypeOK
<1> QED
  BY <1>1, <1>3, <1>4
     DEF FanoutInit, FanoutInv, DeltasArePast, SnapshotsArePast, NewestIsAccountedFor,
         LastReceivedIsNewest, LastShownIsNewest

(* Appending a delta adds its score. *)
LEMMA AppendedScores ==
  ASSUME NEW s \in Seq(Score), NEW n \in Score
  PROVE  /\ Append(s, n) \in Seq(Score) /\ Append(s, n) # <<>>
         /\ Append(s, n)[Len(Append(s, n))] = n
         /\ ScoresIn(Append(s, n)) = ScoresIn(s) \cup {n}
<1>1. /\ Append(s, n) \in Seq(Score) /\ Len(Append(s, n)) = Len(s) + 1
      /\ \A i \in 1..Len(s) : Append(s, n)[i] = s[i]
      /\ Append(s, n)[Len(s) + 1] = n
      /\ DOMAIN Append(s, n) = 1..(Len(s) + 1) /\ DOMAIN s = 1..Len(s)
  OBVIOUS
<1>2. ScoresIn(Append(s, n)) = ScoresIn(s) \cup {n}
  BY <1>1 DEF ScoresIn
<1> QED
  BY <1>1, <1>2

(* The scores of two joined sequences are those of both. *)
LEMMA JoinedScores ==
  ASSUME NEW s \in Seq(Score), NEW t \in Seq(Score)
  PROVE  /\ s \o t \in Seq(Score)
         /\ ScoresIn(s \o t) = ScoresIn(s) \cup ScoresIn(t)
         /\ t = <<>> => s \o t = s
         /\ t # <<>> => s \o t # <<>> /\ (s \o t)[Len(s \o t)] = t[Len(t)]
<1>1. /\ s \o t \in Seq(Score) /\ Len(s \o t) = Len(s) + Len(t)
      /\ \A i \in 1..Len(s) : (s \o t)[i] = s[i]
      /\ \A i \in 1..Len(t) : (s \o t)[Len(s) + i] = t[i]
      /\ DOMAIN (s \o t) = 1..(Len(s) + Len(t))
      /\ DOMAIN s = 1..Len(s) /\ DOMAIN t = 1..Len(t)
      /\ Len(s) \in Nat /\ Len(t) \in Nat
  OBVIOUS
<1>2. ScoresIn(s \o t) = ScoresIn(s) \cup ScoresIn(t)
  <2>1. ASSUME NEW i \in 1..(Len(s) + Len(t))
        PROVE  (s \o t)[i] \in ScoresIn(s) \cup ScoresIn(t)
    <3>1. CASE i <= Len(s)
      BY <1>1, <3>1 DEF ScoresIn
    <3>2. CASE i > Len(s)
      <4>1. i - Len(s) \in 1..Len(t) /\ i = Len(s) + (i - Len(s))
        BY <1>1, <3>2
      <4> QED
        BY <1>1, <4>1 DEF ScoresIn
    <3> QED
      BY <1>1, <3>1, <3>2
  <2>2. ScoresIn(s) \subseteq ScoresIn(s \o t)
    BY <1>1 DEF ScoresIn
  <2>3. ScoresIn(t) \subseteq ScoresIn(s \o t)
    <3>1. \A i \in 1..Len(t) : Len(s) + i \in 1..(Len(s) + Len(t))
      BY <1>1
    <3> QED
      BY <1>1, <3>1 DEF ScoresIn
  <2> QED
    BY <1>1, <2>1, <2>2, <2>3 DEF ScoresIn
<1>3. t = <<>> => s \o t = s
  OBVIOUS
<1>4. t # <<>> => s \o t # <<>> /\ (s \o t)[Len(s \o t)] = t[Len(t)]
  <2>1. t # <<>> => Len(t) \in 1..Len(t)
    OBVIOUS
  <2> QED
    BY <1>1, <2>1
<1> QED
  BY <1>1, <1>2, <1>3, <1>4

(* The invariant implies the module's type invariant. *)
LEMMA FanoutInvType == FanoutInv => FanoutTypeOK
BY DEF FanoutInv, FanoutTypes

(* Scores are natural numbers. *)
LEMMA FanoutNumbers ==
  ASSUME FanoutTypes
  PROVE  /\ board \in Nat /\ \A n \in Score : n \in Nat
         /\ \A c \in Client : joined[c] \in Nat /\ scoreRead[c] \in Nat
BY DEF FanoutTypes, FanoutTypeOK, Score

(* A received delta keeps the invariant. *)
LEMMA DeltaInv ==
  ASSUME FanoutInv, NEW n \in flying, Receive(n) \/ Miss(n)
  PROVE  FanoutInv'
<1> USE DEF FanoutInv
<1>1. /\ UNCHANGED <<board, session, snapshot, scoreRead, joined, shown>>
      /\ flying' = flying \ {n} /\ n \in Score
  BY DEF Receive, Miss, FanoutTypes, FanoutTypeOK
<1>2. CASE Receive(n)
  <2>1. /\ pending' = Append(pending, n) /\ timer' = "running"
        /\ UNCHANGED <<missed, breaks>>
        /\ late' = IF \E k \in 1..board : k > n /\ k \notin flying
                     THEN late \cup {n} ELSE late
    BY <1>2 DEF Receive
  <2>2. /\ pending' \in Seq(Score) /\ pending' # <<>>
        /\ pending'[Len(pending')] = n
        /\ ScoresIn(pending') = ScoresIn(pending) \cup {n}
    BY <1>1, <2>1, AppendedScores DEF FanoutTypes
  <2>3. FanoutTypes'
    BY <1>1, <2>1, <2>2 DEF FanoutTypes, FanoutTypeOK
  <2>4. SnapshotsArePast' /\ DeltasArePast'
    BY <1>1, <2>2 DEF SnapshotsArePast, DeltasArePast
  <2>5. NewestIsAccountedFor'
    BY <1>1, <2>1, <2>2 DEF NewestIsAccountedFor
  <2>6. LastReceivedIsNewest'
    <3> SUFFICES ASSUME late' = {}, NEW k \in 1..board, k > n
                 PROVE  k \in flying' \cup missed'
      BY <1>1, <2>2 DEF LastReceivedIsNewest
    <3>1. k \in flying
      BY <2>1
    <3>2. k # n
      BY <1>1, FanoutNumbers
    <3> QED
      BY <1>1, <3>1, <3>2
  <2>7. LastShownIsNewest'
    BY <2>2 DEF LastShownIsNewest
  <2> QED
    BY <2>3, <2>4, <2>5, <2>6, <2>7
<1>3. CASE Miss(n)
  <2>1. /\ missed' = missed \cup {n} /\ UNCHANGED <<pending, timer, late>>
        /\ breaks' = breaks + 1 /\ breaks < MaxBreaks
    BY <1>3 DEF Miss
  <2>2. FanoutTypes'
    BY <1>1, <2>1, FanoutAssumption DEF FanoutTypes, FanoutTypeOK
  <2> QED
    BY <1>1, <2>1, <2>2
       DEF DeltasArePast, SnapshotsArePast, NewestIsAccountedFor,
           LastReceivedIsNewest, LastShownIsNewest, ShowsLatest
<1> QED
  BY <1>2, <1>3

(* So does the broadcast of the pending deltas, *)
LEMMA FlushInv ==
  ASSUME FanoutInv, Flush
  PROVE  FanoutInv'
<1> USE DEF FanoutInv
<1>1. /\ UNCHANGED <<board, flying, session, snapshot, scoreRead, joined, missed,
                     late, breaks>>
      /\ timer' = "off" /\ pending' = <<>>
      /\ shown' = [c \in Client |->
           IF session[c] = "open" THEN shown[c] \o pending ELSE shown[c]]
  BY DEF Flush
<1>2. \A c \in Client :
        /\ shown'[c] \in Seq(Score)
        /\ ScoresIn(shown[c]) \subseteq ScoresIn(shown'[c])
        /\ session[c] = "open" =>
             /\ shown'[c] = shown[c] \o pending
             /\ ScoresIn(shown'[c]) = ScoresIn(shown[c]) \cup ScoresIn(pending)
  BY <1>1, JoinedScores DEF FanoutTypes
<1>3. FanoutTypes'
  <2>1. <<>> \in Seq(Score) /\ ScoresIn(<<>>) = {}
    BY DEF ScoresIn
  <2>2. shown' \in [Client -> Seq(Score)]
    BY <1>1, <1>2
  <2>3. \A c \in Client : ScoresIn(shown'[c]) \subseteq Score
    BY <2>2 DEF ScoresIn
  <2> QED
    BY <1>1, <2>1, <2>2, <2>3 DEF FanoutTypes, FanoutTypeOK
<1>4. SnapshotsArePast' /\ DeltasArePast'
  <2>1. ScoresIn(<<>>) = {}
    BY DEF ScoresIn
  <2>2. DeltasArePast'
    BY <1>1, <2>1 DEF DeltasArePast
  <2> QED
    BY <1>1, <1>2, <2>2 DEF SnapshotsArePast
<1>5. NewestIsAccountedFor'
  BY <1>1, <1>2 DEF NewestIsAccountedFor
<1>6. LastReceivedIsNewest'
  BY <1>1 DEF LastReceivedIsNewest
<1>7. LastShownIsNewest'
  <2> SUFFICES ASSUME NEW c \in Client, session[c] = "open", snapshot[c] = "sent",
                      scoreRead[c] = board, late = {},
                      board \notin flying \cup missed
               PROVE  ShowsLatest(c)'
    BY <1>1 DEF LastShownIsNewest
  <2>1. CASE pending = <<>>
    <3>1. shown'[c] = shown[c]
      BY <1>2, <2>1, JoinedScores DEF FanoutTypes
    <3> QED
      BY <1>1, <2>1, <3>1 DEF LastShownIsNewest, ShowsLatest
  <2>2. CASE pending # <<>>
    <3>1. pending[Len(pending)] \in Score
      BY <2>2 DEF FanoutTypes
    <3>2. board <= pending[Len(pending)]
      <4>1. CASE board = 0
        BY <3>1, <4>1 DEF Score
      <4>2. CASE board > 0
        BY <2>2, <3>1, <4>2, FanoutNumbers DEF LastReceivedIsNewest
      <4> QED
        BY <4>1, <4>2, FanoutNumbers
    <3>3. pending[Len(pending)] <= board
      <4>1. pending[Len(pending)] \in ScoresIn(pending)
        BY <2>2 DEF FanoutTypes, ScoresIn
      <4> QED
        BY <4>1, FanoutNumbers DEF DeltasArePast
    <3>4. pending[Len(pending)] = board
      BY <3>1, <3>2, <3>3, FanoutNumbers
    <3> QED
      BY <1>1, <1>2, <2>2, <3>4, JoinedScores DEF FanoutTypes, ShowsLatest
  <2> QED
    BY <2>1, <2>2
<1> QED
  BY <1>3, <1>4, <1>5, <1>6, <1>7

(* and the snapshot a subscriber gets. *)
LEMMA SendSnapshotInv ==
  ASSUME FanoutInv, NEW c \in Client, SendSnapshot(c)
  PROVE  FanoutInv'
<1> USE DEF FanoutInv
<1>1. /\ UNCHANGED <<board, flying, pending, timer, session, scoreRead, joined,
                     missed, late, breaks>>
      /\ snapshot[c] = "read" /\ snapshot' = [snapshot EXCEPT ![c] = "sent"]
      /\ shown' = IF session[c] = "open"
                    THEN [shown EXCEPT ![c] = Append(@, scoreRead[c])] ELSE shown
  BY DEF SendSnapshot
<1>2. /\ shown' \in [Client -> Seq(Score)]
      /\ \A b \in Client \ {c} : shown'[b] = shown[b]
      /\ session[c] = "open" =>
           /\ shown'[c] # <<>> /\ shown'[c][Len(shown'[c])] = scoreRead[c]
           /\ ScoresIn(shown'[c]) = ScoresIn(shown[c]) \cup {scoreRead[c]}
  <2>1. shown[c] \in Seq(Score) /\ scoreRead[c] \in Score
    BY DEF FanoutTypes, FanoutTypeOK
  <2> QED
    BY <1>1, <2>1, AppendedScores DEF FanoutTypes
<1>3. FanoutTypes'
  <2>1. \A b \in Client : ScoresIn(shown'[b]) \subseteq Score
    BY <1>2 DEF ScoresIn
  <2> QED
    BY <1>1, <1>2, <2>1 DEF FanoutTypes, FanoutTypeOK
<1>4. SnapshotsArePast' /\ DeltasArePast'
  BY <1>1, <1>2 DEF SnapshotsArePast, DeltasArePast, FanoutTypes, FanoutTypeOK
<1>5. NewestIsAccountedFor'
  BY <1>1, <1>2 DEF NewestIsAccountedFor
<1>6. LastReceivedIsNewest'
  BY <1>1 DEF LastReceivedIsNewest
<1>7. LastShownIsNewest'
  <2> SUFFICES ASSUME NEW b \in Client, session[b] = "open", snapshot'[b] = "sent",
                      scoreRead[b] = board, late = {}, pending = <<>>,
                      board \notin flying \cup missed
               PROVE  ShowsLatest(b)'
    BY <1>1 DEF LastShownIsNewest
  <2>1. CASE b = c
    BY <1>1, <1>2, <2>1 DEF ShowsLatest
  <2>2. CASE b # c
    BY <1>1, <1>2, <2>2 DEF LastShownIsNewest, ShowsLatest, FanoutTypes, FanoutTypeOK
  <2> QED
    BY <2>1, <2>2
<1> QED
  BY <1>3, <1>4, <1>5, <1>6, <1>7

(* FanoutInv is inductive. *)
LEMMA FanoutStepInv ==
  ASSUME FanoutInv, [FanoutNext]_fanoutVars
  PROVE  FanoutInv'
<1> USE DEF FanoutInv
<1>1. CASE ScoreEvent
  <2>1. /\ board' = board + 1 /\ flying' = flying \cup {board + 1}
        /\ UNCHANGED <<pending, timer, session, snapshot, scoreRead, joined,
                       shown, missed, late, breaks>>
        /\ board + 1 \in Score
    BY <1>1, FanoutAssumption DEF ScoreEvent, FanoutTypes, FanoutTypeOK, Score
  <2>2. FanoutTypes' /\ DeltasArePast'
    BY <2>1, FanoutNumbers DEF FanoutTypes, FanoutTypeOK, DeltasArePast
  <2>3. SnapshotsArePast'
    BY <2>1, FanoutNumbers DEF SnapshotsArePast
  <2>4. NewestIsAccountedFor' /\ LastShownIsNewest'
    BY <2>1 DEF NewestIsAccountedFor, LastShownIsNewest
  <2>5. LastReceivedIsNewest'
    <3>1. \A k \in 1..(board + 1) : k \in 1..board \/ k = board + 1
      BY FanoutNumbers
    <3> QED
      BY <2>1, <3>1 DEF LastReceivedIsNewest
  <2> QED
    BY <2>2, <2>3, <2>4, <2>5
<1>2. CASE TimerDue
  BY <1>2 DEF TimerDue, FanoutTypes, FanoutTypeOK, DeltasArePast,
              SnapshotsArePast, NewestIsAccountedFor, LastReceivedIsNewest,
              LastShownIsNewest, ShowsLatest
<1>3. CASE Flush
  BY <1>3, FlushInv
<1>4. CASE CloseServer
  <2>1. /\ UNCHANGED <<board, flying, scoreRead, joined, shown, missed, late>>
        /\ timer' = "off" /\ pending' = <<>>
        /\ breaks' = breaks + 1 /\ breaks < MaxBreaks
        /\ session' = [c \in Client |->
             IF session[c] = "open" THEN "closed" ELSE session[c]]
        /\ snapshot' = [c \in Client |->
             IF snapshot[c] \in {"reading", "read"} THEN "failed" ELSE snapshot[c]]
    BY <1>4 DEF CloseServer
  <2>2. <<>> \in Seq(Score) /\ ScoresIn(<<>>) = {}
    BY DEF ScoresIn
  <2>3. \A c \in Client : session'[c] # "open"
    BY <2>1
  <2>4. FanoutTypes'
    BY <2>1, <2>2, FanoutAssumption DEF FanoutTypes, FanoutTypeOK
  <2> QED
    BY <2>1, <2>2, <2>3, <2>4
       DEF DeltasArePast, SnapshotsArePast, NewestIsAccountedFor,
           LastReceivedIsNewest, LastShownIsNewest
<1>5. ASSUME NEW n \in flying, Receive(n) \/ Miss(n) PROVE FanoutInv'
  BY <1>5, DeltaInv
<1>6. ASSUME NEW c \in Client, Connect(c) PROVE FanoutInv'
  <2>1. /\ session' = [session EXCEPT ![c] = "open"]
        /\ snapshot' = [snapshot EXCEPT ![c] = "reading"]
        /\ joined' = [joined EXCEPT ![c] = board]
        /\ UNCHANGED <<board, flying, pending, timer, scoreRead, shown, missed,
                       late, breaks>>
        /\ session[c] = "new"
    BY <1>6 DEF Connect
  <2>2. FanoutTypes'
    BY <2>1 DEF FanoutTypes, FanoutTypeOK
  <2>3. \A b \in Client \ {c} : /\ session'[b] = session[b] /\ joined'[b] = joined[b]
                                /\ snapshot'[b] = snapshot[b]
                                /\ scoreRead'[b] = scoreRead[b]
    BY <2>1 DEF FanoutTypes, FanoutTypeOK
  <2>4. SnapshotsArePast'
    <3>1. /\ session'[c] = "open" /\ snapshot'[c] = "reading"
          /\ joined'[c] = board /\ scoreRead'[c] = 0
      BY <2>1, FanoutNumbers DEF FanoutTypes, FanoutTypeOK, SnapshotsArePast
    <3>2. UNCHANGED <<board, shown>>
      BY <2>1
    <3> QED
      BY <2>3, <3>1, <3>2, FanoutNumbers DEF SnapshotsArePast
  <2>5. snapshot'[c] # "sent" /\ joined'[c] = board
    BY <2>1 DEF FanoutTypes, FanoutTypeOK
  <2>6. NewestIsAccountedFor' /\ LastShownIsNewest'
    BY <2>1, <2>3, <2>5, FanoutNumbers
       DEF NewestIsAccountedFor, LastShownIsNewest, ShowsLatest
  <2> QED
    BY <2>1, <2>2, <2>4, <2>6 DEF DeltasArePast, LastReceivedIsNewest
<1>7. ASSUME NEW c \in Client, ReadSnapshot(c) PROVE FanoutInv'
  <2>1. /\ UNCHANGED <<board, flying, pending, timer, session, joined, shown,
                       missed, late, breaks>>
        /\ snapshot[c] = "reading"
        /\ \/ /\ snapshot' = [snapshot EXCEPT ![c] = "read"]
              /\ scoreRead' = [scoreRead EXCEPT ![c] = board]
           \/ /\ snapshot' = [snapshot EXCEPT ![c] = "failed"]
              /\ UNCHANGED scoreRead
    BY <1>7 DEF ReadSnapshot
  <2>2. FanoutTypes'
    BY <2>1 DEF FanoutTypes, FanoutTypeOK
  <2>3. \A b \in Client \ {c} : /\ session'[b] = session[b] /\ joined'[b] = joined[b]
                                /\ snapshot'[b] = snapshot[b]
                                /\ scoreRead'[b] = scoreRead[b]
    BY <2>1 DEF FanoutTypes, FanoutTypeOK
  <2>4. SnapshotsArePast'
    <3>1. /\ session'[c] # "new" /\ joined'[c] = joined[c] /\ joined[c] <= board
          /\ \/ snapshot'[c] = "read" /\ scoreRead'[c] = board
             \/ snapshot'[c] = "failed" /\ scoreRead'[c] = 0
      BY <2>1, FanoutNumbers DEF FanoutTypes, FanoutTypeOK, SnapshotsArePast
    <3>2. UNCHANGED <<board, shown>>
      BY <2>1
    <3> QED
      BY <2>3, <3>1, <3>2, FanoutNumbers DEF SnapshotsArePast
  <2>5. snapshot'[c] # "sent" /\ UNCHANGED <<session, joined>>
    BY <2>1 DEF FanoutTypes, FanoutTypeOK
  <2>6. NewestIsAccountedFor' /\ LastShownIsNewest'
    BY <2>1, <2>3, <2>5, FanoutNumbers
       DEF NewestIsAccountedFor, LastShownIsNewest, ShowsLatest
  <2> QED
    BY <2>1, <2>2, <2>4, <2>6 DEF DeltasArePast, LastReceivedIsNewest
<1>8. ASSUME NEW c \in Client, SendSnapshot(c) PROVE FanoutInv'
  BY <1>8, SendSnapshotInv
<1>9. ASSUME NEW c \in Client, Disconnect(c) PROVE FanoutInv'
  BY <1>9 DEF Disconnect, FanoutTypes, FanoutTypeOK, DeltasArePast,
              SnapshotsArePast, NewestIsAccountedFor, LastReceivedIsNewest,
              LastShownIsNewest, ShowsLatest
<1>10. CASE UNCHANGED fanoutVars
  BY <1>10 DEF fanoutVars, FanoutTypes, FanoutTypeOK, DeltasArePast,
               SnapshotsArePast, NewestIsAccountedFor, LastReceivedIsNewest,
               LastShownIsNewest, ShowsLatest
<1> QED
  BY <1>1, <1>2, <1>3, <1>4, <1>5, <1>6, <1>7, <1>8, <1>9, <1>10 DEF FanoutNext

(* A client whose view is not the board's has one of the named causes. *)
LEMMA FanoutInvExplains == FanoutInv => StaleViewIsExplained
<1> SUFFICES ASSUME FanoutInv, FanoutAtRest, NEW c \in Client,
                    session[c] = "open", snapshot[c] \in {"sent", "failed"},
                    board \notin missed,
                    ~(snapshot[c] = "failed" /\ joined[c] = board)
             PROVE  \/ ShowsLatest(c)
                    \/ /\ board \in ScoresIn(shown[c])
                       /\ late # {} \/ scoreRead[c] < board
  BY DEF StaleViewIsExplained
<1> USE DEF FanoutInv, FanoutAtRest
<1>1. ScoresIn(pending) = {}
  BY DEF ScoresIn
<1>2. board \in ScoresIn(shown[c])
  <2>1. CASE board > joined[c]
    BY <1>1, <2>1 DEF NewestIsAccountedFor
  <2>2. CASE board <= joined[c]
    BY <2>2, FanoutNumbers DEF SnapshotsArePast
  <2> QED
    BY <2>1, <2>2, FanoutNumbers
<1>3. late = {} /\ scoreRead[c] >= board => ShowsLatest(c)
  BY FanoutNumbers DEF SnapshotsArePast, LastShownIsNewest
<1> QED
  BY <1>2, <1>3, FanoutNumbers

-----------------------------------------------------------------------------
(***************************************************************************)
(* Feature flags.  A cached entry and a row that was read and not yet      *)
(* stored are told by one formula: the version exists, gives the value,    *)
(* and is no older than the last invalidate unless that came in between.   *)
(***************************************************************************)
FlagTypes ==
  /\ flagRows \in [Flag -> Seq(FlagRow)]
  /\ \A f \in Flag : Version(f) \in 1..MaxVersions
  /\ cleared \in [Flag -> 0..MaxVersions]
  /\ flagCache \in [CacheKey -> Entry]
  /\ asking \in [FlagCall -> Asking]

ReadOf(k, value, release, crossed) ==
  /\ release \in 1..Version(k[1])
  /\ value = ValueFor(flagRows[k[1]][release], k[2])
  /\ release >= cleared[k[1]] \/ crossed

(* A cached entry was read, *)
EntriesWereRead ==
  \A k \in CacheKey :
    flagCache[k].cached =>
      ReadOf(k, flagCache[k].value, flagCache[k].version, flagCache[k].crossed)

(* and so was what a call is about to store. *)
StoresWereRead ==
  \A c \in FlagCall :
    asking[c].phase = "store" =>
      ReadOf(asking[c].key, asking[c].value, asking[c].version,
             asking[c].crossed)

(* A flag was last invalidated at a version that there was. *)
ClearedIsPast == \A f \in Flag : cleared[f] <= Version(f)

(* The inductive invariant of the flags. *)
FlagInv == FlagTypes /\ EntriesWereRead /\ StoresWereRead /\ ClearedIsPast

(* At the start the cache is empty. *)
LEMMA FlagInitInv == FlagInit => FlagInv
<1> SUFFICES ASSUME FlagInit PROVE FlagInv
  OBVIOUS
<1>1. \A f \in Flag : flagRows[f] = <<NoFlagRow>> /\ Version(f) = 1
  BY DEF FlagInit, Version
<1>2. NoFlagRow \in FlagRow /\ NotAsking \in Asking
  BY DEF NoFlagRow, FlagRow, Asking
<1>3. Empty \in Entry
  BY FlagAssumption DEF Empty, Entry
<1>4. flagRows \in [Flag -> Seq(FlagRow)]
  BY <1>1, <1>2 DEF FlagInit
<1>5. FlagTypes
  BY <1>1, <1>2, <1>3, <1>4, FlagAssumption DEF FlagInit, FlagTypes
<1> QED
  BY <1>1, <1>5
     DEF FlagInit, FlagInv, EntriesWereRead, StoresWereRead, ClearedIsPast, Empty,
         NotAsking

(* The invariant implies the module's type invariant. *)
LEMMA FlagInvType == FlagInv => FlagTypeOK
BY DEF FlagInv, FlagTypes, FlagTypeOK, Version

(* A call that has read nothing has no key yet, or no version. *)
LEMMA AskingShape ==
  ASSUME FlagTypes, NEW c \in FlagCall, asking[c].phase # "idle"
  PROVE  /\ asking[c] \in [phase : {"select", "store"}, key : CacheKey,
                           value : BOOLEAN, version : 0..MaxVersions,
                           crossed : BOOLEAN]
BY DEF FlagTypes, Asking, NotAsking

(* A change by hand makes one more version. *)
LEMMA ChangeFlagInv ==
  ASSUME FlagInv, NEW f \in Flag, ChangeFlag(f)
  PROVE  FlagInv'
<1>1. PICK new \in FlagRow : flagRows' = [flagRows EXCEPT ![f] = Append(@, new)]
  BY DEF ChangeFlag
<1>2. UNCHANGED <<cleared, flagCache, asking>> /\ Version(f) < MaxVersions
  BY DEF ChangeFlag
<1>3. flagRows' \in [Flag -> Seq(FlagRow)]
  BY <1>1 DEF FlagInv, FlagTypes
<1>4. \A g \in Flag :
        /\ Version(g)' \in 1..MaxVersions /\ Version(g) <= Version(g)'
        /\ \A i \in 1..Version(g) : flagRows'[g][i] = flagRows[g][i]
  <2> TAKE g \in Flag
  <2>1. flagRows[g] \in Seq(FlagRow) /\ Version(g) \in 1..MaxVersions
    BY DEF FlagInv, FlagTypes
  <2>2. CASE g = f
    BY <1>1, <1>2, <2>1, <2>2, FlagAssumption DEF FlagInv, FlagTypes, Version
  <2>3. CASE g # f
    <3>1. flagRows'[g] = flagRows[g]
      BY <1>1, <2>3 DEF FlagInv, FlagTypes
    <3> QED
      BY <2>1, <3>1, FlagAssumption DEF Version
  <2> QED
    BY <2>2, <2>3
<1>5. FlagTypes'
  BY <1>2, <1>3, <1>4 DEF FlagInv, FlagTypes
<1>6. ASSUME NEW k \in CacheKey, NEW value, NEW release, NEW crossed,
             ReadOf(k, value, release, crossed)
      PROVE  ReadOf(k, value, release, crossed)'
  <2>1. k[1] \in Flag
    BY DEF CacheKey
  <2>2. Version(k[1]) \in Nat /\ Version(k[1])' \in Nat
    BY <1>4, <2>1, FlagAssumption DEF FlagInv, FlagTypes
  <2> QED
    BY <1>2, <1>4, <1>6, <2>1, <2>2 DEF ReadOf, ValueFor
<1>7. EntriesWereRead'
  BY <1>2, <1>6 DEF FlagInv, EntriesWereRead
<1>8. StoresWereRead'
  BY <1>2, <1>6, AskingShape DEF FlagInv, StoresWereRead
<1>9. ClearedIsPast'
  <2> SUFFICES ASSUME NEW g \in Flag PROVE cleared[g] <= Version(g)'
    BY <1>2 DEF ClearedIsPast
  <2> QED
    BY <1>4, FlagAssumption DEF FlagInv, FlagTypes, ClearedIsPast
<1> QED
  BY <1>5, <1>7, <1>8, <1>9 DEF FlagInv

(* invalidate drops the entries of a flag; a call that read before it is   *)
(* marked as crossed.                                                      *)
LEMMA InvalidateInv ==
  ASSUME FlagInv, NEW f \in Flag, Invalidate(f)
  PROVE  FlagInv'
<1>1. /\ UNCHANGED flagRows
      /\ cleared' = [cleared EXCEPT ![f] = Version(f)]
      /\ flagCache' = [k \in CacheKey |-> IF k[1] = f THEN Empty ELSE flagCache[k]]
      /\ asking' = [c \in FlagCall |->
           IF asking[c].phase = "store" /\ asking[c].key[1] = f
             THEN [asking[c] EXCEPT !.crossed = TRUE] ELSE asking[c]]
  BY DEF Invalidate, Cleared
<1>2. \A g \in Flag : Version(g)' = Version(g) /\ Version(g) \in 1..MaxVersions
  BY <1>1 DEF FlagInv, FlagTypes, Version
<1>3. FlagTypes' /\ ClearedIsPast'
  <2>1. cleared' \in [Flag -> 0..MaxVersions]
    BY <1>1, <1>2, FlagAssumption DEF FlagInv, FlagTypes
  <2>2. flagCache' \in [CacheKey -> Entry]
    BY <1>1, FlagAssumption DEF FlagInv, FlagTypes, Entry, Empty
  <2>3. asking' \in [FlagCall -> Asking]
    BY <1>1 DEF FlagInv, FlagTypes, Asking, NotAsking
  <2>4. \A g \in Flag : cleared'[g] <= Version(g)
    BY <1>1, <1>2, FlagAssumption DEF FlagInv, FlagTypes, ClearedIsPast
  <2> QED
    BY <1>1, <1>2, <2>1, <2>2, <2>3, <2>4 DEF FlagInv, FlagTypes, ClearedIsPast
<1>4. ASSUME NEW k \in CacheKey, k[1] # f, NEW value, NEW release, NEW crossed,
             ReadOf(k, value, release, crossed)
      PROVE  ReadOf(k, value, release, crossed)'
  <2>1. k[1] \in Flag /\ cleared'[k[1]] = cleared[k[1]]
    BY <1>1, <1>4 DEF CacheKey, FlagInv, FlagTypes
  <2> QED
    BY <1>1, <1>2, <1>4, <2>1 DEF ReadOf
<1>5. EntriesWereRead'
  <2> SUFFICES ASSUME NEW k \in CacheKey, flagCache'[k].cached
               PROVE  ReadOf(k, flagCache[k].value, flagCache[k].version,
                             flagCache[k].crossed)'
    BY DEF EntriesWereRead
  <2>1. k[1] # f /\ flagCache'[k] = flagCache[k]
    BY <1>1 DEF Empty
  <2> QED
    BY <1>4, <2>1 DEF FlagInv, EntriesWereRead
<1>6. StoresWereRead'
  <2> SUFFICES ASSUME NEW c \in FlagCall, asking'[c].phase = "store"
               PROVE  ReadOf(asking[c].key, asking[c].value, asking[c].version,
                             asking[c].crossed)'
    BY DEF StoresWereRead
  <2>1. asking[c].phase = "store"
    BY <1>1 DEF FlagInv, FlagTypes, Asking, NotAsking
  <2>2. /\ asking[c] \in [phase : {"select", "store"}, key : CacheKey,
                         value : BOOLEAN, version : 0..MaxVersions,
                         crossed : BOOLEAN]
        /\ ReadOf(asking[c].key, asking[c].value, asking[c].version,
                  asking[c].crossed)
    BY <2>1, AskingShape DEF FlagInv, StoresWereRead
  <2>3. CASE asking[c].key[1] = f
    <3>1. asking'[c] = [asking[c] EXCEPT !.crossed = TRUE]
      BY <1>1, <2>1, <2>3
    <3>2. /\ asking'[c].key = asking[c].key /\ asking'[c].value = asking[c].value
          /\ asking'[c].version = asking[c].version /\ asking'[c].crossed
      BY <2>2, <3>1
    <3> QED
      BY <1>1, <1>2, <2>2, <2>3, <3>2 DEF ReadOf
  <2>4. CASE asking[c].key[1] # f
    BY <1>1, <1>4, <2>1, <2>2, <2>4
  <2> QED
    BY <2>3, <2>4
<1> QED
  BY <1>3, <1>5, <1>6 DEF FlagInv

(* FlagInv is inductive. *)
LEMMA FlagStepInv ==
  ASSUME FlagInv, [FlagNext]_flagVars
  PROVE  FlagInv'
<1> USE DEF FlagInv
<1>1. ASSUME NEW f \in Flag, ChangeFlag(f) \/ Invalidate(f) PROVE FlagInv'
  BY <1>1, ChangeFlagInv, InvalidateInv
<1>2. ASSUME NEW c \in FlagCall, AskFlag(c) PROVE FlagInv'
  <2>1. PICK k \in CacheKey :
          asking' = [asking EXCEPT ![c] =
            [phase |-> "select", key |-> k, value |-> FALSE, version |-> 0,
             crossed |-> FALSE]]
    BY <1>2 DEF AskFlag
  <2>2. UNCHANGED <<flagRows, cleared, flagCache>>
    BY <1>2 DEF AskFlag
  <2>3. asking' \in [FlagCall -> Asking]
    BY <2>1, FlagAssumption DEF FlagTypes, Asking
  <2> QED
    BY <2>1, <2>2, <2>3
       DEF FlagTypes, Version, EntriesWereRead, StoresWereRead, ReadOf,
           ClearedIsPast
<1>3. ASSUME NEW c \in FlagCall, SelectFlag(c) PROVE FlagInv'
  <2> DEFINE f == asking[c].key[1]
             value == ValueFor(flagRows[f][Version(f)], asking[c].key[2])
  <2>1. /\ asking[c] \in [phase : {"select", "store"}, key : CacheKey,
                         value : BOOLEAN, version : 0..MaxVersions,
                         crossed : BOOLEAN]
        /\ f \in Flag
    BY <1>3, AskingShape DEF SelectFlag, CacheKey
  <2>2. UNCHANGED <<flagRows, cleared, flagCache>>
    BY <1>3 DEF SelectFlag
  <2>3. Version(f) \in 1..MaxVersions /\ cleared[f] <= Version(f)
    BY <2>1 DEF FlagTypes, ClearedIsPast
  <2>4. \A g \in Flag : Version(g)' = Version(g)
    BY <2>2 DEF Version
  <2>5. CASE asking' = [asking EXCEPT ![c].phase = "store",
               ![c].value = ValueFor(flagRows[f][Version(f)], asking[c].key[2]),
               ![c].version = Version(f)]
    <3>0. value \in BOOLEAN
      <4>1. flagRows[f][Version(f)] \in FlagRow
        BY <2>1, <2>3 DEF FlagTypes, Version
      <4> QED
        BY <4>1 DEF ValueFor, FlagRow
    <3>1. /\ asking' \in [FlagCall -> Asking]
          /\ asking'[c].key = asking[c].key
          /\ asking'[c].value = value /\ asking'[c].version = Version(f)
          /\ \A b \in FlagCall \ {c} : asking'[b] = asking[b]
      <4>1. asking \in [FlagCall -> Asking]
        BY DEF FlagTypes
      <4>2. asking' = [asking EXCEPT ![c] =
              [asking[c] EXCEPT !.phase = "store", !.value = value,
                                !.version = Version(f)]]
        BY <2>5, <4>1
      <4>3. asking'[c] = [asking[c] EXCEPT !.phase = "store", !.value = value,
                                          !.version = Version(f)]
        BY <4>1, <4>2
      <4>4. asking'[c] \in Asking
        <5> HIDE DEF value, f
        <5>1. asking'[c] = [phase |-> "store", key |-> asking[c].key,
                            value |-> value, version |-> Version(f),
                            crossed |-> asking[c].crossed]
          BY <2>1, <4>3
        <5>2. Version(f) \in 0..MaxVersions
          BY <2>3, FlagAssumption
        <5> QED
          BY <2>1, <3>0, <5>1, <5>2 DEF Asking
      <4>5. asking' \in [FlagCall -> Asking]
        BY <4>1, <4>2, <4>3, <4>4
      <4> HIDE DEF value
      <4> QED
        BY <2>1, <4>1, <4>2, <4>3, <4>5
    <3>2. ReadOf(asking[c].key, asking[c].value, asking[c].version,
                 asking[c].crossed)'
      BY <2>1, <2>2, <2>3, <2>4, <3>1, FlagAssumption DEF ReadOf, FlagTypes
    <3>3. StoresWereRead'
      BY <2>2, <3>1, <3>2 DEF StoresWereRead, ReadOf, Version
    <3> QED
      BY <2>2, <2>4, <3>1, <3>3
         DEF FlagTypes, EntriesWereRead, ReadOf, ClearedIsPast, Version
  <2>6. CASE asking' = [asking EXCEPT ![c] = NotAsking]
    BY <2>2, <2>6
       DEF FlagTypes, Asking, NotAsking, EntriesWereRead, StoresWereRead, ReadOf,
           ClearedIsPast, Version
  <2> QED
    BY <1>3, <2>5, <2>6 DEF SelectFlag
<1>4. ASSUME NEW c \in FlagCall, StoreFlag(c) PROVE FlagInv'
  <2>1. /\ asking[c] \in [phase : {"select", "store"}, key : CacheKey,
                         value : BOOLEAN, version : 0..MaxVersions,
                         crossed : BOOLEAN]
        /\ ReadOf(asking[c].key, asking[c].value, asking[c].version,
                  asking[c].crossed)
    BY <1>4, AskingShape DEF StoreFlag, StoresWereRead
  <2>2. /\ flagCache' = [flagCache EXCEPT ![asking[c].key] =
             [cached |-> TRUE, value |-> asking[c].value,
              version |-> asking[c].version, crossed |-> asking[c].crossed]]
        /\ asking' = [asking EXCEPT ![c] = NotAsking]
        /\ UNCHANGED <<flagRows, cleared>>
    BY <1>4 DEF StoreFlag
  <2>3. FlagTypes' /\ ClearedIsPast'
    BY <2>1, <2>2 DEF FlagTypes, Entry, Asking, ClearedIsPast, Version
  <2>4. StoresWereRead'
    BY <2>2 DEF FlagTypes, StoresWereRead, ReadOf, Version, NotAsking
  <2>5. EntriesWereRead'
    <3> SUFFICES ASSUME NEW k \in CacheKey, flagCache'[k].cached
                 PROVE  ReadOf(k, flagCache'[k].value, flagCache'[k].version,
                               flagCache'[k].crossed)
      BY <2>2 DEF EntriesWereRead, ReadOf, Version
    <3>1. CASE k = asking[c].key
      BY <2>1, <2>2, <3>1 DEF FlagTypes
    <3>2. CASE k # asking[c].key
      BY <2>1, <2>2, <3>2 DEF FlagTypes, EntriesWereRead
    <3> QED
      BY <3>1, <3>2
  <2> QED
    BY <2>3, <2>4, <2>5
<1>5. ASSUME NEW k \in CacheKey, ExpireFlag(k) PROVE FlagInv'
  <2>1. Empty \in Entry
    BY FlagAssumption DEF Empty, Entry
  <2> QED
    BY <1>5, <2>1
       DEF ExpireFlag, FlagTypes, EntriesWereRead, StoresWereRead, ReadOf,
           ClearedIsPast, Version, Empty
<1>6. CASE UNCHANGED flagVars
  BY <1>6 DEF flagVars, FlagTypes, EntriesWereRead, StoresWereRead, ReadOf,
              ClearedIsPast, Version
<1> QED
  BY <1>1, <1>2, <1>3, <1>4, <1>5, <1>6 DEF FlagNext

(* A stale answer has one of the named causes. *)
LEMMA FlagInvExplains == FlagInv => StaleFlagIsExplained
<1> SUFFICES ASSUME FlagInv, NEW f \in Flag, NEW u \in FlagUser \cup {NoUser},
                    flagCache[<<f, u>>].cached
             PROVE  LET datum == flagCache[<<f, u>>] IN
                      /\ datum.value = ValueFor(flagRows[f][datum.version], u)
                      /\ datum.version >= cleared[f] \/ datum.crossed
  BY DEF StaleFlagIsExplained
<1>1. <<f, u>> \in CacheKey
  BY DEF CacheKey
<1> QED
  BY <1>1 DEF FlagInv, EntriesWereRead, ReadOf

-----------------------------------------------------------------------------
(***************************************************************************)
(* Hybrid search.  Why the best chunk of the text ranking is in an answer: *)
(* what a rank is worth falls with the rank, so a chunk of one ranking     *)
(* that is not its best has a lower score.  Then the calls: what they      *)
(* answer, and what is cached, was made by the statement.                  *)
(***************************************************************************)
(* A rank is between 1 and the number of chunks, and 1 is the best one. *)
LEMMA RankBounds ==
  ASSUME NEW order \in [Chunk -> Nat], NEW s \in SUBSET Chunk, NEW c \in s
  PROVE  /\ RankIn(order, s, c) \in 1..Cardinality(Chunk)
         /\ RankIn(order, s, c) = 1 <=> \A x \in s : ~(order[x] < order[c])
<1>1. PICK better : better = {x \in s : order[x] < order[c]}
  OBVIOUS
<1>2. /\ IsFiniteSet(s) /\ Cardinality(s) \in Nat
      /\ Cardinality(s) <= Cardinality(Chunk) /\ Cardinality(Chunk) \in Nat
  BY SearchAssumption, FS_Subset, FS_CardinalityType
<1>3. better \in SUBSET s /\ c \notin better
  BY <1>1
<1>4. /\ IsFiniteSet(better) /\ Cardinality(better) \in Nat
      /\ Cardinality(better) <= Cardinality(s)
      /\ Cardinality(better) # Cardinality(s)
      /\ Cardinality(better) = 0 <=> better = {}
  BY <1>2, <1>3, FS_Subset, FS_CardinalityType, FS_EmptySet
<1>5. RankIn(order, s, c) = Cardinality(better) + 1
  BY <1>1 DEF RankIn
<1>6. RankIn(order, s, c) \in 1..Cardinality(Chunk)
  BY <1>2, <1>4, <1>5
<1>7. better = {} <=> \A x \in s : ~(order[x] < order[c])
  BY <1>1
<1> QED
  BY <1>4, <1>5, <1>6, <1>7

(* Of two chunks of a list one at most is the best. *)
LEMMA FirstIsOne ==
  ASSUME NEW order, Ranks(order), NEW s \in SUBSET Chunk,
         NEW x \in s, NEW y \in s, x # y, order[x] > 0, order[y] > 0,
         RankIn(order, s, x) = 1
  PROVE  RankIn(order, s, y) # 1
<1>1. order \in [Chunk -> Nat] /\ order[x] \in Nat /\ order[y] \in Nat
  BY DEF Ranks
<1>2. order[x] # order[y]
  BY DEF Ranks
<1> QED
  BY <1>1, <1>2, RankBounds

(* A list has chunks of its corpus only, and only ranked ones. *)
LEMMA ListedIn ==
  ASSUME NEW order, Ranks(order), NEW s \in SUBSET Chunk
  PROVE  /\ Listed(order, s) \in SUBSET s /\ Listed(order, s) \in SUBSET Chunk
         /\ \A c \in Listed(order, s) : order[c] > 0
BY DEF Listed

(* What a rank is worth: a share that falls with the rank. *)
LEMMA ShareFalls ==
  ASSUME NEW r \in 1..Cardinality(Chunk)
  PROVE  /\ Unit \div (60 + r) \in Nat
         /\ r # 1 => Unit \div (60 + r) < Unit \div (60 + 1)
<1>1. Unit \in Nat /\ Unit > 0 /\ Cardinality(Chunk) \in Nat
  BY SearchAssumption, FS_CardinalityType
<1>2. /\ Unit % (60 + r) = 0 /\ Unit % (60 + 1) = 0
  BY <1>1, SearchAssumption
<1>3. PICK b \in Int : b = Unit \div (60 + r)
  BY <1>1
<1>4. PICK a \in Int : a = Unit \div (60 + 1)
  BY <1>1
<1>5. Unit = 61 * a
  BY <1>1, <1>2, <1>4
<1>6. Unit = (60 + r) * b
  BY <1>1, <1>2, <1>3
<1>7. b >= 0
  BY <1>1, <1>3
<1>8. r # 1 => b < a
  <2> SUFFICES ASSUME r # 1 PROVE b < a
    OBVIOUS
  <2>1. 60 + r >= 62 /\ r \in Int
    BY <1>1
  <2>2. (60 + r) * b >= 62 * b
    BY <2>1, <1>7
  <2> QED
    BY <1>1, <1>5, <1>6, <1>7, <2>2
<1> QED
  BY <1>3, <1>4, <1>7, <1>8

(* A chunk's share in a list is that of its rank, or nothing. *)
LEMMA ShareOf ==
  ASSUME NEW order \in [Chunk -> Nat], NEW list \in SUBSET Chunk, NEW c
  PROVE  /\ Share(order, list, c) \in Nat
         /\ c \notin list => Share(order, list, c) = 0
         /\ c \in list => Share(order, list, c) = Unit \div (60 + RankIn(order, list, c))
<1>1. CASE c \in list
  BY <1>1, RankBounds, ShareFalls DEF Share
<1>2. CASE c \notin list
  BY <1>2 DEF Share
<1> QED
  BY <1>1, <1>2

(* In two rankings, or the best of one of the other two. *)
Strong(q, s, embedded, y) ==
  LET text == TextList(q, s)
      vector == VectorList(q, s, embedded)
      trigram == TrigramList(s)
  IN \/ y \in (text \cap vector) \cup (text \cap trigram) \cup (vector \cap trigram)
     \/ y \in vector /\ RankIn(VectorOrder, vector, y) = 1
     \/ y \in trigram /\ RankIn(TrigramOrder, trigram, y) = 1

(* The three lists have chunks of the corpus only, and filtered ones only  *)
(* those that pass.                                                        *)
LEMMA RankingsIn ==
  ASSUME NEW q \in Query, NEW s \in SUBSET Chunk, NEW embedded \in BOOLEAN
  PROVE  /\ TextList(q, s) \in SUBSET s /\ TextList(q, s) \in SUBSET Chunk
         /\ VectorList(q, s, embedded) \in SUBSET s
         /\ VectorList(q, s, embedded) \in SUBSET Chunk
         /\ TrigramList(s) \in SUBSET s /\ TrigramList(s) \in SUBSET Chunk
         /\ \A c \in TextList(q, s) : TextOrder[c] > 0
         /\ q.filtered =>
              TextList(q, s) \subseteq Passing /\ VectorList(q, s, embedded) \subseteq Passing
<1>1. /\ Filter(q, s) \in SUBSET s /\ Filter(q, s) \in SUBSET Chunk
      /\ q.filtered => Filter(q, s) \subseteq Passing
  BY DEF Filter
<1>2. Ranks(TextOrder) /\ Ranks(VectorOrder) /\ Ranks(TrigramOrder)
  BY SearchAssumption
<1>3. /\ TextList(q, s) \in SUBSET Filter(q, s)
      /\ \A c \in TextList(q, s) : TextOrder[c] > 0
  BY <1>1, <1>2, ListedIn DEF TextList
<1>4. VectorList(q, s, embedded) \in SUBSET Filter(q, s)
  <2>1. Listed(VectorOrder, Filter(q, s)) \in SUBSET Filter(q, s)
    BY <1>1, <1>2, ListedIn
  <2> QED
    BY <2>1 DEF VectorList
<1>5. TrigramList(s) \in SUBSET s
  BY <1>2, ListedIn DEF TrigramList
<1> QED
  BY <1>1, <1>3, <1>4, <1>5

(* The score of the best chunk of the text ranking beats that of a chunk   *)
(* which is in one ranking and not the best of it.                         *)
LEMMA FirstOfTextWins ==
  ASSUME NEW q \in Query, NEW s \in SUBSET Chunk, NEW embedded \in BOOLEAN,
         NEW x \in TextList(q, s), RankIn(TextOrder, TextList(q, s), x) = 1,
         NEW y \in Fused(q, s, embedded), y # x, ~Strong(q, s, embedded, y)
  PROVE  /\ RrfScore(q, s, embedded, x) \in Nat
         /\ RrfScore(q, s, embedded, y) \in Nat
         /\ RrfScore(q, s, embedded, y) < RrfScore(q, s, embedded, x)
<1> DEFINE text == TextList(q, s)
           vector == VectorList(q, s, embedded)
           trigram == TrigramList(s)
           T(c) == Share(TextOrder, text, c)
           V(c) == Share(VectorOrder, vector, c)
           G(c) == Share(TrigramOrder, trigram, c)
           first == Unit \div (60 + 1)
<1>1. /\ text \in SUBSET Chunk /\ vector \in SUBSET Chunk /\ trigram \in SUBSET Chunk
      /\ \A c \in text : TextOrder[c] > 0
  BY RankingsIn
<1>2. /\ TextOrder \in [Chunk -> Nat] /\ VectorOrder \in [Chunk -> Nat]
      /\ TrigramOrder \in [Chunk -> Nat] /\ Ranks(TextOrder)
  BY SearchAssumption DEF Ranks
<1>3. /\ RrfScore(q, s, embedded, x) = T(x) + V(x) + G(x)
      /\ RrfScore(q, s, embedded, y) = T(y) + V(y) + G(y)
  BY DEF RrfScore
<1>4. y \in text \cup vector \cup trigram
  BY DEF Fused
<1>5. /\ ~(y \in text /\ y \in vector) /\ ~(y \in text /\ y \in trigram)
      /\ ~(y \in vector /\ y \in trigram)
      /\ y \in vector => RankIn(VectorOrder, vector, y) # 1
      /\ y \in trigram => RankIn(TrigramOrder, trigram, y) # 1
  BY DEF Strong
<1>6. x \in text /\ RankIn(TextOrder, text, x) = 1
  OBVIOUS
<1> HIDE DEF text, vector, trigram
<1>7. y \in text => RankIn(TextOrder, text, y) # 1
  BY <1>1, <1>2, <1>6, FirstIsOne
<1>8. /\ T(x) \in Nat /\ V(x) \in Nat /\ G(x) \in Nat
      /\ T(y) \in Nat /\ V(y) \in Nat /\ G(y) \in Nat
  BY <1>1, <1>2, ShareOf
<1>9. T(x) = first /\ first \in Nat
  BY <1>1, <1>2, <1>6, <1>8, ShareOf
<1>10. /\ y \notin text => T(y) = 0
       /\ y \notin vector => V(y) = 0
       /\ y \notin trigram => G(y) = 0
  BY <1>1, <1>2, ShareOf
<1>11. /\ y \in text => T(y) < first
       /\ y \in vector => V(y) < first
       /\ y \in trigram => G(y) < first
  <2>1. y \in text => T(y) < first
    BY <1>1, <1>2, <1>7, ShareOf, RankBounds, ShareFalls
  <2>2. y \in vector => V(y) < first
    BY <1>1, <1>2, <1>5, ShareOf, RankBounds, ShareFalls
  <2>3. y \in trigram => G(y) < first
    BY <1>1, <1>2, <1>5, ShareOf, RankBounds, ShareFalls
  <2> QED
    BY <2>1, <2>2, <2>3
<1> HIDE DEF T, V, G, first
<1>12. T(y) + V(y) + G(y) < first
  BY <1>4, <1>5, <1>8, <1>9, <1>10, <1>11
<1> QED
  BY <1>3, <1>8, <1>9, <1>12

(* What is true of every answer of the statement. *)
LEMMA AnswersAre ==
  ASSUME NEW q \in Query, NEW s \in SUBSET Chunk, NEW embedded \in BOOLEAN,
         NEW best \in Answers(q, s, embedded)
  PROVE  /\ best \subseteq s
         /\ q.filtered => best \ Passing \subseteq TrigramList(s)
         /\ \A x \in TextList(q, s) \ best :
              RankIn(TextOrder, TextList(q, s), x) = 1 =>
                Cardinality({y \in best : Strong(q, s, embedded, y)}) = Limit
<1> DEFINE all == Fused(q, s, embedded)
<1>1. /\ best \in SUBSET all
      /\ Cardinality(best) = IF Cardinality(all) < Limit THEN Cardinality(all) ELSE Limit
      /\ \A c \in best, d \in all \ best :
           RrfScore(q, s, embedded, c) >= RrfScore(q, s, embedded, d)
  BY DEF Answers
<1>2. /\ all = TextList(q, s) \cup VectorList(q, s, embedded) \cup TrigramList(s)
      /\ all \in SUBSET s
  BY RankingsIn DEF Fused
<1>3. q.filtered => best \ Passing \subseteq TrigramList(s)
  BY <1>1, <1>2, RankingsIn
<1>4. ASSUME NEW x \in TextList(q, s) \ best,
             RankIn(TextOrder, TextList(q, s), x) = 1
      PROVE  Cardinality({y \in best : Strong(q, s, embedded, y)}) = Limit
  <2>1. x \in all \ best
    BY <1>2, <1>4
  <2>2. IsFiniteSet(all)
    BY <1>2, SearchAssumption, FS_Subset
  <2>3. Cardinality(best) = Limit
    BY <1>1, <2>1, <2>2, FS_Subset
  <2>4. \A y \in best : Strong(q, s, embedded, y)
    <3> SUFFICES ASSUME NEW y \in best, ~Strong(q, s, embedded, y) PROVE FALSE
      OBVIOUS
    <3>1. y \in Fused(q, s, embedded) /\ y # x
      BY <1>1, <1>4
    <3>2. /\ RrfScore(q, s, embedded, x) \in Nat /\ RrfScore(q, s, embedded, y) \in Nat
          /\ RrfScore(q, s, embedded, y) < RrfScore(q, s, embedded, x)
      BY <1>4, <3>1, FirstOfTextWins
    <3>3. RrfScore(q, s, embedded, y) >= RrfScore(q, s, embedded, x)
      BY <1>1, <2>1
    <3> QED
      BY <3>2, <3>3
  <2>5. {y \in best : Strong(q, s, embedded, y)} = best
    BY <2>4
  <2> QED
    BY <2>3, <2>5
<1> QED
  BY <1>1, <1>2, <1>3, <1>4

-----------------------------------------------------------------------------
(* The type invariant that the proofs use. *)
SearchTypes ==
  /\ corpora \in Seq(SUBSET Chunk) /\ Now \in 1..MaxCorpora
  /\ results \in [Query -> Result \cup {NoResult}]
  /\ searching \in [SearchCall -> Searching \cup {NotSearching}]

(* The answer was made for the query, from chunks there were. *)
MadeFor(q, r) ==
  /\ r \in Result /\ r.corpus \in 1..Now
  /\ r.chunks \in Answers(q, corpora[r.corpus], r.embedded)

(* A cached result was made by the statement. *)
ResultsWereMade ==
  \A q \in Query : results[q] # NoResult => MadeFor(q, results[q])

(* What a call has found out fits its phase; an answer that is not from    *)
(* the cache is from a corpus no older than the call.                      *)
CallTells(call) ==
  /\ call.since <= Now
  /\ call.phase = "cache" => ~call.bypass
  /\ call.phase \notin {"save", "done"} => call.result = NoResult /\ ~call.cached
  /\ call.phase = "save" => call.result # NoResult
  /\ call.cached => ~call.bypass
  /\ call.result # NoResult =>
       /\ MadeFor(call.query, call.result)
       /\ call.cached \/ call.result.corpus >= call.since

CallsTell ==
  \A c \in SearchCall : searching[c] # NotSearching => CallTells(searching[c])

(* The inductive invariant of the search. *)
SearchInv == SearchTypes /\ ResultsWereMade /\ CallsTell

(* At the start the cache is empty. *)
LEMMA SearchInitInv == SearchInit => SearchInv
<1> SUFFICES ASSUME SearchInit PROVE SearchInv
  OBVIOUS
<1>1. PICK s \in SUBSET Chunk : corpora = <<s>>
  BY DEF SearchInit
<1>2. corpora \in Seq(SUBSET Chunk) /\ Now = 1
  BY <1>1 DEF Now
<1>3. Now \in 1..MaxCorpora
  BY <1>2, SearchAssumption
<1> QED
  BY <1>2, <1>3 DEF SearchInit, SearchInv, SearchTypes, ResultsWereMade, CallsTell

(* A call is idle or a record. *)
LEMMA SearchingIs ==
  ASSUME SearchTypes, NEW c \in SearchCall
  PROVE  /\ searching[c].phase = "idle" <=> searching[c] = NotSearching
         /\ searching[c] # NotSearching =>
              searching[c] \in Searching /\ searching[c].phase # "idle"
BY DEF SearchTypes, Searching, NotSearching

(* A step that makes one call's state another one, and keeps the rest.     *)
LEMMA CallMoves ==
  ASSUME SearchInv, NEW c \in SearchCall, NEW new \in Searching,
         searching' = [searching EXCEPT ![c] = new], UNCHANGED <<corpora, results>>,
         CallTells(new)
  PROVE  SearchInv'
<1>1. /\ SearchTypes' /\ searching'[c] = new
      /\ \A d \in SearchCall \ {c} : searching'[d] = searching[d]
  BY DEF SearchInv, SearchTypes, Now
<1>2. \A q, r : MadeFor(q, r)' <=> MadeFor(q, r)
  BY DEF MadeFor, Now
<1>3. ResultsWereMade'
  BY <1>2 DEF SearchInv, ResultsWereMade
<1>4. \A call : CallTells(call)' <=> CallTells(call)
  BY DEF CallTells, MadeFor, Now
<1>5. CallsTell'
  <2> SUFFICES ASSUME NEW d \in SearchCall, searching'[d] # NotSearching
               PROVE  CallTells(searching[d])'
    BY DEF CallsTell
  <2>1. CASE d = c
    BY <1>1, <2>1 DEF CallTells, MadeFor, Now
  <2>2. CASE d # c
    <3>1. searching'[d] = searching[d] /\ CallTells(searching[d])
      BY <1>1, <2>2 DEF SearchInv, CallsTell
    <3> QED
      BY <3>1 DEF CallTells, MadeFor, Now
  <2> QED
    BY <2>1, <2>2
<1> QED
  BY <1>1, <1>3, <1>5 DEF SearchInv

(* Another corpus makes no answer wrong that was made from an earlier one. *)
LEMMA ChangeCorpusInv ==
  ASSUME SearchInv, ChangeCorpus
  PROVE  SearchInv'
<1>1. PICK s \in SUBSET Chunk : corpora' = Append(corpora, s)
  <2>1. PICK c \in Chunk :
          corpora' = Append(corpora, IF c \in corpora[Now] THEN corpora[Now] \ {c}
                                     ELSE corpora[Now] \cup {c})
    BY DEF ChangeCorpus
  <2>2. corpora[Now] \in SUBSET Chunk
    BY DEF SearchInv, SearchTypes, Now
  <2>3. (IF c \in corpora[Now] THEN corpora[Now] \ {c} ELSE corpora[Now] \cup {c})
          \in SUBSET Chunk
    BY <2>2
  <2> QED
    BY <2>1, <2>3
<1>2. /\ UNCHANGED <<results, searching>> /\ Now < MaxCorpora
      /\ corpora \in Seq(SUBSET Chunk) /\ Now \in 1..MaxCorpora /\ MaxCorpora \in Nat
  BY SearchAssumption DEF ChangeCorpus, SearchInv, SearchTypes
<1>3. /\ corpora' \in Seq(SUBSET Chunk) /\ Now' = Now + 1
      /\ \A i \in 1..Now : corpora'[i] = corpora[i]
  BY <1>1, <1>2 DEF Now
<1>4. SearchTypes'
  BY <1>2, <1>3 DEF SearchInv, SearchTypes
<1>5. \A q, r : MadeFor(q, r) => MadeFor(q, r)'
  BY <1>2, <1>3 DEF MadeFor
<1>6. ResultsWereMade'
  BY <1>2, <1>5 DEF SearchInv, ResultsWereMade
<1>7. CallsTell'
  <2> SUFFICES ASSUME NEW c \in SearchCall, searching[c] # NotSearching
               PROVE  CallTells(searching[c])'
    BY <1>2 DEF CallsTell
  <2>1. CallTells(searching[c]) /\ searching[c].since \in Nat
    BY SearchingIs, SearchAssumption DEF SearchInv, CallsTell, Searching
  <2>2. PICK call : call = searching[c]
    OBVIOUS
  <2>3. CallTells(call)'
    BY <1>2, <1>3, <1>5, <2>1, <2>2 DEF CallTells
  <2> QED
    BY <1>2, <2>2, <2>3 DEF CallTells, MadeFor, Now
<1> QED
  BY <1>4, <1>6, <1>7 DEF SearchInv

(* What is stored was made by the statement. *)
LEMMA SaveResultsInv ==
  ASSUME SearchInv, NEW c \in SearchCall, SaveResults(c)
  PROVE  SearchInv'
<1>i. SearchTypes /\ ResultsWereMade /\ CallsTell
  BY DEF SearchInv
<1>1. PICK call : call = searching[c]
  OBVIOUS
<1>2. call \in Searching /\ call.phase = "save" /\ CallTells(call)
  BY <1>1, <1>i, SearchingIs DEF SaveResults, NotSearching, CallsTell
<1>3. PICK new : new = [call EXCEPT !.phase = "done"]
  OBVIOUS
<1>4. /\ new \in Searching /\ new.phase = "done" /\ new.since = call.since
      /\ new.bypass = call.bypass /\ new.cached = call.cached
      /\ new.result = call.result /\ new.query = call.query
  BY <1>2, <1>3 DEF Searching
<1>5. CallTells(new)
  BY <1>2, <1>4 DEF CallTells
<1>6. MadeFor(call.query, call.result) /\ call.query \in Query
  BY <1>2 DEF CallTells, Searching
<1>7. /\ searching' = [searching EXCEPT ![c] = new] /\ UNCHANGED corpora
      /\ \/ results' = results
         \/ results' = [results EXCEPT ![call.query] = call.result]
  BY <1>1, <1>3, <1>i DEF SaveResults, CacheKeyOf, SearchTypes
<1>8. CASE results' = results
  BY <1>4, <1>5, <1>7, <1>8, CallMoves
<1>9. CASE results' = [results EXCEPT ![call.query] = call.result]
  <2>1. /\ results' \in [Query -> Result \cup {NoResult}]
        /\ results'[call.query] = call.result
        /\ \A q \in Query : q # call.query => results'[q] = results[q]
    BY <1>6, <1>9, <1>i DEF MadeFor, SearchTypes
  <2>2. SearchTypes'
    BY <2>1, <1>4, <1>7, <1>i DEF SearchTypes, Now
  <2>3. \A q, r : MadeFor(q, r)' <=> MadeFor(q, r)
    BY <1>7 DEF MadeFor, Now
  <2>4. ResultsWereMade'
    <3> SUFFICES ASSUME NEW q \in Query, results'[q] # NoResult
                 PROVE  MadeFor(q, results[q])'
      BY DEF ResultsWereMade
    <3>1. MadeFor(q, results'[q])
      BY <1>6, <2>1, <1>i DEF ResultsWereMade
    <3> QED
      BY <1>7, <3>1 DEF MadeFor, Now
  <2>5. CallsTell'
    <3> SUFFICES ASSUME NEW d \in SearchCall, searching'[d] # NotSearching
                 PROVE  CallTells(searching[d])'
      BY DEF CallsTell
    <3>1. CallTells(searching'[d])
      BY <1>5, <1>7, <1>i DEF SearchTypes, CallsTell
    <3> QED
      BY <1>7, <3>1 DEF CallTells, MadeFor, Now
  <2> QED
    BY <2>2, <2>4, <2>5 DEF SearchInv
<1> QED
  BY <1>7, <1>8, <1>9

(* An expiry keeps the invariant. *)
LEMMA ExpireResultInv ==
  ASSUME SearchInv, NEW q \in Query, ExpireResult(q)
  PROVE  SearchInv'
<1>1. /\ results' = [results EXCEPT ![q] = NoResult]
      /\ UNCHANGED <<corpora, searching>>
  BY DEF ExpireResult
<1>2. SearchTypes'
  BY <1>1 DEF SearchInv, SearchTypes, Now
<1>3. ResultsWereMade'
  <2> SUFFICES ASSUME NEW p \in Query, results'[p] # NoResult
               PROVE  MadeFor(p, results[p])'
    BY DEF ResultsWereMade
  <2>1. results'[p] = results[p] /\ MadeFor(p, results[p])
    BY <1>1 DEF SearchInv, SearchTypes, ResultsWereMade
  <2> QED
    BY <1>1, <2>1 DEF MadeFor, Now
<1>4. CallsTell'
  BY <1>1 DEF SearchInv, CallsTell, CallTells, MadeFor, Now
<1> QED
  BY <1>2, <1>3, <1>4 DEF SearchInv

(* SearchInv is inductive. *)
LEMMA SearchStepInv ==
  ASSUME SearchInv, [SearchNext]_searchVars
  PROVE  SearchInv'
<1>i. SearchTypes /\ ResultsWereMade /\ CallsTell
  BY DEF SearchInv
<1>n. Now \in Nat /\ MaxCorpora \in Nat /\ NoResult \notin Result
  BY <1>i, SearchAssumption DEF SearchTypes, NoResult, Result
<1>1. ASSUME NEW c \in SearchCall, Search(c) PROVE SearchInv'
  <2>1. PICK q \in Query, bypass \in BOOLEAN :
          searching' = [searching EXCEPT ![c] =
            [phase |-> IF bypass THEN "embed" ELSE "cache", query |-> q,
             bypass |-> bypass, embedded |-> FALSE, since |-> Now,
             cached |-> FALSE, result |-> NoResult]]
    BY <1>1 DEF Search
  <2>2. PICK phase \in {"cache", "embed"} :
          /\ phase = IF bypass THEN "embed" ELSE "cache"
          /\ phase = "cache" => ~bypass
    OBVIOUS
  <2>3. PICK no \in BOOLEAN : ~no /\ no = FALSE
    OBVIOUS
  <2>4. PICK new : new = [phase |-> phase, query |-> q, bypass |-> bypass,
                          embedded |-> no, since |-> Now, cached |-> no,
                          result |-> NoResult]
    OBVIOUS
  <2>5. /\ new \in Searching /\ new.phase = phase /\ new.bypass = bypass
        /\ new.since = Now /\ ~new.cached /\ new.result = NoResult
    BY <1>i, <2>3, <2>4 DEF Searching, SearchTypes
  <2>6. CallTells(new)
    BY <1>n, <2>2, <2>5 DEF CallTells
  <2>7. searching' = [searching EXCEPT ![c] = new]
    BY <2>1, <2>2, <2>3, <2>4
  <2> QED
    BY <1>1, <2>5, <2>6, <2>7, CallMoves DEF Search
<1>2. ASSUME NEW c \in SearchCall, ReadCache(c) PROVE SearchInv'
  <2>1. PICK call : call = searching[c]
    OBVIOUS
  <2>2. call \in Searching /\ call.phase = "cache" /\ CallTells(call)
    BY <1>2, <1>i, <2>1, SearchingIs DEF ReadCache, NotSearching, CallsTell
  <2>3. PICK hit : hit = results[call.query]
    OBVIOUS
  <2>4. /\ \/ /\ hit # NoResult
              /\ searching' = [searching EXCEPT ![c].phase = "done",
                   ![c].cached = TRUE, ![c].result = hit]
           \/ searching' = [searching EXCEPT ![c].phase = "embed"]
        /\ UNCHANGED <<corpora, results>>
    BY <1>2, <2>1, <2>3 DEF ReadCache, CacheKeyOf
  <2>5. CASE hit # NoResult /\ searching' = [searching EXCEPT ![c].phase = "done",
               ![c].cached = TRUE, ![c].result = hit]
    <3>1. hit \in Result /\ MadeFor(call.query, hit)
      BY <2>2, <2>3, <2>5, <1>i DEF SearchTypes, ResultsWereMade, Searching
    <3>2. PICK new : new = [call EXCEPT !.phase = "done", !.cached = TRUE, !.result = hit]
      OBVIOUS
    <3>3. /\ new \in Searching /\ new.phase = "done" /\ new.since = call.since
          /\ new.bypass = call.bypass /\ new.cached /\ new.query = call.query
          /\ new.result = hit
      BY <2>2, <3>1, <3>2 DEF Searching
    <3>4. CallTells(new)
      BY <2>2, <3>1, <3>3 DEF CallTells
    <3>5. searching' = [searching EXCEPT ![c] = new]
      BY <2>1, <2>5, <3>2, <1>i DEF SearchTypes
    <3> QED
      BY <2>4, <3>3, <3>4, <3>5, CallMoves
  <2>6. CASE searching' = [searching EXCEPT ![c].phase = "embed"]
    <3>1. PICK new : new = [call EXCEPT !.phase = "embed"]
      OBVIOUS
    <3>2. /\ new \in Searching /\ new.phase = "embed" /\ new.since = call.since
          /\ new.bypass = call.bypass /\ new.cached = call.cached
          /\ new.result = call.result
      BY <2>2, <3>1 DEF Searching
    <3>3. CallTells(new)
      BY <2>2, <3>2 DEF CallTells
    <3>4. searching' = [searching EXCEPT ![c] = new]
      BY <2>1, <2>6, <3>1, <1>i DEF SearchTypes
    <3> QED
      BY <2>4, <3>2, <3>3, <3>4, CallMoves
  <2> QED
    BY <2>4, <2>5, <2>6
<1>3. ASSUME NEW c \in SearchCall, EmbedQuery(c) PROVE SearchInv'
  <2>1. PICK call : call = searching[c]
    OBVIOUS
  <2>2. call \in Searching /\ call.phase = "embed" /\ CallTells(call)
    BY <1>3, <1>i, <2>1, SearchingIs DEF EmbedQuery, NotSearching, CallsTell
  <2>3. PICK embedded \in BOOLEAN :
          searching' = [searching EXCEPT ![c].phase = "select",
                                         ![c].embedded = embedded]
    BY <1>3 DEF EmbedQuery
  <2>4. PICK new : new = [call EXCEPT !.phase = "select", !.embedded = embedded]
    OBVIOUS
  <2>5. /\ new \in Searching /\ new.phase = "select" /\ new.since = call.since
        /\ new.bypass = call.bypass /\ new.cached = call.cached
        /\ new.result = call.result
    BY <2>2, <2>4 DEF Searching
  <2>6. CallTells(new)
    BY <2>2, <2>5 DEF CallTells
  <2>7. searching' = [searching EXCEPT ![c] = new]
    BY <2>1, <2>3, <2>4, <1>i DEF SearchTypes
  <2> QED
    BY <1>3, <2>5, <2>6, <2>7, CallMoves DEF EmbedQuery
<1>4. ASSUME NEW c \in SearchCall, SelectResults(c) PROVE SearchInv'
  <2>1. PICK call : call = searching[c]
    OBVIOUS
  <2>2. call \in Searching /\ call.phase = "select" /\ CallTells(call)
    BY <1>4, <1>i, <2>1, SearchingIs DEF SelectResults, NotSearching, CallsTell
  <2>3. PICK best \in Answers(call.query, corpora[Now], call.embedded) :
          searching' = [searching EXCEPT
            ![c].phase = IF call.bypass THEN "done" ELSE "save",
            ![c].result = [chunks |-> best, corpus |-> Now,
                           embedded |-> call.embedded]]
    BY <1>4, <2>1 DEF SelectResults
  <2>4. corpora[Now] \in SUBSET Chunk /\ Now \in 1..Now /\ Now \in 1..MaxCorpora
    BY <1>i DEF SearchTypes, Now
  <2>5. best \in SUBSET Chunk
    BY <2>2, <2>4, AnswersAre DEF Searching
  <2>6. PICK made : made = [chunks |-> best, corpus |-> Now, embedded |-> call.embedded]
    OBVIOUS
  <2>7. /\ made \in Result /\ made.chunks = best /\ made.corpus = Now
        /\ made.embedded = call.embedded
    BY <2>2, <2>4, <2>5, <2>6 DEF Result, Searching
  <2>8. MadeFor(call.query, made)
    BY <2>4, <2>7 DEF MadeFor
  <2>9. PICK phase \in {"save", "done"} :
          phase = IF call.bypass THEN "done" ELSE "save"
    OBVIOUS
  <2>10. PICK new : new = [call EXCEPT !.phase = phase, !.result = made]
    OBVIOUS
  <2>11. /\ new \in Searching /\ new.phase = phase /\ new.since = call.since
         /\ new.bypass = call.bypass /\ new.cached = call.cached
         /\ new.query = call.query /\ new.result = made
    BY <2>2, <2>7, <2>9, <2>10 DEF Searching
  <2>12. CallTells(new)
    <3>1. made # NoResult
      BY <2>7, <1>n
    <3>2. call.since \in Nat /\ call.since <= Now
      BY <2>2, <1>n DEF Searching, CallTells
    <3> QED
      BY <1>n, <2>2, <2>7, <2>8, <2>9, <2>11, <3>1, <3>2 DEF CallTells
  <2>13. searching' = [searching EXCEPT ![c] = new]
    BY <2>1, <2>3, <2>6, <2>9, <2>10, <1>i DEF SearchTypes
  <2> QED
    BY <1>4, <2>11, <2>12, <2>13, CallMoves DEF SelectResults
<1>5. ASSUME NEW c \in SearchCall, SearchDies(c) PROVE SearchInv'
  <2>1. PICK call : call = searching[c]
    OBVIOUS
  <2>2. call \in Searching /\ call.phase = "select" /\ CallTells(call)
    BY <1>5, <1>i, <2>1, SearchingIs DEF SearchDies, NotSearching, CallsTell
  <2>3. PICK new : new = [call EXCEPT !.phase = "done"]
    OBVIOUS
  <2>4. /\ new \in Searching /\ new.phase = "done" /\ new.since = call.since
        /\ new.bypass = call.bypass /\ new.cached = call.cached
        /\ new.result = call.result
    BY <2>2, <2>3 DEF Searching
  <2>5. CallTells(new)
    BY <2>2, <2>4 DEF CallTells
  <2>6. searching' = [searching EXCEPT ![c] = new]
    BY <1>5, <2>1, <2>3, <1>i DEF SearchDies, SearchTypes
  <2> QED
    BY <1>5, <2>4, <2>5, <2>6, CallMoves DEF SearchDies
<1>6. CASE UNCHANGED searchVars
  <2>1. UNCHANGED <<corpora, results, searching>>
    BY <1>6 DEF searchVars
  <2> QED
    BY <2>1, <1>i DEF SearchInv, SearchTypes, ResultsWereMade, CallsTell, CallTells,
                      MadeFor, Now
<1> QED
  BY <1>1, <1>2, <1>3, <1>4, <1>5, <1>6, ChangeCorpusInv, SaveResultsInv,
     ExpireResultInv DEF SearchNext

(* It implies the module's type invariant. *)
LEMMA SearchInvType == SearchInv => SearchTypeOK
<1> SUFFICES ASSUME SearchInv PROVE SearchTypeOK
  OBVIOUS
<1>1. corpora \in Seq(SUBSET Chunk)
  BY DEF SearchInv, SearchTypes
<1>2. \A i \in 1..Now : corpora[i] \subseteq Chunk
  BY <1>1 DEF Now
<1> QED
  BY <1>2 DEF SearchInv, SearchTypes, SearchTypeOK

(* An answer holds what the statement promises, of a corpus there was. *)
LEMMA SearchInvExplains == SearchInv => SearchAnswerIsExplained
<1> SUFFICES ASSUME SearchInv, NEW c \in SearchCall,
                    searching[c].phase = "done", searching[c].result # NoResult
             PROVE  LET call == searching[c]
                        answer == call.result
                        there == corpora[answer.corpus]
                        text == TextList(call.query, there)
                        vector == VectorList(call.query, there, answer.embedded)
                        trigram == TrigramList(there)
                        Best(y) ==
                          \/ y \in (text \cap vector) \cup (text \cap trigram)
                                   \cup (vector \cap trigram)
                          \/ y \in vector /\ RankIn(VectorOrder, vector, y) = 1
                          \/ y \in trigram /\ RankIn(TrigramOrder, trigram, y) = 1
                    IN /\ answer.chunks \subseteq there
                       /\ call.cached \/ answer.corpus >= call.since
                       /\ call.cached => ~call.bypass
                       /\ call.query.filtered => answer.chunks \ Passing \subseteq trigram
                       /\ \A x \in text \ answer.chunks :
                            RankIn(TextOrder, text, x) = 1 =>
                              Cardinality({y \in answer.chunks : Best(y)}) = Limit
  BY DEF SearchAnswerIsExplained
<1>1. /\ searching[c] \in Searching /\ CallTells(searching[c])
      /\ corpora \in Seq(SUBSET Chunk)
  BY SearchingIs DEF SearchInv, SearchTypes, CallsTell, NotSearching
<1>2. PICK call \in Searching : call = searching[c]
  BY <1>1
<1>3. PICK answer : answer = call.result
  OBVIOUS
<1>4. PICK there : there = corpora[answer.corpus]
  OBVIOUS
<1>5. /\ MadeFor(call.query, answer)
      /\ call.cached \/ answer.corpus >= call.since
      /\ call.cached => ~call.bypass
  BY <1>1, <1>2, <1>3 DEF CallTells
<1>6. /\ call.query \in Query /\ answer \in Result /\ answer.embedded \in BOOLEAN
      /\ there \in SUBSET Chunk
      /\ answer.chunks \in Answers(call.query, there, answer.embedded)
  BY <1>1, <1>2, <1>4, <1>5 DEF MadeFor, Searching, Result, Now
<1>7. /\ answer.chunks \subseteq there
      /\ call.query.filtered => answer.chunks \ Passing \subseteq TrigramList(there)
      /\ \A x \in TextList(call.query, there) \ answer.chunks :
           RankIn(TextOrder, TextList(call.query, there), x) = 1 =>
             Cardinality({y \in answer.chunks :
                            Strong(call.query, there, answer.embedded, y)}) = Limit
  <2>0. PICK best : best = answer.chunks
    OBVIOUS
  <2>1. PICK q \in Query, s \in SUBSET Chunk, embedded \in BOOLEAN :
          q = call.query /\ s = there /\ embedded = answer.embedded
    BY <1>6
  <2>2. best \in Answers(q, s, embedded)
    BY <1>6, <2>0, <2>1
  <2>3. /\ best \subseteq s
        /\ q.filtered => best \ Passing \subseteq TrigramList(s)
        /\ \A x \in TextList(q, s) \ best :
             RankIn(TextOrder, TextList(q, s), x) = 1 =>
               Cardinality({y \in best : Strong(q, s, embedded, y)}) = Limit
    BY <2>1, <2>2, AnswersAre
  <2> QED
    BY <2>0, <2>1, <2>3
<1> QED
  BY <1>2, <1>3, <1>4, <1>5, <1>7 DEF Strong

-----------------------------------------------------------------------------
(***************************************************************************)
(* The write path of the stand-alone leaderboard.  As long as no two       *)
(* submissions overlap, one at a time is between its ZSCORE and the end of *)
(* its ZADD, and what it read is still the score.  As long as nothing else *)
(* went wrong, the latest score is in the ZSET when no ZADD is out, and it *)
(* is queued, or in a batch that is being written, or in the table.        *)
(***************************************************************************)
NothingWrong == mishaps \subseteq {"overlap"}

Comparing(s) == submitted[s].stage \in {"read", "adding"}

OneReader ==
  "overlap" \notin mishaps =>
    /\ \A s \in Submission : Comparing(s) =>
         /\ submitted[s].read = score
         /\ \A t \in Submission : Comparing(t) => t = s
    /\ \A s \in Submission :
         submitted[s].stage \in {"set", "confirmed"} =>
           score >= submitted[s].points

(* The ZADD that was sent last writes the latest score. *)
LastAdded(s) ==
  submitted[s].stage = "adding" /\ \A t \in Adding : s \notin submitted[t].behind

LatestIsAdded ==
  NothingWrong =>
    /\ Adding = {} => score = latest
    /\ \A s \in Submission : LastAdded(s) => NewScore(s) = latest

(* A batch that writes the latest score is under way. *)
WritesLatest == \E b \in ScoreBatch :
  batch[b].stage = "writing" /\ batch[b].points = latest

(* The table has the latest score. *)
TableHasLatest ==
  /\ row = latest
  /\ \A b \in ScoreBatch : batch[b].stage # "writing"
  /\ sync.points \in {0, latest}

LatestIsOnItsWay ==
  NothingWrong =>
    \/ queued > 0 /\ queued = latest
    \/ queued = 0 /\ (WritesLatest \/ TableHasLatest)

(* Nobody submits zero points, and no batch writes them. *)
HasPoints ==
  /\ \A s \in Submission : Comparing(s) => submitted[s].points > 0
  /\ \A b \in ScoreBatch : batch[b].stage # "free" => batch[b].points > 0

(* The inductive invariant of the write path. *)
ScoreInv ==
  ScoreTypeOK /\ HasPoints /\ OneReader /\ LatestIsAdded /\ LatestIsOnItsWay

(* At the start both stores agree. *)
LEMMA ScoreInitInv == ScoreInit => ScoreInv
<1> SUFFICES ASSUME ScoreInit PROVE ScoreInv
  OBVIOUS
<1>1. 0 \in Points /\ 0 \in 0..MaxServerFaults
  BY ServerAssumption DEF Points
<1> QED
  BY <1>1
     DEF ScoreInit, ScoreInv, ScoreTypeOK, SubmissionStage, HasPoints, OneReader,
         Comparing, LatestIsAdded, LastAdded, LatestIsOnItsWay, TableHasLatest,
         Unsent, Unused

(* Scores are natural numbers. *)
LEMMA ScoreTypes ==
  ASSUME ScoreTypeOK
  PROVE  /\ score \in Nat /\ latest \in Nat /\ row \in Nat /\ queued \in Nat
         /\ \A s \in Submission : /\ submitted[s].points \in Nat
                                  /\ submitted[s].read \in Nat
         /\ \A b \in ScoreBatch : batch[b].points \in Nat
BY DEF ScoreTypeOK, Points

(* Faults are counted up to their bound. *)
LEMMA FaultType ==
  ASSUME ScoreTypeOK, Fault \/ NoFault
  PROVE  serverFaults' \in 0..MaxServerFaults
BY ServerAssumption DEF ScoreTypeOK, Fault, NoFault

(* The score a submission writes is the larger of two. *)
LEMMA NewScoreType ==
  ASSUME ScoreTypeOK, NEW s \in Submission
  PROVE  /\ NewScore(s) \in Points
         /\ NewScore(s) >= submitted[s].points /\ NewScore(s) >= submitted[s].read
<1>1. submitted[s].points \in Points /\ submitted[s].read \in Points
  BY DEF ScoreTypeOK
<1> QED
  BY <1>1, ServerAssumption DEF NewScore, Larger, Points

(* The score goes to the queue or into a batch. *)
LEMMA EnqueueKeeps ==
  ASSUME NEW points \in Points, points > 0,
         NEW batches \in [ScoreBatch ->
           [stage : {"free", "writing", "committed"}, points : Points]],
         EnqueueScore(points, batches)
  PROVE  /\ batch' \in [ScoreBatch ->
              [stage : {"free", "writing", "committed"}, points : Points]]
         /\ queued' \in Points /\ queueTimer' \in BOOLEAN
         /\ queueTimer' => queued' > 0
         /\ \/ queued' > 0 /\ queued' = points
            \/ queued' = 0 /\ \E b \in ScoreBatch :
                 batch'[b].stage = "writing" /\ batch'[b].points = points
         /\ \A b \in ScoreBatch :
              batch'[b] = batches[b]
                \/ batch'[b] = [stage |-> "writing", points |-> points]
<1>1. CASE queued' = points /\ queueTimer' = TRUE /\ batch' = batches
  BY <1>1
<1>2. CASE \E b \in ScoreBatch : FlushTo(b, points, batches)
  <2>1. 0 \in Points
    BY ServerAssumption DEF Points
  <2>2. PICK b \in ScoreBatch :
          /\ batch' = [batches EXCEPT ![b] = [stage |-> "writing", points |-> points]]
          /\ queued' = 0 /\ queueTimer' = FALSE
    BY <1>2 DEF FlushTo
  <2>3. batch'[b].stage = "writing" /\ batch'[b].points = points
    BY <2>2
  <2> QED
    BY <2>1, <2>2, <2>3
<1> QED
  BY <1>1, <1>2 DEF EnqueueScore

(* ScoreInv is inductive. *)
LEMMA ScoreStepInv ==
  ASSUME ScoreInv, [ScoreNext]_scoreVars
  PROVE  ScoreInv'
<1> USE DEF ScoreInv
<1>t. /\ score \in Nat /\ latest \in Nat /\ row \in Nat /\ queued \in Nat
      /\ \A s \in Submission : /\ submitted[s].points \in Nat
                               /\ submitted[s].read \in Nat
      /\ \A b \in ScoreBatch : batch[b].points \in Nat
  BY ScoreTypes
<1>1. ASSUME NEW s \in Submission, NEW points \in 1..MaxPoints, Submit(s, points)
      PROVE  ScoreInv'
  <2>1. /\ UNCHANGED <<score, latest, row, queued, queueTimer, batch, sync, server>>
        /\ submitted[s].stage = "new"
        /\ Note("overlap", InStage("read") \cup Adding # {})
    BY <1>1 DEF Submit
  <2>2. serverFaults' \in 0..MaxServerFaults
    BY <1>1, FaultType DEF Submit
  <2>3. points \in Points /\ points > 0 /\ score \in Points /\ 0 \in Points
    BY ServerAssumption DEF Points, ScoreTypeOK
  <2>4. /\ submitted' \in [Submission ->
             [stage : SubmissionStage, points : Points, read : Points,
              behind : SUBSET Submission]]
        /\ \A t \in Submission \ {s} : submitted'[t] = submitted[t]
        /\ \/ /\ submitted'[s].stage = "read"
              /\ submitted'[s].points = points /\ submitted'[s].read = score
           \/ submitted'[s].stage = "refused"
    <3> USE DEF Unsent, SubmissionStage
    <3>1. CASE submitted' = [submitted EXCEPT ![s] =
             [Unsent EXCEPT !.stage = "read", !.points = points, !.read = score]]
      BY <2>3, <3>1 DEF ScoreTypeOK
    <3>2. CASE submitted' = [submitted EXCEPT ![s] =
             [Unsent EXCEPT !.stage = "refused", !.points = points]]
      BY <2>3, <3>2 DEF ScoreTypeOK
    <3> QED
      BY <1>1, <3>1, <3>2 DEF Submit
  <2>5. /\ mishaps' \subseteq Mishap
        /\ "overlap" \notin mishaps' => /\ "overlap" \notin mishaps
                                        /\ InStage("read") = {} /\ Adding = {}
        /\ mishaps \subseteq mishaps' /\ mishaps' \subseteq mishaps \cup {"overlap"}
    BY <2>1 DEF Note, ScoreTypeOK, Mishap
  <2>6. ScoreTypeOK'
    BY <2>1, <2>2, <2>4, <2>5 DEF ScoreTypeOK
  <2>7. HasPoints'
    BY <2>1, <2>3, <2>4 DEF HasPoints, Comparing
  <2>8. OneReader'
    <3>1. "overlap" \notin mishaps' => \A t \in Submission : ~Comparing(t)
      BY <2>5 DEF InStage, Adding, Comparing
    <3> QED
      BY <2>1, <2>4, <2>5, <3>1 DEF OneReader, Comparing
  <2>a. LatestIsAdded'
    <3>1. Adding' = Adding /\ s \notin Adding
      BY <2>1, <2>4 DEF Adding, InStage
    <3>2. \A t \in Adding : submitted'[t] = submitted[t]
      BY <2>4, <3>1 DEF Adding, InStage
    <3> QED
      BY <2>1, <2>4, <2>5, <3>1, <3>2
         DEF LatestIsAdded, LastAdded, NothingWrong, NewScore
  <2>9. LatestIsOnItsWay'
    BY <2>1, <2>5 DEF LatestIsOnItsWay, NothingWrong, WritesLatest, TableHasLatest
  <2> QED
    BY <2>6, <2>7, <2>8, <2>a, <2>9
<1>2. ASSUME NEW s \in Submission, Record(s) PROVE ScoreInv'
  <2>1. /\ UNCHANGED <<score, row, sync, server, mishaps, serverFaults>>
        /\ submitted[s].stage = "read" /\ latest' = NewScore(s)
        /\ EnqueueScore(NewScore(s), batch)
        /\ submitted' = [submitted EXCEPT ![s].stage = "adding",
                                          ![s].behind = Adding]
    BY <1>2 DEF Record
  <2>2. Adding \subseteq Submission
    BY DEF Adding, InStage
  <2>3. /\ NewScore(s) \in Points /\ NewScore(s) \in Nat
        /\ NewScore(s) >= submitted[s].points
        /\ NewScore(s) >= submitted[s].read /\ NewScore(s) > 0
    <3>1. submitted[s].points > 0
      BY <2>1 DEF HasPoints, Comparing
    <3> QED
      BY <3>1, <1>t, NewScoreType DEF Points
  <2>4. /\ batch' \in [ScoreBatch ->
             [stage : {"free", "writing", "committed"}, points : Points]]
        /\ queued' \in Points /\ queueTimer' \in BOOLEAN
        /\ queueTimer' => queued' > 0
        /\ \/ queued' > 0 /\ queued' = NewScore(s)
           \/ queued' = 0 /\ \E b \in ScoreBatch :
                batch'[b].stage = "writing" /\ batch'[b].points = NewScore(s)
        /\ \A b \in ScoreBatch :
             batch'[b] = batch[b]
               \/ batch'[b] = [stage |-> "writing", points |-> NewScore(s)]
    BY <2>1, <2>3, EnqueueKeeps DEF ScoreTypeOK
  <2>5. /\ submitted' \in [Submission ->
             [stage : SubmissionStage, points : Points, read : Points,
              behind : SUBSET Submission]]
        /\ \A t \in Submission \ {s} : submitted'[t] = submitted[t]
        /\ submitted'[s].stage = "adding" /\ submitted'[s].behind = Adding
        /\ submitted'[s].points = submitted[s].points
        /\ submitted'[s].read = submitted[s].read
    <3> DEFINE sent == [submitted[s] EXCEPT !.stage = "adding", !.behind = Adding]
    <3>1. submitted \in [Submission ->
            [stage : SubmissionStage, points : Points, read : Points,
             behind : SUBSET Submission]]
      BY DEF ScoreTypeOK
    <3>2. submitted' = [submitted EXCEPT ![s] = sent]
      BY <2>1, <3>1
    <3>3. /\ sent \in [stage : SubmissionStage, points : Points, read : Points,
                       behind : SUBSET Submission]
          /\ sent.stage = "adding" /\ sent.behind = Adding
          /\ sent.points = submitted[s].points /\ sent.read = submitted[s].read
      BY <2>2, <3>1 DEF SubmissionStage
    <3> HIDE DEF sent
    <3> QED
      BY <3>1, <3>2, <3>3
  <2>6. ScoreTypeOK'
    BY <2>1, <2>3, <2>4, <2>5 DEF ScoreTypeOK
  <2>7. HasPoints'
    <3>1. \A t \in Submission :
            /\ Comparing(t)' => Comparing(t)
            /\ submitted'[t].points = submitted[t].points
      BY <2>1, <2>5 DEF Comparing
    <3>2. \A b \in ScoreBatch : batch'[b].stage # "free" => batch'[b].points > 0
      BY <2>3, <2>4 DEF HasPoints
    <3> QED
      BY <3>1, <3>2 DEF HasPoints
  <2>8. OneReader'
    BY <2>1, <2>5 DEF OneReader, Comparing
  <2>a. LatestIsAdded'
    <3>1. s \in Adding' /\ s \notin Adding
      <4>1. submitted'[s].stage = "adding"
        BY <2>5
      <4>2. submitted[s].stage = "read"
        BY <2>1
      <4> QED
        BY <4>1, <4>2 DEF Adding, InStage
    <3>2. NewScore(s)' = latest'
      BY <2>1, <2>5 DEF NewScore
    <3>3. \A t \in Submission \ {s} : ~LastAdded(t)'
      BY <2>5, <3>1 DEF LastAdded, Adding, InStage
    <3> QED
      BY <3>1, <3>2, <3>3 DEF LatestIsAdded
  <2>9. LatestIsOnItsWay'
    BY <2>1, <2>4 DEF LatestIsOnItsWay, WritesLatest
  <2> QED
    BY <2>6, <2>7, <2>8, <2>a, <2>9
<1>13. ASSUME NEW s \in Submission, StoreScore(s) PROVE ScoreInv'
  <2>1. /\ UNCHANGED <<latest, row, queued, queueTimer, batch, sync, server>>
        /\ submitted[s].stage = "adding" /\ submitted[s].behind \cap Adding = {}
    BY <1>13 DEF StoreScore
  <2>2. serverFaults' \in 0..MaxServerFaults
    BY <1>13, FaultType DEF StoreScore
  <2>3. /\ NewScore(s) \in Points /\ NewScore(s) \in Nat
        /\ NewScore(s) >= submitted[s].points
        /\ NewScore(s) >= submitted[s].read
    BY <1>t, NewScoreType DEF Points
  <2>4. \/ /\ score' = NewScore(s) /\ mishaps' = mishaps
           /\ submitted' = [submitted EXCEPT ![s].stage = "set"]
        \/ /\ score' = score /\ mishaps' = mishaps \cup {"refused"}
           /\ submitted' = [submitted EXCEPT ![s].stage = "refused"]
    BY <1>13 DEF StoreScore, Note
  <2>5. /\ submitted' \in [Submission ->
             [stage : SubmissionStage, points : Points, read : Points,
              behind : SUBSET Submission]]
        /\ \A t \in Submission \ {s} : submitted'[t] = submitted[t]
        /\ submitted'[s].stage \in {"set", "refused"}
        /\ submitted'[s].points = submitted[s].points
    BY <2>4 DEF ScoreTypeOK, SubmissionStage
  <2>6. ScoreTypeOK'
    <3>1. score' \in Points /\ mishaps' \subseteq Mishap
      BY <2>3, <2>4 DEF ScoreTypeOK, Mishap
    <3> QED
      BY <2>1, <2>2, <2>5, <3>1 DEF ScoreTypeOK
  <2>7. HasPoints'
    BY <2>1, <2>5 DEF HasPoints, Comparing
  <2>8. OneReader'
    <3> SUFFICES ASSUME "overlap" \notin mishaps' PROVE OneReader'
      BY DEF OneReader
    <3>1. "overlap" \notin mishaps /\ submitted[s].read = score
      BY <2>1, <2>4 DEF OneReader, Comparing
    <3>2. \A t \in Submission \ {s} : submitted'[t] = submitted[t] /\ ~Comparing(t)
      BY <2>1, <2>5, <3>1 DEF OneReader, Comparing
    <3>3. \A t \in Submission : ~Comparing(t)'
      BY <2>5, <3>2 DEF Comparing
    <3>4. score' >= score /\ score' \in Nat
      BY <2>3, <2>4, <3>1, <1>t
    <3>5. submitted'[s].stage = "set" => score' >= submitted'[s].points
      BY <2>3, <2>4, <2>5 DEF ScoreTypeOK
    <3>6. \A t \in Submission \ {s} :
            submitted[t].stage \in {"set", "confirmed"} => score >= submitted[t].points
      BY <3>1 DEF OneReader
    <3>7. \A t \in Submission \ {s} :
            submitted'[t].stage \in {"set", "confirmed"} =>
              score' >= submitted'[t].points
      BY <3>2, <3>4, <3>6, <1>t
    <3> QED
      BY <2>5, <3>3, <3>5, <3>7 DEF OneReader
  <2>a. LatestIsAdded'
    <3> SUFFICES ASSUME NothingWrong' PROVE LatestIsAdded'
      BY DEF LatestIsAdded
    <3>1. /\ NothingWrong /\ score' = NewScore(s)
          /\ submitted' = [submitted EXCEPT ![s].stage = "set"]
      BY <2>4 DEF NothingWrong
    <3>2. Adding' = Adding \ {s} /\ s \in Adding
      BY <2>1, <2>5 DEF Adding, InStage
    <3>3. \A t \in Submission \ {s} : NewScore(t)' = NewScore(t)
      BY <2>5 DEF NewScore
    <3>4. ASSUME NEW t \in Submission, LastAdded(t)' PROVE LastAdded(t)
      <4>1. t # s /\ t \in Adding
        BY <2>5, <3>4 DEF LastAdded, Adding, InStage
      <4>2. t \notin submitted[s].behind
        BY <2>1, <4>1
      <4>3. \A u \in Adding \ {s} : t \notin submitted[u].behind
        BY <2>5, <3>2, <3>4 DEF LastAdded, Adding, InStage
      <4> QED
        BY <4>1, <4>2, <4>3 DEF LastAdded, Adding, InStage
    <3>5. Adding' = {} => LastAdded(s)
      BY <2>1, <3>2 DEF LastAdded
    <3> QED
      BY <2>1, <2>5, <3>1, <3>3, <3>4, <3>5 DEF LatestIsAdded, LastAdded
  <2>9. LatestIsOnItsWay'
    BY <2>1, <2>4 DEF LatestIsOnItsWay, NothingWrong, WritesLatest, TableHasLatest
  <2> QED
    BY <2>6, <2>7, <2>8, <2>a, <2>9
<1>3. ASSUME NEW s \in Submission, Confirm(s) PROVE ScoreInv'
  <2>1. /\ UNCHANGED <<score, latest, row, queued, queueTimer, batch, sync, server,
                       mishaps>>
        /\ submitted[s].stage = "set"
    BY <1>3 DEF Confirm
  <2>2. serverFaults' \in 0..MaxServerFaults
    BY <1>3, FaultType DEF Confirm
  <2>3. submitted' \in {[submitted EXCEPT ![s].stage = "confirmed"],
                        [submitted EXCEPT ![s].stage = "refused"]}
    BY <1>3 DEF Confirm
  <2>4. /\ submitted' \in [Submission ->
             [stage : SubmissionStage, points : Points, read : Points,
              behind : SUBSET Submission]]
        /\ \A t \in Submission \ {s} : submitted'[t] = submitted[t]
        /\ submitted'[s].stage \in {"confirmed", "refused"}
        /\ submitted'[s].points = submitted[s].points
    BY <2>3 DEF ScoreTypeOK, SubmissionStage
  <2>5. ScoreTypeOK' /\ HasPoints' /\ OneReader'
    BY <2>1, <2>2, <2>4 DEF ScoreTypeOK, HasPoints, OneReader, Comparing
  <2>a. LatestIsAdded'
    <3>1. Adding' = Adding /\ s \notin Adding
      BY <2>1, <2>4 DEF Adding, InStage
    <3> QED
      BY <2>1, <2>4, <3>1
         DEF LatestIsAdded, LastAdded, NothingWrong, NewScore, Adding, InStage
  <2>6. LatestIsOnItsWay'
    BY <2>1 DEF LatestIsOnItsWay, NothingWrong, WritesLatest, TableHasLatest
  <2> QED
    BY <2>5, <2>6, <2>a
<1>4. ASSUME NEW b \in ScoreBatch, CommitBatch(b) PROVE ScoreInv'
  <2>1. /\ UNCHANGED <<score, latest, queued, queueTimer, submitted, sync, server,
                       serverFaults>>
        /\ row' = batch[b].points /\ batch[b].stage = "writing"
        /\ batch' = [batch EXCEPT ![b].stage = "committed"]
        /\ Note("crossed", Writers # {b} \/ sync.points > 0)
    BY <1>4 DEF CommitBatch
  <2>2. /\ mishaps' \subseteq Mishap /\ mishaps \subseteq mishaps'
        /\ "overlap" \in mishaps' <=> "overlap" \in mishaps
        /\ NothingWrong' => /\ NothingWrong /\ Writers = {b}
                            /\ ~(sync.points > 0)
    BY <2>1 DEF Note, ScoreTypeOK, Mishap, NothingWrong
  <2>3. ScoreTypeOK'
    BY <2>1, <2>2 DEF ScoreTypeOK
  <2>4. HasPoints' /\ OneReader' /\ LatestIsAdded'
    BY <2>1, <2>2
       DEF HasPoints, OneReader, Comparing, ScoreTypeOK, LatestIsAdded, LastAdded,
           NothingWrong, NewScore, Adding, InStage
  <2>5. LatestIsOnItsWay'
    <3> SUFFICES ASSUME NothingWrong' PROVE LatestIsOnItsWay'
      BY DEF LatestIsOnItsWay
    <3>1. CASE queued > 0 /\ queued = latest
      BY <2>1, <3>1 DEF LatestIsOnItsWay
    <3>2. CASE queued = 0
      <4>1. \A c \in ScoreBatch : batch[c].stage = "writing" => c = b
        BY <2>2 DEF Writers
      <4>2. batch[b].points = latest
        BY <2>1, <2>2, <3>2, <4>1, <1>t
           DEF LatestIsOnItsWay, WritesLatest, TableHasLatest
      <4>3. sync.points = 0
        BY <2>2 DEF ScoreTypeOK, Points
      <4>4. TableHasLatest'
        BY <2>1, <4>1, <4>2, <4>3 DEF TableHasLatest, ScoreTypeOK
      <4> QED
        BY <2>1, <3>2, <4>4 DEF LatestIsOnItsWay
    <3> QED
      BY <2>2, <3>1, <3>2 DEF LatestIsOnItsWay
  <2> QED
    BY <2>3, <2>4, <2>5
<1>5. ASSUME NEW b \in ScoreBatch, PublishBatch(b) PROVE ScoreInv'
  <2>1. /\ UNCHANGED <<score, latest, row, queued, queueTimer, submitted, sync,
                       server, mishaps, serverFaults>>
        /\ batch' = [batch EXCEPT ![b] = Unused] /\ batch[b].stage = "committed"
    BY <1>5 DEF PublishBatch
  <2>2. ScoreTypeOK'
    <3>1. 0 \in Points
      BY ServerAssumption DEF Points
    <3> QED
      BY <2>1, <3>1 DEF ScoreTypeOK, Unused
  <2>3. HasPoints' /\ OneReader' /\ LatestIsAdded'
    BY <2>1
       DEF HasPoints, OneReader, Comparing, ScoreTypeOK, Unused, LatestIsAdded,
           LastAdded, NothingWrong, NewScore, Adding, InStage
  <2>4. LatestIsOnItsWay'
    BY <2>1 DEF LatestIsOnItsWay, NothingWrong, WritesLatest, TableHasLatest,
                ScoreTypeOK, Unused
  <2> QED
    BY <2>2, <2>3, <2>4
<1>6. ASSUME NEW b \in ScoreBatch, FailBatch(b) PROVE ScoreInv'
  <2> DEFINE left == [batch EXCEPT ![b] = Unused]
  <2>1. /\ UNCHANGED <<score, latest, row, submitted, sync, server>>
        /\ batch[b].stage \in {"writing", "committed"}
        /\ EnqueueScore(batch[b].points, left)
        /\ Note("overwritten", batch[b].points # latest)
    BY <1>6 DEF FailBatch
  <2>2. serverFaults' \in 0..MaxServerFaults
    BY <1>6, FaultType DEF FailBatch
  <2>3. /\ mishaps' \subseteq Mishap
        /\ "overlap" \in mishaps' <=> "overlap" \in mishaps
        /\ NothingWrong' => NothingWrong /\ batch[b].points = latest
    BY <2>1 DEF Note, ScoreTypeOK, Mishap, NothingWrong
  <2>4. left \in [ScoreBatch ->
          [stage : {"free", "writing", "committed"}, points : Points]]
    <3>1. 0 \in Points
      BY ServerAssumption DEF Points
    <3> QED
      BY <3>1 DEF ScoreTypeOK, Unused
  <2>5. /\ batch' \in [ScoreBatch ->
             [stage : {"free", "writing", "committed"}, points : Points]]
        /\ queued' \in Points /\ queueTimer' \in BOOLEAN
        /\ queueTimer' => queued' > 0
        /\ \/ queued' > 0 /\ queued' = batch[b].points
           \/ queued' = 0 /\ \E c \in ScoreBatch :
                batch'[c].stage = "writing" /\ batch'[c].points = batch[b].points
        /\ \A c \in ScoreBatch :
             batch'[c] = left[c]
               \/ batch'[c] = [stage |-> "writing", points |-> batch[b].points]
    <3>1. batch[b].points \in Points /\ batch[b].points > 0
      BY <2>1 DEF HasPoints, ScoreTypeOK
    <3> HIDE DEF left
    <3> QED
      BY <2>1, <2>4, <3>1, EnqueueKeeps
  <2>6. ScoreTypeOK'
    BY <2>1, <2>2, <2>3, <2>5 DEF ScoreTypeOK
  <2>7. HasPoints'
    BY <2>1, <2>5 DEF HasPoints, Comparing, ScoreTypeOK, Unused
  <2>8. OneReader' /\ LatestIsAdded'
    BY <2>1, <2>3
       DEF OneReader, Comparing, LatestIsAdded, LastAdded, NothingWrong, NewScore,
           Adding, InStage
  <2>9. LatestIsOnItsWay'
    BY <2>1, <2>3, <2>5 DEF LatestIsOnItsWay, WritesLatest
  <2> QED
    BY <2>6, <2>7, <2>8, <2>9
<1>7. CASE FlushDue \/ Sigterm
  <2>1. UNCHANGED <<score, latest, row, submitted, sync, mishaps>>
    BY <1>7 DEF FlushDue, Sigterm
  <2>2. /\ server' \in {"up", "closing", "down"}
        /\ serverFaults' \in 0..MaxServerFaults
    BY <1>7, FaultType DEF FlushDue, Sigterm, ScoreTypeOK, NoFault
  <2>a. OneReader' /\ LatestIsAdded'
    BY <2>1
       DEF OneReader, Comparing, LatestIsAdded, LastAdded, NothingWrong, NewScore,
           Adding, InStage
  <2>3. CASE UNCHANGED <<queued, queueTimer, batch>>
    BY <2>1, <2>2, <2>3, <2>a
       DEF ScoreTypeOK, HasPoints, Comparing, LatestIsOnItsWay, NothingWrong,
           WritesLatest, TableHasLatest
  <2>4. ASSUME NEW b \in ScoreBatch, FlushTo(b, queued, batch), queued > 0
        PROVE  ScoreInv'
    <3>1. /\ batch' = [batch EXCEPT ![b] = [stage |-> "writing", points |-> queued]]
          /\ queued' = 0 /\ queueTimer' = FALSE
      BY <2>4 DEF FlushTo
    <3>2. batch'[b].stage = "writing" /\ batch'[b].points = queued
      BY <3>1 DEF ScoreTypeOK
    <3>3. ScoreTypeOK' /\ HasPoints'
      <4>1. 0 \in Points
        BY ServerAssumption DEF Points
      <4> QED
        BY <2>1, <2>2, <2>4, <3>1, <4>1 DEF ScoreTypeOK, HasPoints, Comparing
    <3>5. LatestIsOnItsWay'
      BY <2>1, <2>4, <3>1, <3>2 DEF LatestIsOnItsWay, NothingWrong, WritesLatest
    <3> QED
      BY <3>3, <3>5, <2>a
  <2>5. CASE FlushDue
    <3>1. queued > 0
      BY <2>5 DEF FlushDue, ScoreTypeOK
    <3> QED
      BY <2>4, <2>5, <3>1 DEF FlushDue
  <2>6. CASE Sigterm
    <3>1. queued # 0 => queued > 0
      BY <1>t
    <3> QED
      BY <2>3, <2>4, <2>6, <3>1 DEF Sigterm
  <2> QED
    BY <1>7, <2>5, <2>6
<1>8. CASE SyncRead
  <2>1. UNCHANGED <<score, latest, row, queued, queueTimer, submitted, batch, server,
                    serverFaults>>
    BY <1>8 DEF SyncRead
  <2>2. PICK points \in {0, score} :
          /\ sync' = [stage |-> "writing", points |-> points]
          /\ Note("overtaken", /\ points \notin {0, latest}
                               /\ queued = 0 /\ Writers = {})
    BY <1>8 DEF SyncRead
  <2>3. /\ mishaps' \subseteq Mishap
        /\ "overlap" \in mishaps' <=> "overlap" \in mishaps
        /\ NothingWrong' =>
             /\ NothingWrong
             /\ points \in {0, latest} \/ queued # 0 \/ Writers # {}
    BY <2>2 DEF Note, ScoreTypeOK, Mishap, NothingWrong
  <2>4. ScoreTypeOK'
    <3>1. points \in Points
      BY ServerAssumption DEF ScoreTypeOK, Points
    <3> QED
      BY <2>1, <2>2, <2>3, <3>1 DEF ScoreTypeOK
  <2>5. HasPoints' /\ OneReader' /\ LatestIsAdded'
    BY <2>1, <2>3
       DEF HasPoints, OneReader, Comparing, LatestIsAdded, LastAdded, NothingWrong,
           NewScore, Adding, InStage
  <2>6. LatestIsOnItsWay'
    <3> SUFFICES ASSUME NothingWrong', queued = 0, TableHasLatest
                 PROVE  TableHasLatest'
      BY <2>1, <2>3 DEF LatestIsOnItsWay, WritesLatest
    <3>1. Writers = {}
      BY DEF TableHasLatest, Writers
    <3> QED
      BY <2>1, <2>2, <2>3, <3>1 DEF TableHasLatest
  <2> QED
    BY <2>4, <2>5, <2>6
<1>9. CASE SyncWrite
  <2>1. /\ UNCHANGED <<score, latest, queued, queueTimer, submitted, batch, server>>
        /\ sync.stage = "writing" /\ sync' = Unused
        /\ (sync.points # 0 /\ row' = sync.points) \/ row' = row
        /\ Note("crossed", sync.points > 0 /\ Writers # {})
    BY <1>9 DEF SyncWrite
  <2>2. serverFaults' \in 0..MaxServerFaults
    BY <1>9, FaultType DEF SyncWrite
  <2>3. /\ mishaps' \subseteq Mishap
        /\ "overlap" \in mishaps' <=> "overlap" \in mishaps
        /\ NothingWrong' => NothingWrong /\ (Writers = {} \/ ~(sync.points > 0))
    BY <2>1 DEF Note, ScoreTypeOK, Mishap, NothingWrong
  <2>4. ScoreTypeOK'
    <3>1. 0 \in Points
      BY ServerAssumption DEF Points
    <3> QED
      BY <2>1, <2>2, <2>3, <3>1 DEF ScoreTypeOK, Unused
  <2>5. HasPoints' /\ OneReader' /\ LatestIsAdded'
    BY <2>1, <2>3
       DEF HasPoints, OneReader, Comparing, LatestIsAdded, LastAdded, NothingWrong,
           NewScore, Adding, InStage
  <2>6. LatestIsOnItsWay'
    <3> SUFFICES ASSUME NothingWrong' PROVE LatestIsOnItsWay'
      BY DEF LatestIsOnItsWay
    <3>1. CASE sync.points > 0
      BY <2>1, <2>3, <3>1
         DEF LatestIsOnItsWay, WritesLatest, TableHasLatest, Writers, Unused
    <3>2. CASE ~(sync.points > 0)
      <4>1. row' = row
        BY <2>1, <3>2 DEF ScoreTypeOK, Points
      <4> QED
        BY <2>1, <2>3, <4>1
           DEF LatestIsOnItsWay, WritesLatest, TableHasLatest, Unused
    <3> QED
      BY <3>1, <3>2
  <2> QED
    BY <2>4, <2>5, <2>6
<1>10. CASE EndServer
  <2>1. /\ UNCHANGED <<score, latest, row>> /\ server' = "down"
        /\ queued' = 0 /\ queueTimer' = FALSE
        /\ batch' = [b \in ScoreBatch |-> Unused] /\ sync' = Unused
        /\ submitted' = [s \in Submission |->
             IF submitted[s].stage \in {"read", "adding", "set"}
               THEN [submitted[s] EXCEPT !.stage = "lost"] ELSE submitted[s]]
        /\ Note("ended", queued > 0 \/ Writers # {} \/ Adding # {})
    BY <1>10 DEF EndServer
  <2>2. serverFaults' \in 0..MaxServerFaults
    BY <1>10, FaultType DEF EndServer
  <2>3. /\ mishaps' \subseteq Mishap
        /\ "overlap" \in mishaps' <=> "overlap" \in mishaps
        /\ NothingWrong' => NothingWrong /\ Writers = {} /\ queued = 0 /\ Adding = {}
    <3>1. CASE queued > 0 \/ Writers # {} \/ Adding # {}
      BY <2>1, <3>1 DEF Note, ScoreTypeOK, Mishap, NothingWrong
    <3>2. CASE ~(queued > 0 \/ Writers # {} \/ Adding # {})
      <4>1. mishaps' = mishaps /\ Writers = {} /\ queued = 0 /\ Adding = {}
        BY <2>1, <3>2, <1>t DEF Note
      <4> QED
        BY <4>1 DEF ScoreTypeOK, NothingWrong
    <3> QED
      BY <3>1, <3>2
  <2>4. 0 \in Points
    BY ServerAssumption DEF Points
  <2>5. \A s \in Submission :
          /\ submitted'[s] \in
               [stage : SubmissionStage, points : Points, read : Points,
                behind : SUBSET Submission]
          /\ submitted'[s].stage \notin {"read", "adding", "set"}
          /\ submitted'[s].stage = "confirmed" => submitted'[s] = submitted[s]
    BY <2>1 DEF ScoreTypeOK, SubmissionStage
  <2>6. ScoreTypeOK' /\ HasPoints'
    BY <2>1, <2>2, <2>3, <2>4, <2>5 DEF ScoreTypeOK, HasPoints, Comparing, Unused
  <2>7. OneReader' /\ LatestIsAdded'
    BY <2>1, <2>3, <2>5
       DEF OneReader, Comparing, LatestIsAdded, LastAdded, NothingWrong, Adding,
           InStage
  <2>8. LatestIsOnItsWay'
    BY <2>1, <2>3
       DEF LatestIsOnItsWay, WritesLatest, TableHasLatest, Writers, Unused
  <2> QED
    BY <2>6, <2>7, <2>8
<1>11. CASE StartServer
  BY <1>11 DEF StartServer, ScoreTypeOK, HasPoints, OneReader, Comparing,
               LatestIsAdded, LastAdded, NewScore, Adding, InStage,
               LatestIsOnItsWay, NothingWrong, WritesLatest, TableHasLatest
<1>12. CASE UNCHANGED scoreVars
  BY <1>12 DEF scoreVars, ScoreTypeOK, HasPoints, OneReader, Comparing,
               LatestIsAdded, LastAdded, NewScore, Adding, InStage,
               LatestIsOnItsWay, NothingWrong, WritesLatest, TableHasLatest
<1> HIDE DEF ScoreInv
<1> QED
  BY <1>1, <1>2, <1>3, <1>4, <1>5, <1>6, <1>7, <1>8, <1>9, <1>10, <1>11, <1>12,
     <1>13 DEF ScoreNext

(* A row that differs from the score has one of the named causes. *)
LEMMA ScoreInvExplains == ScoreInv => RowIsExplained
<1> SUFFICES ASSUME ScoreInv PROVE RowIsExplained
  OBVIOUS
<1>1. "overlap" \in mishaps \/ HighestIsKept
  BY DEF ScoreInv, OneReader, HighestIsKept, InStage
<1>2. WritesAtRest /\ row # score => mishaps \ {"overlap"} # {}
  <2>1. WritesAtRest => queued = 0 /\ ~WritesLatest
    BY DEF WritesAtRest, WritesLatest, Unused
  <2> QED
    BY <2>1
       DEF ScoreInv, LatestIsAdded, LatestIsOnItsWay, TableHasLatest, NothingWrong,
           WritesAtRest
<1> QED
  BY <1>1, <1>2 DEF RowIsExplained

-----------------------------------------------------------------------------
(***************************************************************************)
(* The read path of the stand-alone leaderboard.  What a request holds and *)
(* has not stored is told by the same formula as what is cached.           *)
(***************************************************************************)
ViewerState ==
  [stage : {"away", "ranked", "scored", "watching", "paged"},
   of : Rival, rank : BoardVersion, score : BoardVersion,
   cached : BOOLEAN, missed : BOOLEAN]

(* No rank changed at a version that is still to come. *)
ChangesArePast == version > 0 /\ \A p \in Rival : changed[p] <= version

(* Unless a read crossed the deletion of p's rank, every rank that is kept *)
(* or will be is no older than p's score.                                  *)
RanksAreFresh ==
  \A p \in Rival : clearing[p] # "rank" /\ p \notin rankCrossed =>
    /\ rankCache[p] >= changed[p] \/ rankCache[p] = 0
    /\ \A v \in Viewer :
         viewer[v].stage \in {"ranked", "scored"} /\ viewer[v].of = p =>
           viewer[v].cached \/ viewer[v].rank >= changed[p]

(* A viewer who watches a player whose change was announced has the new    *)
(* score, unless the announcement missed it.                               *)
WatchersAreTold ==
  \A v \in Viewer :
    viewer[v].stage \in {"scored", "watching"} /\ Announced(viewer[v].of) =>
      viewer[v].score = changed[viewer[v].of] \/ viewer[v].missed

(* When every change was announced and no read crossed a deletion, a page  *)
(* that is kept, or will be, is the current one.                           *)
PagesAreFresh ==
  (\A p \in Rival : Announced(p)) /\ ~pageCrossed =>
    /\ pageCache \in {0, version}
    /\ \A v \in Viewer : viewer[v].stage = "paged" => viewer[v].rank = version

(* The inductive invariant of the cached reads. *)
ReadsInv ==
  ReadsTypeOK /\ ChangesArePast /\ RanksAreFresh /\ WatchersAreTold
  /\ PagesAreFresh

(* A viewer who asks for nothing has a state like any other. *)
LEMMA AwayType == Away \in ViewerState
<1>1. SomeRival \in Rival
  BY ReadsAssumption DEF SomeRival
<1> QED
  BY <1>1, ReadsAssumption DEF Away, ViewerState, BoardVersion

(* At the start the caches are empty. *)
LEMMA ReadsInitInv == ReadsInit => ReadsInv
<1> SUFFICES ASSUME ReadsInit PROVE ReadsInv
  OBVIOUS
<1>1. 0 \in BoardVersion /\ 1 \in BoardVersion
  BY ReadsAssumption DEF BoardVersion
<1>2. ReadsTypeOK
  BY <1>1, AwayType DEF ReadsInit, ReadsTypeOK, ViewerState
<1> QED
  BY <1>1, <1>2
     DEF ReadsInit, ReadsInv, ChangesArePast, RanksAreFresh, WatchersAreTold,
         PagesAreFresh, Away

(* ReadsInv is inductive. *)
LEMMA ReadsStepInv ==
  ASSUME ReadsInv, [ReadsNext]_readsVars
  PROVE  ReadsInv'
<1> USE ReadsAssumption
    DEF ReadsInv, ReadsTypeOK, ViewerState, ChangesArePast, RanksAreFresh,
        WatchersAreTold, PagesAreFresh, Announced
<1>t. /\ version \in Nat /\ pageCache \in Nat
      /\ \A p \in Rival : changed[p] \in Nat /\ rankCache[p] \in Nat
      /\ \A v \in Viewer :
           /\ viewer[v] \in ViewerState
           /\ viewer[v].rank \in Nat /\ viewer[v].score \in Nat
  BY DEF BoardVersion
<1>1. ASSUME NEW p \in Rival, SetScore(p) PROVE ReadsInv'
  <2>1. /\ version' = version + 1 /\ version + 1 \in BoardVersion
        /\ changed' = [changed EXCEPT ![p] = version + 1]
        /\ clearing' = [clearing EXCEPT ![p] = "rank"]
        /\ UNCHANGED <<rankCache, pageCache, viewer, rankCrossed, pageCrossed>>
    BY <1>1 DEF SetScore, BoardVersion
  <2> QED
    BY <2>1, <1>t
<1>2. ASSUME NEW p \in Rival, ClearRank(p) PROVE ReadsInv'
  <2>1. /\ clearing' = [clearing EXCEPT ![p] = "pages"]
        /\ rankCache' = [rankCache EXCEPT ![p] = 0]
        /\ UNCHANGED <<version, changed, pageCache, viewer, pageCrossed>>
        /\ clearing[p] = "rank"
    BY <1>2 DEF ClearRank
  <2>2. /\ rankCrossed' \in {rankCrossed, rankCrossed \cup {p}}
        /\ p \in rankCrossed' \/ Positions({"ranked", "scored"}, p) = {}
    BY <1>2 DEF ClearRank
  <2>3. ReadsTypeOK' /\ ChangesArePast' /\ WatchersAreTold' /\ PagesAreFresh'
    BY <2>1, <2>2, <1>t DEF BoardVersion
  <2>4. RanksAreFresh'
    BY <2>1, <2>2, <1>t DEF Positions
  <2> QED
    BY <2>3, <2>4
<1>3. ASSUME NEW p \in Rival, ClearPages(p) PROVE ReadsInv'
  <2>1. /\ clearing[p] = "pages"
        /\ clearing' = [clearing EXCEPT ![p] = "no"] /\ pageCache' = 0
        /\ UNCHANGED <<version, changed, rankCache, rankCrossed>>
        /\ pageCrossed' = (pageCrossed \/ \E v \in Viewer : viewer[v].stage = "paged")
    BY <1>3 DEF ClearPages
  <2>2. viewer' = [v \in Viewer |->
          IF viewer[v].stage = "watching" /\ viewer[v].of = p
            THEN [viewer[v] EXCEPT !.score = changed[p]]
          ELSE IF viewer[v].stage = "scored" /\ viewer[v].of = p
            THEN [viewer[v] EXCEPT !.missed = TRUE] ELSE viewer[v]]
    BY <1>3 DEF ClearPages, Positions
  <2>3. \A v \in Viewer :
          /\ viewer'[v] \in ViewerState
          /\ viewer'[v].stage = viewer[v].stage /\ viewer'[v].of = viewer[v].of
          /\ viewer'[v].rank = viewer[v].rank
          /\ viewer'[v].cached = viewer[v].cached
          /\ viewer[v].of # p => viewer'[v] = viewer[v]
          /\ viewer[v].of = p /\ viewer[v].stage = "watching" =>
               viewer'[v].score = changed[p]
          /\ viewer[v].of = p /\ viewer[v].stage = "scored" => viewer'[v].missed
    BY <2>2, <1>t
  <2>4. ReadsTypeOK'
    <3>1. pageCrossed' \in BOOLEAN
      BY <2>1
    <3>2. viewer' \in [Viewer -> ViewerState]
      BY <2>2, <2>3
    <3> QED
      BY <2>1, <3>1, <3>2 DEF BoardVersion
  <2>5. RanksAreFresh'
    BY <2>1, <2>3, <1>t
  <2>6. WatchersAreTold'
    BY <2>1, <2>3, <1>t
  <2>7. PagesAreFresh'
    <3>1. ~pageCrossed' => \A v \in Viewer : viewer'[v].stage # "paged"
      BY <2>1, <2>3
    <3>2. pageCache' = 0
      BY <2>1
    <3> QED
      BY <3>1, <3>2
  <2> QED
    BY <2>1, <2>4, <2>5, <2>6, <2>7
<1>4. ASSUME NEW p \in Rival, FailClearing(p) PROVE ReadsInv'
  <2>1. /\ clearing' = [clearing EXCEPT ![p] = "no"] /\ pageCrossed' = TRUE
        /\ UNCHANGED <<version, changed, rankCache, pageCache>>
        /\ rankCrossed' = IF clearing[p] = "rank" THEN rankCrossed \cup {p}
                            ELSE rankCrossed
    BY <1>4 DEF FailClearing
  <2>2. viewer' = [v \in Viewer |->
          IF viewer[v].stage \in {"ranked", "scored", "watching"} /\ viewer[v].of = p
            THEN [viewer[v] EXCEPT !.missed = TRUE] ELSE viewer[v]]
    BY <1>4 DEF FailClearing, Positions
  <2>3. \A v \in Viewer :
          /\ viewer'[v] \in ViewerState
          /\ viewer'[v].stage = viewer[v].stage /\ viewer'[v].of = viewer[v].of
          /\ viewer'[v].rank = viewer[v].rank
          /\ viewer'[v].cached = viewer[v].cached
          /\ viewer[v].of # p => viewer'[v] = viewer[v]
          /\ viewer[v].of = p /\ viewer[v].stage \in {"scored", "watching"} =>
               viewer'[v].missed
    BY <2>2, <1>t
  <2>4. ReadsTypeOK'
    <3>1. viewer' \in [Viewer -> ViewerState]
      BY <2>2, <2>3
    <3> QED
      BY <2>1, <3>1
  <2>5. RanksAreFresh' /\ WatchersAreTold' /\ PagesAreFresh'
    BY <2>1, <2>3, <1>t
  <2> QED
    BY <2>1, <2>4, <2>5
<1>5. ASSUME NEW v \in Viewer, NEW p \in Rival, AskPosition(v, p) PROVE ReadsInv'
  <2> DEFINE new == [Away EXCEPT !.stage = "ranked", !.of = p,
                       !.cached = rankCache[p] # 0,
                       !.rank = IF rankCache[p] # 0 THEN rankCache[p] ELSE version]
  <2>1. /\ viewer' = [viewer EXCEPT ![v] = new]
        /\ UNCHANGED <<version, changed, clearing, rankCache, pageCache,
                       rankCrossed, pageCrossed>>
    BY <1>5 DEF AskPosition
  <2>2. /\ new \in ViewerState /\ new.stage = "ranked" /\ new.of = p
        /\ new.cached \/ new.rank = version
    BY AwayType, <1>t DEF BoardVersion
  <2> HIDE DEF new
  <2> QED
    BY <2>1, <2>2, <1>t
<1>6. ASSUME NEW v \in Viewer, AskScore(v) PROVE ReadsInv'
  <2> DEFINE new == [viewer[v] EXCEPT !.stage = "scored",
                                      !.score = changed[viewer[v].of]]
  <2>1. /\ viewer' = [viewer EXCEPT ![v] = new] /\ viewer[v].stage = "ranked"
        /\ UNCHANGED <<version, changed, clearing, rankCache, pageCache,
                       rankCrossed, pageCrossed>>
    BY <1>6 DEF AskScore
  <2>2. /\ new \in ViewerState /\ new.stage = "scored" /\ new.of = viewer[v].of
        /\ new.rank = viewer[v].rank /\ new.cached = viewer[v].cached
        /\ new.score = changed[new.of]
    BY <1>t
  <2> HIDE DEF new
  <2> QED
    BY <2>1, <2>2, <1>t
<1>7. ASSUME NEW v \in Viewer, AnswerPosition(v) PROVE ReadsInv'
  <2> DEFINE p == viewer[v].of
  <2>1. /\ viewer[v].stage = "scored" /\ p \in Rival
        /\ rankCache' = IF viewer[v].cached THEN rankCache
                        ELSE [rankCache EXCEPT ![p] = viewer[v].rank]
        /\ UNCHANGED <<version, changed, clearing, pageCache, rankCrossed,
                       pageCrossed>>
    BY <1>7, <1>t DEF AnswerPosition
  <2>2. /\ viewer' \in [Viewer -> ViewerState]
        /\ \A w \in Viewer \ {v} : viewer'[w] = viewer[w]
        /\ \/ viewer'[v].stage = "away"
           \/ /\ viewer'[v].stage = "watching" /\ viewer'[v].of = p
              /\ viewer'[v].score = viewer[v].score
              /\ viewer'[v].missed = viewer[v].missed
    <3>1. CASE viewer' = [viewer EXCEPT ![v] = Away]
      BY <3>1, AwayType DEF Away
    <3>2. CASE viewer' = [viewer EXCEPT ![v].stage = "watching", ![v].rank = 0,
                                        ![v].cached = FALSE]
      <4>1. viewer'[v] = [viewer[v] EXCEPT !.stage = "watching", !.rank = 0,
                                           !.cached = FALSE]
        BY <3>2
      <4>2. viewer'[v] \in ViewerState
        <5>1. viewer'[v] = [stage |-> "watching", of |-> viewer[v].of, rank |-> 0,
                            score |-> viewer[v].score, cached |-> FALSE,
                            missed |-> viewer[v].missed]
          BY <4>1, <1>t
        <5>2. 0 \in BoardVersion
          BY DEF BoardVersion
        <5> QED
          BY <5>1, <5>2, <1>t
      <4> QED
        BY <3>2, <4>1, <4>2, <1>t
    <3> QED
      BY <1>7, <3>1, <3>2 DEF AnswerPosition
  <2>3. rankCache' \in [Rival -> BoardVersion]
    BY <2>1, <1>t
  <2>4. RanksAreFresh'
    BY <2>1, <2>2, <1>t
  <2> QED
    BY <2>1, <2>2, <2>3, <2>4, <1>t
<1>8. ASSUME NEW v \in Viewer, AskPage(v) PROVE ReadsInv'
  <2>1. /\ viewer' = [viewer EXCEPT ![v] =
             [viewer[v] EXCEPT !.stage = "paged", !.rank = version]]
        /\ UNCHANGED <<version, changed, clearing, rankCache, pageCache,
                       rankCrossed, pageCrossed>>
    BY <1>8 DEF AskPage
  <2>2. viewer'[v] \in ViewerState /\ viewer'[v].stage = "paged"
        /\ viewer'[v].rank = version
    BY <2>1, <1>t
  <2> QED
    BY <2>1, <2>2, <1>t
<1>9. ASSUME NEW v \in Viewer, AnswerPage(v) PROVE ReadsInv'
  <2>1. Away \in ViewerState /\ Away.stage = "away"
    BY AwayType DEF Away
  <2> QED
    BY <1>9, <2>1, <1>t DEF AnswerPage
<1>10. ASSUME NEW v \in Viewer, Leave(v) PROVE ReadsInv'
  <2>1. Away \in ViewerState /\ Away.stage = "away"
    BY AwayType DEF Away
  <2> QED
    BY <1>10, <2>1, <1>t DEF Leave
<1>11. CASE ExpireReads
  <2>1. 0 \in BoardVersion
    BY DEF BoardVersion
  <2>2. CASE \E p \in Rival : rankCache' = [rankCache EXCEPT ![p] = 0]
    BY <1>11, <2>1, <2>2, <1>t DEF ExpireReads
  <2>3. CASE pageCache' = 0 /\ UNCHANGED rankCache
    BY <1>11, <2>1, <2>3, <1>t DEF ExpireReads
  <2> QED
    BY <1>11, <2>2, <2>3 DEF ExpireReads
<1>12. CASE UNCHANGED readsVars
  BY <1>12 DEF readsVars
<1> QED
  BY <1>1, <1>2, <1>3, <1>4, <1>5, <1>6, <1>7, <1>8, <1>9, <1>10, <1>11, <1>12
     DEF ReadsNext

(* A stale rank, page or watcher has one of the named causes. *)
LEMMA ReadsInvExplains == ReadsInv => ReadsAreExplained
BY DEF ReadsInv, ReadsTypeOK, RanksAreFresh, WatchersAreTold, PagesAreFresh,
       ReadsAreExplained, Announced, Positions

-----------------------------------------------------------------------------
(***************************************************************************)
(* The client of the stand-alone leaderboard.  The last request of a kind  *)
(* that did not cross another one is the only one of its kind whose answer *)
(* may still come.                                                         *)
(***************************************************************************)
AlonePerKind ==
  \A k \in Kind :
    newest[k] # NoAsk =>
      /\ ask[newest[k]].kind = k /\ ask[newest[k]].stage # "new"
      /\ ~crossing[k] =>
           \A b \in Ask \ {newest[k]} : ask[b].kind = k => ask[b].stage \notin Out

(* A submission carries a score and is sent at once. *)
AskShapes ==
  \A a \in Ask :
    ask[a].kind = "submit" => ask[a].score > 0 /\ ask[a].stage # "new"

(* The inductive invariant of the client. *)
ClientInv == ClientTypeOK /\ AlonePerKind /\ AskShapes /\ DisplayIsExplained

(* At the start nothing was asked for. *)
LEMMA ClientInitInv == ClientInit => ClientInv
<1>1. 0 \in 0..MaxTries /\ 0 \in 0..MaxSubmit
  BY ClientAssumption
<1> QED
  BY <1>1 DEF ClientInit, ClientInv, ClientTypeOK, AlonePerKind, AskShapes,
      DisplayIsExplained, Kind, Out, NoEntry

(* ClientInv is inductive. *)
LEMMA ClientStepInv ==
  ASSUME ClientInv, [ClientNext]_clientVars
  PROVE  ClientInv'
<1> USE ClientAssumption DEF ClientInv, ClientTypeOK, AlonePerKind, AskShapes,
      DisplayIsExplained, Kind, Out, NoEntry, EntryOf
<1>1. CASE Connected
  BY <1>1 DEF Connected
<1>2. CASE ConnectError
  <2>1. attempts + 1 \in 0..MaxTries
    BY <1>2 DEF ConnectError
  <2> QED
    BY <1>2, <2>1 DEF ConnectError
<1>3. CASE Disconnected
  BY <1>3 DEF Disconnected
<1>4. ASSUME NEW a \in Ask, SubmitOptimistic(a) PROVE ClientInv'
  <2>1. PICK given \in 1..MaxSubmit :
          /\ MakeAsk(a, "submit", given)
          /\ entry' = IF socket = "online"
                        THEN [score |-> given, confirmed |-> FALSE] ELSE NoEntry
    BY <1>4 DEF SubmitOptimistic
  <2>2. /\ ask' \in [Ask -> [kind : Kind, score : 0..MaxSubmit,
                            stage : Out \cup {"new", "answered", "refused", "lost"}]]
        /\ \A b \in Ask : b # a => ask'[b] = ask[b]
        /\ ask'[a] = [kind |-> "submit", score |-> given,
                     stage |-> IF socket = "online" THEN "sent" ELSE "refused"]
    BY <2>1 DEF MakeAsk
  <2>3. /\ newest' \in [Kind -> Ask \cup {NoAsk}] /\ crossing' \in [Kind -> BOOLEAN]
        /\ newest'["submit"] = a /\ newest'["refresh"] = newest["refresh"]
        /\ crossing'["refresh"] = crossing["refresh"]
        /\ ~crossing'["submit"] =>
             \A b \in Ask : ask[b].kind = "submit" => ask[b].stage \notin Out
    BY <2>1 DEF MakeAsk
  <2>4. ask[a].stage = "new" /\ UNCHANGED <<socket, attempts, displayed>>
    BY <2>1 DEF MakeAsk
  <2>5. ClientTypeOK' /\ AskShapes'
    <3>1. entry' \in [score : 0..MaxSubmit, confirmed : BOOLEAN]
      BY <2>1
    <3> QED
      BY <2>2, <2>3, <2>4, <3>1
  <2>6. AlonePerKind'
    BY <2>2, <2>3, <2>4
  <2>7. DisplayIsExplained'
    <3>1. entry' = EntryOf(a)'
      <4>1. CASE socket = "online"
        <5>1. /\ ask'[a].stage = "sent" /\ ask'[a].score = given
              /\ entry' = [score |-> given, confirmed |-> FALSE]
          BY <2>1, <2>2, <4>1
        <5> QED
          BY <5>1
      <4>2. CASE socket # "online"
        <5>1. ask'[a].stage = "refused" /\ entry' = NoEntry
          BY <2>1, <2>2, <4>2
        <5> QED
          BY <5>1
      <4> QED
        BY <4>1, <4>2
    <3>2. newest["refresh"] # NoAsk => newest["refresh"] \in Ask \ {a}
      BY <2>4
    <3> QED
      BY <2>2, <2>3, <2>4, <3>1, <3>2
  <2> QED
    BY <2>5, <2>6, <2>7
<1>5. ASSUME NEW a \in Ask, Refresh(a) PROVE ClientInv'
  BY <1>5 DEF Refresh, MakeAsk
<1>6. ASSUME NEW a \in Ask, ServeAsk(a) PROVE ClientInv'
  BY <1>6 DEF ServeAsk
<1>7. ASSUME NEW a \in Ask, RefreshAnswered(a) PROVE ClientInv'
  BY <1>7 DEF RefreshAnswered
<1>8. ASSUME NEW a \in Ask, SubmitConfirmed(a) PROVE ClientInv'
  <2>1. /\ ask' \in [Ask -> [kind : Kind, score : 0..MaxSubmit,
                            stage : Out \cup {"new", "answered", "refused", "lost"}]]
        /\ \A b \in Ask : b # a => ask'[b] = ask[b]
        /\ ask'[a] = [ask[a] EXCEPT !.stage = "answered"]
        /\ ask[a].kind = "submit" /\ ask[a].stage = "accepted"
    BY <1>8 DEF SubmitConfirmed
  <2>2. /\ entry' = IF entry = NoEntry THEN entry
                     ELSE [entry EXCEPT !.confirmed = TRUE]
        /\ UNCHANGED <<socket, attempts, newest, crossing, displayed>>
    BY <1>8 DEF SubmitConfirmed
  <2>3. ClientTypeOK' /\ AskShapes' /\ AlonePerKind'
    <3>1. entry' \in [score : 0..MaxSubmit, confirmed : BOOLEAN]
      BY <2>2
    <3> QED
      BY <2>1, <2>2, <3>1
  <2>4. newest["submit"] # NoAsk /\ ~crossing["submit"] => newest["submit"] = a
    BY <2>1
  <2>5. newest["submit"] = a /\ ~crossing["submit"] => entry' = EntryOf(a)'
    <3> SUFFICES ASSUME newest["submit"] = a, ~crossing["submit"]
                 PROVE  entry' = EntryOf(a)'
      OBVIOUS
    <3>1. a # NoAsk /\ entry = [score |-> ask[a].score, confirmed |-> FALSE]
      BY <2>1
    <3>2. entry # NoEntry
      BY <2>1, <3>1
    <3>3. entry' = [score |-> ask[a].score, confirmed |-> TRUE]
      BY <2>2, <3>1, <3>2
    <3> QED
      BY <2>1, <3>3
  <2>6. newest["refresh"] # a
    BY <2>1
  <2>7. DisplayIsExplained'
    BY <2>1, <2>2, <2>4, <2>5, <2>6
  <2> QED
    BY <2>3, <2>7
<1>9. ASSUME NEW a \in Ask, SubmitRefused(a) PROVE ClientInv'
  BY <1>9 DEF SubmitRefused
<1>10. CASE UNCHANGED clientVars
  BY <1>10 DEF clientVars
<1> QED
  BY <1>1, <1>2, <1>3, <1>4, <1>5, <1>6, <1>7, <1>8, <1>9, <1>10 DEF ClientNext

-----------------------------------------------------------------------------
(***************************************************************************)
(* The backup script.  What was uploaded or is being uploaded was          *)
(* archived, and once no listing is left the old files that are there are  *)
(* the ones with a removal under way, unless a step failed.                *)
(***************************************************************************)
Archived ==
  \A d \in Dump : dump[d] \in {"uploading", "done"} =>
    archive[d] # "none" /\ (archive[d] = "partial" => <<d, "tar">> \in failed)

(* A dump that is done has the archive in the bucket, or its upload failed. *)
UploadedOrFailed ==
  \A d \in Dump : dump[d] = "done" /\ s3Enabled =>
    object[d] = archive[d] \/ <<d, "upload">> \in failed

CleaningFailed ==
  \E d \in Dump, task \in {"readdir", "remove"} : <<d, task>> \in failed

(* Once no listing is left, what is kept of the old files is being         *)
(* removed, unless the cleaning failed.                                    *)
OldIsDoomed ==
  (\E d \in Dump : dump[d] = "done") /\ ~once /\ listing = {} =>
    kept = doomed \/ CleaningFailed

(* The inductive invariant of the script. *)
BackupInv == BackupTypeOK /\ Archived /\ UploadedOrFailed /\ OldIsDoomed

(* At the start nothing was dumped. *)
LEMMA BackupInitInv == BackupInit => BackupInv
BY DEF BackupInit, BackupInv, BackupTypeOK, Archived, UploadedOrFailed,
       OldIsDoomed, Content

(* A failed step is added, and none is taken back. *)
LEMMA FailStepGrows ==
  ASSUME BackupTypeOK, NEW d \in Dump, NEW task \in Step, FailStep(d, task)
  PROVE  /\ failed' \subseteq Dump \X Step
         /\ failed \subseteq failed' /\ <<d, task>> \in failed'
BY DEF FailStep, BackupTypeOK

(* BackupInv is inductive. *)
LEMMA BackupStepInv ==
  ASSUME BackupInv, [BackupNext]_backupVars
  PROVE  BackupInv'
<1> USE DEF BackupInv, BackupTypeOK, Archived, UploadedOrFailed, OldIsDoomed,
            CleaningFailed, Content
<1>1. ASSUME NEW d \in Dump, StartBackup(d) PROVE BackupInv'
  BY <1>1 DEF StartBackup, Running
<1>2. ASSUME NEW d \in Dump, Dumped(d) PROVE BackupInv'
  <2>1. CASE Reject(d, "mongodump")
    <3>1. FailStep(d, "mongodump")
      BY <2>1 DEF Reject
    <3>2. failed' \subseteq Dump \X Step /\ failed \subseteq failed'
      BY <3>1, FailStepGrows DEF Step
    <3> QED
      BY <1>2, <2>1, <3>2 DEF Dumped, Running, Reject
  <2> QED
    BY <1>2, <2>1 DEF Dumped, Running
<1>3. ASSUME NEW d \in Dump, Compressed(d) PROVE BackupInv'
  <2>1. PICK content \in Content \ {"none"} :
          /\ archive' = [archive EXCEPT ![d] = content]
          /\ content = "partial" => FailStep(d, "tar")
          /\ content # "partial" => UNCHANGED failed
    BY <1>3 DEF Compressed
  <2>2. /\ failed' \subseteq Dump \X Step /\ failed \subseteq failed'
        /\ content = "partial" => <<d, "tar">> \in failed'
    BY <2>1, FailStepGrows DEF Step
  <2>3. /\ UNCHANGED <<once, s3Enabled, object, doomed, kept>>
        /\ dump[d] = "compressing"
    BY <1>3 DEF Compressed, Running
  <2>4. CASE s3Enabled
    <3>1. dump' = [dump EXCEPT ![d] = "uploading"] /\ UNCHANGED <<exited, listing>>
      BY <1>3, <2>4 DEF Compressed
    <3> QED
      BY <2>1, <2>2, <2>3, <3>1
  <2>5. CASE ~s3Enabled
    <3>1. CleanUp(d)
      BY <1>3, <2>5 DEF Compressed
    <3> QED
      BY <2>1, <2>2, <2>3, <2>5, <3>1 DEF CleanUp
  <2> QED
    BY <2>4, <2>5
<1>4. ASSUME NEW d \in Dump, CompressFails(d) PROVE BackupInv'
  <2>1. Reject(d, "stream") /\ FailStep(d, "stream")
    BY <1>4 DEF CompressFails, Reject
  <2>2. failed' \subseteq Dump \X Step /\ failed \subseteq failed'
    BY <2>1, FailStepGrows DEF Step
  <2> QED
    BY <1>4, <2>1, <2>2 DEF CompressFails, Running, Reject
<1>5. ASSUME NEW d \in Dump, CompressHangs(d) PROVE BackupInv'
  BY <1>5 DEF CompressHangs, Running
<1>6. ASSUME NEW d \in Dump, Uploaded(d) PROVE BackupInv'
  <2>1. /\ failed' \subseteq Dump \X Step /\ failed \subseteq failed'
        /\ \/ object' = [object EXCEPT ![d] = archive[d]]
           \/ object' = object /\ <<d, "upload">> \in failed'
    BY <1>6, FailStepGrows DEF Uploaded, Step
  <2>2. /\ UNCHANGED <<once, s3Enabled, archive, doomed, kept>>
        /\ dump[d] = "uploading" /\ CleanUp(d)
    BY <1>6 DEF Uploaded, Running
  <2> QED
    BY <2>1, <2>2 DEF CleanUp
<1>7. ASSUME NEW d \in Dump, List(d) PROVE BackupInv'
  <2>1. \/ doomed' = kept /\ UNCHANGED failed
        \/ /\ UNCHANGED doomed /\ failed' \subseteq Dump \X Step
           /\ failed \subseteq failed' /\ <<d, "readdir">> \in failed'
    BY <1>7, FailStepGrows DEF List, Step
  <2> QED
    BY <1>7, <2>1 DEF List
<1>8. ASSUME NEW f \in Old, Remove(f) PROVE BackupInv'
  <2>1. \/ kept' = kept \ {f} /\ UNCHANGED failed
        \/ /\ UNCHANGED kept /\ failed' \subseteq Dump \X Step
           /\ failed \subseteq failed'
           /\ \E d \in Dump : <<d, "remove">> \in failed'
    BY <1>8, FailStepGrows DEF Remove, Step
  <2>2. /\ UNCHANGED <<once, s3Enabled, exited, dump, archive, object, listing>>
        /\ doomed' = doomed \ {f}
    BY <1>8 DEF Remove
  <2> QED
    BY <2>1, <2>2
<1>9. CASE UNCHANGED backupVars
  BY <1>9 DEF backupVars
<1> QED
  BY <1>1, <1>2, <1>3, <1>4, <1>5, <1>6, <1>7, <1>8, <1>9 DEF BackupNext

(* A success without a whole archive has one of the named causes. *)
LEMMA BackupInvExplains == BackupInv => BackupIsExplained
BY DEF BackupInv, BackupIsExplained, Archived, UploadedOrFailed, OldIsDoomed,
       CleaningFailed

-----------------------------------------------------------------------------
(***************************************************************************)
(* All parts in the composition.                                           *)
(***************************************************************************)
PartsInv ==
  /\ FanoutInv /\ FlagInv /\ SearchInv
  /\ ScoreInv /\ ReadsInv /\ ClientInv /\ BackupInv

(* The inductive invariant of the parts that are not workers. *)
THEOREM PartsInvariant == ServicesSpec => []PartsInv
<1>1. ServicesInit => PartsInv
  BY FanoutInitInv, FlagInitInv, SearchInitInv, ScoreInitInv, ReadsInitInv,
     ClientInitInv, BackupInitInv
     DEF ServicesInit, PartsInv
<1>2. PartsInv /\ [ServicesNext]_servicesVars => PartsInv'
  BY PartsStep, FanoutStepInv, FlagStepInv, SearchStepInv, ScoreStepInv,
     ReadsStepInv, ClientStepInv, BackupStepInv
     DEF PartsInv
<1> QED
  BY <1>1, <1>2, PTL DEF ServicesSpec

(* Every variable of the eleven parts keeps its type. *)
THEOREM TypeCorrect == ServicesSpec => []TypeOK
<1>1. WorkersInv /\ PartsInv => TypeOK
  BY WatcherInvType, MailTypeInvType, FanoutInvType, FlagInvType, SearchInvType
     DEF WorkersInv, PartsInv, PollerInv, HealthInv, ScoreInv, ReadsInv, ClientInv,
         BackupInv, TypeOK
<1> QED
  BY <1>1, WorkersInvariant, PartsInvariant, PTL

(* What the read-through caches serve is what their sources hold, but for  *)
(* the causes the parts name: flags (featureFlagService.ts), results of a  *)
(* search (searchService.ts), ranks and pages (leaderboard-server.js).     *)
THEOREM CachedAnswersAreExplained == ServicesSpec => []CachedAnswerIsExplained
<1>1. PartsInv => CachedAnswerIsExplained
  BY FlagInvExplains, SearchInvExplains, ReadsInvExplains
     DEF PartsInv, CachedAnswerIsExplained
<1> QED
  BY <1>1, PartsInvariant, PTL

(* What a client of a leaderboard shows is the board's or its own last     *)
(* submission, but for the causes the parts name (leaderboardRoutes.ts,    *)
(* leaderboard-client.js).                                                 *)
THEOREM ClientViewsAreExplained == ServicesSpec => []ClientViewIsExplained
<1>1. PartsInv => ClientViewIsExplained
  BY FanoutInvExplains DEF PartsInv, ClientInv, ClientViewIsExplained
<1> QED
  BY <1>1, PartsInvariant, PTL

(* The row of a player on the stand-alone server is the player's score, or *)
(* on its way there, or one of the named mishaps happened                  *)
(* (leaderboard-server.js).                                                *)
THEOREM RowsAreExplained == ServicesSpec => []RowIsExplained
<1>1. PartsInv => RowIsExplained
  BY ScoreInvExplains DEF PartsInv
<1> QED
  BY <1>1, PartsInvariant, PTL

(* A worker that answers ready consumes, or did until its connection was   *)
(* lost, and a backup that reports success made one, but for the causes    *)
(* the parts name (workerHealth.ts, dbBackup.js).                          *)
THEOREM ReportsAreExplained == ServicesSpec => []ReportIsExplained
<1>1. WorkersInv /\ PartsInv => ReportIsExplained
  BY BackupInvExplains DEF WorkersInv, PartsInv, HealthInv, ReportIsExplained
<1> QED
  BY <1>1, WorkersInvariant, PartsInvariant, PTL
=============================================================================
