--------------------------- MODULE IdentityProofs ---------------------------
(***************************************************************************)
(* Theorems about accounts and sessions, the cookies of Google sign-ins    *)
(* and API keys, for any numbers of accounts, requests, flows, keys and    *)
(* calls.  Each part has an inductive invariant of its own; the last       *)
(* section puts them together.                                             *)
(***************************************************************************)
EXTENDS MCIdentity, TLAPS, FiniteSetTheorems

(***************************************************************************)
(* Accounts.  A request that was made is a record.                         *)
(***************************************************************************)
CallRecord ==
  [op : Op, email : Email, given : Password \cup {None, "right", "wrong"},
   new : Password \cup {None}, token : Token \cup {None},
   phase : {"select", "verify", "write", "done"},
   result : {None, "ok", "created", "refused", "error"},
   seen : Row, since : SUBSET Row, before : SUBSET Request]

(* The type invariant that the proofs use: AccountTypeOK without its       *)
(* bounds.                                                                 *)
AccountTypes ==
  /\ user \in [Email -> Row] /\ initially \in [Email -> Row]
  /\ expired \subseteq Token
  /\ outbox \subseteq Mail /\ mailbox \subseteq Mail
  /\ signedIn \subseteq Email /\ cookie \subseteq signedIn
  /\ req \in [Request -> CallRecord \cup {NoCall}]

(* Who was answered before a request was made is still answered. *)
BeforeIsAnswered ==
  \A q \in Request : req[q] # NoCall => \A r \in req[q].before : Answered(r)

(* What a request in progress knows of its account: the row it has is one  *)
(* of those since it began, and so is the row it read.                     *)
SeenTells(op, given, token, phase, seen) ==
  /\ op = "login" => phase = "verify" /\ seen.exists
  /\ op = "change" => seen.exists /\ (phase = "write" => seen.password = given)
  /\ op = "reset" => seen.reset = token
  /\ op = "confirm" => seen.exists /\ ~seen.confirmed /\ given = "right"
  /\ op = "forgot" => seen.exists

RequestsKnow ==
  \A q \in Request : Busy(q) =>
    /\ user[req[q].email] \in req[q].since
    /\ req[q].op = "login" => req[q].given \in Password
    /\ req[q].phase # "select" =>
         /\ req[q].seen \in req[q].since
         /\ req[q].seen.exists => user[req[q].email].exists
         /\ SeenTells(req[q].op, req[q].given, req[q].token, req[q].phase,
                      req[q].seen)

(* A call is answered; another one stays as it is, but for its `since`. *)
Closed(q, result) ==
  /\ req'[q] \in CallRecord /\ req'[q].phase = "done" /\ req'[q].result = result
  /\ req'[q].op = req[q].op /\ req'[q].email = req[q].email
  /\ req'[q].given = req[q].given /\ req'[q].new = req[q].new
  /\ req'[q].token = req[q].token /\ req'[q].before = req[q].before

SameCall(r) ==
  /\ req'[r] \in CallRecord \cup {NoCall} /\ (req'[r] = NoCall <=> req[r] = NoCall)
  /\ req'[r].phase = req[r].phase /\ req'[r].result = req[r].result
  /\ req'[r].op = req[r].op /\ req'[r].email = req[r].email
  /\ req'[r].given = req[r].given /\ req'[r].new = req[r].new
  /\ req'[r].token = req[r].token /\ req'[r].before = req[r].before
  /\ req'[r].seen = req[r].seen
  /\ Busy(r) => req[r].since \subseteq req'[r].since

(* A request is not made yet, in progress, or answered. *)
LEMMA CallKinds ==
  ASSUME AccountTypes, NEW q \in Request
  PROVE  /\ Busy(q) => req[q] \in CallRecord /\ req[q] # NoCall
         /\ Answered(q) => req[q] \in CallRecord /\ req[q] # NoCall
         /\ req[q] = NoCall <=> req[q].phase = "idle"
         /\ \/ req[q] = NoCall /\ req[q].phase = "idle"
            \/ req[q] \in CallRecord /\ (Busy(q) \/ Answered(q))
         /\ NoCall.phase = "idle" /\ NoCall.op = "none" /\ NoCall.result = "none"
BY DEF AccountTypes, CallRecord, NoCall, Busy, Answered, None

(* The record that an answer leaves, written out field by field. *)
LEMMA ReplyFields ==
  ASSUME NEW q, req[q] \in CallRecord, NEW result
  PROVE  Reply(q, result) =
           [op |-> req[q].op, email |-> req[q].email, given |-> req[q].given,
            new |-> req[q].new, token |-> req[q].token, phase |-> "done",
            result |-> result, seen |-> NoRow, since |-> {},
            before |-> req[q].before]
<1>1. PICK c : c = req[q]
  OBVIOUS
<1>2. c = [op |-> c.op, email |-> c.email, given |-> c.given, new |-> c.new,
           token |-> c.token, phase |-> c.phase, result |-> c.result,
           seen |-> c.seen, since |-> c.since, before |-> c.before]
  BY <1>1 DEF CallRecord
<1>3. PICK c1 : c1 = [c EXCEPT !.phase = "done"]
  OBVIOUS
<1>4. c1 = [op |-> c.op, email |-> c.email, given |-> c.given, new |-> c.new,
           token |-> c.token, phase |-> "done", result |-> c.result,
           seen |-> c.seen, since |-> c.since, before |-> c.before]
  BY <1>2, <1>3
<1>5. PICK c2 : c2 = [c1 EXCEPT !.result = result]
  OBVIOUS
<1>6. c2 = [op |-> c.op, email |-> c.email, given |-> c.given, new |-> c.new,
           token |-> c.token, phase |-> "done", result |-> result,
           seen |-> c.seen, since |-> c.since, before |-> c.before]
  BY <1>4, <1>5
<1>7. PICK c3 : c3 = [c2 EXCEPT !.seen = NoRow]
  OBVIOUS
<1>8. c3 = [op |-> c.op, email |-> c.email, given |-> c.given, new |-> c.new,
           token |-> c.token, phase |-> "done", result |-> result,
           seen |-> NoRow, since |-> c.since, before |-> c.before]
  BY <1>6, <1>7
<1>9. [c3 EXCEPT !.since = {}] =
          [op |-> c.op, email |-> c.email, given |-> c.given, new |-> c.new,
           token |-> c.token, phase |-> "done", result |-> result,
           seen |-> NoRow, since |-> {}, before |-> c.before]
  BY <1>8
<1>10. Reply(q, result) = [c3 EXCEPT !.since = {}]
  BY <1>1, <1>3, <1>5, <1>7 DEF Reply
<1> QED
  BY <1>1, <1>9, <1>10

(* An answer without a write closes its call and leaves the others alone. *)
LEMMA AnswerCloses ==
  ASSUME AccountTypes, NEW q \in Request, Busy(q),
         NEW result \in {"ok", "created", "refused", "error"}, Answer(q, result)
  PROVE  /\ Closed(q, result)
         /\ req' \in [Request -> CallRecord \cup {NoCall}]
         /\ \A r \in Request \ {q} : req'[r] = req[r] /\ SameCall(r)
<1>1. req[q] \in CallRecord /\ req \in [Request -> CallRecord \cup {NoCall}]
  BY CallKinds DEF AccountTypes
<1>2. NoRow \in Row
  BY DEF NoRow, Row
<1>3. Reply(q, result) =
        [op |-> req[q].op, email |-> req[q].email, given |-> req[q].given,
         new |-> req[q].new, token |-> req[q].token, phase |-> "done",
         result |-> result, seen |-> NoRow, since |-> {}, before |-> req[q].before]
  BY <1>1, ReplyFields
<1>4. Reply(q, result) \in CallRecord
  BY <1>1, <1>2, <1>3 DEF CallRecord
<1>5. /\ req'[q] = Reply(q, result)
      /\ req' \in [Request -> CallRecord \cup {NoCall}]
      /\ \A r \in Request \ {q} : req'[r] = req[r]
  BY <1>1, <1>4 DEF Answer
<1>6. Closed(q, result)
  BY <1>3, <1>4, <1>5 DEF Closed
<1> QED
  BY <1>1, <1>5, <1>6 DEF SameCall

(* An answer with a write does so too, and every call in progress on the   *)
(* account learns of the new row.                                          *)
LEMMA StoreCloses ==
  ASSUME AccountTypes, NEW q \in Request, Busy(q), NEW acc \in Row,
         NEW result \in {"ok", "created", "refused", "error"},
         Store(q, acc, result)
  PROVE  /\ Closed(q, result)
         /\ req' \in [Request -> CallRecord \cup {NoCall}]
         /\ \A r \in Request \ {q} :
              /\ SameCall(r)
              /\ Busy(r) /\ req[r].email = req[q].email => acc \in req'[r].since
         /\ user' \in [Email -> Row] /\ user'[req[q].email] = acc
         /\ \A e \in Email : e # req[q].email => user'[e] = user[e]
<1>1. /\ req[q] \in CallRecord /\ req \in [Request -> CallRecord \cup {NoCall}]
      /\ req[q].email \in Email /\ user \in [Email -> Row]
  BY CallKinds DEF AccountTypes, CallRecord
<1>2. NoRow \in Row
  BY DEF NoRow, Row
<1>3. Reply(q, result) =
        [op |-> req[q].op, email |-> req[q].email, given |-> req[q].given,
         new |-> req[q].new, token |-> req[q].token, phase |-> "done",
         result |-> result, seen |-> NoRow, since |-> {}, before |-> req[q].before]
  BY <1>1, ReplyFields
<1>4. Reply(q, result) \in CallRecord
  BY <1>1, <1>2, <1>3 DEF CallRecord
<1>5. req' = [r \in Request |->
        IF r = q THEN Reply(q, result)
        ELSE IF Busy(r) /\ req[r].email = req[q].email
          THEN [req[r] EXCEPT !.since = @ \cup {acc}]
        ELSE req[r]]
  BY DEF Store
<1>6. Closed(q, result)
  BY <1>3, <1>4, <1>5 DEF Closed
<1>7. ASSUME NEW r \in Request \ {q}
      PROVE  /\ SameCall(r)
             /\ Busy(r) /\ req[r].email = req[q].email => acc \in req'[r].since
  <2>1. CASE Busy(r) /\ req[r].email = req[q].email
    <3>1. req[r] \in CallRecord
      BY <2>1, CallKinds
    <3>2. req'[r] =
            [op |-> req[r].op, email |-> req[r].email, given |-> req[r].given,
             new |-> req[r].new, token |-> req[r].token, phase |-> req[r].phase,
             result |-> req[r].result, seen |-> req[r].seen,
             since |-> req[r].since \cup {acc}, before |-> req[r].before]
      BY <2>1, <3>1, <1>5 DEF CallRecord
    <3>3. req'[r] \in CallRecord
      BY <3>1, <3>2 DEF CallRecord
    <3>4. req'[r] # NoCall /\ req[r] # NoCall
      BY <3>1, <3>3 DEF CallRecord, NoCall
    <3> QED
      BY <3>2, <3>3, <3>4 DEF SameCall
  <2>2. CASE ~(Busy(r) /\ req[r].email = req[q].email)
    <3>1. req'[r] = req[r]
      BY <2>2, <1>5
    <3> QED
      BY <2>2, <3>1, <1>1 DEF SameCall
  <2> QED
    BY <2>1, <2>2
<1>8. req' \in [Request -> CallRecord \cup {NoCall}]
  <2>1. \A r \in Request : req'[r] \in CallRecord \cup {NoCall}
    BY <1>6, <1>7 DEF Closed, SameCall
  <2> QED
    BY <2>1, <1>5
<1>9. /\ user' \in [Email -> Row] /\ user'[req[q].email] = acc
      /\ \A e \in Email : e # req[q].email => user'[e] = user[e]
  BY <1>1 DEF Store
<1> QED
  BY <1>6, <1>7, <1>8, <1>9

(* The call goes on with a row. *)
Moved(q, phase, acc) ==
  /\ req'[q] \in CallRecord /\ req'[q].phase = phase /\ req'[q].result = req[q].result
  /\ req'[q].op = req[q].op /\ req'[q].email = req[q].email
  /\ req'[q].given = req[q].given /\ req'[q].new = req[q].new
  /\ req'[q].token = req[q].token /\ req'[q].before = req[q].before
  /\ req'[q].seen = acc /\ req'[q].since = req[q].since

Goes(q, phase, acc) ==
  req' = [req EXCEPT ![q].phase = phase, ![q].seen = acc]

(* Going on changes the phase and the row that was read, and nothing else. *)
LEMMA GoingOnMoves ==
  ASSUME AccountTypes, NEW q \in Request, Busy(q), NEW acc \in Row,
         NEW phase \in {"verify", "write"}, Goes(q, phase, acc)
  PROVE  /\ Moved(q, phase, acc)
         /\ req' \in [Request -> CallRecord \cup {NoCall}]
         /\ \A r \in Request \ {q} : req'[r] = req[r] /\ SameCall(r)
<1>1. req[q] \in CallRecord /\ req \in [Request -> CallRecord \cup {NoCall}]
  BY CallKinds DEF AccountTypes
<1>2. PICK c : c = req[q]
  OBVIOUS
<1>3. c = [op |-> c.op, email |-> c.email, given |-> c.given, new |-> c.new,
           token |-> c.token, phase |-> c.phase, result |-> c.result,
           seen |-> c.seen, since |-> c.since, before |-> c.before]
  BY <1>1, <1>2 DEF CallRecord
<1>4. PICK c1 : c1 = [c EXCEPT !.phase = phase]
  OBVIOUS
<1>5. c1 = [op |-> c.op, email |-> c.email, given |-> c.given, new |-> c.new,
            token |-> c.token, phase |-> phase, result |-> c.result,
            seen |-> c.seen, since |-> c.since, before |-> c.before]
  BY <1>3, <1>4
<1>6. PICK c2 : c2 = [c1 EXCEPT !.seen = acc]
  OBVIOUS
<1>7. c2 = [op |-> c.op, email |-> c.email, given |-> c.given, new |-> c.new,
            token |-> c.token, phase |-> phase, result |-> c.result,
            seen |-> acc, since |-> c.since, before |-> c.before]
  BY <1>5, <1>6
<1>8. req' = [req EXCEPT ![q] = c2]
  BY <1>1, <1>2, <1>4, <1>6 DEF Goes
<1>9. c2 \in CallRecord
  BY <1>1, <1>2, <1>7 DEF CallRecord
<1>10. /\ req'[q] = c2 /\ req' \in [Request -> CallRecord \cup {NoCall}]
       /\ \A r \in Request \ {q} : req'[r] = req[r]
  BY <1>1, <1>8, <1>9
<1>11. Moved(q, phase, acc)
  BY <1>2, <1>7, <1>9, <1>10 DEF Moved
<1> QED
  BY <1>1, <1>10, <1>11 DEF SameCall

-----------------------------------------------------------------------------
(***************************************************************************)
(* The five things a step of a request can be.  It is made, it is answered *)
(* without a write, it goes on with a row, it is answered with a write, or *)
(* nobody's request moves.                                                 *)
(***************************************************************************)
Ended(q) ==
  \E result \in {"ok", "refused", "error"} :
    /\ Busy(q) /\ Answer(q, result) /\ Backed(q, result)
    /\ UNCHANGED <<user, initially, expired, outbox, mailbox>>
    /\ \/ result # "ok" /\ UNCHANGED <<signedIn, cookie>>
       \/ result = "ok" /\ req[q].op = "forgot" /\ UNCHANGED <<signedIn, cookie>>
       \/ result = "ok" /\ req[q].op \in {"login", "refresh", "oauth"} /\ SignIn(q)
       \/ /\ result = "ok" /\ req[q].op = "logout"
          /\ signedIn' = signedIn /\ cookie' = cookie \ {req[q].email}

WentOn(q) ==
  \E phase \in {"verify", "write"}, acc \in Row :
    /\ Busy(q) /\ Goes(q, phase, acc)
    /\ acc \in req[q].since /\ (acc.exists => Found(q).exists)
    /\ SeenTells(req[q].op, req[q].given, req[q].token, phase, acc)
    /\ UNCHANGED quiet

(* INSERT: the account was not there. *)
Inserted(q, acc, result) ==
  /\ ~Found(q).exists /\ acc.exists /\ acc.reset = None /\ result # "ok"
  /\ acc.password = IF req[q].op = "oauth" THEN None ELSE req[q].new
  /\ \/ /\ req[q].op = "register" /\ ~acc.confirmed
        /\ outbox' \in {outbox, outbox \cup {CodeMail(req[q].email)}}
        /\ UNCHANGED <<signedIn, cookie>>
     \/ /\ req[q].op = "oauth" /\ outbox' = outbox
        /\ IF result = "created" THEN SignIn(q) ELSE UNCHANGED <<signedIn, cookie>>

(* UPDATE: the columns of the operation. *)
Updated(q, acc, result) ==
  /\ acc.exists = Found(q).exists /\ result # "created"
  /\ req[q].op \in {"confirm", "forgot", "reset", "change"}
  /\ UNCHANGED <<signedIn, cookie>>
  /\ IF req[q].op \in {"reset", "change"} THEN acc.password = req[q].new
       ELSE acc.password = Found(q).password
  /\ IF req[q].op = "confirm" THEN req[q].given = "right"
       ELSE acc.confirmed = Found(q).confirmed
  /\ IF req[q].op = "forgot" THEN acc.reset = q /\ acc.exists
       ELSE IF req[q].op = "reset" THEN acc.reset = None
       ELSE acc.reset = Found(q).reset
  /\ IF req[q].op = "forgot" /\ result = "ok"
       THEN outbox' = outbox \cup {ResetMail(req[q].email, q)}
       ELSE outbox' = outbox

Wrote(q) ==
  \E acc \in Row, result \in {"ok", "created", "error"} :
    /\ Busy(q) /\ Store(q, acc, result) /\ Backed(q, result)
    /\ UNCHANGED written
    /\ Inserted(q, acc, result) \/ Updated(q, acc, result)

(* A mail is delivered or lost, or a link expires. *)
MailMoved ==
  /\ outbox' \subseteq outbox /\ mailbox' \subseteq mailbox \cup outbox
  /\ expired \subseteq expired' /\ expired' \subseteq Request
  /\ UNCHANGED <<user, initially, signedIn, cookie, req>>

(* The rows that are written. *)
LEMMA NoRowFields ==
  /\ NoRow \in Row /\ ~NoRow.exists /\ ~NoRow.confirmed
  /\ NoRow.reset = None /\ NoRow.password = None
BY DEF NoRow, Row

LEMMA LocalRowFields ==
  ASSUME NEW p \in Password \cup {None}
  PROVE  /\ LocalRow(p) \in Row /\ LocalRow(p).exists /\ ~LocalRow(p).confirmed
         /\ LocalRow(p).reset = None /\ LocalRow(p).password = p
BY NoRowFields DEF LocalRow, Row

LEMMA GoogleRowFields ==
  /\ GoogleRow \in Row /\ GoogleRow.exists /\ GoogleRow.confirmed
  /\ GoogleRow.reset = None /\ GoogleRow.password = None
BY NoRowFields DEF GoogleRow, Row

(* Every step of Accounts is one of the five. *)
LEMMA AccountShapes ==
  ASSUME AccountTypes, RequestsKnow, [AccountNext]_accountVars
  PROVE  \/ \E q \in Request : Begin(q) \/ Ended(q) \/ WentOn(q) \/ Wrote(q)
         \/ MailMoved
<1>t. ASSUME NEW q \in Request, Busy(q)
      PROVE  /\ req[q] \in CallRecord /\ Found(q) \in Row /\ req[q].email \in Email
             /\ Found(q) \in req[q].since
             /\ req[q].op = "login" => req[q].given \in Password
             /\ req[q].phase # "select" =>
                  /\ req[q].seen \in req[q].since /\ req[q].seen \in Row
                  /\ req[q].seen.exists => Found(q).exists
                  /\ SeenTells(req[q].op, req[q].given, req[q].token,
                               req[q].phase, req[q].seen)
  BY <1>t, CallKinds DEF RequestsKnow, Found, AccountTypes, CallRecord
<1>b. \A q, op, phase :
        At(q, op, phase) /\ phase \in {"select", "verify", "write"} =>
          Busy(q) /\ req[q].op = op /\ req[q].phase = phase
  BY DEF At, Busy
<1>n. /\ None \notin Password /\ None = "none"
  BY NoneAssumption DEF None
<1>e. ASSUME NEW q \in Request, NEW result \in {"refused", "error"}, Busy(q),
             Answer(q, result), Backed(q, result), UNCHANGED quiet
      PROVE  Ended(q)
  BY <1>e DEF Ended, quiet
<1>g. ASSUME NEW q \in Request, NEW phase \in {"verify", "write"}, Busy(q),
             GoOn(q, phase), UNCHANGED quiet,
             SeenTells(req[q].op, req[q].given, req[q].token, phase, Found(q))
      PROVE  WentOn(q)
  BY <1>g, <1>t DEF WentOn, GoOn, Goes
<1>1. ASSUME NEW q \in Request, Fail(q) PROVE Ended(q)
  <2>1. Backed(q, "error")
    BY DEF Backed
  <2> QED
    BY <1>1, <2>1, <1>e DEF Fail, quiet
<1>2. ASSUME NEW q \in Request, RegisterFind(q) PROVE Ended(q) \/ WentOn(q)
  <2>1. Busy(q) /\ req[q].op = "register" /\ UNCHANGED quiet
    BY <1>2, <1>b DEF RegisterFind
  <2>2. Backed(q, "refused") /\ \A p, r : SeenTells(req[q].op, req[q].given, req[q].token, p, r)
    BY <2>1 DEF Backed, SeenTells
  <2> QED
    BY <1>2, <2>1, <2>2, <1>e, <1>g DEF RegisterFind
<1>3. ASSUME NEW q \in Request, RegisterInsert(q) PROVE Ended(q) \/ Wrote(q)
  <2>1. Busy(q) /\ req[q].op = "register" /\ UNCHANGED <<written, signedIn, cookie>>
    BY <1>3, <1>b DEF RegisterInsert
  <2>2. Backed(q, "error")
    BY <2>1 DEF Backed
  <2>3. CASE Found(q).exists
    BY <1>3, <2>1, <2>2, <2>3, <1>e DEF RegisterInsert, quiet, written
  <2>4. CASE ~Found(q).exists
    <3>1. PICK result \in {"created", "error"} :
            /\ Store(q, LocalRow(req[q].new), result)
            /\ outbox' \in {outbox, outbox \cup {CodeMail(req[q].email)}}
      BY <1>3, <2>4 DEF RegisterInsert
    <3>2. Backed(q, result)
      BY <2>1, <2>2, <2>4, <1>t DEF Backed
    <3>3. req[q].new \in Password \cup {None}
      BY <2>1, <1>t DEF CallRecord
    <3>4. /\ LocalRow(req[q].new) \in Row /\ LocalRow(req[q].new).exists
          /\ ~LocalRow(req[q].new).confirmed /\ LocalRow(req[q].new).reset = None
          /\ LocalRow(req[q].new).password = req[q].new
      BY <3>3, LocalRowFields
    <3>5. Inserted(q, LocalRow(req[q].new), result)
      BY <2>1, <2>4, <3>1, <3>4 DEF Inserted
    <3> QED
      BY <2>1, <3>1, <3>2, <3>4, <3>5 DEF Wrote
  <2> QED
    BY <2>3, <2>4
<1>4. ASSUME NEW q \in Request, LoginFind(q) PROVE Ended(q) \/ WentOn(q)
  <2>1. Busy(q) /\ req[q].op = "login" /\ UNCHANGED quiet
    BY <1>4, <1>b DEF LoginFind
  <2>2. CASE Found(q).exists
    <3>1. SeenTells(req[q].op, req[q].given, req[q].token, "verify", Found(q))
      BY <2>1, <2>2 DEF SeenTells
    <3> QED
      BY <1>4, <2>1, <2>2, <3>1, <1>g DEF LoginFind
  <2>3. CASE ~Found(q).exists
    <3>1. Backed(q, "refused")
      BY <2>1, <2>3, <1>t DEF Backed
    <3> QED
      BY <1>4, <2>1, <2>3, <3>1, <1>e DEF LoginFind
  <2> QED
    BY <2>2, <2>3
<1>5. ASSUME NEW q \in Request, LoginVerify(q) PROVE Ended(q)
  <2>1. /\ Busy(q) /\ req[q].op = "login" /\ req[q].phase = "verify"
        /\ UNCHANGED <<user, written, outbox>>
    BY <1>5, <1>b DEF LoginVerify
  <2>2. req[q].seen \in req[q].since /\ req[q].seen.exists /\ req[q].given \in Password
    BY <2>1, <1>t DEF SeenTells
  <2>3. CASE Verify(req[q].seen.password, req[q].given)
    <3>1. Backed(q, "ok")
      BY <2>1, <2>2, <2>3 DEF Backed, Verify
    <3> QED
      BY <1>5, <2>1, <2>3, <3>1 DEF LoginVerify, Ended, written
  <2>4. CASE ~Verify(req[q].seen.password, req[q].given)
    <3>1. req[q].seen.password # req[q].given
      BY <2>2, <2>4, <1>n DEF Verify
    <3>2. Backed(q, "refused")
      BY <2>1, <2>2, <3>1 DEF Backed
    <3> QED
      BY <1>5, <2>1, <2>4, <3>2 DEF LoginVerify, Ended, written
  <2> QED
    BY <2>3, <2>4
<1>6. ASSUME NEW q \in Request, Refresh(q) PROVE Ended(q)
  <2>1. Busy(q) /\ req[q].op = "refresh"
    BY <1>6, <1>b DEF Refresh
  <2>2. Backed(q, "ok") /\ Backed(q, "refused")
    BY <2>1 DEF Backed
  <2> QED
    BY <1>6, <2>1, <2>2 DEF Refresh, Ended, written
<1>7. ASSUME NEW q \in Request, Logout(q) PROVE Ended(q)
  <2>1. Busy(q) /\ req[q].op = "logout"
    BY <1>7, <1>b DEF Logout
  <2>2. Backed(q, "ok")
    BY <2>1 DEF Backed
  <2> QED
    BY <1>7, <2>1, <2>2 DEF Logout, Ended, written
<1>8. ASSUME NEW q \in Request, ConfirmFind(q) PROVE Ended(q) \/ WentOn(q)
  <2>1. Busy(q) /\ req[q].op = "confirm" /\ UNCHANGED quiet
    BY <1>8, <1>b DEF ConfirmFind
  <2>2. Backed(q, "refused")
    BY <2>1 DEF Backed
  <2>3. Found(q).exists /\ ~Found(q).confirmed /\ req[q].given = "right" =>
          SeenTells(req[q].op, req[q].given, req[q].token, "write", Found(q))
    BY <2>1 DEF SeenTells
  <2> QED
    BY <1>8, <2>1, <2>2, <2>3, <1>e, <1>g DEF ConfirmFind
<1>9. ASSUME NEW q \in Request, ConfirmUpdate(q) PROVE Wrote(q)
  <2>1. /\ Busy(q) /\ req[q].op = "confirm" /\ req[q].phase = "write"
        /\ UNCHANGED <<written, outbox, signedIn, cookie>>
    BY <1>9, <1>b DEF ConfirmUpdate
  <2>2. PICK result \in {"ok", "error"} :
          Store(q, [Found(q) EXCEPT !.confirmed = TRUE], result)
    BY <1>9 DEF ConfirmUpdate
  <2>3. /\ req[q].seen \in req[q].since /\ req[q].seen.exists
        /\ ~req[q].seen.confirmed /\ req[q].given = "right" /\ Found(q) \in Row
    BY <2>1, <1>t DEF SeenTells
  <2>4. Backed(q, result)
    BY <2>1, <2>3 DEF Backed
  <2>5. PICK acc : acc = [Found(q) EXCEPT !.confirmed = TRUE]
    OBVIOUS
  <2>6. /\ acc \in Row
        /\ acc.exists = Found(q).exists
        /\ acc.password = Found(q).password
        /\ acc.reset = Found(q).reset
    BY <2>3, <2>5 DEF Row
  <2>7. Updated(q, acc, result)
    BY <2>1, <2>3, <2>6 DEF Updated
  <2> QED
    BY <2>1, <2>2, <2>4, <2>5, <2>6, <2>7 DEF Wrote
<1>10. ASSUME NEW q \in Request, ForgotFind(q) PROVE Ended(q) \/ WentOn(q)
  <2>1. Busy(q) /\ req[q].op = "forgot" /\ UNCHANGED quiet
    BY <1>10, <1>b DEF ForgotFind
  <2>2. Backed(q, "ok")
    BY <2>1 DEF Backed
  <2>3. Found(q).exists =>
          SeenTells(req[q].op, req[q].given, req[q].token, "write", Found(q))
    BY <2>1 DEF SeenTells
  <2>4. CASE Found(q).exists
    BY <1>10, <2>1, <2>3, <2>4, <1>g DEF ForgotFind
  <2>5. CASE ~Found(q).exists
    BY <1>10, <2>1, <2>2, <2>5 DEF ForgotFind, Ended, quiet
  <2> QED
    BY <2>4, <2>5
<1>11. ASSUME NEW q \in Request, ForgotUpdate(q) PROVE Wrote(q)
  <2>1. /\ Busy(q) /\ req[q].op = "forgot" /\ req[q].phase = "write"
        /\ UNCHANGED <<written, signedIn, cookie>>
    BY <1>11, <1>b DEF ForgotUpdate
  <2>2. PICK result \in {"ok", "error"} :
          /\ Store(q, [Found(q) EXCEPT !.reset = q], result)
          /\ outbox' = IF result = "ok"
                         THEN outbox \cup {ResetMail(req[q].email, q)} ELSE outbox
    BY <1>11 DEF ForgotUpdate
  <2>3. Found(q) \in Row /\ Found(q).exists
    BY <2>1, <1>t DEF SeenTells
  <2>4. Backed(q, result)
    BY <2>1 DEF Backed
  <2>5. PICK acc : acc = [Found(q) EXCEPT !.reset = q]
    OBVIOUS
  <2>6. /\ acc \in Row
        /\ acc.exists = Found(q).exists
        /\ acc.password = Found(q).password
        /\ acc.confirmed = Found(q).confirmed
        /\ acc.reset = q
    BY <2>3, <2>5 DEF Row, Token
  <2>7. Updated(q, acc, result)
    BY <2>1, <2>2, <2>3, <2>6 DEF Updated
  <2> QED
    BY <2>1, <2>2, <2>4, <2>5, <2>6, <2>7 DEF Wrote
<1>12. ASSUME NEW q \in Request, ResetFind(q) PROVE Ended(q) \/ WentOn(q)
  <2>1. Busy(q) /\ req[q].op = "reset" /\ UNCHANGED quiet
    BY <1>12, <1>b DEF ResetFind
  <2>2. Backed(q, "refused")
    BY <2>1 DEF Backed
  <2>3. Found(q).reset = req[q].token =>
          SeenTells(req[q].op, req[q].given, req[q].token, "write", Found(q))
    BY <2>1 DEF SeenTells
  <2> QED
    BY <1>12, <2>1, <2>2, <2>3, <1>e, <1>g DEF ResetFind
<1>13. ASSUME NEW q \in Request, ResetUpdate(q) PROVE Wrote(q)
  <2>1. /\ Busy(q) /\ req[q].op = "reset" /\ req[q].phase = "write"
        /\ UNCHANGED <<written, outbox, signedIn, cookie>>
    BY <1>13, <1>b DEF ResetUpdate
  <2>2. PICK result \in {"ok", "error"} :
          Store(q, [Found(q) EXCEPT !.password = req[q].new, !.reset = None], result)
    BY <1>13 DEF ResetUpdate
  <2>3. /\ req[q].seen \in req[q].since /\ req[q].seen.reset = req[q].token
        /\ Found(q) \in Row /\ req[q].new \in Password \cup {None}
    BY <2>1, <1>t DEF SeenTells, CallRecord
  <2>4. Backed(q, result)
    BY <2>1, <2>3 DEF Backed
  <2>5. PICK acc : acc = [Found(q) EXCEPT !.password = req[q].new, !.reset = None]
    OBVIOUS
  <2>6. /\ acc \in Row
        /\ acc.exists = Found(q).exists /\ acc.password = req[q].new
        /\ acc.confirmed = Found(q).confirmed /\ acc.reset = None
    BY <2>3, <2>5 DEF Row
  <2>7. Updated(q, acc, result)
    BY <2>1, <2>6 DEF Updated
  <2> QED
    BY <2>1, <2>2, <2>4, <2>5, <2>6, <2>7 DEF Wrote
<1>14. ASSUME NEW q \in Request, ChangeFind(q) PROVE Ended(q) \/ WentOn(q)
  <2>1. Busy(q) /\ req[q].op = "change" /\ UNCHANGED quiet
    BY <1>14, <1>b DEF ChangeFind
  <2>2. Backed(q, "refused")
    BY <2>1 DEF Backed
  <2>3. Found(q).exists =>
          SeenTells(req[q].op, req[q].given, req[q].token, "verify", Found(q))
    BY <2>1 DEF SeenTells
  <2> QED
    BY <1>14, <2>1, <2>2, <2>3, <1>e, <1>g DEF ChangeFind
<1>15. ASSUME NEW q \in Request, ChangeVerify(q) PROVE Ended(q) \/ WentOn(q)
  <2>1. /\ Busy(q) /\ req[q].op = "change" /\ req[q].phase = "verify"
        /\ UNCHANGED quiet
    BY <1>15, <1>b DEF ChangeVerify
  <2>2. Backed(q, "refused")
    BY <2>1 DEF Backed
  <2>3. CASE /\ Verify(req[q].seen.password, req[q].given)
             /\ ~Verify(req[q].seen.password, req[q].new)
    <3>1. req' = [req EXCEPT ![q].phase = "write"]
      BY <1>15, <2>3 DEF ChangeVerify
    <3>2. /\ req[q].seen \in req[q].since /\ req[q].seen \in Row
          /\ req[q].seen.exists => Found(q).exists
          /\ SeenTells(req[q].op, req[q].given, req[q].token, "write", req[q].seen)
      BY <2>1, <2>3, <1>t DEF SeenTells, Verify
    <3>3. req' = [req EXCEPT ![q].phase = "write", ![q].seen = req[q].seen]
      <4>1. PICK c : c = req[q] /\ c \in CallRecord
        BY <2>1, <1>t
      <4>2. PICK d : d = [c EXCEPT !.phase = "write"]
        OBVIOUS
      <4>3. d.seen = c.seen /\ d = [d EXCEPT !.seen = c.seen]
        BY <4>1, <4>2 DEF CallRecord
      <4>4. req' = [req EXCEPT ![q] = d]
        BY <3>1, <4>1, <4>2 DEF AccountTypes
      <4>5. [req EXCEPT ![q].phase = "write", ![q].seen = req[q].seen]
              = [req EXCEPT ![q] = [d EXCEPT !.seen = c.seen]]
        BY <4>1, <4>2 DEF AccountTypes
      <4> QED
        BY <4>3, <4>4, <4>5
    <3> QED
      BY <2>1, <3>2, <3>3 DEF WentOn, Goes
  <2>4. CASE ~(/\ Verify(req[q].seen.password, req[q].given)
               /\ ~Verify(req[q].seen.password, req[q].new))
    BY <1>15, <2>1, <2>2, <2>4, <1>e DEF ChangeVerify
  <2> QED
    BY <2>3, <2>4
<1>16. ASSUME NEW q \in Request, ChangeUpdate(q) PROVE Wrote(q)
  <2>1. /\ Busy(q) /\ req[q].op = "change" /\ req[q].phase = "write"
        /\ UNCHANGED <<written, outbox, signedIn, cookie>>
    BY <1>16, <1>b DEF ChangeUpdate
  <2>2. PICK result \in {"ok", "error"} :
          Store(q, [Found(q) EXCEPT !.password = req[q].new], result)
    BY <1>16 DEF ChangeUpdate
  <2>3. /\ req[q].seen \in req[q].since /\ req[q].seen.exists
        /\ req[q].seen.password = req[q].given
        /\ Found(q) \in Row /\ req[q].new \in Password \cup {None}
    BY <2>1, <1>t DEF SeenTells, CallRecord
  <2>4. Backed(q, result)
    BY <2>1, <2>3 DEF Backed
  <2>5. PICK acc : acc = [Found(q) EXCEPT !.password = req[q].new]
    OBVIOUS
  <2>6. /\ acc \in Row
        /\ acc.exists = Found(q).exists /\ acc.password = req[q].new
        /\ acc.confirmed = Found(q).confirmed /\ acc.reset = Found(q).reset
    BY <2>3, <2>5 DEF Row
  <2>7. Updated(q, acc, result)
    BY <2>1, <2>6 DEF Updated
  <2> QED
    BY <2>1, <2>2, <2>4, <2>5, <2>6, <2>7 DEF Wrote
<1>17. ASSUME NEW q \in Request, OAuthFind(q) PROVE Ended(q) \/ WentOn(q)
  <2>1. Busy(q) /\ req[q].op = "oauth" /\ UNCHANGED <<user, written, outbox>>
    BY <1>17, <1>b DEF OAuthFind
  <2>2. Backed(q, "ok") /\ \A p, r : SeenTells(req[q].op, req[q].given, req[q].token, p, r)
    BY <2>1 DEF Backed, SeenTells
  <2>3. CASE Found(q).exists
    BY <1>17, <2>1, <2>2, <2>3 DEF OAuthFind, Ended, written
  <2>4. CASE ~Found(q).exists
    BY <1>17, <2>1, <2>2, <2>4, <1>g DEF OAuthFind, written, quiet
  <2> QED
    BY <2>3, <2>4
<1>18. ASSUME NEW q \in Request, OAuthInsert(q) PROVE Ended(q) \/ Wrote(q)
  <2>1. Busy(q) /\ req[q].op = "oauth" /\ UNCHANGED <<written, outbox>>
    BY <1>18, <1>b DEF OAuthInsert
  <2>2. Backed(q, "error")
    BY <2>1 DEF Backed
  <2>5. CASE Found(q).exists
    BY <1>18, <2>1, <2>2, <2>5 DEF OAuthInsert, Ended, written
  <2>6. CASE ~Found(q).exists
    <3>1. PICK result \in {"created", "error"} :
            /\ Store(q, GoogleRow, result)
            /\ IF result = "created" THEN SignIn(q) ELSE UNCHANGED <<signedIn, cookie>>
      BY <1>18, <2>6 DEF OAuthInsert
    <3>2. Backed(q, result)
      BY <2>1, <2>2, <2>6, <1>t DEF Backed
    <3>3. Inserted(q, GoogleRow, result)
      BY <2>1, <2>6, <3>1, GoogleRowFields DEF Inserted
    <3> QED
      BY <2>1, <3>1, <3>2, <3>3, GoogleRowFields DEF Wrote
  <2> QED
    BY <2>5, <2>6
<1>19. ASSUME NEW q \in Request, ExpireToken(q) PROVE MailMoved
  BY <1>19 DEF ExpireToken, MailMoved, AccountTypes, Token
<1>20. ASSUME NEW m \in outbox, SendMail(m) PROVE MailMoved
  BY <1>20 DEF SendMail, MailMoved, AccountTypes, Token
<1>21. CASE UNCHANGED accountVars
  BY <1>21 DEF accountVars, MailMoved, AccountTypes, Token
<1> QED
  BY <1>1, <1>2, <1>3, <1>4, <1>5, <1>6, <1>7, <1>8, <1>9, <1>10, <1>11, <1>12,
     <1>13, <1>14, <1>15, <1>16, <1>17, <1>18, <1>19, <1>20, <1>21
     DEF AccountNext

-----------------------------------------------------------------------------
(* What a client asks for is a call that is to read its row. *)
LEMMA SubmissionTypes ==
  ASSUME AccountTypes, NEW c \in Submissions
  PROVE  /\ c \in CallRecord /\ c # NoCall /\ c.phase = "select"
         /\ c.since = {user[c.email]}
         /\ c.before = {q \in Request : req[q].phase = "done"}
         /\ c.op = "login" => c.given \in Password
<1>1. ASSUME NEW op \in Op, NEW e \in Email,
             NEW given \in Password \cup {None, "right", "wrong"},
             NEW new \in Password \cup {None}, NEW token \in Token \cup {None},
             op = "login" => given \in Password
      PROVE  LET d == Call(op, e, given, new, token)
             IN /\ d \in CallRecord /\ d # NoCall /\ d.phase = "select"
                /\ d.since = {user[d.email]}
                /\ d.before = {q \in Request : req[q].phase = "done"}
                /\ d.op = "login" => d.given \in Password
  BY <1>1, NoRowFields DEF Call, CallRecord, AccountTypes, NoCall
<1>2. /\ RefreshHolders \subseteq Email /\ RequireAuth \subseteq Email
      /\ ExchangeGoogleCode \subseteq Email
      /\ \A m \in mailbox : m.to \in Email /\ m.token \in Token \cup {None}
  BY DEF RefreshHolders, RequireAuth, ExchangeGoogleCode, AccountTypes, Mail
<1>3. \E op \in Op, e \in Email, given \in Password \cup {None, "right", "wrong"},
        new \in Password \cup {None}, token \in Token \cup {None} :
        c = Call(op, e, given, new, token) /\ (op = "login" => given \in Password)
  <2>1. CASE c \in {Call("register", e, None, p, None) : e \in Email, p \in Password}
    BY <2>1 DEF Op
  <2>2. CASE c \in {Call("login", e, p, None, None) : e \in Email, p \in Password}
    BY <2>2 DEF Op
  <2>3. CASE c \in {Call("refresh", e, None, None, None) : e \in RefreshHolders}
    BY <2>3, <1>2 DEF Op
  <2>4. CASE c \in {Call("logout", e, None, None, None) : e \in RequireAuth}
    BY <2>4, <1>2 DEF Op
  <2>5. CASE c \in {Call("confirm", m.to, "right", None, None) :
                      m \in {x \in mailbox : x.kind = "code"}}
    BY <2>5, <1>2 DEF Op
  <2>6. CASE c \in {Call("confirm", e, "wrong", None, None) : e \in Email}
    BY <2>6 DEF Op
  <2>7. CASE c \in {Call("forgot", e, None, None, None) : e \in Email}
    BY <2>7 DEF Op
  <2>8. CASE c \in {Call("reset", m.to, None, p, m.token) :
                      m \in {x \in mailbox : x.kind = "reset"}, p \in Password}
    BY <2>8, <1>2 DEF Op
  <2>9. CASE c \in {Call("change", e, p, n, None) :
                      e \in RequireAuth, p \in Password, n \in Password}
    BY <2>9, <1>2 DEF Op
  <2>10. CASE c \in {Call("oauth", e, None, None, None) : e \in ExchangeGoogleCode}
    BY <2>10, <1>2 DEF Op
  <2> QED
    BY <2>1, <2>2, <2>3, <2>4, <2>5, <2>6, <2>7, <2>8, <2>9, <2>10 DEF Submissions
<1> QED
  BY <1>1, <1>3

(* What a client asks for is a fresh record, with all answered requests in *)
(* `before`.                                                               *)
LEMMA BeginMakes ==
  ASSUME AccountTypes, NEW q \in Request, Begin(q)
  PROVE  /\ req' \in [Request -> CallRecord \cup {NoCall}]
         /\ \A r \in Request \ {q} : req'[r] = req[r] /\ SameCall(r)
         /\ req[q] = NoCall /\ req'[q] # NoCall /\ req'[q] \in CallRecord
         /\ req'[q].phase = "select"
         /\ req'[q].since = {user[req'[q].email]}
         /\ req'[q].before = {r \in Request : req[r].phase = "done"}
         /\ req'[q].op = "login" => req'[q].given \in Password
         /\ UNCHANGED <<user, initially, expired, outbox, mailbox, signedIn, cookie>>
<1>1. PICK c \in Submissions : req' = [req EXCEPT ![q] = c]
  BY DEF Begin
<1>2. /\ c \in CallRecord /\ c # NoCall /\ c.phase = "select"
      /\ c.since = {user[c.email]}
      /\ c.before = {r \in Request : req[r].phase = "done"}
      /\ c.op = "login" => c.given \in Password
  BY SubmissionTypes
<1>3. req \in [Request -> CallRecord \cup {NoCall}]
  BY DEF AccountTypes
<1>4. /\ req' \in [Request -> CallRecord \cup {NoCall}] /\ req'[q] = c
      /\ \A r \in Request \ {q} : req'[r] = req[r]
  BY <1>1, <1>2, <1>3
<1>5. \A r \in Request \ {q} : SameCall(r)
  BY <1>3, <1>4 DEF SameCall
<1> QED
  BY <1>2, <1>4, <1>5 DEF Begin

(***************************************************************************)
(* What all steps have in common: the request that moves was not answered  *)
(* before, and all others stay as they are.                                *)
(***************************************************************************)
Moving(q) ==
  /\ req' \in [Request -> CallRecord \cup {NoCall}]
  /\ \A r \in Request \ {q} : SameCall(r)
  /\ ~Answered(q) /\ req'[q] \in CallRecord /\ req'[q] # NoCall

(* One request moves at a time. *)
LEMMA MovingOne ==
  ASSUME AccountTypes, NEW q \in Request,
         Begin(q) \/ Ended(q) \/ WentOn(q) \/ Wrote(q)
  PROVE  Moving(q)
<1>1. CASE Begin(q)
  BY <1>1, BeginMakes, CallKinds DEF Moving, Answered
<1>2. CASE Ended(q)
  <2>1. PICK result \in {"ok", "created", "refused", "error"} :
          Busy(q) /\ Answer(q, result)
    BY <1>2 DEF Ended
  <2>2. /\ Closed(q, result) /\ req' \in [Request -> CallRecord \cup {NoCall}]
        /\ \A r \in Request \ {q} : SameCall(r)
    BY <2>1, AnswerCloses
  <2> QED
    BY <2>1, <2>2 DEF Moving, Closed, Busy, Answered, CallRecord, NoCall
<1>3. CASE WentOn(q)
  <2>1. PICK phase \in {"verify", "write"}, acc \in Row :
          Busy(q) /\ Goes(q, phase, acc)
    BY <1>3 DEF WentOn
  <2>2. /\ Moved(q, phase, acc) /\ req' \in [Request -> CallRecord \cup {NoCall}]
        /\ \A r \in Request \ {q} : SameCall(r)
    BY <2>1, GoingOnMoves
  <2> QED
    BY <2>1, <2>2 DEF Moving, Moved, Busy, Answered, CallRecord, NoCall
<1>4. CASE Wrote(q)
  <2>1. PICK acc \in Row, result \in {"ok", "created", "refused", "error"} :
          Busy(q) /\ Store(q, acc, result)
    BY <1>4 DEF Wrote
  <2>2. /\ Closed(q, result) /\ req' \in [Request -> CallRecord \cup {NoCall}]
        /\ \A r \in Request \ {q} : SameCall(r)
    BY <2>1, StoreCloses
  <2> QED
    BY <2>1, <2>2 DEF Moving, Closed, Busy, Answered, CallRecord, NoCall
<1> QED
  BY <1>1, <1>2, <1>3, <1>4

(* Types are kept. *)
LEMMA AccountTypesStep ==
  ASSUME AccountTypes, RequestsKnow, [AccountNext]_accountVars
  PROVE  AccountTypes'
<1>0. \A q \in Request : Busy(q) => req[q].email \in Email
  BY CallKinds DEF CallRecord
<1>m. /\ \A e \in Email : CodeMail(e) \in Mail
      /\ \A e \in Email, q \in Request : ResetMail(e, q) \in Mail
  BY DEF CodeMail, ResetMail, Mail, Token
<1>1. CASE MailMoved
  BY <1>1 DEF MailMoved, AccountTypes, Token
<1>2. ASSUME NEW q \in Request, Begin(q) PROVE AccountTypes'
  BY <1>2, BeginMakes DEF AccountTypes
<1>3. ASSUME NEW q \in Request, Ended(q) PROVE AccountTypes'
  <2>1. req' \in [Request -> CallRecord \cup {NoCall}] /\ Busy(q)
    BY <1>3, MovingOne DEF Moving, Ended
  <2>2. signedIn' \subseteq Email /\ cookie' \subseteq signedIn'
    BY <1>3, <2>1, <1>0 DEF Ended, SignIn, AccountTypes
  <2> QED
    BY <1>3, <2>1, <2>2 DEF Ended, AccountTypes
<1>4. ASSUME NEW q \in Request, WentOn(q) PROVE AccountTypes'
  <2>1. req' \in [Request -> CallRecord \cup {NoCall}]
    BY <1>4, MovingOne DEF Moving
  <2> QED
    BY <1>4, <2>1 DEF WentOn, quiet, AccountTypes
<1>5. ASSUME NEW q \in Request, Wrote(q) PROVE AccountTypes'
  <2>1. PICK acc \in Row, result \in {"ok", "created", "refused", "error"} :
          /\ Busy(q) /\ Store(q, acc, result) /\ UNCHANGED written
          /\ Inserted(q, acc, result) \/ Updated(q, acc, result)
    BY <1>5 DEF Wrote
  <2>2. user' \in [Email -> Row] /\ req' \in [Request -> CallRecord \cup {NoCall}]
    BY <2>1, StoreCloses
  <2>3. outbox' \subseteq Mail
    BY <2>1, <1>0, <1>m DEF Inserted, Updated, AccountTypes
  <2>4. signedIn' \subseteq Email /\ cookie' \subseteq signedIn'
    BY <2>1, <1>0 DEF Inserted, Updated, SignIn, AccountTypes
  <2> QED
    BY <2>1, <2>2, <2>3, <2>4 DEF AccountTypes, written
<1> QED
  BY <1>1, <1>2, <1>3, <1>4, <1>5, AccountShapes

(* An answer is never taken back. *)
LEMMA BeforeStep ==
  ASSUME AccountTypes, BeforeIsAnswered, RequestsKnow, [AccountNext]_accountVars
  PROVE  BeforeIsAnswered'
<1>1. CASE MailMoved
  BY <1>1 DEF MailMoved, BeforeIsAnswered, Answered
<1>2. ASSUME NEW q \in Request,
             Begin(q) \/ Ended(q) \/ WentOn(q) \/ Wrote(q)
      PROVE  BeforeIsAnswered'
  <2>1. Moving(q)
    BY <1>2, MovingOne
  <2>2. \A r \in Request : Answered(r) => Answered(r)'
    BY <2>1 DEF Moving, SameCall, Answered
  <2>3. \A r \in Request : req[r] # NoCall => req[r].before \subseteq Request
    BY DEF AccountTypes, CallRecord
  <2>4. \A r \in Request \ {q} : req'[r] # NoCall =>
          req[r] # NoCall /\ req'[r].before = req[r].before
    BY <2>1 DEF Moving, SameCall
  <2>5. \A s \in req'[q].before : s \in Request /\ Answered(s)
    <3>1. CASE Begin(q)
      BY <3>1, BeginMakes DEF Answered
    <3>2. CASE Ended(q)
      <4>1. Busy(q) /\ req'[q].before = req[q].before
        BY <3>2, AnswerCloses DEF Ended, Closed
      <4> QED
        BY <4>1, <2>3, CallKinds DEF BeforeIsAnswered
    <3>3. CASE WentOn(q)
      <4>1. Busy(q) /\ req'[q].before = req[q].before
        BY <3>3, GoingOnMoves DEF WentOn, Moved
      <4> QED
        BY <4>1, <2>3, CallKinds DEF BeforeIsAnswered
    <3>4. CASE Wrote(q)
      <4>1. Busy(q) /\ req'[q].before = req[q].before
        BY <3>4, StoreCloses DEF Wrote, Closed
      <4> QED
        BY <4>1, <2>3, CallKinds DEF BeforeIsAnswered
    <3> QED
      BY <1>2, <3>1, <3>2, <3>3, <3>4
  <2> QED
    BY <2>2, <2>3, <2>4, <2>5 DEF BeforeIsAnswered
<1> QED
  BY <1>1, <1>2, AccountShapes

(* A row that is there stays. *)
LEMMA RowsStay ==
  ASSUME AccountTypes, RequestsKnow, [AccountNext]_accountVars, NEW e \in Email,
         user[e].exists
  PROVE  user'[e].exists
<1>1. CASE user' = user
  BY <1>1
<1>2. ASSUME NEW q \in Request, Wrote(q) PROVE user'[e].exists
  <2>1. PICK acc \in Row, result \in {"ok", "created", "refused", "error"} :
          /\ Busy(q) /\ Store(q, acc, result)
          /\ Inserted(q, acc, result) \/ Updated(q, acc, result)
    BY <1>2 DEF Wrote
  <2>2. /\ user'[req[q].email] = acc
        /\ e # req[q].email => user'[e] = user[e]
    BY <2>1, StoreCloses
  <2>3. Found(q).exists => acc.exists
    BY <2>1 DEF Inserted, Updated
  <2> QED
    BY <2>2, <2>3 DEF Found
<1>3. \/ user' = user
      \/ \E q \in Request : Wrote(q)
  BY AccountShapes DEF MailMoved, Begin, Ended, WentOn, quiet
<1> QED
  BY <1>1, <1>2, <1>3

(* What requests in progress know stays true: each write tells the calls   *)
(* that wait on the account.                                               *)
LEMMA RequestsKnowStep ==
  ASSUME AccountTypes, RequestsKnow, [AccountNext]_accountVars
  PROVE  RequestsKnow'
<1>e. \A r \in Request : Busy(r) => req[r].email \in Email
  BY CallKinds DEF CallRecord
<1>k. ASSUME NEW r \in Request, Busy(r)', SameCall(r),
             user'[req[r].email] \in req'[r].since
      PROVE  /\ user'[req'[r].email] \in req'[r].since
             /\ req'[r].op = "login" => req'[r].given \in Password
             /\ req'[r].phase # "select" =>
                  /\ req'[r].seen \in req'[r].since
                  /\ req'[r].seen.exists => user'[req'[r].email].exists
                  /\ SeenTells(req'[r].op, req'[r].given, req'[r].token,
                               req'[r].phase, req'[r].seen)
  <2>1. Busy(r)
    BY <1>k DEF SameCall, Busy
  <2> QED
    BY <1>k, <1>e, <2>1, RowsStay DEF SameCall, RequestsKnow
<1>u. ASSUME NEW r \in Request, Busy(r)', req'[r] = req[r], user' = user
      PROVE  user'[req[r].email] \in req'[r].since
  BY <1>u DEF RequestsKnow, Busy
<1>1. CASE MailMoved
  BY <1>1 DEF MailMoved, RequestsKnow, Busy
<1>2. ASSUME NEW q \in Request, Begin(q) PROVE RequestsKnow'
  <2>1. /\ \A r \in Request \ {q} : req'[r] = req[r] /\ SameCall(r)
        /\ req'[q].phase = "select" /\ req'[q].since = {user[req'[q].email]}
        /\ req'[q].op = "login" => req'[q].given \in Password
        /\ user' = user
    BY <1>2, BeginMakes
  <2> QED
    BY <2>1, <1>k, <1>u DEF RequestsKnow
<1>3. ASSUME NEW q \in Request, Ended(q) PROVE RequestsKnow'
  <2>1. /\ \A r \in Request \ {q} : req'[r] = req[r] /\ SameCall(r)
        /\ req'[q].phase = "done" /\ user' = user
    BY <1>3, AnswerCloses DEF Ended, Closed
  <2> QED
    BY <2>1, <1>k, <1>u DEF RequestsKnow, Busy
<1>4. ASSUME NEW q \in Request, WentOn(q) PROVE RequestsKnow'
  <2>1. PICK phase \in {"verify", "write"}, acc \in Row :
          /\ Busy(q) /\ Goes(q, phase, acc)
          /\ acc \in req[q].since /\ (acc.exists => Found(q).exists)
          /\ SeenTells(req[q].op, req[q].given, req[q].token, phase, acc)
          /\ user' = user
    BY <1>4 DEF WentOn, quiet
  <2>2. /\ Moved(q, phase, acc)
        /\ \A r \in Request \ {q} : req'[r] = req[r] /\ SameCall(r)
    BY <2>1, GoingOnMoves
  <2>3. /\ user'[req'[q].email] \in req'[q].since
        /\ req'[q].op = "login" => req'[q].given \in Password
        /\ req'[q].seen \in req'[q].since
        /\ req'[q].seen.exists => user'[req'[q].email].exists
        /\ SeenTells(req'[q].op, req'[q].given, req'[q].token,
                     req'[q].phase, req'[q].seen)
    BY <2>1, <2>2 DEF Moved, RequestsKnow, Found
  <2> QED
    BY <2>1, <2>2, <2>3, <1>k, <1>u DEF RequestsKnow
<1>5. ASSUME NEW q \in Request, Wrote(q) PROVE RequestsKnow'
  <2>1. PICK acc \in Row, result \in {"ok", "created", "refused", "error"} :
          Busy(q) /\ Store(q, acc, result)
    BY <1>5 DEF Wrote
  <2>2. /\ Closed(q, result)
        /\ \A r \in Request \ {q} :
             /\ SameCall(r)
             /\ Busy(r) /\ req[r].email = req[q].email => acc \in req'[r].since
        /\ user'[req[q].email] = acc
        /\ \A e \in Email : e # req[q].email => user'[e] = user[e]
    BY <2>1, StoreCloses
  <2>3. ASSUME NEW r \in Request \ {q}, Busy(r)'
        PROVE  user'[req[r].email] \in req'[r].since
    <3>1. Busy(r) /\ req[r].since \subseteq req'[r].since
      BY <2>2, <2>3 DEF SameCall, Busy
    <3>2. CASE req[r].email = req[q].email
      BY <3>1, <3>2, <2>2
    <3>3. CASE req[r].email # req[q].email
      BY <3>1, <3>3, <2>2, <1>e DEF RequestsKnow
    <3> QED
      BY <3>2, <3>3
  <2>4. ~Busy(q)'
    BY <2>2 DEF Closed, Busy
  <2> QED
    BY <2>2, <2>3, <2>4, <1>k DEF RequestsKnow
<1> QED
  BY <1>1, <1>2, <1>3, <1>4, <1>5, AccountShapes

-----------------------------------------------------------------------------
(***************************************************************************)
(* What answered requests were, for the histories of an account.           *)
(***************************************************************************)
Granted(q) ==
  Answered(q) /\ \/ req[q].op \in PasswordOps /\ req[q].result \in {"ok", "created"}
                 \/ req[q].op = "oauth" /\ req[q].result = "created"
Doubtful(q) ==
  Answered(q) /\ req[q].op \in PasswordOps \cup {"oauth"} /\ req[q].result = "error"
SignsIn(q) ==
  Answered(q) /\ \/ req[q].op \in {"login", "refresh"} /\ req[q].result = "ok"
                 \/ req[q].op = "oauth" /\ req[q].result \in {"ok", "created"}
SignsOut(q) == Answered(q) /\ req[q].op = "logout" /\ req[q].result = "ok"
Kills(q) ==
  Answered(q) /\ req[q].op \in {"forgot", "reset"} /\ req[q].result \in {"ok", "error"}
Created(q) == Answered(q) /\ req[q].result = "created"
Confirms(q) ==
  Answered(q) /\ \/ req[q].op = "oauth" /\ req[q].result \in {"created", "error"}
                 \/ /\ req[q].op = "confirm" /\ req[q].given = "right"
                    /\ req[q].result \in {"ok", "error"}

For(e, q) == q \in Request /\ req[q].email = e

(* The password is that of the last request that wrote it. *)
LastWriterPrevails ==
  \A e \in Email :
    (\E r : For(e, r) /\ Granted(r)) =>
      \E q : /\ For(e, q) /\ (Granted(q) \/ Doubtful(q))
             /\ user[e].password = NewPassword(q)
             /\ \A r : For(e, r) /\ Granted(r) => q \notin req[r].before

(* A cookie after a sign-out was set by a sign-in which no sign-out has    *)
(* followed; a missing cookie was cleared by a sign-out which no sign-in   *)
(* has followed.                                                           *)
LastSignPrevails ==
  \A e \in Email :
    /\ e \in cookie /\ (\E o : For(e, o) /\ SignsOut(o)) =>
         \E s : /\ For(e, s) /\ SignsIn(s)
                /\ \A o : For(e, o) /\ SignsOut(o) => s \notin req[o].before
    /\ e \notin cookie /\ (\E s : For(e, s) /\ SignsIn(s)) =>
         \E o : /\ For(e, o) /\ SignsOut(o)
                /\ \A s : For(e, s) /\ SignsIn(s) => o \notin req[s].before

(* A link that was mailed is the account's, or another request replaced it. *)
LinksLive ==
  \A m \in outbox \cup mailbox : m.kind = "reset" =>
    /\ m.token \in Request /\ Answered(m.token) /\ user[m.to].exists
    /\ user[m.to].reset # m.token =>
         \E q : /\ For(m.to, q) /\ Kills(q) /\ q # m.token
                /\ q \notin req[m.token].before

(* An account is made where there was none, by one request, and is         *)
(* confirmed by the mailed code or by Google.                              *)
AccountsEarned ==
  /\ \A q \in Request : Created(q) =>
       user[req[q].email].exists /\ ~initially[req[q].email].exists
  /\ \A q, r \in Request :
       Created(q) /\ Created(r) /\ req[q].email = req[r].email => q = r
  /\ \A e \in Email : initially[e].exists => user[e].exists
  /\ \A e \in Email : user[e].confirmed =>
       initially[e].confirmed \/ \E q : For(e, q) /\ Confirms(q)

(* The inductive invariant of accounts. *)
AccountInv ==
  /\ AccountTypes /\ BeforeIsAnswered /\ RequestsKnow
  /\ LastWriterPrevails /\ LastSignPrevails /\ LinksLive /\ AccountsEarned

(* Who does not move stays what it was. *)
LEMMA SameAnswers ==
  ASSUME NEW q, Moving(q), NEW r \in Request \ {q}
  PROVE  /\ Answered(r)' <=> Answered(r)
         /\ Granted(r)' <=> Granted(r)
         /\ Doubtful(r)' <=> Doubtful(r)
         /\ SignsIn(r)' <=> SignsIn(r)
         /\ SignsOut(r)' <=> SignsOut(r)
         /\ Kills(r)' <=> Kills(r)
         /\ Created(r)' <=> Created(r)
         /\ Confirms(r)' <=> Confirms(r)
         /\ NewPassword(r)' = NewPassword(r)
         /\ req'[r].before = req[r].before /\ req'[r].email = req[r].email
BY DEF Moving, SameCall, Answered, Granted, Doubtful, SignsIn, SignsOut, Kills,
       Created, Confirms, NewPassword

(* The request that moves is over before no other one. *)
LEMMA NotBefore ==
  ASSUME AccountTypes, BeforeIsAnswered, NEW q \in Request,
         Begin(q) \/ Ended(q) \/ WentOn(q) \/ Wrote(q),
         NEW r \in Request, Answered(r)'
  PROVE  q \notin req'[r].before
<1>1. Moving(q)
  BY MovingOne
<1>2. CASE r # q
  BY <1>1, <1>2, CallKinds, SameAnswers DEF BeforeIsAnswered, Moving
<1>3. CASE r = q
  <2>1. CASE Begin(q)
    BY <1>3, <2>1, BeginMakes DEF Answered
  <2>2. CASE WentOn(q)
    BY <1>3, <2>2, GoingOnMoves DEF WentOn, Moved, Answered
  <2>3. CASE Ended(q)
    <3>1. Busy(q) /\ req'[q].before = req[q].before
      BY <2>3, AnswerCloses DEF Ended, Closed
    <3> QED
      BY <1>1, <1>3, <3>1, CallKinds DEF BeforeIsAnswered, Moving
  <2>4. CASE Wrote(q)
    <3>1. Busy(q) /\ req'[q].before = req[q].before
      BY <2>4, StoreCloses DEF Wrote, Closed
    <3> QED
      BY <1>1, <1>3, <3>1, CallKinds DEF BeforeIsAnswered, Moving
  <2> QED
    BY <2>1, <2>2, <2>3, <2>4
<1> QED
  BY <1>2, <1>3

(* How a request that moves leaves the password of its account. *)
LEMMA PasswordKinds ==
  ASSUME AccountTypes, RequestsKnow, NEW q \in Request,
         Begin(q) \/ Ended(q) \/ WentOn(q) \/ Wrote(q)
  PROVE  \/ /\ ~Granted(q)'
            /\ \A e \in Email : user'[e].password = user[e].password
         \/ /\ Granted(q)' \/ Doubtful(q)'
            /\ req'[q].email = req[q].email /\ req[q].email \in Email
            /\ user'[req[q].email].password = NewPassword(q)'
            /\ \A e \in Email : e # req[q].email => user'[e] = user[e]
<1>1. CASE Begin(q)
  <2>1. req'[q].phase = "select" /\ user' = user
    BY <1>1, BeginMakes
  <2> QED
    BY <2>1 DEF Granted, Answered
<1>2. CASE Ended(q)
  <2>1. PICK result \in {"ok", "created", "refused", "error"} :
          /\ Busy(q) /\ Answer(q, result) /\ user' = user
          /\ result # "created"
          /\ result = "ok" => req[q].op \in {"forgot", "login", "refresh", "oauth", "logout"}
    BY <1>2 DEF Ended
  <2>2. Closed(q, result)
    BY <2>1, AnswerCloses
  <2>3. ~Granted(q)'
    BY <2>1, <2>2 DEF Closed, Granted, PasswordOps
  <2> QED
    BY <2>1, <2>3
<1>3. CASE WentOn(q)
  <2>1. PICK phase \in {"verify", "write"}, acc \in Row :
          Busy(q) /\ Goes(q, phase, acc) /\ user' = user
    BY <1>3 DEF WentOn, quiet
  <2>2. Moved(q, phase, acc)
    BY <2>1, GoingOnMoves
  <2>3. ~Granted(q)'
    BY <2>1, <2>2 DEF Moved, Granted, Answered
  <2> QED
    BY <2>1, <2>3
<1>4. CASE Wrote(q)
  <2>1. PICK acc \in Row, result \in {"ok", "created", "error"} :
          /\ Busy(q) /\ Store(q, acc, result)
          /\ Inserted(q, acc, result) \/ Updated(q, acc, result)
    BY <1>4 DEF Wrote
  <2>2. /\ Closed(q, result) /\ user'[req[q].email] = acc
        /\ \A e \in Email : e # req[q].email => user'[e] = user[e]
    BY <2>1, StoreCloses
  <2>3. req[q].email \in Email
    BY <2>1, CallKinds DEF CallRecord
  <2>4. CASE Inserted(q, acc, result)
    <3>1. Granted(q)' \/ Doubtful(q)'
      BY <2>2, <2>4 DEF Closed, Inserted, Granted, Doubtful, Answered, PasswordOps
    <3>2. acc.password = NewPassword(q)'
      BY <2>2, <2>4 DEF Closed, Inserted, NewPassword
    <3> QED
      BY <2>2, <2>3, <3>1, <3>2 DEF Closed
  <2>5. CASE Updated(q, acc, result) /\ req[q].op \in {"reset", "change"}
    <3>1. Granted(q)' \/ Doubtful(q)'
      BY <2>2, <2>5 DEF Closed, Updated, Granted, Doubtful, Answered, PasswordOps
    <3>2. acc.password = NewPassword(q)'
      BY <2>2, <2>5 DEF Closed, Updated, NewPassword
    <3> QED
      BY <2>2, <2>3, <3>1, <3>2 DEF Closed
  <2>6. CASE Updated(q, acc, result) /\ req[q].op \notin {"reset", "change"}
    <3>1. ~Granted(q)'
      BY <2>2, <2>6 DEF Closed, Updated, Granted, PasswordOps
    <3>2. acc.password = user[req[q].email].password
      BY <2>6 DEF Updated, Found
    <3> QED
      BY <2>2, <2>3, <3>1, <3>2
  <2> QED
    BY <2>1, <2>4, <2>5, <2>6
<1> QED
  BY <1>1, <1>2, <1>3, <1>4

(* A request that writes now is before no answered one, so it prevails. *)
LEMMA LastWriterStep ==
  ASSUME AccountInv, [AccountNext]_accountVars
  PROVE  LastWriterPrevails'
<1>i. AccountTypes /\ BeforeIsAnswered /\ RequestsKnow /\ LastWriterPrevails
  BY DEF AccountInv
<1>1. CASE MailMoved
  BY <1>1, <1>i DEF MailMoved, LastWriterPrevails, For, Granted, Doubtful, Answered,
                    NewPassword
<1>2. ASSUME NEW q \in Request,
             Begin(q) \/ Ended(q) \/ WentOn(q) \/ Wrote(q)
      PROVE  LastWriterPrevails'
  <2>1. Moving(q) /\ ~Answered(q)
    BY <1>2, <1>i, MovingOne DEF Moving
  <2>2. \A r \in Request : Answered(r)' => q \notin req'[r].before
    BY <1>2, <1>i, NotBefore
  <2> SUFFICES ASSUME NEW e \in Email, NEW g, For(e, g)', Granted(g)'
               PROVE  \E w : /\ For(e, w)' /\ (Granted(w)' \/ Doubtful(w)')
                             /\ user'[e].password = NewPassword(w)'
                             /\ \A r : For(e, r)' /\ Granted(r)' => w \notin req'[r].before
    BY DEF LastWriterPrevails
  <2>3. CASE /\ Granted(q)' \/ Doubtful(q)'
             /\ req'[q].email = e /\ user'[e].password = NewPassword(q)'
    <3>1. For(e, q)'
      BY <2>3 DEF For
    <3>2. \A r : For(e, r)' /\ Granted(r)' => q \notin req'[r].before
      BY <2>2 DEF For, Granted
    <3> QED
      BY <2>3, <3>1, <3>2
  <2>4. CASE /\ ~(For(e, q)' /\ Granted(q)')
             /\ user'[e].password = user[e].password
    <3>1. \A r : For(e, r)' /\ Granted(r)' =>
            /\ r \in Request \ {q} /\ For(e, r) /\ Granted(r)
            /\ req'[r].before = req[r].before
      BY <2>1, <2>4, SameAnswers DEF For
    <3>2. PICK w : /\ For(e, w) /\ (Granted(w) \/ Doubtful(w))
                   /\ user[e].password = NewPassword(w)
                   /\ \A r : For(e, r) /\ Granted(r) => w \notin req[r].before
      BY <3>1, <1>i DEF LastWriterPrevails
    <3>3. w \in Request \ {q}
      BY <2>1, <3>2 DEF For, Granted, Doubtful
    <3>4. /\ For(e, w)' /\ (Granted(w)' \/ Doubtful(w)')
          /\ NewPassword(w)' = NewPassword(w)
      BY <2>1, <3>2, <3>3, SameAnswers DEF For
    <3>5. \A r : For(e, r)' /\ Granted(r)' => w \notin req'[r].before
      BY <3>1, <3>2
    <3> QED
      BY <2>4, <3>2, <3>4, <3>5
  <2> QED
    BY <1>2, <1>i, <2>3, <2>4, PasswordKinds DEF For
<1> QED
  BY <1>1, <1>2, <1>i, AccountShapes

(* How a request that moves leaves the browser of its account. *)
LEMMA CookieKinds ==
  ASSUME AccountTypes, NEW q \in Request,
         Begin(q) \/ Ended(q) \/ WentOn(q) \/ Wrote(q)
  PROVE  \/ ~SignsIn(q)' /\ ~SignsOut(q)' /\ cookie' = cookie
         \/ /\ SignsIn(q)' /\ ~SignsOut(q)' /\ req'[q].email = req[q].email
            /\ cookie' = cookie \cup {req[q].email}
         \/ /\ SignsOut(q)' /\ ~SignsIn(q)' /\ req'[q].email = req[q].email
            /\ cookie' = cookie \ {req[q].email}
<1>1. CASE Begin(q)
  <2>1. req'[q].phase = "select" /\ cookie' = cookie
    BY <1>1, BeginMakes
  <2> QED
    BY <2>1 DEF SignsIn, SignsOut, Answered
<1>2. CASE Ended(q)
  <2>1. PICK result \in {"ok", "created", "refused", "error"} :
          /\ Busy(q) /\ Answer(q, result) /\ result # "created"
          /\ \/ result # "ok" /\ UNCHANGED <<signedIn, cookie>>
             \/ result = "ok" /\ req[q].op = "forgot" /\ UNCHANGED <<signedIn, cookie>>
             \/ result = "ok" /\ req[q].op \in {"login", "refresh", "oauth"} /\ SignIn(q)
             \/ /\ result = "ok" /\ req[q].op = "logout"
                /\ signedIn' = signedIn /\ cookie' = cookie \ {req[q].email}
    BY <1>2 DEF Ended
  <2>2. Closed(q, result)
    BY <2>1, AnswerCloses
  <2> QED
    BY <2>1, <2>2 DEF Closed, SignsIn, SignsOut, Answered, SignIn
<1>3. CASE WentOn(q)
  <2>1. PICK phase \in {"verify", "write"}, acc \in Row :
          Busy(q) /\ Goes(q, phase, acc) /\ cookie' = cookie
    BY <1>3 DEF WentOn, quiet
  <2>2. Moved(q, phase, acc)
    BY <2>1, GoingOnMoves
  <2> QED
    BY <2>1, <2>2 DEF Moved, SignsIn, SignsOut, Answered
<1>4. CASE Wrote(q)
  <2>1. PICK acc \in Row, result \in {"ok", "created", "error"} :
          /\ Busy(q) /\ Store(q, acc, result)
          /\ Inserted(q, acc, result) \/ Updated(q, acc, result)
    BY <1>4 DEF Wrote
  <2>2. Closed(q, result)
    BY <2>1, StoreCloses
  <2>3. CASE Inserted(q, acc, result)
    BY <2>1, <2>2, <2>3 DEF Closed, Inserted, SignsIn, SignsOut, Answered, SignIn
  <2>4. CASE Updated(q, acc, result)
    BY <2>1, <2>2, <2>4 DEF Closed, Updated, SignsIn, SignsOut, Answered
  <2> QED
    BY <2>1, <2>3, <2>4
<1> QED
  BY <1>1, <1>2, <1>3, <1>4

(* The same for sign-ins and sign-outs. *)
LEMMA LastSignStep ==
  ASSUME AccountInv, [AccountNext]_accountVars
  PROVE  LastSignPrevails'
<1>i. AccountTypes /\ BeforeIsAnswered /\ RequestsKnow /\ LastSignPrevails
  BY DEF AccountInv
<1>1. CASE MailMoved
  BY <1>1, <1>i DEF MailMoved, LastSignPrevails, For, SignsIn, SignsOut, Answered
<1>2. ASSUME NEW q \in Request,
             Begin(q) \/ Ended(q) \/ WentOn(q) \/ Wrote(q)
      PROVE  LastSignPrevails'
  <2>1. Moving(q) /\ ~Answered(q)
    BY <1>2, <1>i, MovingOne DEF Moving
  <2>2. \A r \in Request : Answered(r)' => q \notin req'[r].before
    BY <1>2, <1>i, NotBefore
  <2>3. \A e, r : r # q =>
          /\ For(e, r)' /\ SignsIn(r)' <=> For(e, r) /\ SignsIn(r)
          /\ For(e, r)' /\ SignsOut(r)' <=> For(e, r) /\ SignsOut(r)
          /\ r \in Request => req'[r].before = req[r].before
    BY <2>1, SameAnswers DEF For
  <2>4. ~SignsIn(q) /\ ~SignsOut(q)
    BY <2>1 DEF SignsIn, SignsOut
  <2>5. ASSUME NEW e \in Email, e \in cookie',
               NEW out, For(e, out)', SignsOut(out)'
        PROVE  \E s : /\ For(e, s)' /\ SignsIn(s)'
                      /\ \A o : For(e, o)' /\ SignsOut(o)' => s \notin req'[o].before
    <3>1. CASE For(e, q)' /\ SignsIn(q)'
      <4>1. \A o : For(e, o)' /\ SignsOut(o)' => q \notin req'[o].before
        BY <2>2 DEF For, SignsOut
      <4> QED
        BY <3>1, <4>1
    <3>2. CASE ~(For(e, q)' /\ SignsIn(q)')
      <4>1. e \in cookie /\ ~(For(e, q)' /\ SignsOut(q)')
        BY <1>2, <1>i, <2>5, <3>2, CookieKinds DEF For
      <4>2. For(e, out) /\ SignsOut(out)
        BY <2>3, <2>5, <4>1
      <4>3. PICK s : /\ For(e, s) /\ SignsIn(s)
                     /\ \A o : For(e, o) /\ SignsOut(o) => s \notin req[o].before
        BY <1>i, <4>1, <4>2 DEF LastSignPrevails
      <4>4. s # q
        BY <2>4, <4>3
      <4>5. ASSUME NEW o, For(e, o)', SignsOut(o)' PROVE s \notin req'[o].before
        <5>1. o # q
          BY <4>1, <4>5
        <5>2. o \in Request /\ For(e, o) /\ SignsOut(o)
          BY <2>3, <4>5, <5>1 DEF For
        <5> QED
          BY <2>3, <4>3, <5>1, <5>2
      <4> QED
        BY <2>3, <4>3, <4>4, <4>5
    <3> QED
      BY <3>1, <3>2
  <2>6. ASSUME NEW e \in Email, e \notin cookie',
               NEW in, For(e, in)', SignsIn(in)'
        PROVE  \E o : /\ For(e, o)' /\ SignsOut(o)'
                      /\ \A s : For(e, s)' /\ SignsIn(s)' => o \notin req'[s].before
    <3>1. CASE For(e, q)' /\ SignsOut(q)'
      <4>1. \A s : For(e, s)' /\ SignsIn(s)' => q \notin req'[s].before
        BY <2>2 DEF For, SignsIn
      <4> QED
        BY <3>1, <4>1
    <3>2. CASE ~(For(e, q)' /\ SignsOut(q)')
      <4>1. e \notin cookie /\ ~(For(e, q)' /\ SignsIn(q)')
        BY <1>2, <1>i, <2>6, <3>2, CookieKinds DEF For
      <4>2. For(e, in) /\ SignsIn(in)
        BY <2>3, <2>6, <4>1
      <4>3. PICK o : /\ For(e, o) /\ SignsOut(o)
                     /\ \A s : For(e, s) /\ SignsIn(s) => o \notin req[s].before
        BY <1>i, <4>1, <4>2 DEF LastSignPrevails
      <4>4. o # q
        BY <2>4, <4>3
      <4>5. ASSUME NEW s, For(e, s)', SignsIn(s)' PROVE o \notin req'[s].before
        <5>1. s # q
          BY <4>1, <4>5
        <5>2. s \in Request /\ For(e, s) /\ SignsIn(s)
          BY <2>3, <4>5, <5>1 DEF For
        <5> QED
          BY <2>3, <4>3, <5>1, <5>2
      <4> QED
        BY <2>3, <4>3, <4>4, <4>5
    <3> QED
      BY <3>1, <3>2
  <2> QED
    BY <2>5, <2>6 DEF LastSignPrevails
<1> QED
  BY <1>1, <1>2, <1>i, AccountShapes

(* A token is overwritten only by a request that this step answers. *)
LEMMA LinksStep ==
  ASSUME AccountInv, [AccountNext]_accountVars
  PROVE  LinksLive'
<1>i. AccountTypes /\ BeforeIsAnswered /\ RequestsKnow /\ LinksLive
  BY DEF AccountInv
<1>m. \A m \in outbox \cup mailbox : m.to \in Email
  BY <1>i DEF AccountTypes, Mail
<1>1. CASE MailMoved
  BY <1>1, <1>i DEF MailMoved, LinksLive, For, Kills, Answered
<1>2. ASSUME NEW q \in Request,
             Begin(q) \/ Ended(q) \/ WentOn(q) \/ Wrote(q)
      PROVE  LinksLive'
  <2>1. Moving(q) /\ ~Answered(q)
    BY <1>2, <1>i, MovingOne DEF Moving
  <2>2. \A r \in Request : Answered(r)' => q \notin req'[r].before
    BY <1>2, <1>i, NotBefore
  <2>3. \A r \in Request : Answered(r) => r # q /\ Answered(r)'
    BY <2>1, SameAnswers
  (* A link that was there stays alive, unless q replaces it. *)
  <2>4. ASSUME NEW m \in outbox \cup mailbox, m.kind = "reset",
               user'[m.to].reset # m.token => user[m.to].reset # m.token
                  \/ (For(m.to, q)' /\ Kills(q)')
        PROVE  /\ m.token \in Request /\ Answered(m.token)' /\ user'[m.to].exists
               /\ user'[m.to].reset # m.token =>
                    \E k : /\ For(m.to, k)' /\ Kills(k)' /\ k # m.token
                           /\ k \notin req'[m.token].before
    <3>1. /\ m.token \in Request /\ Answered(m.token) /\ user[m.to].exists
          /\ user[m.to].reset # m.token =>
               \E k : /\ For(m.to, k) /\ Kills(k) /\ k # m.token
                      /\ k \notin req[m.token].before
      BY <2>4, <1>i DEF LinksLive
    <3>2. Answered(m.token)' /\ m.token # q /\ user'[m.to].exists
      BY <3>1, <2>3, <1>m, <1>i, RowsStay
    <3>3. CASE For(m.to, q)' /\ Kills(q)'
      BY <3>1, <3>2, <3>3, <2>2
    <3>4. CASE user[m.to].reset # m.token
      <4>1. PICK k : /\ For(m.to, k) /\ Kills(k) /\ k # m.token
                     /\ k \notin req[m.token].before
        BY <3>1, <3>4
      <4>2. k \in Request \ {q}
        BY <4>1, <2>1 DEF For, Kills
      <4>3. For(m.to, k)' /\ Kills(k)'
        BY <4>1, <4>2, <2>1, SameAnswers DEF For
      <4>4. req'[m.token].before = req[m.token].before
        BY <3>1, <3>2, <2>1, SameAnswers
      <4> QED
        BY <3>1, <3>2, <4>1, <4>3, <4>4
    <3> QED
      BY <2>4, <3>1, <3>2, <3>3, <3>4
  <2>5. CASE Begin(q) \/ Ended(q) \/ WentOn(q)
    <3>1. UNCHANGED <<user, outbox, mailbox>>
      BY <2>5, BeginMakes, <1>i DEF Ended, WentOn, quiet
    <3> QED
      BY <2>4, <3>1 DEF LinksLive
  <2>6. CASE Wrote(q)
    <3>1. PICK acc \in Row, result \in {"ok", "created", "error"} :
            /\ Busy(q) /\ Store(q, acc, result) /\ mailbox' = mailbox
            /\ Inserted(q, acc, result) \/ Updated(q, acc, result)
      BY <2>6 DEF Wrote, written
    <3>2. /\ Closed(q, result) /\ user'[req[q].email] = acc
          /\ \A e \in Email : e # req[q].email => user'[e] = user[e]
      BY <3>1, <1>i, StoreCloses
    <3>3. ASSUME NEW m \in outbox \cup mailbox, m.kind = "reset",
                 user'[m.to].reset # m.token, user[m.to].reset = m.token
          PROVE  For(m.to, q)' /\ Kills(q)'
      <4>1. m.to = req[q].email
        BY <3>2, <3>3, <1>m
      <4>2. Found(q).exists /\ acc.reset # Found(q).reset
        BY <3>2, <3>3, <4>1, <1>i DEF LinksLive, Found
      <4>3. Updated(q, acc, result) /\ req[q].op \in {"forgot", "reset"}
        BY <3>1, <4>2 DEF Inserted, Updated
      <4> QED
        BY <3>2, <4>1, <4>3 DEF Closed, For, Kills, Answered, Updated
    <3>4. ASSUME NEW m \in outbox', m \notin outbox, m.kind = "reset"
          PROVE  /\ m.token \in Request /\ Answered(m.token)' /\ user'[m.to].exists
                 /\ user'[m.to].reset = m.token
      <4>1. Updated(q, acc, result) /\ m = ResetMail(req[q].email, q)
            /\ req[q].op = "forgot"
        BY <3>1, <3>4 DEF Inserted, Updated, CodeMail
      <4>2. m.token = q /\ m.to = req[q].email
        BY <4>1 DEF ResetMail
      <4>3. Answered(q)'
        BY <3>2 DEF Closed, Answered
      <4> QED
        BY <3>2, <4>1, <4>2, <4>3 DEF Updated
    <3>5. \A m \in outbox' \cup mailbox' :
            m \in outbox \cup mailbox \/ (m \in outbox' /\ m \notin outbox)
      BY <3>1
    <3> QED
      BY <2>4, <3>3, <3>4, <3>5 DEF LinksLive
  <2> QED
    BY <1>2, <2>5, <2>6
<1> QED
  BY <1>1, <1>2, <1>i, AccountShapes

(* The INSERT finds no row, so an account is made by one request only. *)
LEMMA EarnedStep ==
  ASSUME AccountInv, [AccountNext]_accountVars
  PROVE  AccountsEarned'
<1>i. AccountTypes /\ BeforeIsAnswered /\ RequestsKnow /\ AccountsEarned
  BY DEF AccountInv
<1>c. \A r \in Request : Created(r) => req[r].email \in Email
  BY <1>i, CallKinds DEF Created, CallRecord
<1>1. CASE MailMoved
  BY <1>1, <1>i DEF MailMoved, AccountsEarned, For, Created, Confirms, Answered
<1>2. ASSUME NEW q \in Request,
             Begin(q) \/ Ended(q) \/ WentOn(q) \/ Wrote(q)
      PROVE  AccountsEarned'
  <2>1. Moving(q) /\ ~Answered(q)
    BY <1>2, <1>i, MovingOne DEF Moving
  <2>2. initially' = initially
    BY <1>2, <1>i, BeginMakes DEF Ended, WentOn, Wrote, quiet, written
  <2>3. \A e \in Email : user[e].exists => user'[e].exists
    BY <1>i, RowsStay
  <2>4. \A r \in Request \ {q} :
          /\ Created(r)' <=> Created(r)
          /\ Confirms(r) => Confirms(r)'
          /\ req'[r].email = req[r].email
    BY <2>1, SameAnswers
  <2>5. \A e : (\E r : For(e, r) /\ Confirms(r)) => \E r : For(e, r)' /\ Confirms(r)'
    <3> SUFFICES ASSUME NEW e, NEW r, For(e, r), Confirms(r)
                 PROVE  For(e, r)' /\ Confirms(r)'
      OBVIOUS
    <3>1. r \in Request \ {q}
      BY <2>1 DEF For, Confirms
    <3> QED
      BY <3>1, <2>4 DEF For
  <2>6. CASE user' = user /\ ~Created(q)'
    <3>1. /\ \A r \in Request : Created(r)' =>
               user'[req'[r].email].exists /\ ~initially'[req'[r].email].exists
          /\ \A r, s \in Request :
               Created(r)' /\ Created(s)' /\ req'[r].email = req'[s].email => r = s
      BY <2>2, <2>4, <2>6, <1>i DEF AccountsEarned
    <3>2. /\ \A e \in Email : initially'[e].exists => user'[e].exists
          /\ \A e \in Email : user'[e].confirmed =>
               initially'[e].confirmed \/ \E r : For(e, r)' /\ Confirms(r)'
      BY <2>2, <2>5, <2>6, <1>i DEF AccountsEarned
    <3> QED
      BY <3>1, <3>2 DEF AccountsEarned
  <2>7. CASE Begin(q) \/ Ended(q) \/ WentOn(q)
    <3>1. user' = user
      BY <2>7, <1>i, BeginMakes DEF Ended, WentOn, quiet
    <3>2. ~Created(q)'
      <4>1. CASE Begin(q)
        BY <4>1, <1>i, BeginMakes DEF Created, Answered
      <4>2. CASE Ended(q)
        BY <4>2, <1>i, AnswerCloses DEF Ended, Closed, Created
      <4>3. CASE WentOn(q)
        BY <4>3, <1>i, GoingOnMoves DEF WentOn, Moved, Created, Answered
      <4> QED
        BY <2>7, <4>1, <4>2, <4>3
    <3> QED
      BY <2>6, <3>1, <3>2
  <2>8. CASE Wrote(q)
    <3>1. PICK acc \in Row, result \in {"ok", "created", "error"} :
            /\ Busy(q) /\ Store(q, acc, result)
            /\ Inserted(q, acc, result) \/ Updated(q, acc, result)
      BY <2>8 DEF Wrote
    <3>2. /\ Closed(q, result) /\ user'[req[q].email] = acc
          /\ \A e \in Email : e # req[q].email => user'[e] = user[e]
          /\ req[q].email \in Email /\ req'[q].email = req[q].email
      BY <3>1, <1>i, StoreCloses, CallKinds DEF CallRecord, Closed
    <3>3. Created(q)' => ~user[req[q].email].exists /\ acc.exists
      BY <3>1, <3>2 DEF Closed, Created, Inserted, Updated, Found
    <3>4. ASSUME NEW r \in Request, Created(r)'
          PROVE  user'[req'[r].email].exists /\ ~initially'[req'[r].email].exists
      <4>1. CASE r = q
        BY <3>2, <3>3, <3>4, <4>1, <2>2, <1>i DEF AccountsEarned
      <4>2. CASE r # q
        BY <3>4, <4>2, <2>2, <2>3, <2>4, <1>c, <1>i DEF AccountsEarned
      <4> QED
        BY <4>1, <4>2
    <3>5. ASSUME NEW r \in Request, NEW s \in Request, Created(r)', Created(s)',
                 req'[r].email = req'[s].email
          PROVE  r = s
      <4>1. \A t \in Request \ {q} :
              Created(t)' /\ req'[t].email = req[q].email => ~Created(q)'
        BY <2>4, <3>3, <1>i DEF AccountsEarned
      <4>2. CASE r # q /\ s # q
        BY <3>5, <4>2, <2>4, <1>i DEF AccountsEarned
      <4> QED
        BY <3>2, <3>5, <4>1, <4>2
    <3>6. ASSUME NEW e \in Email, user'[e].confirmed
          PROVE  initially'[e].confirmed \/ \E r : For(e, r)' /\ Confirms(r)'
      <4>1. CASE user[e].confirmed
        BY <4>1, <2>2, <2>5, <1>i DEF AccountsEarned
      <4>2. CASE ~user[e].confirmed
        <5>1. e = req[q].email /\ acc.confirmed /\ ~Found(q).confirmed
          BY <3>2, <3>6, <4>2 DEF Found
        <5>2. \/ Inserted(q, acc, result) /\ req[q].op = "oauth"
              \/ Updated(q, acc, result) /\ req[q].op = "confirm" /\ req[q].given = "right"
          BY <3>1, <5>1 DEF Inserted, Updated
        <5>3. For(e, q)' /\ Confirms(q)'
          BY <3>2, <5>1, <5>2 DEF For, Closed, Confirms, Answered, Inserted, Updated
        <5> QED
          BY <5>3
      <4> QED
        BY <4>1, <4>2
    <3>7. \A e \in Email : initially'[e].exists => user'[e].exists
      BY <2>2, <2>3, <1>i DEF AccountsEarned
    <3> QED
      BY <3>4, <3>5, <3>6, <3>7 DEF AccountsEarned
  <2> QED
    BY <1>2, <2>7, <2>8
<1> QED
  BY <1>1, <1>2, <1>i, AccountShapes

-----------------------------------------------------------------------------
(* At the start nobody has asked for anything. *)
LEMMA AccountInitInv == AccountInit => AccountInv
<1> SUFFICES ASSUME AccountInit PROVE AccountInv
  OBVIOUS
<1>1. \A q \in Request : req[q] = NoCall
  BY DEF AccountInit
<1>2. \A q \in Request : ~Answered(q) /\ ~Busy(q)
  BY <1>1 DEF Answered, Busy, NoCall
<1>3. user \in [Email -> Row]
  BY NoRowFields, LocalRowFields, GoogleRowFields DEF AccountInit
<1>4. AccountTypes
  <2>1. mailbox \subseteq Mail
    BY DEF AccountInit, CodeMail, Mail
  <2>2. req \in [Request -> CallRecord \cup {NoCall}]
    BY DEF AccountInit
  <2> QED
    BY <1>3, <2>1, <2>2 DEF AccountInit, AccountTypes
<1>5. BeforeIsAnswered /\ RequestsKnow
  BY <1>1, <1>2 DEF BeforeIsAnswered, RequestsKnow
<1>6. LastWriterPrevails /\ LastSignPrevails
  BY <1>2 DEF LastWriterPrevails, LastSignPrevails, For, Granted, SignsIn, SignsOut
<1>7. LinksLive
  <2>1. \A m \in outbox \cup mailbox : m.kind = "code"
    BY DEF AccountInit, CodeMail
  <2> QED
    BY <2>1 DEF LinksLive
<1>8. AccountsEarned
  BY <1>2 DEF AccountsEarned, Created, AccountInit
<1> QED
  BY <1>4, <1>5, <1>6, <1>7, <1>8 DEF AccountInv

(* AccountInv is inductive. *)
LEMMA AccountStepInv ==
  ASSUME AccountInv, [AccountNext]_accountVars
  PROVE  AccountInv'
<1>1. AccountTypes /\ BeforeIsAnswered /\ RequestsKnow
  BY DEF AccountInv
<1>2. AccountTypes' /\ BeforeIsAnswered' /\ RequestsKnow'
  BY <1>1, AccountTypesStep, BeforeStep, RequestsKnowStep
<1> QED
  BY <1>2, LastWriterStep, LastSignStep, LinksStep, EarnedStep DEF AccountInv

(* It implies the module's type invariant, *)
LEMMA AccountInvType == AccountInv => AccountTypeOK
<1> SUFFICES ASSUME AccountInv PROVE AccountTypeOK
  OBVIOUS
<1>1. AccountTypes
  BY DEF AccountInv
<1>2. \A q \in Request : CallTypeOK(req[q])
  BY <1>1 DEF AccountTypes, CallTypeOK, CallRecord
<1> QED
  BY <1>1, <1>2 DEF AccountTypes, AccountTypeOK

(* and that later requests prevail, *)
LEMMA AccountInvPrevails == AccountInv => LaterPrevails
<1> SUFFICES ASSUME AccountInv, NEW e \in Email
             PROVE  LET granted == About(e, PasswordOps, {"ok", "created"})
                                   \cup About(e, {"oauth"}, {"created"})
                        doubtful == About(e, PasswordOps \cup {"oauth"}, {"error"})
                        signIns == About(e, {"login", "refresh"}, {"ok"})
                                   \cup About(e, {"oauth"}, {"ok", "created"})
                        signOuts == About(e, {"logout"}, {"ok"})
                    IN /\ granted # {} =>
                            \E q \in granted \cup doubtful :
                              /\ user[e].password = NewPassword(q)
                              /\ \A r \in granted : q \notin req[r].before
                       /\ e \in cookie /\ signOuts # {} =>
                            \E s \in signIns : \A o \in signOuts : s \notin req[o].before
                       /\ e \notin cookie /\ signIns # {} =>
                            \E o \in signOuts : \A s \in signIns : o \notin req[s].before
  BY DEF LaterPrevails
<1> DEFINE granted == About(e, PasswordOps, {"ok", "created"})
                      \cup About(e, {"oauth"}, {"created"})
           doubtful == About(e, PasswordOps \cup {"oauth"}, {"error"})
           signIns == About(e, {"login", "refresh"}, {"ok"})
                      \cup About(e, {"oauth"}, {"ok", "created"})
           signOuts == About(e, {"logout"}, {"ok"})
<1>1. /\ \A q : q \in granted <=> For(e, q) /\ Granted(q)
      /\ \A q : q \in doubtful <=> For(e, q) /\ Doubtful(q)
      /\ \A q : q \in signIns <=> For(e, q) /\ SignsIn(q)
      /\ \A q : q \in signOuts <=> For(e, q) /\ SignsOut(q)
  BY DEF About, For, Granted, Doubtful, SignsIn, SignsOut
<1> HIDE DEF granted, doubtful, signIns, signOuts
<1>2. LastWriterPrevails /\ LastSignPrevails
  BY DEF AccountInv
<1>3. granted # {} =>
        \E q \in granted \cup doubtful :
          /\ user[e].password = NewPassword(q)
          /\ \A r \in granted : q \notin req[r].before
  BY <1>1, <1>2 DEF LastWriterPrevails
<1>4. e \in cookie /\ signOuts # {} =>
        \E s \in signIns : \A o \in signOuts : s \notin req[o].before
  BY <1>1, <1>2 DEF LastSignPrevails
<1>5. e \notin cookie /\ signIns # {} =>
        \E o \in signOuts : \A s \in signIns : o \notin req[s].before
  BY <1>1, <1>2 DEF LastSignPrevails
<1> QED
  BY <1>3, <1>4, <1>5 DEF granted, doubtful, signIns, signOuts

(* and that links die of others, *)
LEMMA AccountInvLinks == AccountInv => LinkDiesOfOthers
<1> SUFFICES ASSUME AccountInv, NEW m \in mailbox, m.kind = "reset",
                    user[m.to].reset # m.token
             PROVE  \E q \in About(m.to, {"forgot", "reset"}, {"ok", "error"}) \ {m.token} :
                      q \notin req[m.token].before
  BY DEF LinkDiesOfOthers
<1>1. PICK q : /\ For(m.to, q) /\ Kills(q) /\ q # m.token
               /\ q \notin req[m.token].before
  BY DEF AccountInv, LinksLive
<1>2. q \in About(m.to, {"forgot", "reset"}, {"ok", "error"})
  BY <1>1 DEF About, For, Kills
<1> QED
  BY <1>1, <1>2

(* and that accounts are earned. *)
LEMMA AccountInvEarned == AccountInv => AccountIsEarned
<1> SUFFICES ASSUME AccountInv, NEW e \in Email
             PROVE  /\ Cardinality(About(e, Op, {"created"})) <= 1
                    /\ About(e, Op, {"created"}) # {} => ~initially[e].exists
                    /\ user[e].confirmed =>
                         \/ initially[e].confirmed
                         \/ About(e, {"oauth"}, {"created", "error"}) # {}
                         \/ \E q \in About(e, {"confirm"}, {"ok", "error"}) :
                              req[q].given = "right"
  BY DEF AccountIsEarned
<1> DEFINE made == About(e, Op, {"created"})
<1>1. \A q \in made : q \in Request /\ Created(q) /\ req[q].email = e
  BY DEF About, Created
<1> HIDE DEF made
<1>2. \A q, r \in made : q = r
  BY <1>1 DEF AccountInv, AccountsEarned
<1>3. Cardinality(made) <= 1
  <2>1. CASE made = {}
    BY <2>1, FS_EmptySet
  <2>2. CASE made # {}
    <3>1. PICK q : made = {q}
      BY <1>2, <2>2
    <3> QED
      BY <3>1, FS_Singleton
  <2> QED
    BY <2>1, <2>2
<1>4. made # {} => ~initially[e].exists
  BY <1>1 DEF AccountInv, AccountsEarned
<1>5. user[e].confirmed =>
        \/ initially[e].confirmed
        \/ About(e, {"oauth"}, {"created", "error"}) # {}
        \/ \E q \in About(e, {"confirm"}, {"ok", "error"}) : req[q].given = "right"
  BY DEF AccountInv, AccountsEarned, For, Confirms, About
<1> QED
  BY <1>3, <1>4, <1>5 DEF made

(* An answer that is given in a step is backed by a row of `since`. *)
LEMMA AccountStepAnswers ==
  ASSUME AccountInv, [AccountNext]_accountVars, NEW q \in Request,
         ~Answered(q), Answered(q)'
  PROVE  Backed(q, req'[q].result)
<1>i. AccountTypes /\ RequestsKnow
  BY DEF AccountInv
<1>1. PICK p \in Request : Begin(p) \/ Ended(p) \/ WentOn(p) \/ Wrote(p)
  BY <1>i, AccountShapes DEF MailMoved, Answered
<1>2. p = q
  BY <1>1, <1>i, MovingOne, SameAnswers
<1>3. CASE Begin(q)
  BY <1>3, <1>i, BeginMakes DEF Answered
<1>4. CASE WentOn(q)
  BY <1>4, <1>i, GoingOnMoves DEF WentOn, Moved, Answered
<1>5. CASE Ended(q)
  <2>1. PICK result \in {"ok", "created", "refused", "error"} :
          Busy(q) /\ Answer(q, result) /\ Backed(q, result)
    BY <1>5 DEF Ended
  <2>2. Closed(q, result)
    BY <2>1, <1>i, AnswerCloses
  <2> QED
    BY <2>1, <2>2 DEF Closed
<1>6. CASE Wrote(q)
  <2>1. PICK acc \in Row, result \in {"ok", "created", "refused", "error"} :
          Busy(q) /\ Store(q, acc, result) /\ Backed(q, result)
    BY <1>6 DEF Wrote
  <2>2. Closed(q, result)
    BY <2>1, <1>i, StoreCloses
  <2> QED
    BY <2>1, <2>2 DEF Closed
<1> QED
  BY <1>1, <1>2, <1>3, <1>4, <1>5, <1>6

-----------------------------------------------------------------------------
(***************************************************************************)
(* Google sign-ins.  A flow that is out has its cookies in the jar unless  *)
(* they expired or another flow was started or answered while it was out.  *)
(***************************************************************************)
JarIsExplained ==
  \A f \in Flow : flow[f] \in {"at_google", "returning", "mismatch"} =>
    \/ jar = f /\ flow[f] # "mismatch"
    \/ f \in outdated
    \/ since[f] \ {f} # {}

(* The inductive invariant of the sign-ins. *)
FlowInv == FlowTypeOK /\ JarIsExplained

(* At the start the jar is empty. *)
LEMMA FlowInitInv == FlowInit => FlowInv
BY FlowAssumption DEF FlowInit, FlowInv, FlowTypeOK, JarIsExplained, Stage

(* FlowInv is inductive. *)
LEMMA FlowStepInv ==
  ASSUME FlowInv, [FlowNext]_flowVars
  PROVE  FlowInv'
<1> USE FlowAssumption DEF FlowInv, FlowTypeOK, JarIsExplained, Stage
<1>1. ASSUME NEW f \in Flow, StartGoogleFlow(f) PROVE FlowInv'
  BY <1>1 DEF StartGoogleFlow, Move, Noted
<1>2. ASSUME NEW f \in Flow, Consent(f) PROVE FlowInv'
  BY <1>2 DEF Consent, Move
<1>3. ASSUME NEW f \in Flow, Callback(f) PROVE FlowInv'
  BY <1>3 DEF Callback, Move
<1>4. ASSUME NEW f \in Flow, Exchange(f) PROVE FlowInv'
  BY <1>4 DEF Exchange, Move, Noted
<1>5. CASE ExpireCookies
  BY <1>5 DEF ExpireCookies
<1>6. CASE UNCHANGED flowVars
  BY <1>6 DEF flowVars
<1> QED
  BY <1>1, <1>2, <1>3, <1>4, <1>5, <1>6 DEF FlowNext

(* A callback that comes back finds its cookies unless the jar's history   *)
(* explains it.                                                            *)
LEMMA FlowInvExplains == FlowInv => CallbackIsExplained
BY DEF FlowInv, JarIsExplained, CallbackIsExplained

-----------------------------------------------------------------------------
(***************************************************************************)
(* API keys.  A call is in progress from its SELECT to its answer.         *)
(***************************************************************************)
Calling(c) == call[c].phase \in {"select", "write", "match"}

(* The type invariant that the proofs use. *)
KeyTypes ==
  /\ row \in [Key -> KeyRow]
  /\ overdue \subseteq Key /\ touching \subseteq Key
  /\ call \in [KeyCall -> KeyCallState \cup {Uncalled}]

(* A row that was never made has no expiry. *)
ExpiryIsOfARow ==
  /\ \A k \in Key : row[k].expires => row[k].exists
  /\ \A k \in overdue : row[k].expires

(* A key is made once, by the one call that drew it; its row is written    *)
(* after that only by a revocation, and a revoked row stays inactive.      *)
KeyIsMadeOnce ==
  /\ \A c \in KeyCall :
       Doing(c, "create", "write") => ~row[call[c].key].exists
  /\ \A c, d \in KeyCall :
       /\ call[c] # Uncalled /\ call[c].op = "create"
       /\ call[d] # Uncalled /\ call[d].op = "create"
       /\ call[c].key = call[d].key
       => c = d
  /\ \A c \in KeyCall :
       Doing(c, "revoke", "write") => row[call[c].key].exists

(* A revoked row is there and inactive, and a call that began after a      *)
(* revocation (`gone`) is about a revoked key.                             *)
RevokedIsFinal ==
  /\ \A k \in Key : Revoked(k) => row[k].exists /\ ~row[k].isActive
  /\ \A c \in KeyCall : Calling(c) /\ call[c].gone => Revoked(call[c].key)

(* What a call in progress knows of its key. *)
KeyIsWatched ==
  \A c \in KeyCall : Calling(c) =>
    /\ IsLive(call[c].key) => TRUE \in call[c].known
    /\ ~IsLive(call[c].key) => FALSE \in call[c].known
    /\ call[c].phase = "match" =>
         /\ call[c].op = "verify"
         /\ call[c].key \in call[c].found => TRUE \in call[c].known /\ ~call[c].gone
         /\ call[c].key \notin call[c].found => FALSE \in call[c].known

(* The inductive invariant of keys. *)
KeyInv ==
  KeyTypes /\ ExpiryIsOfARow /\ KeyIsMadeOnce /\ RevokedIsFinal /\ KeyIsWatched

(* A call is not made yet, in progress, or answered. *)
LEMMA KeyCallKinds ==
  ASSUME KeyTypes, NEW c \in KeyCall
  PROVE  /\ Calling(c) => call[c] \in KeyCallState /\ call[c] # Uncalled
                          /\ call[c].key \in Key
         /\ call[c] = Uncalled <=> call[c].phase = "idle"
         /\ call[c] # Uncalled => call[c] \in KeyCallState
         /\ Uncalled.phase = "idle"
BY DEF KeyTypes, KeyCallState, Uncalled, Calling

(* A call is answered, another one stays as it is but for what it knows.   *)
KeyClosed(c, result) ==
  /\ call'[c] \in KeyCallState
  /\ call'[c].phase = "done" /\ call'[c].result = result
  /\ call'[c].op = call[c].op /\ call'[c].key = call[c].key

KeySame(d) ==
  /\ call'[d] \in KeyCallState \cup {Uncalled}
  /\ (call'[d] = Uncalled <=> call[d] = Uncalled)
  /\ call'[d].phase = call[d].phase /\ call'[d].result = call[d].result
  /\ call[d] # Uncalled =>
       /\ call'[d].op = call[d].op /\ call'[d].key = call[d].key
       /\ call'[d].found = call[d].found /\ call'[d].gone = call[d].gone
       /\ call[d].known \subseteq call'[d].known

KeyReply(c, result) ==
  [call[c] EXCEPT !.phase = "done", !.result = result, !.found = {}, !.known = {}]

(* That record, written out field by field. *)
LEMMA KeyReplyFields ==
  ASSUME NEW c, call[c] \in KeyCallState, NEW result
  PROVE  KeyReply(c, result) =
           [op |-> call[c].op, key |-> call[c].key, user |-> call[c].user,
            phase |-> "done", found |-> {}, known |-> {}, gone |-> call[c].gone,
            result |-> result]
<1>1. PICK r : r = call[c]
  OBVIOUS
<1>2. r = [op |-> r.op, key |-> r.key, user |-> r.user, phase |-> r.phase,
           found |-> r.found, known |-> r.known, gone |-> r.gone,
           result |-> r.result]
  BY <1>1 DEF KeyCallState
<1>3. PICK r1 : r1 = [r EXCEPT !.phase = "done"]
  OBVIOUS
<1>4. r1 = [op |-> r.op, key |-> r.key, user |-> r.user, phase |-> "done",
            found |-> r.found, known |-> r.known, gone |-> r.gone,
            result |-> r.result]
  BY <1>2, <1>3
<1>5. PICK r2 : r2 = [r1 EXCEPT !.result = result]
  OBVIOUS
<1>6. r2 = [op |-> r.op, key |-> r.key, user |-> r.user, phase |-> "done",
            found |-> r.found, known |-> r.known, gone |-> r.gone,
            result |-> result]
  BY <1>4, <1>5
<1>7. PICK r3 : r3 = [r2 EXCEPT !.found = {}]
  OBVIOUS
<1>8. r3 = [op |-> r.op, key |-> r.key, user |-> r.user, phase |-> "done",
            found |-> {}, known |-> r.known, gone |-> r.gone, result |-> result]
  BY <1>6, <1>7
<1>9. [r3 EXCEPT !.known = {}] =
        [op |-> r.op, key |-> r.key, user |-> r.user, phase |-> "done",
         found |-> {}, known |-> {}, gone |-> r.gone, result |-> result]
  BY <1>8
<1>10. KeyReply(c, result) = [r3 EXCEPT !.known = {}]
  BY <1>1, <1>3, <1>5, <1>7 DEF KeyReply
<1> QED
  BY <1>1, <1>9, <1>10

(* That record is a call which is over. *)
LEMMA ReplyIsACall ==
  ASSUME KeyTypes, NEW c \in KeyCall, Calling(c), NEW result \in KeyResults
  PROVE  /\ KeyReply(c, result) \in KeyCallState
         /\ KeyReply(c, result).phase = "done"
         /\ KeyReply(c, result).result = result
         /\ KeyReply(c, result).op = call[c].op
         /\ KeyReply(c, result).key = call[c].key
<1>1. call[c] \in KeyCallState
  BY KeyCallKinds
<1>2. PICK r : r = call[c]
  OBVIOUS
<1>3. PICK n : n = [op |-> r.op, key |-> r.key, user |-> r.user,
                    phase |-> "done", found |-> {}, known |-> {},
                    gone |-> r.gone, result |-> result]
  OBVIOUS
<1>4. n \in KeyCallState
  BY <1>1, <1>2, <1>3 DEF KeyCallState
<1>5. KeyReply(c, result) = n
  BY <1>1, <1>2, <1>3, KeyReplyFields
<1> QED
  BY <1>2, <1>3, <1>4, <1>5

(* An answer without a write closes its call and leaves the others alone. *)
LEMMA ResolveCloses ==
  ASSUME KeyTypes, NEW c \in KeyCall, Calling(c), NEW result \in KeyResults,
         Resolve(c, result)
  PROVE  /\ KeyClosed(c, result)
         /\ call' \in [KeyCall -> KeyCallState \cup {Uncalled}]
         /\ \A d \in KeyCall \ {c} : call'[d] = call[d] /\ KeySame(d)
<1>1. call \in [KeyCall -> KeyCallState \cup {Uncalled}]
  BY DEF KeyTypes
<1>2. call' = [call EXCEPT ![c] = KeyReply(c, result)]
  BY <1>1 DEF Resolve, KeyReply
<1>3. /\ call'[c] = KeyReply(c, result)
      /\ call' \in [KeyCall -> KeyCallState \cup {Uncalled}]
      /\ \A d \in KeyCall \ {c} : call'[d] = call[d]
  BY <1>1, <1>2, ReplyIsACall
<1> QED
  BY <1>1, <1>3, ReplyIsACall DEF KeyClosed, KeySame

(* An answer with a write does so too, and every call in progress on the   *)
(* key learns of its new state.                                            *)
LEMMA WriteCloses ==
  ASSUME KeyTypes, NEW c \in KeyCall, Calling(c), NEW result \in KeyResults,
         NEW k \in Key, NEW new \in KeyRow, WriteKey(c, k, new, result)
  PROVE  /\ KeyClosed(c, result)
         /\ call' \in [KeyCall -> KeyCallState \cup {Uncalled}]
         /\ \A d \in KeyCall \ {c} :
              /\ KeySame(d)
              /\ Calling(d) /\ call[d].key = k => new.isActive \in call'[d].known
         /\ row' \in [Key -> KeyRow] /\ row'[k] = new
         /\ \A j \in Key : j # k => row'[j] = row[j]
<1>1. /\ call \in [KeyCall -> KeyCallState \cup {Uncalled}]
      /\ row \in [Key -> KeyRow]
  BY DEF KeyTypes
<1>2. call' = [d \in KeyCall |->
        IF d = c THEN KeyReply(c, result)
        ELSE IF Calling(d) /\ call[d].key = k
          THEN [call[d] EXCEPT !.known = @ \cup {new.isActive}]
        ELSE call[d]]
  BY DEF WriteKey, KeyReply, Calling
<1>3. KeyClosed(c, result)
  BY <1>2, ReplyIsACall DEF KeyClosed
<1>4. ASSUME NEW d \in KeyCall \ {c}
      PROVE  /\ KeySame(d)
             /\ Calling(d) /\ call[d].key = k => new.isActive \in call'[d].known
  <2>1. CASE Calling(d) /\ call[d].key = k
    <3>1. call[d] \in KeyCallState
      BY <2>1, KeyCallKinds
    <3>2. PICK r : r = call[d]
      OBVIOUS
    <3>3. PICK b \in BOOLEAN : b = new.isActive
      BY DEF KeyRow
    <3>4. PICK n : n = [op |-> r.op, key |-> r.key, user |-> r.user,
                        phase |-> r.phase, found |-> r.found,
                        known |-> r.known \cup {b}, gone |-> r.gone,
                        result |-> r.result]
      OBVIOUS
    <3>5. r.known \cup {b} \in SUBSET BOOLEAN
      BY <3>1, <3>2 DEF KeyCallState
    <3>6. n \in KeyCallState
      BY <3>1, <3>2, <3>4, <3>5 DEF KeyCallState
    <3>7. call'[d] = n
      <4>1. call'[d] = [r EXCEPT !.known = @ \cup {b}]
        BY <1>2, <2>1, <3>2, <3>3
      <4>2. r = [op |-> r.op, key |-> r.key, user |-> r.user, phase |-> r.phase,
                 found |-> r.found, known |-> r.known, gone |-> r.gone,
                 result |-> r.result]
        BY <3>1, <3>2 DEF KeyCallState
      <4> QED
        BY <3>4, <4>1, <4>2
    <3>8. call'[d] # Uncalled /\ call[d] # Uncalled
      BY <3>1, <3>6, <3>7 DEF KeyCallState, Uncalled
    <3>9. /\ n.op = r.op /\ n.key = r.key /\ n.found = r.found /\ n.gone = r.gone
          /\ n.known = r.known \cup {b} /\ n.phase = r.phase /\ n.result = r.result
      BY <3>4
    <3> QED
      BY <3>2, <3>3, <3>6, <3>7, <3>8, <3>9 DEF KeySame
  <2>2. CASE ~(Calling(d) /\ call[d].key = k)
    <3>1. call'[d] = call[d]
      BY <1>2, <2>2
    <3> QED
      BY <1>1, <2>2, <3>1 DEF KeySame
  <2> QED
    BY <2>1, <2>2
<1>5. call' \in [KeyCall -> KeyCallState \cup {Uncalled}]
  <2>1. \A d \in KeyCall : call'[d] \in KeyCallState \cup {Uncalled}
    BY <1>3, <1>4 DEF KeyClosed, KeySame
  <2> QED
    BY <1>2, <2>1
<1>6. /\ row' \in [Key -> KeyRow] /\ row'[k] = new
      /\ \A j \in Key : j # k => row'[j] = row[j]
  BY <1>1 DEF WriteKey
<1> QED
  BY <1>3, <1>4, <1>5, <1>6

-----------------------------------------------------------------------------
(***************************************************************************)
(* The things a step can be: a call is made, answered without a write,     *)
(* goes on, or is answered with a write; or no call moves, and the rows    *)
(* keep all that answers are made from.                                    *)
(***************************************************************************)
KeyOpened(c) ==
  /\ call[c] = Uncalled /\ call' \in [KeyCall -> KeyCallState \cup {Uncalled}]
  /\ \A d \in KeyCall \ {c} : call'[d] = call[d] /\ KeySame(d)
  /\ call'[c] \in KeyCallState /\ call'[c].known = {IsLive(call'[c].key)}
  /\ call'[c].gone = Revoked(call'[c].key)
  /\ IF call'[c].op = "create"
       THEN /\ call'[c].phase = "write" /\ ~row[call'[c].key].exists
            /\ \A d \in KeyCall :
                 call[d] # Uncalled /\ call[d].op = "create"
                   => call[d].key # call'[c].key
       ELSE call'[c].phase = "select"
  /\ UNCHANGED <<row, overdue, touching>>

KeyAnswered(c) ==
  \E result \in KeyResults :
    /\ Calling(c) /\ Resolve(c, result)
    /\ result # "ok" \/ call[c].op = "verify"
    /\ call[c].op = "verify" => KeyAnswerHolds(c, result)
    /\ UNCHANGED <<row, overdue>> /\ touching' \subseteq touching \cup {call[c].key}

KeyMoved(c, phase) ==
  /\ call'[c] \in KeyCallState /\ call'[c].phase = phase
  /\ call'[c].op = call[c].op /\ call'[c].key = call[c].key
  /\ call'[c].known = call[c].known /\ call'[c].gone = call[c].gone

KeyWentOn(c) ==
  /\ Calling(c) /\ call' \in [KeyCall -> KeyCallState \cup {Uncalled}]
  /\ \A d \in KeyCall \ {c} : call'[d] = call[d] /\ KeySame(d)
  /\ UNCHANGED <<row, overdue, touching>>
  /\ \/ /\ KeyMoved(c, "match") /\ call[c].op = "verify"
        /\ call[c].key \in call'[c].found <=> IsLive(call[c].key)
     \/ /\ KeyMoved(c, "write") /\ call[c].op = "revoke"
        /\ row[call[c].key].exists

KeyWrote(c) ==
  \E new \in KeyRow, result \in {"ok", "died"} :
    /\ Calling(c) /\ WriteKey(c, call[c].key, new, result) /\ new.exists
    /\ UNCHANGED <<overdue, touching>>
    /\ \/ Doing(c, "create", "write") /\ new.isActive
       \/ /\ Doing(c, "revoke", "write") /\ ~new.isActive
          /\ new.expires = row[call[c].key].expires

(* No call moves: a key expires, a row is touched. *)
RowsKept ==
  /\ row' \in [Key -> KeyRow] /\ UNCHANGED call
  /\ \A k \in Key : /\ row'[k].exists = row[k].exists
                    /\ row'[k].isActive = row[k].isActive
                    /\ row'[k].expires = row[k].expires
  /\ overdue' \subseteq Key /\ touching' \subseteq touching
  /\ \A k \in overdue' : k \in overdue \/ row[k].expires

(* A call that is made is a record with what its key is now. *)
LEMMA BeginOpens ==
  ASSUME KeyTypes, NEW c \in KeyCall, KeyBegin(c)
  PROVE  KeyOpened(c)
<1>1. PICK op \in {"create", "verify", "revoke"}, k \in Key, u \in User :
        /\ op = "create" => ~row[k].exists /\
             \A d \in KeyCall :
               call[d] # Uncalled /\ call[d].op = "create" => call[d].key # k
        /\ call' = [call EXCEPT ![c] =
             [op |-> op, key |-> k, user |-> u,
              phase |-> IF op = "create" THEN "write" ELSE "select",
              found |-> {}, known |-> {IsLive(k)}, gone |-> Revoked(k),
              result |-> "none"]]
  BY DEF KeyBegin
<1>2. PICK live \in BOOLEAN : live = IsLive(k)
  BY DEF IsLive, KeyTypes, KeyRow
<1>3. PICK gone \in BOOLEAN : gone = Revoked(k)
  BY DEF Revoked
<1>4. PICK phase \in {"write", "select"} :
        phase = IF op = "create" THEN "write" ELSE "select"
  OBVIOUS
<1>5. PICK n : n = [op |-> op, key |-> k, user |-> u, phase |-> phase,
                    found |-> {}, known |-> {live}, gone |-> gone,
                    result |-> "none"]
  OBVIOUS
<1>6. n \in KeyCallState
  BY <1>5 DEF KeyCallState
<1>7. /\ n.op = op /\ n.key = k /\ n.phase = phase /\ n.known = {live}
      /\ n.gone = gone
  BY <1>5
<1>8. call' = [call EXCEPT ![c] = n]
  BY <1>1, <1>2, <1>3, <1>4, <1>5
<1>9. /\ call'[c] = n /\ call' \in [KeyCall -> KeyCallState \cup {Uncalled}]
      /\ \A d \in KeyCall \ {c} : call'[d] = call[d]
  BY <1>6, <1>8 DEF KeyTypes
<1>10. call[c] = Uncalled /\ UNCHANGED <<row, overdue, touching>>
  BY DEF KeyBegin
<1>11. \A d \in KeyCall \ {c} : KeySame(d)
  BY <1>9 DEF KeySame, KeyTypes
<1>12. IF n.op = "create"
         THEN /\ n.phase = "write" /\ ~row[n.key].exists
              /\ \A d \in KeyCall :
                   call[d] # Uncalled /\ call[d].op = "create"
                     => call[d].key # n.key
         ELSE n.phase = "select"
  BY <1>1, <1>4, <1>7
<1>13. n.known = {IsLive(n.key)} /\ n.gone = Revoked(n.key)
  BY <1>2, <1>3, <1>7
<1> QED
  BY <1>6, <1>9, <1>10, <1>11, <1>12, <1>13 DEF KeyOpened

(* A call that goes on keeps what it knows. *)
LEMMA KeyGoesOn ==
  ASSUME KeyTypes, NEW c \in KeyCall, Calling(c),
         NEW phase \in {"match", "write"}, NEW found \in SUBSET Key,
         \/ call' = [call EXCEPT ![c].phase = phase, ![c].found = found]
         \/ call' = [call EXCEPT ![c].phase = phase] /\ found = call[c].found
  PROVE  /\ KeyMoved(c, phase) /\ call'[c].found = found
         /\ call' \in [KeyCall -> KeyCallState \cup {Uncalled}]
         /\ \A d \in KeyCall \ {c} : call'[d] = call[d] /\ KeySame(d)
<1>1. call[c] \in KeyCallState /\ call \in [KeyCall -> KeyCallState \cup {Uncalled}]
  BY KeyCallKinds DEF KeyTypes
<1>2. PICK r : r = call[c]
  OBVIOUS
<1>3. r = [op |-> r.op, key |-> r.key, user |-> r.user, phase |-> r.phase,
           found |-> r.found, known |-> r.known, gone |-> r.gone,
           result |-> r.result]
  BY <1>1, <1>2 DEF KeyCallState
<1>4. PICK r1 : r1 = [r EXCEPT !.phase = phase]
  OBVIOUS
<1>5. r1 = [op |-> r.op, key |-> r.key, user |-> r.user, phase |-> phase,
            found |-> r.found, known |-> r.known, gone |-> r.gone,
            result |-> r.result]
  BY <1>3, <1>4
<1>6. PICK n : n = [op |-> r.op, key |-> r.key, user |-> r.user, phase |-> phase,
                    found |-> found, known |-> r.known, gone |-> r.gone,
                    result |-> r.result]
  OBVIOUS
<1>7. [r1 EXCEPT !.found = found] = n
  BY <1>5, <1>6
<1>8. call' = [call EXCEPT ![c] = n]
  <2>1. CASE call' = [call EXCEPT ![c].phase = phase, ![c].found = found]
    <3>1. call' = [call EXCEPT ![c] = [r1 EXCEPT !.found = found]]
      BY <2>1, <1>1, <1>2, <1>4
    <3> QED
      BY <3>1, <1>7
  <2>2. CASE call' = [call EXCEPT ![c].phase = phase] /\ found = call[c].found
    <3>1. call' = [call EXCEPT ![c] = r1]
      BY <2>2, <1>1, <1>2, <1>4
    <3>2. r1 = n
      BY <2>2, <1>2, <1>5, <1>6
    <3> QED
      BY <3>1, <3>2
  <2> QED
    BY <2>1, <2>2
<1>9. n \in KeyCallState
  BY <1>1, <1>2, <1>6 DEF KeyCallState
<1>10. /\ call'[c] = n /\ call' \in [KeyCall -> KeyCallState \cup {Uncalled}]
       /\ \A d \in KeyCall \ {c} : call'[d] = call[d]
  BY <1>1, <1>8, <1>9
<1>11. KeyMoved(c, phase) /\ call'[c].found = found
  BY <1>2, <1>6, <1>9, <1>10 DEF KeyMoved
<1> QED
  BY <1>1, <1>10, <1>11 DEF KeySame

(* Every step of ApiKeys is one of these. *)
LEMMA KeyShapes ==
  ASSUME KeyInv, [KeyNext]_keyVars
  PROVE  \/ \E c \in KeyCall :
              KeyOpened(c) \/ KeyAnswered(c) \/ KeyWentOn(c) \/ KeyWrote(c)
         \/ RowsKept
<1>i. KeyTypes /\ ExpiryIsOfARow /\ RevokedIsFinal /\ KeyIsWatched
  BY DEF KeyInv
<1>t. ASSUME NEW c \in KeyCall, Calling(c)
      PROVE  /\ call[c] \in KeyCallState /\ call[c].key \in Key
             /\ row[call[c].key] \in KeyRow
  BY <1>t, <1>i, KeyCallKinds DEF KeyTypes
<1>1. ASSUME NEW c \in KeyCall, KeyBegin(c) PROVE KeyOpened(c)
  BY <1>1, <1>i, BeginOpens
<1>2. ASSUME NEW c \in KeyCall, CreateInsert(c) PROVE KeyWrote(c)
  <2>1. Calling(c)
    BY <1>2 DEF CreateInsert, Doing, Calling
  <2>2. PICK expires \in BOOLEAN, result \in {"ok", "died"} :
          WriteKey(c, call[c].key,
                   [NoKeyRow EXCEPT !.exists = TRUE, !.isActive = TRUE,
                                    !.expires = expires], result)
    BY <1>2 DEF CreateInsert
  <2>3. PICK new : new = [NoKeyRow EXCEPT !.exists = TRUE, !.isActive = TRUE,
                                          !.expires = expires]
    OBVIOUS
  <2>4. new \in KeyRow /\ new.exists /\ new.isActive
    BY <2>3 DEF NoKeyRow, KeyRow
  <2> QED
    BY <1>2, <2>1, <2>2, <2>3, <2>4 DEF CreateInsert, KeyWrote
<1>3. ASSUME NEW c \in KeyCall, VerifySelect(c)
      PROVE  KeyAnswered(c) \/ KeyWentOn(c)
  <2> DEFINE rows == {k \in Key : IsLive(k) /\ PrefixOf[k] = PrefixOf[call[c].key]}
  <2>1. Calling(c) /\ call[c].op = "verify" /\ UNCHANGED <<row, overdue, touching>>
    BY <1>3 DEF VerifySelect, Doing, Calling
  <2>2. call[c].key \in rows <=> IsLive(call[c].key)
    BY <2>1, <1>t
  <2>3. IF rows = {} THEN Resolve(c, "notFound")
          ELSE call' = [call EXCEPT ![c].phase = "match", ![c].found = rows]
    BY <1>3 DEF VerifySelect
  <2>4. rows \in SUBSET Key
    OBVIOUS
  <2> HIDE DEF rows
  <2>5. CASE rows = {}
    <3>1. FALSE \in call[c].known
      BY <2>1, <2>2, <2>5, <1>i DEF KeyIsWatched
    <3>2. KeyAnswerHolds(c, "notFound")
      BY <3>1 DEF KeyAnswerHolds
    <3> QED
      BY <2>1, <2>3, <2>5, <3>2 DEF KeyAnswered, KeyResults
  <2>6. CASE rows # {}
    <3>1. /\ KeyMoved(c, "match") /\ call'[c].found = rows
          /\ call' \in [KeyCall -> KeyCallState \cup {Uncalled}]
          /\ \A d \in KeyCall \ {c} : call'[d] = call[d] /\ KeySame(d)
      BY <2>1, <2>3, <2>4, <2>6, <1>i, KeyGoesOn
    <3> QED
      BY <2>1, <2>2, <3>1 DEF KeyWentOn
  <2> QED
    BY <2>5, <2>6
<1>4. ASSUME NEW c \in KeyCall, VerifyMatch(c) PROVE KeyAnswered(c)
  <2>1. /\ Calling(c) /\ call[c].op = "verify" /\ call[c].phase = "match"
        /\ UNCHANGED <<row, overdue>>
    BY <1>4 DEF VerifyMatch, Doing, Calling
  <2>2. /\ call[c].key \in call[c].found => TRUE \in call[c].known /\ ~call[c].gone
        /\ call[c].key \notin call[c].found => FALSE \in call[c].known
    BY <2>1, <1>i DEF KeyIsWatched
  <2>3. CASE call[c].key \notin call[c].found
    <3>1. Resolve(c, "notFound") /\ touching' = touching
      BY <1>4, <2>3 DEF VerifyMatch
    <3> QED
      BY <2>1, <2>2, <2>3, <3>1 DEF KeyAnswered, KeyAnswerHolds, KeyResults
  <2>4. CASE call[c].key \in call[c].found /\ call[c].key \in overdue
    <3>1. Resolve(c, "expired") /\ touching' = touching
      BY <1>4, <2>4 DEF VerifyMatch
    <3> QED
      BY <2>1, <2>2, <2>4, <3>1 DEF KeyAnswered, KeyAnswerHolds, KeyResults
  <2>5. CASE call[c].key \in call[c].found /\ call[c].key \notin overdue
    <3>1. Resolve(c, "ok") /\ touching' = touching \cup {call[c].key}
      BY <1>4, <2>5 DEF VerifyMatch
    <3> QED
      BY <2>1, <2>2, <2>5, <3>1 DEF KeyAnswered, KeyAnswerHolds, KeyResults
  <2> QED
    BY <2>3, <2>4, <2>5
<1>5. ASSUME NEW c \in KeyCall, RevokeSelect(c)
      PROVE  KeyAnswered(c) \/ KeyWentOn(c)
  <2>1. Calling(c) /\ call[c].op = "revoke" /\ UNCHANGED <<row, overdue, touching>>
    BY <1>5 DEF RevokeSelect, Doing, Calling
  <2>2. CASE row[call[c].key].exists /\ OwnerOf[call[c].key] = call[c].user
    <3>1. call' = [call EXCEPT ![c].phase = "write"]
      BY <1>5, <2>2 DEF RevokeSelect
    <3>2. call[c].found \in SUBSET Key
      BY <2>1, <1>t DEF KeyCallState
    <3>3. /\ KeyMoved(c, "write")
          /\ call' \in [KeyCall -> KeyCallState \cup {Uncalled}]
          /\ \A d \in KeyCall \ {c} : call'[d] = call[d] /\ KeySame(d)
      BY <2>1, <3>1, <3>2, <1>i, KeyGoesOn
    <3> QED
      BY <2>1, <2>2, <3>3 DEF KeyWentOn
  <2>3. CASE ~(row[call[c].key].exists /\ OwnerOf[call[c].key] = call[c].user)
    BY <1>5, <2>1, <2>3 DEF RevokeSelect, KeyAnswered, KeyResults
  <2> QED
    BY <2>2, <2>3
<1>6. ASSUME NEW c \in KeyCall, RevokeUpdate(c) PROVE KeyWrote(c)
  <2>1. Calling(c)
    BY <1>6 DEF RevokeUpdate, Doing, Calling
  <2>2. PICK old \in KeyRow : old = row[call[c].key]
    BY <2>1, <1>t
  <2>3. PICK result \in {"ok", "died"} :
          WriteKey(c, call[c].key,
                   [old EXCEPT !.isActive = FALSE, !.revoked = TRUE], result)
    BY <1>6, <2>2 DEF RevokeUpdate
  <2>4. PICK new : new = [old EXCEPT !.isActive = FALSE, !.revoked = TRUE]
    OBVIOUS
  <2>5. /\ new \in KeyRow /\ ~new.isActive /\ new.expires = old.expires
        /\ new.exists = old.exists
    BY <2>4 DEF KeyRow
  <2>6. old.exists
    BY <1>6, <2>2 DEF RevokeUpdate, KeyInv, KeyIsMadeOnce
  <2> QED
    BY <1>6, <2>1, <2>2, <2>3, <2>4, <2>5, <2>6 DEF RevokeUpdate, KeyWrote
<1>7. ASSUME NEW c \in KeyCall, KeyFail(c) PROVE KeyAnswered(c)
  BY <1>7 DEF KeyFail, KeyAnswered, KeyResults, KeyAnswerHolds, Calling
<1>8. ASSUME NEW k \in Key, Touch(k) PROVE RowsKept
  <2>1. /\ touching' = touching \ {k} /\ UNCHANGED <<overdue, call>>
        /\ row' = row \/ row' = [row EXCEPT ![k].used = TRUE]
    BY <1>8 DEF Touch
  <2>2. PICK old \in KeyRow : old = row[k]
    BY <1>i DEF KeyTypes
  <2>3. PICK new : new = [old EXCEPT !.used = TRUE]
    OBVIOUS
  <2>4. /\ new \in KeyRow /\ new.exists = old.exists
        /\ new.isActive = old.isActive /\ new.expires = old.expires
    BY <2>3 DEF KeyRow
  <2>5. row' = row \/ row' = [row EXCEPT ![k] = new]
    BY <2>1, <2>2, <2>3
  <2> QED
    BY <2>1, <2>2, <2>4, <2>5, <1>i DEF RowsKept, KeyTypes
<1>9. ASSUME NEW k \in Key, KeyExpires(k) PROVE RowsKept
  BY <1>9, <1>i DEF KeyExpires, RowsKept, KeyTypes
<1>10. CASE UNCHANGED keyVars
  BY <1>10, <1>i DEF keyVars, RowsKept, KeyTypes
<1> QED
  BY <1>1, <1>2, <1>3, <1>4, <1>5, <1>6, <1>7, <1>8, <1>9, <1>10 DEF KeyNext

-----------------------------------------------------------------------------
(* What another call sees of a step: nothing but its own knowledge. *)
LEMMA SameKeyCalls ==
  ASSUME KeyTypes, NEW d \in KeyCall, KeySame(d)
  PROVE  /\ Calling(d)' <=> Calling(d)
         /\ Calling(d) =>
              /\ call'[d].op = call[d].op /\ call'[d].key = call[d].key
              /\ call'[d].phase = call[d].phase
              /\ call'[d].found = call[d].found /\ call'[d].gone = call[d].gone
              /\ call[d].known \subseteq call'[d].known
         /\ Doing(d, "create", "write")' <=> Doing(d, "create", "write")
         /\ Doing(d, "revoke", "write")' <=> Doing(d, "revoke", "write")
BY KeyCallKinds DEF KeySame, Calling, Doing

(* Only a revocation answered "ok" makes a key revoked. *)
LEMMA RevokedBy ==
  ASSUME KeyTypes, NEW c \in KeyCall, \A d \in KeyCall \ {c} : KeySame(d),
         call[c].phase # "done", NEW k
  PROVE  /\ Revoked(k) => Revoked(k)'
         /\ Revoked(k)' =>
              \/ Revoked(k)
              \/ /\ call'[c].phase = "done" /\ call'[c].op = "revoke"
                 /\ call'[c].key = k /\ call'[c].result = "ok"
<1>1. ASSUME NEW d \in KeyCall \ {c}
      PROVE  /\ call'[d].phase = call[d].phase
             /\ call'[d].result = call[d].result
             /\ call[d].phase = "done" =>
                  call'[d].op = call[d].op /\ call'[d].key = call[d].key
  BY <1>1, KeyCallKinds DEF KeySame
<1> QED
  BY <1>1 DEF Revoked

(* A step that leaves the rows alone and answers no revocation "ok". *)
LEMMA RowsUnchanged ==
  ASSUME KeyInv, NEW c \in KeyCall, UNCHANGED <<row, overdue>>,
         touching' \subseteq Key, call' \in [KeyCall -> KeyCallState \cup {Uncalled}],
         \A d \in KeyCall \ {c} : KeySame(d),
         call[c].phase # "done",
         \/ call[c] = Uncalled /\ call'[c].phase # "done"
         \/ /\ Calling(c) /\ call'[c].op = call[c].op /\ call'[c].key = call[c].key
            /\ call'[c].phase = "done" => call'[c].result # "ok" \/ call'[c].op # "revoke",
         call'[c] # Uncalled,
         Doing(c, "create", "write")' => ~row[call'[c].key].exists,
         Doing(c, "revoke", "write")' => row[call'[c].key].exists,
         call'[c].op = "create" /\ call[c] = Uncalled =>
           \A d \in KeyCall : call[d] # Uncalled /\ call[d].op = "create"
                                => call[d].key # call'[c].key,
         Calling(c)' =>
           /\ call'[c].gone => Revoked(call'[c].key)
           /\ IsLive(call'[c].key) => TRUE \in call'[c].known
           /\ ~IsLive(call'[c].key) => FALSE \in call'[c].known
           /\ call'[c].phase = "match" =>
                /\ call'[c].op = "verify"
                /\ call'[c].key \in call'[c].found =>
                     TRUE \in call'[c].known /\ ~call'[c].gone
                /\ call'[c].key \notin call'[c].found => FALSE \in call'[c].known
  PROVE  KeyInv'
<1>i. KeyTypes /\ ExpiryIsOfARow /\ KeyIsMadeOnce /\ RevokedIsFinal /\ KeyIsWatched
  BY DEF KeyInv
<1>1. KeyTypes' /\ ExpiryIsOfARow'
  BY <1>i DEF KeyTypes, ExpiryIsOfARow
<1>2. \A k : Revoked(k)' <=> Revoked(k)
  BY <1>i, RevokedBy
<1>s. ASSUME NEW d \in KeyCall \ {c}
      PROVE  /\ Calling(d)' <=> Calling(d)
             /\ Calling(d) =>
                  /\ call'[d].op = call[d].op /\ call'[d].key = call[d].key
                  /\ call'[d].phase = call[d].phase
                  /\ call'[d].found = call[d].found /\ call'[d].gone = call[d].gone
                  /\ call[d].known \subseteq call'[d].known
             /\ Doing(d, "create", "write")' <=> Doing(d, "create", "write")
             /\ Doing(d, "revoke", "write")' <=> Doing(d, "revoke", "write")
             /\ (call'[d] = Uncalled <=> call[d] = Uncalled)
             /\ call[d] # Uncalled => call'[d].op = call[d].op /\ call'[d].key = call[d].key
  BY <1>s, <1>i, SameKeyCalls DEF KeySame
<1>3. KeyIsMadeOnce'
  <2>1. \A d \in KeyCall :
          Doing(d, "create", "write")' => ~row'[call'[d].key].exists
    BY <1>s, <1>i DEF KeyIsMadeOnce, Doing, Calling
  <2>2. \A d \in KeyCall :
          Doing(d, "revoke", "write")' => row'[call'[d].key].exists
    BY <1>s, <1>i DEF KeyIsMadeOnce, Doing, Calling
  <2>3. \A d, e \in KeyCall :
          /\ call'[d] # Uncalled /\ call'[d].op = "create"
          /\ call'[e] # Uncalled /\ call'[e].op = "create"
          /\ call'[d].key = call'[e].key
          => d = e
    <3>1. CASE call[c] = Uncalled
      BY <3>1, <1>s, <1>i DEF KeyIsMadeOnce
    <3>2. CASE call[c] # Uncalled
      BY <3>2, <1>s, <1>i DEF KeyIsMadeOnce
    <3> QED
      BY <3>1, <3>2
  <2> QED
    BY <2>1, <2>2, <2>3 DEF KeyIsMadeOnce
<1>4. RevokedIsFinal'
  BY <1>2, <1>s, <1>i DEF RevokedIsFinal
<1>5. KeyIsWatched'
  <2>1. \A k : IsLive(k)' <=> IsLive(k)
    BY DEF IsLive
  <2>2. ASSUME NEW d \in KeyCall, Calling(d)'
        PROVE  /\ IsLive(call[d].key)' => TRUE \in call'[d].known
               /\ ~IsLive(call[d].key)' => FALSE \in call'[d].known
               /\ call'[d].phase = "match" =>
                    /\ call'[d].op = "verify"
                    /\ call'[d].key \in call'[d].found =>
                         TRUE \in call'[d].known /\ ~call'[d].gone
                    /\ call'[d].key \notin call'[d].found => FALSE \in call'[d].known
    <3>1. CASE d = c
      BY <2>1, <2>2, <3>1 DEF IsLive
    <3>2. CASE d # c
      BY <2>1, <2>2, <3>2, <1>s, <1>i DEF KeyIsWatched, IsLive
    <3> QED
      BY <3>1, <3>2
  <2> QED
    BY <2>2 DEF KeyIsWatched
<1> QED
  BY <1>1, <1>3, <1>4, <1>5 DEF KeyInv

(* An INSERT or a revocation keeps the invariant. *)
LEMMA KeyWroteInv ==
  ASSUME KeyInv, NEW c \in KeyCall, KeyWrote(c)
  PROVE  KeyInv'
<1>i. KeyTypes /\ ExpiryIsOfARow /\ KeyIsMadeOnce /\ RevokedIsFinal /\ KeyIsWatched
  BY DEF KeyInv
<1>k. PICK k \in Key : k = call[c].key
  BY <1>i, KeyCallKinds DEF KeyWrote
<1>1. PICK new \in KeyRow, result \in {"ok", "died"} :
        /\ Calling(c) /\ WriteKey(c, k, new, result) /\ new.exists
        /\ UNCHANGED <<overdue, touching>>
        /\ \/ Doing(c, "create", "write") /\ new.isActive
           \/ /\ Doing(c, "revoke", "write") /\ ~new.isActive
              /\ new.expires = row[k].expires
  BY <1>k DEF KeyWrote
<1>2. /\ KeyClosed(c, result)
      /\ call' \in [KeyCall -> KeyCallState \cup {Uncalled}]
      /\ \A d \in KeyCall \ {c} :
           /\ KeySame(d)
           /\ Calling(d) /\ call[d].key = k => new.isActive \in call'[d].known
      /\ row' \in [Key -> KeyRow] /\ row'[k] = new
      /\ \A j \in Key : j # k => row'[j] = row[j]
  BY <1>1, <1>i, WriteCloses DEF KeyResults
<1>c. /\ ~Calling(c)' /\ call'[c].key = k /\ call'[c] # Uncalled /\ call[c] # Uncalled
      /\ call'[c].op = call[c].op /\ ~Doing(c, "create", "write")'
      /\ ~Doing(c, "revoke", "write")' /\ call[c].phase # "done"
  BY <1>1, <1>2, <1>k, <1>i, KeyCallKinds DEF KeyClosed, Calling, Doing, Uncalled
<1>s. ASSUME NEW d \in KeyCall \ {c}
      PROVE  /\ Calling(d)' <=> Calling(d)
             /\ Calling(d) =>
                  /\ call'[d].op = call[d].op /\ call'[d].key = call[d].key
                  /\ call'[d].phase = call[d].phase /\ call[d].key \in Key
                  /\ call'[d].found = call[d].found /\ call'[d].gone = call[d].gone
                  /\ call[d].known \subseteq call'[d].known
             /\ Doing(d, "create", "write")' <=> Doing(d, "create", "write")
             /\ Doing(d, "revoke", "write")' <=> Doing(d, "revoke", "write")
             /\ (call'[d] = Uncalled <=> call[d] = Uncalled)
             /\ call[d] # Uncalled => call'[d].op = call[d].op /\ call'[d].key = call[d].key
             /\ Doing(d, "create", "write") => call[d] # Uncalled
  BY <1>s, <1>2, <1>i, SameKeyCalls, KeyCallKinds DEF KeySame, Doing
<1>3. KeyTypes'
  BY <1>1, <1>2, <1>i DEF KeyTypes
<1>4. k \in overdue => new.expires
  BY <1>1, <1>k, <1>i DEF ExpiryIsOfARow, KeyIsMadeOnce
<1>5. ExpiryIsOfARow'
  BY <1>1, <1>2, <1>4, <1>i DEF ExpiryIsOfARow, KeyTypes
<1>6. KeyIsMadeOnce'
  <2>1. ASSUME NEW d \in KeyCall, Doing(d, "create", "write")'
        PROVE  ~row'[call'[d].key].exists
    <3>1. d # c
      BY <2>1, <1>c
    <3>2. Doing(d, "create", "write") /\ Calling(d)
      BY <2>1, <3>1, <1>s DEF Doing, Calling
    <3>3. call[d].key # k
      <4>1. CASE Doing(c, "create", "write")
        BY <4>1, <3>1, <3>2, <1>c, <1>s, <1>k, <1>i DEF KeyIsMadeOnce, Doing
      <4>2. CASE Doing(c, "revoke", "write")
        BY <4>2, <3>2, <1>k, <1>i DEF KeyIsMadeOnce
      <4> QED
        BY <4>1, <4>2, <1>1
    <3> QED
      BY <3>1, <3>2, <3>3, <1>2, <1>s, <1>i DEF KeyIsMadeOnce
  <2>2. ASSUME NEW d \in KeyCall, Doing(d, "revoke", "write")'
        PROVE  row'[call'[d].key].exists
    <3>1. d # c
      BY <2>2, <1>c
    <3>2. Doing(d, "revoke", "write") /\ Calling(d)
      BY <2>2, <3>1, <1>s DEF Doing, Calling
    <3> QED
      BY <3>1, <3>2, <1>1, <1>2, <1>s, <1>i DEF KeyIsMadeOnce
  <2>3. \A d, e \in KeyCall :
          /\ call'[d] # Uncalled /\ call'[d].op = "create"
          /\ call'[e] # Uncalled /\ call'[e].op = "create"
          /\ call'[d].key = call'[e].key
          => d = e
    BY <1>s, <1>c, <1>k, <1>i DEF KeyIsMadeOnce
  <2> QED
    BY <2>1, <2>2, <2>3 DEF KeyIsMadeOnce
<1>7. RevokedIsFinal'
  <2>1. \A j : Revoked(j) => Revoked(j)'
    BY <1>2, <1>c, <1>i, RevokedBy
  <2>2. ASSUME NEW j \in Key, Revoked(j)'
        PROVE  row'[j].exists /\ ~row'[j].isActive
    <3>1. \/ Revoked(j)
          \/ call'[c].op = "revoke" /\ call'[c].key = j
      BY <2>2, <1>2, <1>c, <1>i, RevokedBy
    <3>2. CASE j # k
      BY <3>1, <3>2, <1>2, <1>c, <1>i DEF RevokedIsFinal
    <3>3. CASE j = k
      <4>1. CASE Doing(c, "create", "write")
        <5>1. ~row[k].exists
          BY <4>1, <1>k, <1>i DEF KeyIsMadeOnce
        <5> QED
          BY <3>1, <3>3, <4>1, <5>1, <1>c, <1>i DEF RevokedIsFinal, Doing
      <4>2. CASE Doing(c, "revoke", "write")
        BY <3>3, <4>2, <1>1, <1>2 DEF Doing
      <4> QED
        BY <4>1, <4>2, <1>1
    <3> QED
      BY <3>2, <3>3
  <2>3. ASSUME NEW d \in KeyCall, Calling(d)', call'[d].gone
        PROVE  Revoked(call[d].key)'
    <3>1. d # c
      BY <2>3, <1>c
    <3>2. Revoked(call[d].key) /\ call'[d].key = call[d].key
      BY <2>3, <3>1, <1>s, <1>i DEF RevokedIsFinal
    <3>3. PICK j : j = call[d].key
      OBVIOUS
    <3>4. Revoked(j)'
      BY <2>1, <3>2, <3>3
    <3> QED
      BY <3>2, <3>3, <3>4 DEF Revoked
  <2> QED
    BY <2>2, <2>3 DEF RevokedIsFinal
<1>8. KeyIsWatched'
  <2>1. ASSUME NEW d \in KeyCall, Calling(d)'
        PROVE  /\ IsLive(call[d].key)' => TRUE \in call'[d].known
               /\ ~IsLive(call[d].key)' => FALSE \in call'[d].known
               /\ call'[d].phase = "match" =>
                    /\ call'[d].op = "verify"
                    /\ call'[d].key \in call'[d].found =>
                         TRUE \in call'[d].known /\ ~call'[d].gone
                    /\ call'[d].key \notin call'[d].found => FALSE \in call'[d].known
    <3>1. d # c
      BY <2>1, <1>c
    <3>2. Calling(d) /\ call'[d].key = call[d].key /\ call[d].key \in Key
          /\ call[d].known \subseteq call'[d].known
      BY <2>1, <3>1, <1>s
    <3>3. call'[d].phase = "match" =>
            /\ call'[d].op = "verify"
            /\ call'[d].key \in call'[d].found =>
                 TRUE \in call'[d].known /\ ~call'[d].gone
            /\ call'[d].key \notin call'[d].found => FALSE \in call'[d].known
      BY <3>1, <3>2, <1>s, <1>i DEF KeyIsWatched
    <3>4. PICK j \in Key : j = call[d].key
      BY <3>2
    <3>5. (IsLive(j)' => TRUE \in call'[d].known) /\ (~IsLive(j)' => FALSE \in call'[d].known)
      <4>1. CASE j # k
        <5>1. row'[j] = row[j]
          BY <4>1, <1>2
        <5>2. IsLive(j)' <=> IsLive(j)
          BY <5>1 DEF IsLive
        <5> QED
          BY <5>2, <3>2, <3>4, <1>i DEF KeyIsWatched
      <4>2. CASE j = k
        <5>1. PICK b \in BOOLEAN : b = new.isActive
          BY DEF KeyRow
        <5>2. b \in call'[d].known
          BY <3>1, <3>2, <3>4, <4>2, <5>1, <1>2
        <5>3. IsLive(j)' <=> b
          BY <4>2, <5>1, <1>1, <1>2 DEF IsLive
        <5>4. b = TRUE \/ b = FALSE
          OBVIOUS
        <5> QED
          BY <5>2, <5>3, <5>4
      <4> QED
        BY <4>1, <4>2
    <3>6. IsLive(call[d].key)' <=> IsLive(j)'
      BY <3>2, <3>4 DEF IsLive
    <3> QED
      BY <3>3, <3>5, <3>6
  <2> QED
    BY <2>1 DEF KeyIsWatched
<1> QED
  BY <1>3, <1>5, <1>6, <1>7, <1>8 DEF KeyInv

-----------------------------------------------------------------------------
(* At the start no call was made. *)
LEMMA KeyInitInv == KeyInit => KeyInv
<1> SUFFICES ASSUME KeyInit PROVE KeyInv
  OBVIOUS
<1>1. \A c \in KeyCall : call[c] = Uncalled /\ call[c].phase = "idle"
  BY DEF KeyInit, Uncalled
<1>2. PICK fresh : fresh = [NoKeyRow EXCEPT !.exists = TRUE, !.isActive = TRUE]
  OBVIOUS
<1>3. /\ NoKeyRow \in KeyRow /\ ~NoKeyRow.expires
      /\ fresh \in KeyRow /\ ~fresh.expires
  BY <1>2 DEF NoKeyRow, KeyRow
<1>4. row \in [Key -> {NoKeyRow, fresh}]
  BY <1>2 DEF KeyInit
<1>5. KeyTypes /\ ExpiryIsOfARow
  BY <1>3, <1>4 DEF KeyInit, KeyTypes, ExpiryIsOfARow
<1>6. KeyIsMadeOnce /\ RevokedIsFinal /\ KeyIsWatched
  BY <1>1 DEF KeyIsMadeOnce, RevokedIsFinal, KeyIsWatched, Doing, Calling, Revoked
<1> QED
  BY <1>5, <1>6 DEF KeyInv

(* KeyInv is inductive. *)
LEMMA KeyStepInv ==
  ASSUME KeyInv, [KeyNext]_keyVars
  PROVE  KeyInv'
<1>i. KeyTypes /\ ExpiryIsOfARow /\ KeyIsMadeOnce /\ RevokedIsFinal /\ KeyIsWatched
  BY DEF KeyInv
<1>1. ASSUME NEW c \in KeyCall, KeyOpened(c) PROVE KeyInv'
  <2>1. PICK k \in Key : k = call'[c].key
    BY <1>1 DEF KeyOpened, KeyCallState
  <2>2. /\ call[c] = Uncalled /\ call[c].phase = "idle" /\ touching' \subseteq Key
        /\ call'[c] # Uncalled /\ call'[c].phase \in {"select", "write"}
        /\ UNCHANGED <<row, overdue>>
    BY <1>1, <1>i, KeyCallKinds DEF KeyOpened, KeyCallState, Uncalled, KeyTypes
  <2>3. PICK live \in BOOLEAN : live = IsLive(k)
    BY <1>i DEF IsLive, KeyTypes, KeyRow
  <2>4. /\ IsLive(k) => TRUE \in call'[c].known
        /\ ~IsLive(k) => FALSE \in call'[c].known
    <3>1. call'[c].known = {live}
      BY <1>1, <2>1, <2>3 DEF KeyOpened
    <3>2. live = TRUE \/ live = FALSE
      OBVIOUS
    <3> QED
      BY <2>3, <3>1, <3>2
  <2>5. call'[c].gone => Revoked(k)
    BY <1>1, <2>1 DEF KeyOpened
  <2>6. /\ Doing(c, "create", "write")' => ~row[k].exists
        /\ ~Doing(c, "revoke", "write")'
    BY <1>1, <2>1 DEF KeyOpened, Doing
  <2>7. call'[c].op = "create" =>
          \A d \in KeyCall : call[d] # Uncalled /\ call[d].op = "create"
                               => call[d].key # k
    BY <1>1, <2>1 DEF KeyOpened
  <2>8. /\ call' \in [KeyCall -> KeyCallState \cup {Uncalled}]
        /\ \A d \in KeyCall \ {c} : KeySame(d)
    BY <1>1 DEF KeyOpened
  <2> QED
    BY <2>1, <2>2, <2>4, <2>5, <2>6, <2>7, <2>8, RowsUnchanged
<1>2. ASSUME NEW c \in KeyCall, KeyAnswered(c) PROVE KeyInv'
  <2>1. PICK result \in KeyResults :
          /\ Calling(c) /\ Resolve(c, result)
          /\ result # "ok" \/ call[c].op = "verify"
          /\ UNCHANGED <<row, overdue>> /\ touching' \subseteq touching \cup {call[c].key}
    BY <1>2 DEF KeyAnswered
  <2>2. /\ KeyClosed(c, result)
        /\ call' \in [KeyCall -> KeyCallState \cup {Uncalled}]
        /\ \A d \in KeyCall \ {c} : KeySame(d)
    BY <2>1, <1>i, ResolveCloses
  <2>3. /\ call[c].phase # "done" /\ call[c] # Uncalled /\ touching' \subseteq Key
        /\ call'[c] # Uncalled
    BY <2>1, <2>2, <1>i, KeyCallKinds DEF Calling, KeyTypes, KeyClosed, KeyCallState, Uncalled
  <2>4. ~Calling(c)' /\ ~Doing(c, "create", "write")' /\ ~Doing(c, "revoke", "write")'
    BY <2>2 DEF KeyClosed, Calling, Doing
  <2>5. /\ call'[c].op = call[c].op /\ call'[c].key = call[c].key
        /\ call'[c].result # "ok" \/ call'[c].op # "revoke"
    BY <2>1, <2>2 DEF KeyClosed
  <2> QED
    BY <2>1, <2>2, <2>3, <2>4, <2>5, RowsUnchanged
<1>3. ASSUME NEW c \in KeyCall, KeyWentOn(c) PROVE KeyInv'
  <2>1. /\ Calling(c) /\ call' \in [KeyCall -> KeyCallState \cup {Uncalled}]
        /\ \A d \in KeyCall \ {c} : KeySame(d)
        /\ UNCHANGED <<row, overdue, touching>>
        /\ KeyMoved(c, "match") \/ KeyMoved(c, "write")
    BY <1>3 DEF KeyWentOn
  <2>2. /\ call'[c] # Uncalled /\ call[c] # Uncalled /\ call[c].phase # "done"
        /\ call'[c].phase # "done" /\ touching' \subseteq Key
        /\ call'[c].op = call[c].op /\ call'[c].key = call[c].key
        /\ call'[c].known = call[c].known /\ call'[c].gone = call[c].gone
    BY <2>1, <1>i, KeyCallKinds DEF KeyMoved, Calling, KeyTypes, KeyCallState, Uncalled
  <2>3. /\ Doing(c, "create", "write")' => ~row[call'[c].key].exists
        /\ Doing(c, "revoke", "write")' => row[call'[c].key].exists
    BY <1>3 DEF KeyWentOn, KeyMoved, Doing
  <2>4. /\ call'[c].gone => Revoked(call'[c].key)
        /\ IsLive(call'[c].key) => TRUE \in call'[c].known
        /\ ~IsLive(call'[c].key) => FALSE \in call'[c].known
    <3>1. /\ call[c].gone => Revoked(call[c].key)
          /\ IsLive(call[c].key) => TRUE \in call[c].known
          /\ ~IsLive(call[c].key) => FALSE \in call[c].known
      BY <2>1, <1>i DEF KeyIsWatched, RevokedIsFinal
    <3> QED
      BY <2>2, <3>1
  <2>5. call'[c].phase = "match" =>
          /\ call'[c].op = "verify"
          /\ call'[c].key \in call'[c].found =>
               TRUE \in call'[c].known /\ ~call'[c].gone
          /\ call'[c].key \notin call'[c].found => FALSE \in call'[c].known
    <3>1. SUFFICES ASSUME call'[c].phase = "match"
                   PROVE  /\ call'[c].op = "verify"
                          /\ call'[c].key \in call'[c].found =>
                               TRUE \in call'[c].known /\ ~call'[c].gone
                          /\ call'[c].key \notin call'[c].found => FALSE \in call'[c].known
      OBVIOUS
    <3>2. /\ call[c].op = "verify"
          /\ call[c].key \in call'[c].found <=> IsLive(call[c].key)
      BY <1>3, <3>1 DEF KeyWentOn, KeyMoved
    <3>3. IsLive(call[c].key) => ~Revoked(call[c].key)
      BY <2>1, <1>i, KeyCallKinds DEF RevokedIsFinal, IsLive
    <3> QED
      BY <2>2, <2>4, <3>2, <3>3
  <2> QED
    BY <2>1, <2>2, <2>3, <2>4, <2>5, RowsUnchanged
<1>4. ASSUME NEW c \in KeyCall, KeyWrote(c) PROVE KeyInv'
  BY <1>4, KeyWroteInv
<1>5. CASE RowsKept
  <2>1. \A k \in Key : IsLive(k)' <=> IsLive(k)
    BY <1>5 DEF RowsKept, IsLive
  <2>2. \A k : Revoked(k)' <=> Revoked(k)
    BY <1>5 DEF RowsKept, Revoked
  <2>3. \A c \in KeyCall : /\ Calling(c)' <=> Calling(c)
                           /\ Calling(c) => call[c].key \in Key
                           /\ Doing(c, "create", "write") => Calling(c)
                           /\ Doing(c, "revoke", "write") => Calling(c)
                           /\ Doing(c, "create", "write")' <=> Doing(c, "create", "write")
                           /\ Doing(c, "revoke", "write")' <=> Doing(c, "revoke", "write")
    BY <1>5, <1>i, KeyCallKinds DEF RowsKept, Calling, Doing
  <2>4. KeyTypes' /\ ExpiryIsOfARow'
    BY <1>5, <1>i DEF RowsKept, KeyTypes, ExpiryIsOfARow
  <2>5. KeyIsMadeOnce'
    BY <1>5, <2>3, <1>i DEF RowsKept, KeyIsMadeOnce
  <2>6. RevokedIsFinal'
    BY <1>5, <2>2, <2>3, <1>i DEF RowsKept, RevokedIsFinal
  <2>7. KeyIsWatched'
    <3>1. \A c \in KeyCall : Calling(c) =>
            (IsLive(call[c].key)' <=> IsLive(call[c].key))
      BY <1>5, <2>3 DEF RowsKept, IsLive
    <3> QED
      BY <1>5, <2>3, <3>1, <1>i DEF RowsKept, KeyIsWatched
  <2> QED
    BY <2>4, <2>5, <2>6, <2>7 DEF KeyInv
<1> QED
  BY <1>1, <1>2, <1>3, <1>4, <1>5, KeyShapes

(* It implies the module's type invariant. *)
LEMMA KeyInvType == KeyInv => KeyTypeOK
<1> SUFFICES ASSUME KeyInv PROVE KeyTypeOK
  OBVIOUS
<1>1. KeyTypes /\ ExpiryIsOfARow
  BY DEF KeyInv
<1> QED
  BY <1>1 DEF KeyTypes, ExpiryIsOfARow, KeyTypeOK

(* An answer about a key that is given in a step was true during its call. *)
LEMMA KeyStepAnswers ==
  ASSUME KeyInv, [KeyNext]_keyVars, NEW c \in KeyCall,
         call[c].phase # "done", call'[c].phase = "done", call[c].op = "verify"
  PROVE  KeyAnswerHolds(c, call'[c].result)
<1>i. KeyTypes
  BY DEF KeyInv
<1>1. PICK d \in KeyCall :
        KeyOpened(d) \/ KeyAnswered(d) \/ KeyWentOn(d) \/ KeyWrote(d)
  BY KeyShapes DEF RowsKept
<1>2. d = c
  <2> SUFFICES ASSUME d # c PROVE FALSE
    OBVIOUS
  <2>1. KeySame(c)
    <3>1. CASE KeyOpened(d) \/ KeyWentOn(d)
      BY <3>1 DEF KeyOpened, KeyWentOn
    <3>2. CASE KeyAnswered(d)
      BY <3>2, <1>i, ResolveCloses DEF KeyAnswered
    <3>3. CASE KeyWrote(d)
      <4>1. PICK k \in Key, new \in KeyRow, result \in KeyResults :
              Calling(d) /\ WriteKey(d, k, new, result)
        BY <3>3, <1>i, KeyCallKinds DEF KeyWrote, KeyResults
      <4> QED
        BY <4>1, <1>i, WriteCloses
    <3> QED
      BY <1>1, <3>1, <3>2, <3>3
  <2> QED
    BY <2>1 DEF KeySame
<1>3. CASE KeyAnswered(c)
  <2>1. PICK result \in KeyResults :
          Calling(c) /\ Resolve(c, result) /\ KeyAnswerHolds(c, result)
    BY <1>3 DEF KeyAnswered
  <2>2. call'[c].result = result
    BY <2>1, <1>i, ResolveCloses DEF KeyClosed
  <2> QED
    BY <2>1, <2>2
<1>4. CASE KeyOpened(c)
  BY <1>4 DEF KeyOpened
<1>5. CASE KeyWentOn(c)
  BY <1>5 DEF KeyWentOn, KeyMoved
<1>6. CASE KeyWrote(c)
  BY <1>6 DEF KeyWrote, Doing
<1> QED
  BY <1>1, <1>2, <1>3, <1>4, <1>5, <1>6

-----------------------------------------------------------------------------
(***************************************************************************)
(* The three parts together.  In every step one of them moves and the      *)
(* others do not.                                                          *)
(***************************************************************************)
LEMMA IdentityParts ==
  ASSUME [IdentityNext]_identityVars
  PROVE  [AccountNext]_accountVars /\ [FlowNext]_flowVars /\ [KeyNext]_keyVars
BY DEF IdentityNext, identityVars

IdentityInv == AccountInv /\ FlowInv /\ KeyInv

(* The inductive invariant of accounts, flows and keys. *)
THEOREM IdentityInvariant == IdentitySpec => []IdentityInv
<1>1. IdentityInit => IdentityInv
  BY AccountInitInv, FlowInitInv, KeyInitInv DEF IdentityInit, IdentityInv
<1>2. IdentityInv /\ [IdentityNext]_identityVars => IdentityInv'
  BY IdentityParts, AccountStepInv, FlowStepInv, KeyStepInv DEF IdentityInv
<1> QED
  BY <1>1, <1>2, PTL DEF IdentitySpec

(* Every variable of accounts, flows and keys keeps its type. *)
THEOREM TypeCorrect == IdentitySpec => []TypeOK
<1>1. IdentityInv => TypeOK
  BY AccountInvType, KeyInvType DEF IdentityInv, FlowInv, TypeOK
<1> QED
  BY <1>1, IdentityInvariant, PTL

(* No account ends with a password or a session that only a call answered  *)
(* before a later one explains (authService.ts).                           *)
THEOREM LaterCallsPrevail == IdentitySpec => []LaterPrevails
<1>1. IdentityInv => LaterPrevails
  BY AccountInvPrevails DEF IdentityInv
<1> QED
  BY <1>1, IdentityInvariant, PTL

(* A reset link that no longer works was replaced or used up by a request  *)
(* that was not over before its own (authService.ts).                      *)
THEOREM LinksDieOfOthers == IdentitySpec => []LinkDiesOfOthers
<1>1. IdentityInv => LinkDiesOfOthers
  BY AccountInvLinks DEF IdentityInv
<1> QED
  BY <1>1, IdentityInvariant, PTL

(* An account is made once, and confirmed by its owner's code or by        *)
(* Google; a Google callback is refused only when its cookies expired or   *)
(* another flow was started or answered while it was out (authService.ts,  *)
(* authRoutes.ts).                                                         *)
THEOREM SignInsAreExplained == IdentitySpec => []SignInIsExplained
<1>1. IdentityInv => SignInIsExplained
  BY AccountInvEarned, FlowInvExplains DEF IdentityInv, SignInIsExplained
<1> QED
  BY <1>1, IdentityInvariant, PTL

(* Every answer to a request was backed by a state the account was in      *)
(* while the request was under way (authService.ts).                       *)
THEOREM AccountAnswersAreCurrent == IdentitySpec => AnswersAreCurrent
<1>1. IdentityInv /\ [IdentityNext]_identityVars =>
        [\A q \in Request :
       ~Answered(q) /\ Answered(q)' => Backed(q, req'[q].result)]_accountVars
  BY IdentityParts, AccountStepAnswers DEF IdentityInv
<1> QED
  BY <1>1, IdentityInvariant, PTL DEF IdentitySpec, AnswersAreCurrent

(* Every answer about a key was true at some moment of its call, and no    *)
(* call made after a revocation was answered accepts the key               *)
(* (apiKeyService.ts, apiKeyMiddleware.ts).                                *)
THEOREM AnswersAboutKeysAreCurrent == IdentitySpec => KeyAnswersAreCurrent
<1>1. IdentityInv /\ [IdentityNext]_identityVars =>
        [\A c \in KeyCall :
           call[c].phase # "done" /\ call'[c].phase = "done"
             /\ call[c].op = "verify" => KeyAnswerHolds(c, call'[c].result)]_keyVars
  BY IdentityParts, KeyStepAnswers DEF IdentityInv
<1> QED
  BY <1>1, IdentityInvariant, PTL DEF IdentitySpec, KeyAnswersAreCurrent
=============================================================================
