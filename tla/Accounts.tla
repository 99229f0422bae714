------------------------------ MODULE Accounts ------------------------------
(***************************************************************************)
(* Accounts and sessions of the API (authRoutes.ts, authService.ts): what  *)
(* the requests of concurrent clients do to the users table, to the mail   *)
(* that goes out and to the refresh cookie.                                *)
(*                                                                         *)
(* Every request runs alone between two awaits.  It reads the row of its   *)
(* account, may then spend a while in argon2, and writes with an UPDATE    *)
(* ... WHERE id that looks at nothing: whatever other requests did in      *)
(* between is overwritten or lost.  No operation deletes a user, so an     *)
(* email address stands for the id of its row.  argon2 is what it promises *)
(* to be: verify succeeds for the password that was hashed and no other.   *)
(* A reset token is named by the request that made it.                     *)
(*                                                                         *)
(* A request whose body or token is refused before the service is called   *)
(* changes nothing and is left out.  A process that stops in the middle is *)
(* the same as all its requests failing and its unsent mail being lost,    *)
(* and each of those is a step of its own here.                            *)
(***************************************************************************)
EXTENDS Naturals, FiniteSets

CONSTANTS
  Request,    \* requests, each of which is made at most once
  Email,      \* email addresses
  Password

ASSUME NoneAssumption ==
  "none" \notin Request /\ "none" \notin Email /\ "none" \notin Password

VARIABLES
  user,       \* [Email -> Row], the users table
  initially,  \* [Email -> Row], the users table when the run begins
  expired,    \* reset tokens older than an hour
  outbox,     \* mails handed to detached fibers
  mailbox,    \* mails that arrived
  signedIn,   \* accounts some client holds tokens of
  cookie,     \* accounts whose browser has the cookie "rt"
  req         \* [Request -> Call or NoCall]

accountVars ==
  <<user, initially, expired, outbox, mailbox, signedIn, cookie, req>>

Token == Request
None == "none"

Row == [exists    : BOOLEAN,
        password  : Password \cup {None},   \* None: the empty string
        confirmed : BOOLEAN,                \* isVerified, accountConfirmation
        reset     : Token \cup {None}]      \* passwordReset.token

NoRow == [exists |-> FALSE, password |-> None, confirmed |-> FALSE,
          reset |-> None]
LocalRow(p) == [NoRow EXCEPT !.exists = TRUE, !.password = p]

(* Mutant: a Google account has no password column at all. *)
GoogleRowPartial ==
  [NoRow EXCEPT !.exists = TRUE, !.confirmed = TRUE, !.password = "undefined"]

GoogleRow == [NoRow EXCEPT !.exists = TRUE, !.confirmed = TRUE]

Mail == [kind : {"code", "reset"}, to : Email, token : Token \cup {None}]
CodeMail(e) == [kind |-> "code", to |-> e, token |-> None]
ResetMail(e, t) == [kind |-> "reset", to |-> e, token |-> t]

Op == {"register", "login", "refresh", "logout", "confirm", "forgot", "reset",
       "change", "oauth"}

(* A request in progress or answered: its arguments, what it read, and,    *)
(* for the properties, the rows its account had since it began and the     *)
(* requests that were answered before.                                     *)
Call(op, e, given, new, token) ==
  [op |-> op, email |-> e, given |-> given, new |-> new, token |-> token,
   phase |-> "select", result |-> None, seen |-> NoRow,
   since |-> {user[e]}, before |-> {q \in Request : req[q].phase = "done"}]

NoCall == [op |-> None, phase |-> "idle", result |-> None]

Busy(q) == req[q].phase \notin {"idle", "done"}
Answered(q) == req[q].phase = "done"

CallTypeOK(c) ==
  \/ c = NoCall
  \/ /\ c.op \in Op /\ c.email \in Email
     /\ c.given \in Password \cup {None, "right", "wrong"}
     /\ c.new \in Password \cup {None}
     /\ c.token \in Token \cup {None}
     /\ c.phase \in {"select", "verify", "write", "done"}
     /\ c.result \in {None, "ok", "created", "refused", "error"}
     /\ c.seen \in Row
     /\ c.since \subseteq Row
     /\ c.before \subseteq Request

AccountTypeOK ==
  /\ user \in [Email -> Row]
  /\ initially \in [Email -> Row]
  /\ expired \subseteq Token
  /\ outbox \subseteq Mail /\ mailbox \subseteq Mail
  /\ signedIn \subseteq Email /\ cookie \subseteq signedIn
  /\ DOMAIN req = Request
  /\ \A q \in Request : CallTypeOK(req[q])

(* An account that is there already was made by an earlier request: its    *)
(* confirmation code has arrived and a client is signed in.                *)
AccountInit ==
  /\ user \in [Email -> {NoRow, GoogleRow} \cup {LocalRow(p) : p \in Password}]
  /\ initially = user
  /\ expired = {}
  /\ outbox = {}
  /\ mailbox = {CodeMail(e) : e \in {x \in Email :
                                user[x].exists /\ ~user[x].confirmed}}
  /\ signedIn = {e \in Email : user[e].exists}
  /\ cookie = signedIn
  /\ req = [q \in Request |-> NoCall]

-----------------------------------------------------------------------------
(* requireAuth lets a request through that has an access token. *)
RequireAuth == signedIn

(* verifyRefresh: the cookie's token, or else the body's, which a client   *)
(* still has after a logout.                                               *)
RefreshHolders == signedIn

(* The accounts a code that Google gave out can be exchanged for. *)
ExchangeGoogleCode == Email

(* argon2: true of the password that was hashed, and of none for an empty  *)
(* column.                                                                 *)
Verify(hash, plaintext) == hash # None /\ hash = plaintext

(* What the clients ask for; a reset link comes from a mail. *)
Submissions ==
  {Call("register", e, None, p, None) : e \in Email, p \in Password}
  \cup {Call("login", e, p, None, None) : e \in Email, p \in Password}
  \cup {Call("refresh", e, None, None, None) : e \in RefreshHolders}
  \cup {Call("logout", e, None, None, None) : e \in RequireAuth}
  \cup {Call("confirm", m.to, "right", None, None) :
          m \in {x \in mailbox : x.kind = "code"}}
  \cup {Call("confirm", e, "wrong", None, None) : e \in Email}
  \cup {Call("forgot", e, None, None, None) : e \in Email}
  \cup {Call("reset", m.to, None, p, m.token) :
          m \in {x \in mailbox : x.kind = "reset"}, p \in Password}
  \cup {Call("change", e, p, n, None) :
          e \in RequireAuth, p \in Password, n \in Password}
  \cup {Call("oauth", e, None, None, None) : e \in ExchangeGoogleCode}

Begin(q) ==
  /\ req[q] = NoCall
  /\ \E c \in Submissions : req' = [req EXCEPT ![q] = c]
  /\ UNCHANGED <<user, initially, expired, outbox, mailbox, signedIn, cookie>>

At(q, op, phase) == req[q].op = op /\ req[q].phase = phase

(* The row of the request's account, as the query of this step finds it. *)
Found(q) == user[req[q].email]

Reply(q, result) ==
  [req[q] EXCEPT !.phase = "done", !.result = result, !.seen = NoRow,
                 !.since = {}]

Answer(q, result) == req' = [req EXCEPT ![q] = Reply(q, result)]

(* The request goes on with the row it read. *)
GoOn(q, phase) ==
  req' = [req EXCEPT ![q].phase = phase, ![q].seen = Found(q)]

(* A token pair for the client, the refresh token also as the cookie. *)
SignIn(q) ==
  /\ signedIn' = signedIn \cup {req[q].email}
  /\ cookie' = cookie \cup {req[q].email}

(* INSERT or UPDATE: the row becomes `row` and the request is answered, or *)
(* it gets an error although the row was written.                          *)
Store(q, row, result) ==
  LET e == req[q].email IN
  /\ user' = [user EXCEPT ![e] = row]
  /\ req' = [r \in Request |->
       IF r = q THEN Reply(q, result)
       ELSE IF Busy(r) /\ req[r].email = e
         THEN [req[r] EXCEPT !.since = @ \cup {row}]
       ELSE req[r]]

(* A query fails before it has changed anything, or the process stops:     *)
(* Effect.orDie, answered with 500 or not at all.                          *)
Fail(q) ==
  /\ Busy(q)
  /\ Answer(q, "error")
  /\ UNCHANGED <<user, initially, expired, outbox, mailbox, signedIn, cookie>>

quiet == <<user, initially, expired, outbox, mailbox, signedIn, cookie>>
written == <<initially, expired, mailbox>>

-----------------------------------------------------------------------------
RegisterFind(q) ==
  /\ At(q, "register", "select")
  /\ IF Found(q).exists THEN Answer(q, "refused") ELSE GoOn(q, "write")
  /\ UNCHANGED quiet

(* Mutant: the row of an email address that is taken is overwritten. *)
RegisterUpsert(q) ==
  /\ At(q, "register", "write")
  /\ Store(q, LocalRow(req[q].new), "created")
  /\ outbox' = outbox \cup {CodeMail(req[q].email)}
  /\ UNCHANGED <<written, signedIn, cookie>>

(* The unique index on email_address decides between two requests that     *)
(* both found nothing; the loser is answered with 500.                     *)
RegisterInsert(q) ==
  /\ At(q, "register", "write")
  /\ IF Found(q).exists
       THEN Answer(q, "error") /\ UNCHANGED <<user, outbox>>
       ELSE \E result \in {"created", "error"} :
              /\ Store(q, LocalRow(req[q].new), result)
              /\ outbox' = IF result = "created"
                             THEN outbox \cup {CodeMail(req[q].email)}
                             ELSE outbox
  /\ UNCHANGED <<written, signedIn, cookie>>

LoginFind(q) ==
  /\ At(q, "login", "select")
  /\ IF Found(q).exists THEN GoOn(q, "verify") ELSE Answer(q, "refused")
  /\ UNCHANGED quiet

(* argon2 on the hash read before. *)
LoginVerify(q) ==
  /\ At(q, "login", "verify")
  /\ IF Verify(req[q].seen.password, req[q].given)
       THEN Answer(q, "ok") /\ SignIn(q)
       ELSE Answer(q, "refused") /\ UNCHANGED <<signedIn, cookie>>
  /\ UNCHANGED <<user, written, outbox>>

(* The token is checked by its signature and expiry alone; nothing revokes *)
(* the one it replaces.                                                    *)
Refresh(q) ==
  /\ At(q, "refresh", "select")
  /\ \/ Found(q).exists /\ Answer(q, "ok") /\ SignIn(q)
     \/ Answer(q, "refused") /\ UNCHANGED <<signedIn, cookie>>
  /\ UNCHANGED <<user, written, outbox>>

(* AuthService.logout does nothing; the route clears the cookie. *)
Logout(q) ==
  /\ At(q, "logout", "select")
  /\ Answer(q, "ok")
  /\ cookie' = cookie \ {req[q].email}
  /\ UNCHANGED <<user, written, outbox, signedIn>>

ConfirmFind(q) ==
  /\ At(q, "confirm", "select")
  /\ IF Found(q).exists /\ ~Found(q).confirmed /\ req[q].given = "right"
       THEN GoOn(q, "write")
       ELSE Answer(q, "refused")
  /\ UNCHANGED quiet

(* Mutant: the whole row is saved as it was read. *)
ConfirmSave(q) ==
  /\ At(q, "confirm", "write")
  /\ Store(q, [req[q].seen EXCEPT !.confirmed = TRUE], "ok")
  /\ UNCHANGED <<written, outbox, signedIn, cookie>>

ConfirmUpdate(q) ==
  /\ At(q, "confirm", "write")
  /\ \E result \in {"ok", "error"} :
       Store(q, [Found(q) EXCEPT !.confirmed = TRUE], result)
  /\ UNCHANGED <<written, outbox, signedIn, cookie>>

(* An unknown address gets the same answer as a known one. *)
ForgotFind(q) ==
  /\ At(q, "forgot", "select")
  /\ IF Found(q).exists THEN GoOn(q, "write") ELSE Answer(q, "ok")
  /\ UNCHANGED quiet

(* Mutant: an error of the UPDATE is ignored and the link mailed. *)
ForgotUpdateIgnored(q) ==
  /\ At(q, "forgot", "write")
  /\ \/ Store(q, [Found(q) EXCEPT !.reset = q], "ok")
     \/ Answer(q, "ok") /\ UNCHANGED user
  /\ outbox' = outbox \cup {ResetMail(req[q].email, q)}
  /\ UNCHANGED <<written, signedIn, cookie>>

ForgotUpdate(q) ==
  /\ At(q, "forgot", "write")
  /\ \E result \in {"ok", "error"} :
       /\ Store(q, [Found(q) EXCEPT !.reset = q], result)
       /\ outbox' = IF result = "ok"
                      THEN outbox \cup {ResetMail(req[q].email, q)} ELSE outbox
  /\ UNCHANGED <<written, signedIn, cookie>>

(* SELECT ... WHERE password_reset->>'token' = token, and its expiry. *)
ResetFind(q) ==
  /\ At(q, "reset", "select")
  /\ IF Found(q).reset = req[q].token /\ req[q].token \notin expired
       THEN GoOn(q, "write")
       ELSE Answer(q, "refused")
  /\ UNCHANGED quiet

(* The token is not looked at again: it is cleared, and so is a newer one. *)
ResetUpdate(q) ==
  /\ At(q, "reset", "write")
  /\ \E result \in {"ok", "error"} :
       Store(q, [Found(q) EXCEPT !.password = req[q].new, !.reset = None], result)
  /\ UNCHANGED <<written, outbox, signedIn, cookie>>

ChangeFind(q) ==
  /\ At(q, "change", "select")
  /\ IF Found(q).exists THEN GoOn(q, "verify") ELSE Answer(q, "refused")
  /\ UNCHANGED quiet

(* Mutant: the old password is not verified. *)
ChangeVerifyNew(q) ==
  /\ At(q, "change", "verify")
  /\ IF ~Verify(req[q].seen.password, req[q].new)
       THEN req' = [req EXCEPT ![q].phase = "write"]
       ELSE Answer(q, "refused")
  /\ UNCHANGED quiet

ChangeVerify(q) ==
  /\ At(q, "change", "verify")
  /\ IF /\ Verify(req[q].seen.password, req[q].given)
        /\ ~Verify(req[q].seen.password, req[q].new)
       THEN req' = [req EXCEPT ![q].phase = "write"]
       ELSE Answer(q, "refused")
  /\ UNCHANGED quiet

ChangeUpdate(q) ==
  /\ At(q, "change", "write")
  /\ \E result \in {"ok", "error"} :
       Store(q, [Found(q) EXCEPT !.password = req[q].new], result)
  /\ UNCHANGED <<written, outbox, signedIn, cookie>>

(* The Google callback, once the code was exchanged for a profile. *)
OAuthFind(q) ==
  /\ At(q, "oauth", "select")
  /\ IF Found(q).exists
       THEN Answer(q, "ok") /\ SignIn(q)
       ELSE GoOn(q, "write") /\ UNCHANGED <<signedIn, cookie>>
  /\ UNCHANGED <<user, written, outbox>>

OAuthInsert(q) ==
  /\ At(q, "oauth", "write")
  /\ \/ /\ ~Found(q).exists
        /\ Store(q, GoogleRow, "created")
        /\ SignIn(q)
     \/ /\ ~Found(q).exists
        /\ Store(q, GoogleRow, "error")
        /\ UNCHANGED <<signedIn, cookie>>
     \/ /\ Found(q).exists
        /\ Answer(q, "error")
        /\ UNCHANGED <<user, signedIn, cookie>>
  /\ UNCHANGED <<written, outbox>>

(* The detached fiber of a mail: it arrives, or the error is ignored. *)
SendMail(m) ==
  /\ m \in outbox
  /\ outbox' = outbox \ {m}
  /\ mailbox' \in {mailbox, mailbox \cup {m}}
  /\ UNCHANGED <<user, initially, expired, signedIn, cookie, req>>

(* An hour has passed since the token was made. *)
ExpireToken(t) ==
  /\ \E e \in Email : user[e].reset = t
  /\ t \notin expired
  /\ expired' = expired \cup {t}
  /\ UNCHANGED <<user, initially, outbox, mailbox, signedIn, cookie, req>>

AccountNext ==
  \/ \E q \in Request :
       \/ Begin(q) \/ Fail(q)
       \/ RegisterFind(q) \/ RegisterInsert(q)
       \/ LoginFind(q) \/ LoginVerify(q) \/ Refresh(q) \/ Logout(q)
       \/ ConfirmFind(q) \/ ConfirmUpdate(q)
       \/ ForgotFind(q) \/ ForgotUpdate(q) \/ ResetFind(q) \/ ResetUpdate(q)
       \/ ChangeFind(q) \/ ChangeVerify(q) \/ ChangeUpdate(q)
       \/ OAuthFind(q) \/ OAuthInsert(q)
       \/ ExpireToken(q)
  \/ \E m \in outbox : SendMail(m)

-----------------------------------------------------------------------------
About(e, ops, results) ==
  {q \in Request : Answered(q) /\ req[q].op \in ops /\ req[q].email = e
                   /\ req[q].result \in results}

(***************************************************************************)
(* Every answer was right at some moment between the request and the       *)
(* answer, although every check is made on a row that may have been        *)
(* overwritten since (authService.ts:79-367): a login or a change of       *)
(* password is granted for a password the account had, and a login is      *)
(* refused for one it did not have; a reset is granted for a token that    *)
(* was the account's; a confirmation for an account that was not confirmed.*)
(***************************************************************************)
Backed(q, result) ==
  LET c == req[q] IN
  CASE c.op = "login" /\ result = "ok" ->
         \E row \in c.since : row.exists /\ row.password = c.given
    [] c.op = "login" /\ result = "refused" ->
         \E row \in c.since : ~row.exists \/ row.password # c.given
    [] c.op = "change" /\ result = "ok" ->
         \E row \in c.since : row.exists /\ row.password = c.given
    [] c.op = "reset" /\ result = "ok" ->
         \E row \in c.since : row.reset = c.token
    [] c.op = "confirm" /\ result = "ok" ->
         \E row \in c.since : row.exists /\ ~row.confirmed
    [] result = "created" -> \E row \in c.since : ~row.exists
    [] OTHER -> TRUE

AnswersAreCurrent ==
  [][\A q \in Request :
       ~Answered(q) /\ Answered(q)' => Backed(q, req'[q].result)]_accountVars

(***************************************************************************)
(* A later request is never undone by an earlier one: the password of an   *)
(* account is that of a request after whose answer no other one was begun  *)
(* and granted.  After a sign-out the browser is signed in only by a       *)
(* sign-in that was not over before any sign-out began, and after a        *)
(* sign-in it is signed out only by a sign-out that was not over before    *)
(* any sign-in began.  Between requests that overlap *)
(* nothing is promised: a change and a reset overwrite each other, and the *)
(* answer to a refresh sets the cookie that a logout cleared meanwhile     *)
(* (authService.ts:275-310, authRoutes.ts:172-210).                        *)
(***************************************************************************)
NewPassword(q) == IF req[q].op = "oauth" THEN None ELSE req[q].new

PasswordOps == {"register", "change", "reset"}

LaterPrevails ==
  \A e \in Email :
    LET granted == About(e, PasswordOps, {"ok", "created"})
                   \cup About(e, {"oauth"}, {"created"})
        doubtful == About(e, PasswordOps \cup {"oauth"}, {"error"})
        signIns == About(e, {"login", "refresh"}, {"ok"})
                   \cup About(e, {"oauth"}, {"ok", "created"})
        signOuts == About(e, {"logout"}, {"ok"})
    IN /\ granted # {} =>
            \E q \in granted \cup doubtful :
              /\ user[e].password = NewPassword(q)
              /\ \A r \in granted : q \notin req[r].before
       /\ e \in cookie /\ signOuts # {} =>
            \E s \in signIns : \A o \in signOuts : s \notin req[o].before
       /\ e \notin cookie /\ signIns # {} =>
            \E o \in signOuts : \A s \in signIns : o \notin req[s].before

(***************************************************************************)
(* A reset link that arrived and is not an hour old works until somebody   *)
(* else's request kills it: another request for a link, or a reset, that   *)
(* was not over before this one was asked for (authService.ts:227-283).    *)
(***************************************************************************)
LinkDiesOfOthers ==
  \A m \in mailbox :
    m.kind = "reset" /\ m.token \notin expired /\ user[m.to].reset # m.token =>
      \E q \in About(m.to, {"forgot", "reset"}, {"ok", "error"}) \ {m.token} :
        q \notin req[m.token].before

(***************************************************************************)
(* An account is made by one request only, however many found it missing,  *)
(* and it is confirmed only by the code that was mailed or by Google       *)
(* (authService.ts:79-127, 192-225, 333-355).                              *)
(***************************************************************************)
AccountIsEarned ==
  \A e \in Email :
    /\ Cardinality(About(e, Op, {"created"})) <= 1
    /\ About(e, Op, {"created"}) # {} => ~initially[e].exists
    /\ user[e].confirmed =>
         \/ initially[e].confirmed
         \/ About(e, {"oauth"}, {"created", "error"}) # {}
         \/ \E q \in About(e, {"confirm"}, {"ok", "error"}) :
              req[q].given = "right"
=============================================================================
