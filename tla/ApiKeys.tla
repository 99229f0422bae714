------------------------------ MODULE ApiKeys -------------------------------
(***************************************************************************)
(* API keys (apiKeyService.ts, apiKeyMiddleware.ts): creating, presenting  *)
(* and revoking them, by calls that overlap.                               *)
(*                                                                         *)
(* A key is stored as a hash beside the first characters of it, the        *)
(* prefix, which other keys may share.  A key is looked up by its prefix,  *)
(* then argon2 tries the hashes of the rows that were found, one await for *)
(* each, and the answer is made from those rows and the clock.             *)
(***************************************************************************)
EXTENDS FiniteSets

CONSTANTS
  Key,       \* raw keys; also the ids of their rows
  PrefixOf,  \* [Key -> prefix]
  User,
  OwnerOf,   \* [Key -> User], who a key is made for
  KeyCall    \* calls, each of which is made at most once

VARIABLES
  row,       \* [Key -> KeyRow], the api_keys table
  overdue,   \* keys whose expiresAt has passed
  touching,  \* keys of detached fibers that write lastUsedAt
  call       \* [KeyCall -> KeyCallState]

keyVars == <<row, overdue, touching, call>>

KeyRow == [exists : BOOLEAN, expires : BOOLEAN, isActive : BOOLEAN,
           revoked : BOOLEAN, used : BOOLEAN]

NoKeyRow == [exists |-> FALSE, expires |-> FALSE, isActive |-> FALSE,
             revoked |-> FALSE, used |-> FALSE]

KeyResults == {"ok", "notFound", "expired", "revoked", "died"}

(* `found` is what the SELECT returned; `known` are the states, active or  *)
(* not, that the key was in since the call began, and `gone` says that it  *)
(* had been revoked by then.                                               *)
KeyCallState ==
  [op : {"create", "verify", "revoke"}, key : Key, user : User,
   phase : {"select", "write", "match", "done"},
   found : SUBSET Key, known : SUBSET BOOLEAN, gone : BOOLEAN,
   result : KeyResults \cup {"none"}]

Uncalled == [phase |-> "idle", result |-> "none"]

IsLive(k) == row[k].exists /\ row[k].isActive

KeyTypeOK ==
  /\ row \in [Key -> KeyRow]
  /\ overdue \subseteq {k \in Key : row[k].expires}
  /\ touching \subseteq Key
  /\ DOMAIN call = KeyCall
  /\ \A c \in KeyCall : call[c] = Uncalled \/ call[c] \in KeyCallState

(* A key may have been made by an earlier call. *)
KeyInit ==
  /\ row \in [Key -> {NoKeyRow, [NoKeyRow EXCEPT !.exists = TRUE,
                                                !.isActive = TRUE]}]
  /\ overdue = {}
  /\ touching = {}
  /\ call = [c \in KeyCall |-> Uncalled]

-----------------------------------------------------------------------------
Doing(c, op, phase) ==
  call[c].phase = phase /\ call[c].op = op

Resolve(c, result) ==
  call' = [call EXCEPT ![c].phase = "done", ![c].result = result,
                       ![c].found = {}, ![c].known = {}]

(* Row k is written; c is answered and the other calls see the change.     *)
WriteKey(c, k, new, result) ==
  /\ row' = [row EXCEPT ![k] = new]
  /\ call' = [d \in KeyCall |->
       IF d = c
         THEN [call[c] EXCEPT !.phase = "done", !.result = result,
                              !.found = {}, !.known = {}]
       ELSE IF call[d].phase \in {"select", "write", "match"}
                 /\ call[d].key = k
         THEN [call[d] EXCEPT !.known = @ \cup {new.isActive}]
       ELSE call[d]]

Revoked(k) ==
  \E c \in KeyCall : /\ call[c].phase = "done" /\ call[c].op = "revoke"
                     /\ call[c].key = k /\ call[c].result = "ok"

(* create is called with fresh random characters, verify with anything a   *)
(* header may hold, revoke with any id.                                    *)
KeyBegin(c) ==
  /\ call[c] = Uncalled
  /\ \E op \in {"create", "verify", "revoke"}, k \in Key, u \in User :
       /\ op = "create" => u = OwnerOf[k]
       /\ op = "create" => ~row[k].exists /\
            \A d \in KeyCall :
              call[d] # Uncalled /\ call[d].op = "create" => call[d].key # k
       /\ call' = [call EXCEPT ![c] =
            [op |-> op, key |-> k, user |-> u,
             phase |-> IF op = "create" THEN "write" ELSE "select",
             found |-> {}, known |-> {IsLive(k)}, gone |-> Revoked(k),
             result |-> "none"]]
  /\ UNCHANGED <<row, overdue, touching>>

(* After argon2 has hashed the key.  It is answered with the raw key, once. *)
CreateInsert(c) ==
  /\ Doing(c, "create", "write")
  /\ LET k == call[c].key IN
     \E expires \in BOOLEAN, result \in {"ok", "died"} :
       WriteKey(c, k, [NoKeyRow EXCEPT !.exists = TRUE, !.isActive = TRUE,
                                       !.expires = expires], result)
  /\ UNCHANGED <<overdue, touching>>

VerifySelect(c) ==
  /\ Doing(c, "verify", "select")
  /\ LET rows == {k \in Key : IsLive(k)
                              /\ PrefixOf[k] = PrefixOf[call[c].key]}
     IN IF rows = {}
          THEN Resolve(c, "notFound")
          ELSE call' = [call EXCEPT ![c].phase = "match", ![c].found = rows]
  /\ UNCHANGED <<row, overdue, touching>>

(* argon2 verifies the key against the one hash made of it.  A row found   *)
(* active has no revokedAt, so the third check never fails; the expiry is  *)
(* compared with the time after the awaits.                                *)
VerifyMatch(c) ==
  /\ Doing(c, "verify", "match")
  /\ LET k == call[c].key IN
     IF k \notin call[c].found
       THEN Resolve(c, "notFound") /\ UNCHANGED touching
     ELSE IF k \in overdue
       THEN Resolve(c, "expired") /\ UNCHANGED touching
     ELSE Resolve(c, "ok") /\ touching' = touching \cup {k}
  /\ UNCHANGED <<row, overdue>>

RevokeSelect(c) ==
  /\ Doing(c, "revoke", "select")
  /\ IF row[call[c].key].exists /\ OwnerOf[call[c].key] = call[c].user
       THEN call' = [call EXCEPT ![c].phase = "write"]
       ELSE Resolve(c, "notFound")
  /\ UNCHANGED <<row, overdue, touching>>

RevokeUpdate(c) ==
  /\ Doing(c, "revoke", "write")
  /\ LET k == call[c].key IN
     \E result \in {"ok", "died"} :
       WriteKey(c, k, [row[k] EXCEPT !.isActive = FALSE, !.revoked = TRUE],
                result)
  /\ UNCHANGED <<overdue, touching>>

(* A query fails and changes nothing: Effect.orDie. *)
KeyFail(c) ==
  /\ call[c].phase \in {"select", "write"}
  /\ Resolve(c, "died")
  /\ UNCHANGED <<row, overdue, touching>>

(* Mutant: the row is saved as it was when the key was verified. *)
TouchSaved(k) ==
  /\ k \in touching
  /\ touching' = touching \ {k}
  /\ row' \in {row, [row EXCEPT ![k].used = TRUE, ![k].isActive = TRUE]}
  /\ UNCHANGED <<overdue, call>>

(* The detached UPDATE of lastUsedAt, which may be lost. *)
Touch(k) ==
  /\ k \in touching
  /\ touching' = touching \ {k}
  /\ row' \in {row, [row EXCEPT ![k].used = TRUE]}
  /\ UNCHANGED <<overdue, call>>

KeyExpires(k) ==
  /\ row[k].expires /\ k \notin overdue
  /\ overdue' = overdue \cup {k}
  /\ UNCHANGED <<row, touching, call>>

KeyNext ==
  \/ \E c \in KeyCall :
       \/ KeyBegin(c) \/ CreateInsert(c)
       \/ VerifySelect(c) \/ VerifyMatch(c)
       \/ RevokeSelect(c) \/ RevokeUpdate(c) \/ KeyFail(c)
  \/ \E k \in Key : Touch(k) \/ KeyExpires(k)

-----------------------------------------------------------------------------
(***************************************************************************)
(* Every answer about a key was true at some moment of the call, although  *)
(* it is made from rows read before the awaits of argon2                   *)
(* (apiKeyService.ts:157-225): a key is accepted only if it was active     *)
(* meanwhile, even when the prefix is shared, and not when its expiry had  *)
(* passed before the answer; it is unknown only if it was not active       *)
(* meanwhile.  Revocation is final: no call made after a revoke was        *)
(* answered accepts the key, whatever calls and detached updates of        *)
(* lastUsedAt were still under way (213-219, 227-246).                     *)
(***************************************************************************)
KeyAnswerHolds(c, result) ==
  LET k == call[c].key IN
  CASE result = "ok" ->
         TRUE \in call[c].known /\ ~call[c].gone /\ k \notin overdue
    [] result = "notFound" -> FALSE \in call[c].known
    [] result = "expired" -> TRUE \in call[c].known /\ k \in overdue
    [] result = "revoked" -> FALSE \in call[c].known
    [] result = "died" -> TRUE

KeyAnswersAreCurrent ==
  [][\A c \in KeyCall :
       call[c].phase # "done" /\ call'[c].phase = "done"
         /\ call[c].op = "verify" => KeyAnswerHolds(c, call'[c].result)]_keyVars
=============================================================================
