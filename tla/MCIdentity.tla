----------------------------- MODULE MCIdentity -----------------------------
(***************************************************************************)
(* Accounts, the cookies of Google sign-ins and API keys share no state:   *)
(* every run is about one of them, and the others do not move.             *)
(***************************************************************************)
EXTENDS Accounts, OAuthFlow, ApiKeys, TLC

CONSTANTS k1, k2, u1, u2

VARIABLE part

identityVars == <<part, accountVars, flowVars, keyVars>>

IdentityInit ==
  /\ part \in {"accounts", "flows", "keys"}
  /\ AccountInit /\ FlowInit /\ KeyInit
  /\ part # "accounts" => user = [e \in Email |-> NoRow]
  /\ part # "keys" => row = [k \in Key |-> NoKeyRow]

IdentityNext ==
  \/ part = "accounts" /\ AccountNext /\ UNCHANGED <<part, flowVars, keyVars>>
  \/ part = "flows" /\ FlowNext /\ UNCHANGED <<part, accountVars, keyVars>>
  \/ part = "keys" /\ KeyNext /\ UNCHANGED <<part, accountVars, flowVars>>

IdentitySpec == IdentityInit /\ [][IdentityNext]_identityVars

(* Two keys with the same prefix, of two users. *)
OnePrefix == [k \in {k1, k2} |-> "prefix"]
TwoOwners == k1 :> u1 @@ k2 :> u2

Alike == Permutations(Request) \cup Permutations(Password)

(* Every variable is one of its values, in all parts. *)
TypeOK == AccountTypeOK /\ FlowTypeOK /\ KeyTypeOK

(***************************************************************************)
(* An account was made and confirmed for a reason (AccountIsEarned of      *)
(* Accounts, authService.ts), and a Google callback was refused for one    *)
(* (CallbackIsExplained of OAuthFlow, authRoutes.ts).                      *)
(***************************************************************************)
SignInIsExplained == AccountIsEarned /\ CallbackIsExplained
=============================================================================
