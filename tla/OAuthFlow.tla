------------------------------ MODULE OAuthFlow -----------------------------
(***************************************************************************)
(* Signing in with Google (authRoutes.ts): the state and the PKCE verifier *)
(* of a flow live in two cookies of the browser until Google sends it      *)
(* back.  They are set and cleared together, so the jar holds both of one  *)
(* flow or none.  A browser may have several flows open, in tabs.  What    *)
(* the sign-in does to the account is OAuthFind of Accounts.               *)
(***************************************************************************)
EXTENDS Naturals

CONSTANTS
  Flow,   \* flows that one browser starts
  NoFlow  \* a value that is not a flow

ASSUME FlowAssumption == NoFlow \notin Flow

VARIABLES
  flow,     \* [Flow -> where it is]
  jar,      \* the flow whose cookies the browser has
  outdated, \* flows whose cookies were there for ten minutes
  since     \* [Flow -> the others that were started or answered while it was out]

flowVars == <<flow, jar, outdated, since>>

Stage == {"new", "at_google", "returning", "exchanging", "signed_in",
          "mismatch", "refused"}

FlowTypeOK ==
  /\ flow \in [Flow -> Stage]
  /\ jar \in Flow \cup {NoFlow}
  /\ outdated \subseteq Flow
  /\ since \in [Flow -> SUBSET Flow]

FlowInit ==
  /\ flow = [f \in Flow |-> "new"]
  /\ jar = NoFlow
  /\ outdated = {}
  /\ since = [f \in Flow |-> {}]

Move(f, from, to) == flow[f] = from /\ flow' = [flow EXCEPT ![f] = to]

(* History: the flows that are out while f is started or answered. *)
Noted(f) ==
  [g \in Flow |-> IF flow[g] \in {"at_google", "returning"}
                     THEN since[g] \cup {f} ELSE since[g]]

(* Mutant: the answer redirects without the cookies. *)
StartBare(f) ==
  /\ Move(f, "new", "at_google")
  /\ since' = Noted(f)
  /\ UNCHANGED <<jar, outdated>>

(* GET /auth/oauth/google: the cookies of the flow before are overwritten. *)
StartGoogleFlow(f) ==
  /\ Move(f, "new", "at_google")
  /\ jar' = f
  /\ since' = Noted(f)
  /\ UNCHANGED outdated

(* The user consents, and is redirected with a code and the state. *)
Consent(f) ==
  /\ Move(f, "at_google", "returning")
  /\ UNCHANGED <<jar, outdated, since>>

(* GET /auth/oauth/google/callback: the state of the request must be the   *)
(* cookie's.                                                               *)
Callback(f) ==
  /\ Move(f, "returning", IF jar = f THEN "exchanging" ELSE "mismatch")
  /\ UNCHANGED <<jar, outdated, since>>

(* exchangeGoogleCode, handleGoogleOAuth: the answer clears the cookies,   *)
(* whichever flow set them last.                                           *)
Exchange(f) ==
  \/ /\ Move(f, "exchanging", "signed_in")
     /\ jar' = NoFlow
     /\ since' = Noted(f)
     /\ UNCHANGED outdated
  \/ /\ Move(f, "exchanging", "refused")
     /\ UNCHANGED <<jar, outdated, since>>

(* maxAge *)
ExpireCookies ==
  /\ jar # NoFlow
  /\ jar' = NoFlow
  /\ outdated' = outdated \cup {jar}
  /\ UNCHANGED <<flow, since>>

FlowNext ==
  \/ \E f \in Flow :
       StartGoogleFlow(f) \/ Consent(f) \/ Callback(f) \/ Exchange(f)
  \/ ExpireCookies

(***************************************************************************)
(* A callback is refused for its state only where the user took more than  *)
(* ten minutes, or where another tab started a flow after this one (and    *)
(* overwrote its cookies) or was answered after it started (and cleared    *)
(* them), in both cases before it came back: the tabs of earlier and later *)
(* flows are no excuse (authRoutes.ts:292-331).                            *)
(***************************************************************************)
CallbackIsExplained ==
  \A f \in Flow : flow[f] = "mismatch" =>
    f \in outdated \/ since[f] \ {f} # {}
=============================================================================
