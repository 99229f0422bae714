------------------------------ MODULE Payments ------------------------------
(***************************************************************************)
(* The payments table as Razorpay's webhooks write it: the handler of      *)
(* POST /payments/webhook/razorpay (paymentRoutes.ts) upserts the row of a *)
(* payment with the status its event maps to, whatever the row says.       *)
(*                                                                         *)
(* The provider numbers the events of a payment in the order in which they *)
(* happened; it delivers them in any order and delivers an event again     *)
(* when it got no answer.  Requests that fail the signature check and      *)
(* events without a payment entity touch nothing and are left out.         *)
(***************************************************************************)
EXTENDS Naturals, Sequences

CONSTANTS
  Payment,     \* Razorpay payment ids
  MaxEvents,   \* bound: events of one payment
  Repeats      \* bound: events of a payment handled again after a lost answer

ASSUME EventsAssumption == MaxEvents \in Nat
ASSUME RepeatsAssumption == Repeats \in Nat

VARIABLES
  sent,      \* [Payment -> Seq(Event)], what happened at the provider
  answered,  \* [Payment -> indices of sent that got a 200]
  repeats,   \* [Payment -> answers lost]
  disorder,  \* payments an event of which was lost, repeated or overtaken
  row        \* [Payment -> Row], the payments table

paymentVars == <<sent, answered, repeats, disorder, row>>

Event == {"authorized", "captured", "failed", "refunded", "other"}
Status == {"pending", "completed", "failed", "refunded"}

(* Mutant: an event that is not in the map has no default. *)
StatusOfUnmapped(event) ==
  CASE event = "captured"   -> "completed"
    [] event = "failed"     -> "failed"
    [] event = "refunded"   -> "refunded"
    [] event = "authorized" -> "pending"
    [] OTHER                -> "undefined"

(* "other" stands for every event the map does not list. *)
StatusOf(event) ==
  CASE event = "captured" -> "completed"
    [] event = "failed"   -> "failed"
    [] event = "refunded" -> "refunded"
    [] OTHER              -> "pending"

Row == [exists : BOOLEAN,
        status : Status,
        paidAt : BOOLEAN, failedAt : BOOLEAN,   \* the column is not null
        pdfKey : BOOLEAN]                       \* metadata has a pdfKey

NoRow == [exists |-> FALSE, status |-> "pending",
          paidAt |-> FALSE, failedAt |-> FALSE, pdfKey |-> FALSE]

Happened(p, event) == \E i \in DOMAIN sent[p] : sent[p][i] = event

PaymentTypeOK ==
  /\ sent \in [Payment -> Seq(Event)]
  /\ \A p \in Payment : answered[p] \subseteq DOMAIN sent[p]
  /\ repeats \in [Payment -> 0..Repeats]
  /\ disorder \subseteq Payment
  /\ row \in [Payment -> Row]

PaymentInit ==
  /\ sent = [p \in Payment |-> <<>>]
  /\ answered = [p \in Payment |-> {}]
  /\ repeats = [p \in Payment |-> 0]
  /\ disorder = {}
  /\ row = [p \in Payment |-> NoRow]

(* External: the life of a payment at the provider.  A payment that failed *)
(* may still be authorized and captured late.                              *)
MayFollow(p, event) ==
  CASE event \in {"authorized", "failed"} -> ~Happened(p, "captured")
    [] event = "refunded" -> Happened(p, "captured")
    [] event = "other"    -> sent[p] # <<>>
    [] OTHER              -> TRUE

Occur(p) ==
  /\ Len(sent[p]) < MaxEvents
  /\ \E event \in Event :
       /\ ~Happened(p, event)
       /\ MayFollow(p, event)
       /\ sent' = [sent EXCEPT ![p] = Append(@, event)]
  /\ UNCHANGED <<answered, repeats, disorder, row>>

(* Mutant: a captured payment is not overwritten. *)
UpsertOnce(p, event) ==
  row' = [row EXCEPT ![p] =
    IF @.paidAt THEN @
    ELSE [exists   |-> TRUE,
          status   |-> StatusOf(event),
          paidAt   |-> StatusOf(event) = "completed",
          failedAt |-> @.failedAt \/ StatusOf(event) = "failed",
          pdfKey   |-> @.pdfKey]]

(* Mutant: every event that is no failure dates the payment. *)
UpsertDated(p, event) ==
  row' = [row EXCEPT ![p] =
    [exists   |-> TRUE,
     status   |-> StatusOf(event),
     paidAt   |-> @.paidAt \/ StatusOf(event) # "failed",
     failedAt |-> @.failedAt \/ StatusOf(event) = "failed",
     pdfKey   |-> @.pdfKey]]

(* INSERT ... ON CONFLICT (razorpay_payment_id) DO UPDATE: a date that was *)
(* set stays, metadata is written by the INSERT only.                      *)
Upsert(p, event) ==
  row' = [row EXCEPT ![p] =
    [exists   |-> TRUE,
     status   |-> StatusOf(event),
     paidAt   |-> @.paidAt \/ StatusOf(event) = "completed",
     failedAt |-> @.failedAt \/ StatusOf(event) = "failed",
     pdfKey   |-> @.pdfKey]]

(* The i-th event is the next one in order. *)
InOrder(p, i) == answered[p] = 1..(i - 1)

(* The webhook request for the i-th event.  A database error is answered   *)
(* with 200 as well, so the provider does not come back.                   *)
Handle(p, i) ==
  /\ i \in DOMAIN sent[p] \ answered[p]
  /\ \/ /\ Upsert(p, sent[p][i])
        /\ answered' = [answered EXCEPT ![p] = @ \cup {i}]
        /\ disorder' = IF InOrder(p, i) THEN disorder ELSE disorder \cup {p}
        /\ UNCHANGED repeats
     \/ /\ Upsert(p, sent[p][i])              \* the answer is lost
        /\ repeats[p] < Repeats
        /\ repeats' = [repeats EXCEPT ![p] = @ + 1]
        /\ disorder' = disorder \cup {p}
        /\ UNCHANGED answered
     \/ /\ answered' = [answered EXCEPT ![p] = @ \cup {i}]
        /\ disorder' = disorder \cup {p}
        /\ UNCHANGED <<repeats, row>>
  /\ UNCHANGED sent

PaymentNext == \E p \in Payment : Occur(p) \/ \E i \in DOMAIN sent[p] : Handle(p, i)

-----------------------------------------------------------------------------
(***************************************************************************)
(* What the row says is backed by what happened at the provider, however   *)
(* events were lost, repeated or overtaken (paymentRoutes.ts:190-236): its *)
(* status and its dates are those of events that took place, and a         *)
(* completed row has its date.                                             *)
(***************************************************************************)
RowIsBacked ==
  \A p \in Payment : row[p].exists =>
    /\ \E i \in DOMAIN sent[p] : row[p].status = StatusOf(sent[p][i])
    /\ row[p].paidAt => Happened(p, "captured")
    /\ row[p].failedAt => Happened(p, "failed")
    /\ row[p].status = "completed" => row[p].paidAt

(***************************************************************************)
(* Once every event of a payment was handled, and none was lost, repeated  *)
(* or overtaken, the row has the status of the last one and both dates are *)
(* right.  The row of a payment in disorder may lag for ever: nothing      *)
(* compares the event with what the row already says.                      *)
(***************************************************************************)
InOrderIsCurrent ==
  \A p \in Payment :
    p \notin disorder /\ sent[p] # <<>> /\ answered[p] = DOMAIN sent[p] =>
      /\ row[p].status = StatusOf(sent[p][Len(sent[p])])
      /\ row[p].paidAt = Happened(p, "captured")
      /\ row[p].failedAt = Happened(p, "failed")
=============================================================================
