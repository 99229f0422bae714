------------------------- MODULE ReceiptWorkerProofs ------------------------
(***************************************************************************)
(* Theorems about ReceiptWorker together with Payments, for any payments,  *)
(* jobs and attempt numbers.  The invariant carries the evidence for a     *)
(* receipt along: from the events at the provider to the row, from the row *)
(* to the PDF a fiber holds, from there to the bucket and the metadata.    *)
(***************************************************************************)
EXTENDS ReceiptWorker, TLAPS

-----------------------------------------------------------------------------
(***************************************************************************)
(* Lemmas about Payments, for any payments and any bounds on events and    *)
(* repeated deliveries: what an event at the provider and the handling of  *)
(* one preserve.  A row in order is described by the prefix of the events  *)
(* that was handled, a row in disorder only by what happened at all.       *)
(***************************************************************************)

(* The provider refunds what was captured. *)
RefundFollowsCapture ==
  \A p \in Payment : Happened(p, "refunded") => Happened(p, "captured")

DatesNeedRow ==
  \A p \in Payment : row[p].paidAt \/ row[p].failedAt => row[p].exists

(* The row says what the first k events say, and no more were handled. *)
CurrentUpTo(p, k) ==
  /\ answered[p] = 1..k
  /\ k > 0 => row[p].exists /\ row[p].status = StatusOf(sent[p][k])
  /\ row[p].paidAt <=> \E i \in 1..k : sent[p][i] = "captured"
  /\ row[p].failedAt <=> \E i \in 1..k : sent[p][i] = "failed"

OrderedRows ==
  \A p \in Payment :
    p \notin disorder => \E k \in 0..Len(sent[p]) : CurrentUpTo(p, k)

PaymentInv ==
  /\ PaymentTypeOK /\ DOMAIN answered = Payment
  /\ RowIsBacked /\ DatesNeedRow
  /\ RefundFollowsCapture /\ OrderedRows

LEMMA PaymentInitInv == PaymentInit => PaymentInv
<1> SUFFICES ASSUME PaymentInit PROVE PaymentInv
  OBVIOUS
<1>1. /\ \A p \in Payment : sent[p] = <<>> /\ answered[p] = {} /\ row[p] = NoRow
      /\ DOMAIN answered = Payment
  BY DEF PaymentInit
<1>2. PaymentTypeOK
  <2>1. NoRow \in Row
    BY DEF NoRow, Row, Status
  <2>2. <<>> \in Seq(Event)
    OBVIOUS
  <2> QED
    BY <1>1, <2>1, <2>2, RepeatsAssumption DEF PaymentInit, PaymentTypeOK
<1>3. RowIsBacked /\ DatesNeedRow /\ RefundFollowsCapture
  BY <1>1 DEF RowIsBacked, DatesNeedRow, RefundFollowsCapture, Happened, NoRow
<1>4. OrderedRows
  <2> SUFFICES ASSUME NEW p \in Payment PROVE CurrentUpTo(p, 0) /\ 0 \in 0..Len(sent[p])
    BY DEF OrderedRows
  <2> QED
    BY <1>1 DEF CurrentUpTo, NoRow
<1> QED
  BY <1>1, <1>2, <1>3, <1>4 DEF PaymentInv

-----------------------------------------------------------------------------
(* An event at the provider *)

LEMMA OccurAppends ==
  ASSUME PaymentTypeOK, NEW p \in Payment, Occur(p)
  PROVE  /\ sent' \in [Payment -> Seq(Event)]
         /\ \A q \in Payment \ {p} : sent'[q] = sent[q]
         /\ \E event \in Event :
              /\ MayFollow(p, event)
              /\ sent'[p][Len(sent[p]) + 1] = event
         /\ Len(sent[p]) \in Nat /\ DOMAIN sent[p] = 1..Len(sent[p])
         /\ Len(sent'[p]) = Len(sent[p]) + 1
         /\ DOMAIN sent'[p] = 1..(Len(sent[p]) + 1)
         /\ \A i \in 1..Len(sent[p]) : sent'[p][i] = sent[p][i]
<1>1. PICK event \in Event :
        MayFollow(p, event) /\ sent' = [sent EXCEPT ![p] = Append(@, event)]
  BY DEF Occur
<1>2. sent \in [Payment -> Seq(Event)] /\ sent[p] \in Seq(Event)
  BY DEF PaymentTypeOK
<1>3. sent'[p] = Append(sent[p], event) /\ \A q \in Payment \ {p} : sent'[q] = sent[q]
  BY <1>1, <1>2
<1>4. /\ Append(sent[p], event) \in Seq(Event)
      /\ Len(Append(sent[p], event)) = Len(sent[p]) + 1
      /\ Append(sent[p], event)[Len(sent[p]) + 1] = event
      /\ \A i \in 1..Len(sent[p]) : Append(sent[p], event)[i] = sent[p][i]
  BY <1>2
<1>5. sent' \in [Payment -> Seq(Event)]
  BY <1>1, <1>2, <1>4
<1>6. /\ Len(sent[p]) \in Nat /\ DOMAIN sent[p] = 1..Len(sent[p])
      /\ DOMAIN sent'[p] = 1..(Len(sent[p]) + 1)
  BY <1>2, <1>3, <1>4
<1> QED
  BY <1>1, <1>3, <1>4, <1>5, <1>6

LEMMA OccurKeepsInv ==
  ASSUME PaymentInv, NEW p \in Payment, Occur(p)
  PROVE  PaymentInv'
<1> DEFINE n == Len(sent[p])
<1>1. /\ sent' \in [Payment -> Seq(Event)]
      /\ \A q \in Payment \ {p} : sent'[q] = sent[q]
      /\ n \in Nat /\ DOMAIN sent[p] = 1..n
      /\ Len(sent'[p]) = n + 1
      /\ DOMAIN sent'[p] = 1..(n + 1)
      /\ \A i \in 1..n : sent'[p][i] = sent[p][i]
  BY OccurAppends DEF PaymentInv
<1>2. PICK event \in Event : MayFollow(p, event) /\ sent'[p][n + 1] = event
  BY OccurAppends DEF PaymentInv
<1>3. UNCHANGED <<answered, repeats, disorder, row>>
  BY DEF Occur
<1>4. \A q \in Payment : \A i \in DOMAIN sent[q] :
        i \in DOMAIN sent'[q] /\ sent'[q][i] = sent[q][i]
  <2>1. 1..n \subseteq 1..(n + 1)
    BY <1>1
  <2>2. \A i \in DOMAIN sent[p] : i \in DOMAIN sent'[p] /\ sent'[p][i] = sent[p][i]
    BY <1>1, <2>1
  <2>3. \A q \in Payment \ {p} : sent'[q] = sent[q]
    BY <1>1
  <2> HIDE DEF n
  <2> QED
    BY <2>2, <2>3
<1>5. \A q \in Payment, e \in Event : Happened(q, e) => Happened(q, e)'
  BY <1>4 DEF Happened
<1> USE DEF PaymentInv
<1>6. PaymentTypeOK'
  BY <1>1, <1>3, <1>4 DEF PaymentTypeOK
<1>7. RowIsBacked' /\ DatesNeedRow'
  BY <1>3, <1>4, <1>5 DEF RowIsBacked, DatesNeedRow, Event
<1>8. RefundFollowsCapture'
  <2> SUFFICES ASSUME NEW q \in Payment, Happened(q, "refunded")'
               PROVE  Happened(q, "captured")'
    BY DEF RefundFollowsCapture
  <2>1. CASE Happened(q, "refunded")
    BY <2>1, <1>5 DEF RefundFollowsCapture, Event
  <2>2. CASE ~Happened(q, "refunded")
    <3>1. q = p /\ event = "refunded"
      BY <2>2, <1>1, <1>2 DEF Happened
    <3> QED
      BY <3>1, <1>2, <1>5 DEF MayFollow, Event
  <2> QED
    BY <2>1, <2>2
<1>9. OrderedRows'
  <2> SUFFICES ASSUME NEW q \in Payment, q \notin disorder
               PROVE  \E k \in 0..Len(sent'[q]) : CurrentUpTo(q, k)'
    BY <1>3 DEF OrderedRows
  <2>1. PICK k \in 0..Len(sent[q]) : CurrentUpTo(q, k)
    BY DEF OrderedRows
  <2>2. k \in 0..Len(sent'[q]) /\ \A i \in 1..k : sent'[q][i] = sent[q][i]
    BY <2>1, <1>1
  <2>3. CurrentUpTo(q, k)'
    <3>1. answered'[q] = 1..k
      BY <2>1, <1>3 DEF CurrentUpTo
    <3>2. k > 0 => row'[q].exists /\ row'[q].status = StatusOf(sent'[q][k])
      <4>1. k > 0 => sent'[q][k] = sent[q][k]
        BY <2>2
      <4> QED
        BY <2>1, <4>1, <1>3 DEF CurrentUpTo
    <3>3. row'[q].paidAt <=> \E i \in 1..k : sent'[q][i] = "captured"
      BY <2>1, <2>2, <1>3 DEF CurrentUpTo
    <3>4. row'[q].failedAt <=> \E i \in 1..k : sent'[q][i] = "failed"
      BY <2>1, <2>2, <1>3 DEF CurrentUpTo
    <3> QED
      BY <3>1, <3>2, <3>3, <3>4 DEF CurrentUpTo, StatusOf
  <2> QED
    BY <2>2, <2>3
<1> QED
  BY <1>3, <1>6, <1>7, <1>8, <1>9

-----------------------------------------------------------------------------
(* The webhook handler *)

(* The upsert writes one row, whose dates only ever get set. *)
LEMMA UpsertWrites ==
  ASSUME PaymentTypeOK, NEW p \in Payment, NEW event \in Event, Upsert(p, event)
  PROVE  /\ row' \in [Payment -> Row]
         /\ \A q \in Payment \ {p} : row'[q] = row[q]
         /\ row'[p].exists
         /\ row'[p].status = StatusOf(event)
         /\ row'[p].paidAt <=> row[p].paidAt \/ event = "captured"
         /\ row'[p].failedAt <=> row[p].failedAt \/ event = "failed"
         /\ row'[p].pdfKey = row[p].pdfKey
<1> DEFINE new == [exists   |-> TRUE,
                   status   |-> StatusOf(event),
                   paidAt   |-> row[p].paidAt \/ StatusOf(event) = "completed",
                   failedAt |-> row[p].failedAt \/ StatusOf(event) = "failed",
                   pdfKey   |-> row[p].pdfKey]
<1>1. row \in [Payment -> Row] /\ row[p] \in Row
  BY DEF PaymentTypeOK
<1>2. row' = [row EXCEPT ![p] = new]
  BY DEF Upsert
<1>3. row'[p] = new /\ \A q \in Payment \ {p} : row'[q] = row[q]
  BY <1>1, <1>2
<1>4. /\ StatusOf(event) \in Status
      /\ StatusOf(event) = "completed" <=> event = "captured"
      /\ StatusOf(event) = "failed" <=> event = "failed"
  BY DEF StatusOf, Status, Event
<1>5. new \in Row
  <2>1. /\ row[p].paidAt \in BOOLEAN /\ row[p].failedAt \in BOOLEAN
        /\ row[p].pdfKey \in BOOLEAN
    BY <1>1 DEF Row
  <2> QED
    BY <2>1, <1>4 DEF Row
<1>6. row' \in [Payment -> Row]
  BY <1>1, <1>2, <1>5
<1>7. /\ new.exists = TRUE
      /\ new.status = StatusOf(event)
      /\ new.paidAt <=> (row[p].paidAt \/ StatusOf(event) = "completed")
      /\ new.failedAt <=> (row[p].failedAt \/ StatusOf(event) = "failed")
      /\ new.pdfKey = row[p].pdfKey
  OBVIOUS
<1> QED
  BY <1>3, <1>4, <1>6, <1>7

LEMMA HandleKeepsInv ==
  ASSUME PaymentInv, NEW p \in Payment, NEW i \in DOMAIN sent[p], Handle(p, i)
  PROVE  PaymentInv'
<1> DEFINE event == sent[p][i]
<1>1. /\ sent[p] \in Seq(Event) /\ event \in Event
      /\ Len(sent[p]) \in Nat /\ i \in 1..Len(sent[p])
  BY DEF PaymentInv, PaymentTypeOK
<1>2. sent' = sent /\ \A q \in Payment, e \in Event : Happened(q, e)' <=> Happened(q, e)
  BY DEF Handle, Happened
<1>3. /\ DOMAIN answered' = Payment
      /\ \A q \in Payment \ {p} : answered'[q] = answered[q]
      /\ answered'[p] \in {answered[p], answered[p] \cup {i}}
      /\ repeats' \in [Payment -> 0..Repeats]
      /\ disorder' \in {disorder, disorder \cup {p}}
  <2>1. CASE UNCHANGED repeats
    BY <2>1 DEF Handle, PaymentInv, PaymentTypeOK
  <2>2. CASE repeats[p] < Repeats /\ repeats' = [repeats EXCEPT ![p] = @ + 1]
    <3>1. repeats' \in [Payment -> 0..Repeats]
      BY <2>2, RepeatsAssumption DEF PaymentInv, PaymentTypeOK
    <3> QED
      BY <3>1 DEF Handle, PaymentInv, PaymentTypeOK
  <2> QED
    BY <2>1, <2>2 DEF Handle
<1>4. \/ UNCHANGED row
      \/ /\ row' \in [Payment -> Row]
         /\ \A q \in Payment \ {p} : row'[q] = row[q]
         /\ row'[p].exists
         /\ row'[p].status = StatusOf(event)
         /\ row'[p].paidAt <=> row[p].paidAt \/ event = "captured"
         /\ row'[p].failedAt <=> row[p].failedAt \/ event = "failed"
         /\ row'[p].pdfKey = row[p].pdfKey
  <2>1. UNCHANGED row \/ Upsert(p, event)
    BY DEF Handle
  <2> QED
    BY <2>1, <1>1, UpsertWrites DEF PaymentInv
<1>5. PaymentTypeOK'
  BY <1>1, <1>2, <1>3, <1>4 DEF PaymentInv, PaymentTypeOK
<1>6. RowIsBacked' /\ DatesNeedRow'
  <2>1. CASE UNCHANGED row
    BY <2>1, <1>2 DEF PaymentInv, RowIsBacked, DatesNeedRow, Event
  <2>2. CASE ~UNCHANGED row
    <3>1. /\ row'[p].exists
          /\ row'[p].status = StatusOf(event)
          /\ row'[p].paidAt <=> row[p].paidAt \/ event = "captured"
          /\ row'[p].failedAt <=> row[p].failedAt \/ event = "failed"
          /\ \A q \in Payment \ {p} : row'[q] = row[q]
      BY <2>2, <1>4
    <3>2. row'[p].paidAt => Happened(p, "captured")
      BY <3>1 DEF PaymentInv, RowIsBacked, DatesNeedRow, Happened
    <3>3. row'[p].failedAt => Happened(p, "failed")
      BY <3>1 DEF PaymentInv, RowIsBacked, DatesNeedRow, Happened
    <3>4. row'[p].status = "completed" => row'[p].paidAt
      <4>1. StatusOf(event) = "completed" => event = "captured"
        BY DEF StatusOf
      <4> QED
        BY <3>1, <4>1
    <3>5. \E j \in DOMAIN sent[p] : row'[p].status = StatusOf(sent[p][j])
      BY <3>1
    <3>6. DatesNeedRow'
      BY <3>1 DEF PaymentInv, DatesNeedRow
    <3>7. ASSUME NEW q \in Payment, row'[q].exists
          PROVE  /\ \E j \in DOMAIN sent[q] : row'[q].status = StatusOf(sent[q][j])
                 /\ row'[q].paidAt => Happened(q, "captured")
                 /\ row'[q].failedAt => Happened(q, "failed")
                 /\ row'[q].status = "completed" => row'[q].paidAt
      <4>1. CASE q = p
        BY <4>1, <3>2, <3>3, <3>4, <3>5
      <4>2. CASE q # p
        <5>1. row'[q] = row[q]
          BY <4>2, <3>1
        <5> QED
          BY <3>7, <5>1 DEF PaymentInv, RowIsBacked
      <4> QED
        BY <4>1, <4>2
    <3> QED
      BY <3>6, <3>7, <1>2 DEF RowIsBacked, Event, StatusOf
  <2> QED
    BY <2>1, <2>2
<1>7. RefundFollowsCapture'
  BY <1>2 DEF PaymentInv, RefundFollowsCapture, Event
<1>8. OrderedRows'
  <2> SUFFICES ASSUME NEW q \in Payment, q \notin disorder'
               PROVE  \E k \in 0..Len(sent[q]) : CurrentUpTo(q, k)'
    BY <1>2 DEF OrderedRows
  <2>1. PICK k \in 0..Len(sent[q]) : CurrentUpTo(q, k)
    BY <1>3 DEF PaymentInv, OrderedRows
  <2>2. CASE q # p
    <3>1. row'[q] = row[q] /\ answered'[q] = answered[q]
      BY <2>2, <1>3, <1>4
    <3> QED
      BY <2>1, <3>1, <1>2 DEF CurrentUpTo
  <2>3. CASE q = p
    <3>1. InOrder(p, i) /\ Upsert(p, event) /\ answered'[p] = answered[p] \cup {i}
      BY <2>3 DEF Handle, PaymentInv, PaymentTypeOK
    <3>2. 1..k = 1..(i - 1)
      BY <2>1, <2>3, <3>1 DEF CurrentUpTo, InOrder
    <3>3. k = i - 1
      BY <2>1, <2>3, <3>2, <1>1
    <3>4. k + 1 \in 0..Len(sent[p]) /\ 1..(k + 1) = 1..k \cup {i} /\ k + 1 = i
      BY <3>3, <1>1
    <3>5. /\ row'[p].exists /\ row'[p].status = StatusOf(event)
          /\ row'[p].paidAt <=> row[p].paidAt \/ event = "captured"
          /\ row'[p].failedAt <=> row[p].failedAt \/ event = "failed"
      BY <3>1, <1>1, UpsertWrites DEF PaymentInv
    <3>6. /\ row'[p].paidAt <=> \E j \in 1..(k + 1) : sent[p][j] = "captured"
          /\ row'[p].failedAt <=> \E j \in 1..(k + 1) : sent[p][j] = "failed"
      BY <2>1, <2>3, <3>4, <3>5 DEF CurrentUpTo
    <3>7. answered'[p] = 1..(k + 1)
      BY <2>1, <2>3, <3>1, <3>4 DEF CurrentUpTo
    <3>8. CurrentUpTo(p, k + 1)'
      BY <3>4, <3>5, <3>6, <3>7, <1>2 DEF CurrentUpTo
    <3> QED
      BY <2>3, <3>4, <3>8
  <2> QED
    BY <2>2, <2>3
<1> QED
  BY <1>3, <1>5, <1>6, <1>7, <1>8 DEF PaymentInv

LEMMA PaymentNextInv ==
  ASSUME PaymentInv, PaymentNext
  PROVE  PaymentInv'
BY OccurKeepsInv, HandleKeepsInv DEF PaymentNext

LEMMA PaymentStutterInv ==
  ASSUME PaymentInv, UNCHANGED paymentVars
  PROVE  PaymentInv'
<1> USE DEF PaymentInv, paymentVars
<1>1. PaymentTypeOK'
  BY DEF PaymentTypeOK
<1>2. \A p \in Payment, k \in Nat : CurrentUpTo(p, k)' <=> CurrentUpTo(p, k)
  BY DEF CurrentUpTo
<1>3. OrderedRows'
  BY <1>2 DEF OrderedRows, CurrentUpTo
<1>4. RowIsBacked' /\ DatesNeedRow' /\ RefundFollowsCapture'
  BY DEF RowIsBacked, DatesNeedRow, RefundFollowsCapture, Happened
<1> QED
  BY <1>1, <1>3, <1>4

(* A payment in order, all of whose events were handled, has the row its   *)
(* last event asks for.                                                    *)
LEMMA InvIsCurrent == PaymentInv => InOrderIsCurrent
<1> SUFFICES ASSUME PaymentInv, NEW p \in Payment, p \notin disorder,
                    sent[p] # <<>>, answered[p] = DOMAIN sent[p]
             PROVE  /\ row[p].status = StatusOf(sent[p][Len(sent[p])])
                    /\ row[p].paidAt = Happened(p, "captured")
                    /\ row[p].failedAt = Happened(p, "failed")
  BY DEF InOrderIsCurrent
<1> DEFINE n == Len(sent[p])
<1>1. PICK k \in 0..n : CurrentUpTo(p, k)
  BY DEF PaymentInv, OrderedRows
<1>2. sent[p] \in Seq(Event) /\ n \in Nat /\ DOMAIN sent[p] = 1..n /\ n > 0
  BY DEF PaymentInv, PaymentTypeOK
<1>3. 1..k = 1..n
  BY <1>1, <1>2 DEF CurrentUpTo
<1>4. k = n
  BY <1>1, <1>2, <1>3
<1>5. row[p].status = StatusOf(sent[p][n])
  BY <1>1, <1>2, <1>4 DEF CurrentUpTo
<1>6. /\ row[p].paidAt <=> Happened(p, "captured")
      /\ row[p].failedAt <=> Happened(p, "failed")
  BY <1>1, <1>2, <1>4 DEF CurrentUpTo, Happened
<1>7. row[p].paidAt \in BOOLEAN /\ row[p].failedAt \in BOOLEAN
  BY DEF PaymentInv, PaymentTypeOK, Row
<1>8. Happened(p, "captured") \in BOOLEAN /\ Happened(p, "failed") \in BOOLEAN
  BY DEF Happened
<1> QED
  BY <1>5, <1>6, <1>7, <1>8
-----------------------------------------------------------------------------

FiberHoldsMessage ==
  \A m \in Message : fiber[m] # "none" => place[m] = "unacked" /\ ValidJob(m)

(* What each phase of a fiber rests on. *)
PhaseEvidence ==
  \A m \in Message :
    /\ fiber[m] = "storing" => m \in done /\ receipt[PaymentOf[m]] # "none"
    /\ fiber[m] = "handled" => m \in done \cup dlq
    /\ fiber[m] \in {"exhausted", "refused"} => m \in failed

(* A status that only a captured payment can have. *)
Captured(status) == status \in {"completed", "refunded"}

PrintedIsBacked ==
  \A m \in Message :
    /\ fiber[m] = "uploading" => printed[m] # "none"
    /\ Captured(printed[m]) => Happened(PaymentOf[m], "captured")

IInv ==
  /\ TypeOK /\ PaymentInv
  /\ FiberHoldsMessage /\ PhaseEvidence
  /\ PrintedIsBacked /\ ReceiptIsBacked

LEMMA InitInv == Init => IInv
<1> SUFFICES ASSUME Init PROVE IInv
  OBVIOUS
<1>1. PaymentInv
  BY PaymentInitInv DEF Init
<1>2. TypeOK
  BY <1>1, MaxLossesAssumption
     DEF Init, ConsumerInit, TypeOK, ConsumerTypeOK, PaymentInv, Place, Phase
<1>3. \A p \in Payment : row[p].pdfKey = FALSE
  BY DEF Init, PaymentInit, NoRow
<1> QED
  BY <1>1, <1>2, <1>3, PaymentOfAssumption
     DEF Init, ConsumerInit, IInv, FiberHoldsMessage, PhaseEvidence,
         PrintedIsBacked, ReceiptIsBacked, Captured

-----------------------------------------------------------------------------
(* Payments *)

(* What happened stays, and a row keeps its pdfKey. *)
LEMMA PaymentsOnlyGrow ==
  ASSUME PaymentInv, PaymentNext
  PROVE  /\ \A p \in Payment : Happened(p, "captured") => Happened(p, "captured")'
         /\ \A p \in Payment : row'[p].pdfKey = row[p].pdfKey
<1>1. ASSUME NEW p \in Payment, Occur(p)
      PROVE  /\ \A q \in Payment : Happened(q, "captured") => Happened(q, "captured")'
             /\ \A q \in Payment : row'[q].pdfKey = row[q].pdfKey
  <2>1. /\ \A q \in Payment \ {p} : sent'[q] = sent[q]
        /\ Len(sent[p]) \in Nat /\ DOMAIN sent[p] = 1..Len(sent[p])
        /\ DOMAIN sent'[p] = 1..(Len(sent[p]) + 1)
        /\ \A i \in 1..Len(sent[p]) : sent'[p][i] = sent[p][i]
    BY <1>1, OccurAppends DEF PaymentInv
  <2>2. \A q \in Payment : Happened(q, "captured") => Happened(q, "captured")'
    BY <2>1 DEF Happened
  <2>3. row' = row
    BY <1>1 DEF Occur
  <2> QED
    BY <2>2, <2>3
<1>2. ASSUME NEW p \in Payment, NEW i \in DOMAIN sent[p], Handle(p, i)
      PROVE  /\ \A q \in Payment : Happened(q, "captured") => Happened(q, "captured")'
             /\ \A q \in Payment : row'[q].pdfKey = row[q].pdfKey
  <2>1. sent' = sent /\ (row' = row \/ Upsert(p, sent[p][i]))
    BY <1>2 DEF Handle
  <2>2. sent[p][i] \in Event
    BY DEF PaymentInv, PaymentTypeOK
  <2>3. \A q \in Payment : row'[q].pdfKey = row[q].pdfKey
    <3>1. CASE Upsert(p, sent[p][i])
      <4>1. /\ row'[p].pdfKey = row[p].pdfKey
            /\ \A q \in Payment \ {p} : row'[q] = row[q]
        BY <2>2, <3>1, UpsertWrites DEF PaymentInv
      <4> QED
        BY <4>1
    <3> QED
      BY <2>1, <3>1
  <2> QED
    BY <2>1, <2>3 DEF Happened
<1> QED
  BY <1>1, <1>2 DEF PaymentNext

LEMMA PaymentsKeepInv ==
  ASSUME IInv, PaymentNext, UNCHANGED <<consumerVars, workerVars>>
  PROVE  IInv'
<1> USE DEF IInv, consumerVars, workerVars
<1>1. PaymentInv'
  BY PaymentNextInv
<1>2. TypeOK'
  BY <1>1 DEF TypeOK, ConsumerTypeOK, PaymentInv
<1>3. FiberHoldsMessage' /\ PhaseEvidence'
  BY DEF FiberHoldsMessage, PhaseEvidence, ValidJob
<1>4. PrintedIsBacked'
  BY PaymentsOnlyGrow, PaymentOfAssumption DEF PrintedIsBacked
<1>5. ReceiptIsBacked'
  BY PaymentsOnlyGrow DEF ReceiptIsBacked
<1> QED
  BY <1>1, <1>2, <1>3, <1>4, <1>5

(* Storing the key touches nothing the webhooks rely on. *)
LEMMA KeyKeepsPaymentInv ==
  ASSUME PaymentInv, NEW p \in Payment,
         row' \in {row, [row EXCEPT ![p].pdfKey = TRUE]},
         UNCHANGED <<sent, answered, repeats, disorder>>
  PROVE  /\ PaymentInv'
         /\ \A q \in Payment : row'[q].pdfKey => row[q].pdfKey \/ q = p
<1>1. row \in [Payment -> Row]
  BY DEF PaymentInv, PaymentTypeOK
<1>2. row' \in [Payment -> Row]
  BY <1>1 DEF Row
<1>3. \A q \in Payment :
        /\ row'[q].exists = row[q].exists /\ row'[q].status = row[q].status
        /\ row'[q].paidAt = row[q].paidAt /\ row'[q].failedAt = row[q].failedAt
        /\ row'[q].pdfKey => row[q].pdfKey \/ q = p
  BY <1>1 DEF Row
<1> USE DEF PaymentInv
<1>4. PaymentTypeOK' /\ RefundFollowsCapture' /\ DOMAIN answered' = Payment
  BY <1>2 DEF PaymentTypeOK, RefundFollowsCapture, Happened
<1>5. RowIsBacked' /\ DatesNeedRow'
  BY <1>3 DEF RowIsBacked, DatesNeedRow, Happened
<1>6. OrderedRows'
  <2> SUFFICES ASSUME NEW q \in Payment, q \notin disorder
               PROVE  \E k \in 0..Len(sent[q]) : CurrentUpTo(q, k)'
    BY DEF OrderedRows
  <2>1. PICK k \in 0..Len(sent[q]) : CurrentUpTo(q, k)
    BY DEF OrderedRows
  <2>2. CurrentUpTo(q, k)'
    BY <2>1, <1>3 DEF CurrentUpTo
  <2> QED
    BY <2>1, <2>2
<1> QED
  BY <1>3, <1>4, <1>5, <1>6

-----------------------------------------------------------------------------
(* The queue and the connection *)

QueueStep ==
  \/ \E m \in Message :
       \/ RequestReceipt(m)
       \/ Deliver(m) /\ UNCHANGED <<paymentVars, workerVars>>
  \/ Restart /\ UNCHANGED <<paymentVars, workerVars>>

LEMMA QueueKeepsInv ==
  ASSUME IInv, QueueStep \/ LoseConnection
  PROVE  IInv'
<1> USE DEF IInv
<1>p. UNCHANGED paymentVars
  BY DEF QueueStep, RequestReceipt, LoseConnection
<1>1. PaymentInv' /\ row' = row /\ sent' = sent
  BY <1>p, PaymentStutterInv DEF paymentVars
<1>2. UNCHANGED <<attempt, receipt, done, failed, dlq>>
  BY DEF QueueStep, RequestReceipt, LoseConnection, workerVars
<1>3. /\ fiber' \in [Message -> Phase] /\ printed' \in [Message -> Status \cup {"none"}]
      /\ \A m \in Message :
           \/ fiber'[m] = "none" /\ printed'[m] = "none"
           \/ fiber'[m] = fiber[m] /\ printed'[m] = printed[m]
  BY DEF QueueStep, RequestReceipt, LoseConnection, workerVars, TypeOK, Phase
<1>4. ConsumerTypeOK'
  <2>1. CASE QueueStep
    BY <2>1 DEF QueueStep, RequestReceipt, Enqueue, Deliver, Restart, TypeOK,
                ConsumerTypeOK, Place
  <2>2. CASE LoseConnection
    <3>1. place' \in [Message -> Place] /\ up' \in BOOLEAN
      BY <2>2 DEF LoseConnection, Lose, TypeOK, ConsumerTypeOK, Place
    <3>2. losses' = losses + 1 /\ losses < MaxLosses /\ losses \in 0..MaxLosses
      BY <2>2 DEF LoseConnection, Lose, TypeOK, ConsumerTypeOK
    <3> QED
      BY <3>1, <3>2, MaxLossesAssumption DEF ConsumerTypeOK
  <2> QED
    BY <2>1, <2>2
<1>5. TypeOK'
  BY <1>1, <1>2, <1>3, <1>4 DEF TypeOK, PaymentInv
<1>6. FiberHoldsMessage'
  <2>1. CASE QueueStep
    BY <2>1 DEF QueueStep, RequestReceipt, Enqueue, Deliver, Restart, TypeOK,
                ConsumerTypeOK, FiberHoldsMessage, ValidJob, workerVars
  <2>2. CASE LoseConnection
    BY <2>2 DEF LoseConnection, FiberHoldsMessage
  <2> QED
    BY <2>1, <2>2
<1>7. PhaseEvidence'
  BY <1>2, <1>3 DEF PhaseEvidence
<1>8. PrintedIsBacked'
  BY <1>1, <1>3 DEF PrintedIsBacked, Captured, Happened
<1>9. ReceiptIsBacked'
  BY <1>1, <1>2 DEF ReceiptIsBacked, Happened
<1> QED
  BY <1>1, <1>5, <1>6, <1>7, <1>8, <1>9

-----------------------------------------------------------------------------
(* The worker *)

(* A row with the status of a captured payment belongs to one. *)
LEMMA RowOfCaptured ==
  ASSUME PaymentInv, NEW p \in Payment, row[p].exists, Captured(row[p].status)
  PROVE  Happened(p, "captured")
<1>1. CASE row[p].status = "completed"
  BY <1>1 DEF PaymentInv, RowIsBacked
<1>2. CASE row[p].status = "refunded"
  <2>1. PICK i \in DOMAIN sent[p] : row[p].status = StatusOf(sent[p][i])
    BY DEF PaymentInv, RowIsBacked
  <2>2. sent[p][i] = "refunded"
    BY <1>2, <2>1 DEF StatusOf
  <2> QED
    BY <2>2 DEF PaymentInv, RefundFollowsCapture, Happened
<1> QED
  BY <1>1, <1>2 DEF Captured

(* A step of a fiber is about its own message, which stays where it is or  *)
(* is settled; the sets grow by it at most.                                *)
LEMMA WorkerFrame ==
  ASSUME IInv, NEW m \in Message, WorkerStep(m)
  PROVE  /\ UNCHANGED <<up, losses, sent, answered, repeats, disorder, attempt>>
         /\ place[m] = "unacked"
         /\ \E p \in {"unacked", "acked", "discarded"} :
              place' = [place EXCEPT ![m] = p]
         /\ done' \in {done, done \cup {m}}
         /\ failed' \in {failed, failed \cup {m}}
         /\ dlq' \in {dlq, dlq \cup {m}}
         /\ \A n \in Message \ {m} :
              fiber'[n] = fiber[n] /\ printed'[n] = printed[n]
<1> USE DEF IInv, TypeOK, ConsumerTypeOK, FiberHoldsMessage, Goto, Refuse,
            consumerVars, paymentVars
<1>1. CASE RejectInvalid(m)
  BY <1>1 DEF RejectInvalid, Nack
<1>2. CASE Fetch(m)
  BY <1>2 DEF Fetch
<1>3. CASE Upload(m)
  BY <1>3 DEF Upload
<1>4. CASE StoreKey(m) \/ DeadLetter(m)
  BY <1>4 DEF StoreKey, DeadLetter
<1>5. CASE AckHandled(m)
  BY <1>5 DEF AckHandled, Ack
<1>6. CASE NackRefused(m)
  BY <1>6 DEF NackRefused, Nack
<1> QED
  BY <1>1, <1>2, <1>3, <1>4, <1>5, <1>6 DEF WorkerStep

(* What a fiber prints is what the row says; what it uploads is what it    *)
(* printed, and a receipt is never taken back.                             *)
LEMMA WorkerData ==
  ASSUME IInv, NEW m \in Message, WorkerStep(m)
  PROVE  /\ printed' \in [Message -> Status \cup {"none"}]
         /\ Captured(printed'[m]) => Happened(PaymentOf[m], "captured")
         /\ fiber'[m] = "uploading" => printed'[m] # "none"
         /\ receipt' \in [Payment -> Status \cup {"none"}]
         /\ \/ receipt' = receipt
            \/ /\ fiber[m] = "uploading"
               /\ receipt' = [receipt EXCEPT ![PaymentOf[m]] = printed[m]]
         /\ fiber'[m] = "storing" => receipt'[PaymentOf[m]] # "none"
<1> USE DEF IInv, TypeOK, Goto, Refuse
<1>p. PaymentOf[m] \in Payment
  BY PaymentOfAssumption
<1>1. CASE Fetch(m)
  <2>1. row[PaymentOf[m]].status \in Status
    BY <1>p DEF PaymentTypeOK, Row
  <2>2. "none" \notin Status
    BY DEF Status
  <2>3. CASE UNCHANGED printed /\ fiber' = [fiber EXCEPT ![m] = "refused"]
    BY <1>1, <2>3 DEF Fetch, PrintedIsBacked
  <2>4. CASE /\ row[PaymentOf[m]].exists
             /\ printed' = [printed EXCEPT ![m] = row[PaymentOf[m]].status]
             /\ fiber' = [fiber EXCEPT ![m] = "uploading"]
    BY <1>1, <1>p, <2>1, <2>2, <2>4, RowOfCaptured DEF Fetch
  <2> QED
    BY <1>1, <2>3, <2>4 DEF Fetch
<1>2. CASE Upload(m)
  <2>1. /\ fiber[m] = "uploading" /\ printed[m] \in Status /\ printed[m] # "none"
    BY <1>2 DEF Upload, PrintedIsBacked
  <2>2. /\ printed' \in [Message -> Status \cup {"none"}] /\ printed'[m] = "none"
        /\ fiber'[m] # "uploading"
    BY <1>2 DEF Upload
  <2>3. /\ receipt' \in {receipt, [receipt EXCEPT ![PaymentOf[m]] = printed[m]]}
        /\ fiber'[m] = "storing" =>
             receipt' = [receipt EXCEPT ![PaymentOf[m]] = printed[m]]
    BY <1>2 DEF Upload
  <2> QED
    BY <2>1, <2>2, <2>3, <1>p DEF Captured
<1>3. CASE ~Fetch(m) /\ ~Upload(m)
  <2>1. printed' = printed /\ receipt' = receipt /\ fiber'[m] # "uploading"
    BY <1>3 DEF WorkerStep, RejectInvalid, StoreKey, DeadLetter, AckHandled,
                NackRefused, FiberHoldsMessage
  <2>2. fiber'[m] # "storing"
    BY <1>3 DEF WorkerStep, RejectInvalid, StoreKey, DeadLetter, AckHandled,
                NackRefused, FiberHoldsMessage
  <2> QED
    BY <2>1, <2>2 DEF PrintedIsBacked
<1> QED
  BY <1>1, <1>2, <1>3

LEMMA WorkerPayments ==
  ASSUME IInv, NEW m \in Message, WorkerStep(m)
  PROVE  /\ PaymentInv'
         /\ \A q \in Payment :
              row'[q].pdfKey =>
                row[q].pdfKey \/ (q = PaymentOf[m] /\ receipt[q] # "none")
<1>p. PaymentOf[m] \in Payment
  BY PaymentOfAssumption
<1>1. CASE StoreKey(m)
  <2>1. /\ receipt[PaymentOf[m]] # "none"
        /\ row' \in {row, [row EXCEPT ![PaymentOf[m]].pdfKey = TRUE]}
        /\ UNCHANGED <<sent, answered, repeats, disorder>>
    BY <1>1 DEF StoreKey, IInv, PhaseEvidence
  <2> QED
    BY <2>1, <1>p, KeyKeepsPaymentInv DEF IInv
<1>2. CASE ~StoreKey(m)
  <2>1. UNCHANGED paymentVars
    BY <1>2 DEF WorkerStep, RejectInvalid, Fetch, Upload, DeadLetter, AckHandled,
                NackRefused
  <2> QED
    BY <2>1, PaymentStutterInv DEF IInv, paymentVars
<1> QED
  BY <1>1, <1>2

LEMMA WorkerPhase ==
  ASSUME IInv, NEW m \in Message, WorkerStep(m)
  PROVE  /\ fiber' \in [Message -> Phase]
         /\ fiber'[m] # "none" => place'[m] = "unacked" /\ ValidJob(m)
         /\ fiber'[m] = "storing" => m \in done'
         /\ fiber'[m] = "handled" => m \in done' \cup dlq'
         /\ fiber'[m] \in {"exhausted", "refused"} => m \in failed'
<1> USE DEF IInv, TypeOK, ConsumerTypeOK, Phase, FiberHoldsMessage, PhaseEvidence,
            Goto, Refuse, consumerVars
<1>1. CASE RejectInvalid(m)
  BY <1>1 DEF RejectInvalid, Nack
<1>2. CASE Fetch(m)
  BY <1>2 DEF Fetch
<1>3. CASE Upload(m)
  BY <1>3 DEF Upload
<1>4. CASE StoreKey(m) \/ DeadLetter(m)
  BY <1>4 DEF StoreKey, DeadLetter
<1>5. CASE AckHandled(m)
  BY <1>5 DEF AckHandled, Ack
<1>6. CASE NackRefused(m)
  BY <1>6 DEF NackRefused, Nack
<1> QED
  BY <1>1, <1>2, <1>3, <1>4, <1>5, <1>6 DEF WorkerStep

LEMMA WorkerKeepsInv ==
  ASSUME IInv, NEW m \in Message, WorkerStep(m)
  PROVE  IInv'
<1>f. /\ UNCHANGED <<up, losses, sent, attempt>>
      /\ place' \in [Message -> Place]
      /\ done \subseteq done' /\ failed \subseteq failed' /\ dlq \subseteq dlq'
      /\ done' \subseteq Message /\ failed' \subseteq Message /\ dlq' \subseteq Message
      /\ \A n \in Message \ {m} :
           /\ fiber'[n] = fiber[n] /\ printed'[n] = printed[n]
           /\ place'[n] = place[n]
  BY WorkerFrame DEF IInv, TypeOK, ConsumerTypeOK, Place
<1>r. \A q \in Payment :
        /\ receipt'[q] = receipt[q] \/ (Captured(receipt'[q]) => Happened(q, "captured"))
        /\ receipt[q] # "none" => receipt'[q] # "none"
  BY WorkerData, PaymentOfAssumption DEF IInv, TypeOK, PrintedIsBacked
<1>h. \A q \in Payment : Happened(q, "captured")' <=> Happened(q, "captured")
  BY <1>f DEF Happened
<1>1. PaymentInv'
  BY WorkerPayments
<1>2. TypeOK'
  BY <1>1, <1>f, WorkerData, WorkerPhase DEF IInv, TypeOK, ConsumerTypeOK, PaymentInv
<1>3. FiberHoldsMessage'
  BY <1>f, WorkerPhase DEF IInv, FiberHoldsMessage, ValidJob
<1>4. PhaseEvidence'
  <2> SUFFICES ASSUME NEW n \in Message
               PROVE  /\ fiber'[n] = "storing" =>
                           n \in done' /\ receipt'[PaymentOf[n]] # "none"
                      /\ fiber'[n] = "handled" => n \in done' \cup dlq'
                      /\ fiber'[n] \in {"exhausted", "refused"} => n \in failed'
    BY DEF PhaseEvidence
  <2>1. CASE n = m
    BY <2>1, WorkerPhase, WorkerData
  <2>2. CASE n # m
    BY <2>2, <1>f, <1>r, PaymentOfAssumption DEF IInv, PhaseEvidence
  <2> QED
    BY <2>1, <2>2
<1>5. PrintedIsBacked'
  <2> SUFFICES ASSUME NEW n \in Message
               PROVE  /\ fiber'[n] = "uploading" => printed'[n] # "none"
                      /\ Captured(printed'[n]) => Happened(PaymentOf[n], "captured")
    BY <1>h, PaymentOfAssumption DEF PrintedIsBacked, Captured
  <2>1. CASE n = m
    BY <2>1, WorkerData
  <2>2. CASE n # m
    BY <2>2, <1>f DEF IInv, PrintedIsBacked
  <2> QED
    BY <2>1, <2>2
<1>6. ReceiptIsBacked'
  <2>1. \A q \in Payment : row'[q].pdfKey => receipt'[q] # "none"
    BY <1>r, WorkerPayments DEF IInv, ReceiptIsBacked
  <2> QED
    BY <2>1, <1>r, <1>h DEF IInv, ReceiptIsBacked, Captured
<1> QED
  BY <1>1, <1>2, <1>3, <1>4, <1>5, <1>6 DEF IInv

-----------------------------------------------------------------------------

(* The inductive invariant holds of the whole system. *)
THEOREM InductiveInvariant == Spec => []IInv
<1>1. IInv /\ [Next]_vars => IInv'
  <2> SUFFICES ASSUME IInv, [Next]_vars PROVE IInv'
    OBVIOUS
  <2>1. CASE UNCHANGED vars
    <3>1. PaymentInv' /\ row' = row /\ sent' = sent
      BY <2>1, PaymentStutterInv DEF vars, paymentVars, IInv
    <3>2. TypeOK'
      BY <2>1, <3>1 DEF vars, consumerVars, workerVars, IInv, TypeOK,
                        ConsumerTypeOK, PaymentInv
    <3>3. FiberHoldsMessage' /\ PhaseEvidence'
      BY <2>1 DEF vars, consumerVars, workerVars, IInv, FiberHoldsMessage,
                  ValidJob, PhaseEvidence
    <3>4. PrintedIsBacked' /\ ReceiptIsBacked'
      BY <2>1, <3>1 DEF vars, workerVars, IInv, PrintedIsBacked, Captured,
                        ReceiptIsBacked, Happened
    <3> QED
      BY <3>1, <3>2, <3>3, <3>4 DEF IInv
  <2>2. CASE PaymentNext /\ UNCHANGED <<consumerVars, workerVars>>
    BY <2>2, PaymentsKeepInv
  <2>3. ASSUME NEW m \in Message, WorkerStep(m) PROVE IInv'
    BY <2>3, WorkerKeepsInv
  <2>4. CASE QueueStep \/ LoseConnection
    BY <2>4, QueueKeepsInv
  <2> QED
    BY <2>1, <2>2, <2>3, <2>4 DEF Next, QueueStep
<1> QED
  BY <1>1, InitInv, PTL DEF Spec

(* Every variable has its type. *)
THEOREM TypeCorrect == Spec => []TypeOK
<1>1. IInv => TypeOK
  BY DEF IInv
<1> QED
  BY <1>1, InductiveInvariant, PTL

(* A row says only what happened at the provider, however its events were  *)
(* lost, repeated or overtaken.                                            *)
THEOREM RowsAreBacked == Spec => []RowIsBacked
<1>1. IInv => RowIsBacked
  BY DEF IInv, PaymentInv
<1> QED
  BY <1>1, InductiveInvariant, PTL

(* Once the events of a payment were all handled in order its row is up to *)
(* date.                                                                   *)
THEOREM OrderedRowsAreCurrent == Spec => []InOrderIsCurrent
<1>1. IInv => InOrderIsCurrent
  BY InvIsCurrent DEF IInv
<1> QED
  BY <1>1, InductiveInvariant, PTL

(* No receipt says paid without a capture, and no row names a receipt that *)
(* is not in the bucket.                                                   *)
THEOREM ReceiptsAreBacked == Spec => []ReceiptIsBacked
<1>1. IInv => ReceiptIsBacked
  BY DEF IInv
<1> QED
  BY <1>1, InductiveInvariant, PTL

-----------------------------------------------------------------------------
(* The receipt worker implements JobContract. *)

Jobs == [m \in Message |-> JobState(m)]

(* A job's state follows the place of its message. *)
LEMMA JobFollows ==
  ASSUME NEW m \in Message
  PROVE  /\ place[m] = "absent" => Jobs[m] = "unsent"
         /\ place[m] \in {"ready", "unacked"} => Jobs[m] = "pending"
         /\ place'[m] = "acked" => Jobs'[m] = "finished"
         /\ place'[m] = "discarded" => Jobs'[m] = "dropped"
         /\ place'[m] \in {"ready", "unacked"} => Jobs'[m] = "pending"
BY DEF Jobs, JobState

(* A settled message is a job that is over, and no other job moves. *)
LEMMA SettledJob ==
  ASSUME IInv, NEW m \in Message, place[m] = "unacked",
         NEW p \in {"acked", "discarded"}, place' = [place EXCEPT ![m] = p]
  PROVE  /\ Jobs[m] = "pending"
         /\ Jobs' = [Jobs EXCEPT ![m] = IF p = "acked" THEN "finished"
                                                       ELSE "dropped"]
<1>1. place'[m] = p /\ \A n \in Message \ {m} : place'[n] = place[n]
  BY DEF IInv, TypeOK, ConsumerTypeOK
<1>2. \A n \in Message \ {m} : Jobs'[n] = Jobs[n]
  BY <1>1 DEF Jobs, JobState
<1>3. Jobs[m] = "pending"
  BY JobFollows
<1>4. Jobs'[m] = IF p = "acked" THEN "finished" ELSE "dropped"
  BY <1>1, JobFollows
<1> QED
  BY <1>2, <1>3, <1>4 DEF Jobs

(* Moving between "ready" and "unacked" moves no job. *)
LEMMA JobsStay ==
  ASSUME \A n \in Message : \/ place'[n] = place[n]
                            \/ {place[n], place'[n]} \subseteq {"ready", "unacked"}
  PROVE  Jobs' = Jobs
<1>1. ASSUME NEW n \in Message PROVE JobState(n)' = JobState(n)
  BY DEF JobState
<1> QED
  BY <1>1 DEF Jobs

LEMMA InitRefines == Init => Contract!Init
BY DEF Init, ConsumerInit, Contract!Init, JobState

LEMMA StutterRefines ==
  ASSUME Jobs' = Jobs, UNCHANGED <<done, failed, dlq>>
  PROVE  UNCHANGED Contract!jobVars
BY DEF Contract!jobVars, Jobs

(* The queue and the connection move no job, but for the one that is sent. *)
LEMMA QueueRefines ==
  ASSUME IInv, QueueStep \/ LoseConnection
  PROVE  [Contract!Next]_(Contract!jobVars)
<1>1. UNCHANGED <<done, failed, dlq>>
  BY DEF QueueStep, RequestReceipt, LoseConnection, workerVars
<1>2. ASSUME NEW m \in Message, RequestReceipt(m) PROVE Contract!Next
  <2>1. /\ place[m] = "absent" /\ place'[m] = "ready"
        /\ \A n \in Message \ {m} : place'[n] = place[n]
    BY <1>2 DEF RequestReceipt, Enqueue, IInv, TypeOK, ConsumerTypeOK
  <2>2. \A n \in Message \ {m} : Jobs'[n] = Jobs[n]
    BY <2>1 DEF Jobs, JobState
  <2>3. Jobs[m] = "unsent" /\ Jobs'[m] = "pending"
    BY <2>1, JobFollows
  <2>4. Jobs' = [Jobs EXCEPT ![m] = "pending"]
    BY <2>2, <2>3 DEF Jobs
  <2>5. Contract!Send(m)
    BY <1>1, <2>3, <2>4 DEF Contract!Send, Jobs
  <2> QED
    BY <2>5 DEF Contract!Next
<1>3. CASE ~\E m \in Message : RequestReceipt(m)
  <2>1. \A n \in Message : \/ place'[n] = place[n]
                           \/ {place[n], place'[n]} \subseteq {"ready", "unacked"}
    BY <1>3 DEF QueueStep, Deliver, LoseConnection, Lose, Restart, IInv, TypeOK,
                ConsumerTypeOK
  <2> QED
    BY <1>1, <2>1, JobsStay, StutterRefines
<1> QED
  BY <1>2, <1>3

(* An ack rests on an uploaded receipt or a copy on the DLQ, a nack on a   *)
(* failed run: the evidence of the fiber's phase.                          *)
LEMMA WorkerRefines ==
  ASSUME IInv, NEW m \in Message, WorkerStep(m)
  PROVE  [Contract!Next]_(Contract!jobVars)
<1>h. place[m] = "unacked"
  BY WorkerFrame
<1>p. Jobs[m] = "pending"
  BY <1>h, JobFollows
<1>1. CASE RejectInvalid(m)
  <2>1. Jobs' = [Jobs EXCEPT ![m] = "dropped"]
    BY <1>1, <1>h, SettledJob DEF RejectInvalid, Nack
  <2>2. Contract!Reject(m)
    BY <1>1, <1>p, <2>1 DEF RejectInvalid, Contract!Reject, Jobs
  <2> QED
    BY <2>2 DEF Contract!Next
<1>2. CASE Fetch(m) \/ Upload(m)
  <2>1. UNCHANGED <<place, dlq>>
    BY <1>2 DEF Fetch, Upload, consumerVars
  <2>2. /\ done' \in {done, done \cup {m}}
        /\ failed' \in {failed, failed \cup {m}}
    BY WorkerFrame
  <2>3. Jobs' = Jobs
    BY <2>1, JobsStay
  <2>4. Contract!Run(m)
    BY <1>p, <2>1, <2>2, <2>3 DEF Contract!Run, Jobs
  <2> QED
    BY <2>4 DEF Contract!Next
<1>3. CASE StoreKey(m)
  <2>1. UNCHANGED <<place, done, failed, dlq>>
    BY <1>3 DEF StoreKey, consumerVars
  <2> QED
    BY <2>1, JobsStay, StutterRefines
<1>4. CASE DeadLetter(m)
  <2>1. UNCHANGED <<place, done, failed>> /\ m \in failed
    BY <1>4 DEF DeadLetter, consumerVars, IInv, PhaseEvidence
  <2>2. Jobs' = Jobs
    BY <2>1, JobsStay
  <2>3. CASE dlq' = dlq
    BY <2>1, <2>2, <2>3, StutterRefines
  <2>4. CASE dlq' = dlq \cup {m}
    <3>1. Contract!Bury(m)
      BY <1>p, <2>1, <2>2, <2>4 DEF Contract!Bury, Jobs
    <3> QED
      BY <3>1 DEF Contract!Next
  <2> QED
    BY <1>4, <2>3, <2>4 DEF DeadLetter
<1>5. CASE AckHandled(m)
  <2>1. Jobs' = [Jobs EXCEPT ![m] = "finished"]
    BY <1>5, <1>h, SettledJob DEF AckHandled, Ack
  <2>2. m \in done \cup dlq
    BY <1>5 DEF AckHandled, IInv, PhaseEvidence
  <2>3. Contract!Finish(m)
    BY <1>5, <1>p, <2>1, <2>2 DEF AckHandled, Contract!Finish, Jobs
  <2> QED
    BY <2>3 DEF Contract!Next
<1>6. CASE NackRefused(m)
  <2>1. Jobs' = [Jobs EXCEPT ![m] = "dropped"]
    BY <1>6, <1>h, SettledJob DEF NackRefused, Nack
  <2>2. m \in failed
    BY <1>6 DEF NackRefused, IInv, PhaseEvidence
  <2>3. Contract!Drop(m)
    BY <1>6, <1>p, <2>1, <2>2 DEF NackRefused, Contract!Drop, Jobs
  <2> QED
    BY <2>3 DEF Contract!Next
<1> QED
  BY <1>1, <1>2, <1>3, <1>4, <1>5, <1>6 DEF WorkerStep

(* The receipt worker keeps the contract of JobContract, whatever the      *)
(* webhooks write meanwhile: no job is acked without its receipt or a copy *)
(* on the DLQ, none is dropped before a run of it failed.                  *)
THEOREM ContractKept == Spec => KeepsContract
<1>1. IInv /\ [Next]_vars => [Contract!Next]_(Contract!jobVars)
  <2> SUFFICES ASSUME IInv, [Next]_vars
               PROVE  [Contract!Next]_(Contract!jobVars)
    OBVIOUS
  <2>1. CASE UNCHANGED <<consumerVars, workerVars>>
    BY <2>1, JobsStay, StutterRefines DEF consumerVars, workerVars
  <2>2. ASSUME NEW m \in Message, WorkerStep(m)
        PROVE  [Contract!Next]_(Contract!jobVars)
    BY <2>2, WorkerRefines
  <2>3. CASE QueueStep \/ LoseConnection
    BY <2>3, QueueRefines
  <2> QED
    BY <2>1, <2>2, <2>3 DEF Next, QueueStep, vars
<1> QED
  BY <1>1, InitRefines, InductiveInvariant, PTL
     DEF Spec, KeepsContract, Contract!Spec
=============================================================================
