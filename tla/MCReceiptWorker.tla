-------------------------- MODULE MCReceiptWorker ---------------------------
(* Instances of ReceiptWorker for TLC. *)
EXTENDS ReceiptWorker, TLC

CONSTANT p1

(* All jobs are about one payment. *)
OnePayment == [m \in Message |-> p1]
=============================================================================
