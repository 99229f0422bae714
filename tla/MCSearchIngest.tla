--------------------------- MODULE MCSearchIngest ---------------------------
(* Instances of SearchIngest for TLC. *)
EXTENDS SearchIngest, TLC

CONSTANTS r1, r2, text, blank

MCMessage == Request \X (1..PublishCalls)

(* Two requests with one text of two chunks. *)
SameText == [r \in Request |-> text]

(* The second request posts white space. *)
TextAndBlank == [r \in Request |-> IF r = r1 THEN text ELSE blank]

TwoChunks == [c \in Content |-> IF c = text THEN 2 ELSE 0]
=============================================================================
