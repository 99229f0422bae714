--------------------------- MODULE MCLeaderboard ----------------------------
(* Instances of Leaderboard for TLC. *)
EXTENDS Leaderboard, TLC

(* Score events are interchangeable, and so are readers. *)
BoardSymmetry == Permutations(Message) \cup Permutations(Reader)
=============================================================================
