--------------------------- MODULE MCPairSchedule ---------------------------
(* Instances of PairSchedule for TLC. *)
EXTENDS PairSchedule
=============================================================================
