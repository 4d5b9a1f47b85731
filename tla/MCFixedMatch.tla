---------------------------- MODULE MCFixedMatch ----------------------------
(* Instances of FixedMatch for TLC. *)
EXTENDS FixedMatch
=============================================================================
