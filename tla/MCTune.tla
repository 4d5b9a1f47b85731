------------------------------- MODULE MCTune -------------------------------
(* Instances of Tune for TLC. *)
EXTENDS Tune
=============================================================================
