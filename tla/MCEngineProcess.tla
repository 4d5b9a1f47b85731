--------------------------- MODULE MCEngineProcess ---------------------------
(* Instances of EngineProcess for TLC. *)
EXTENDS EngineProcess
=============================================================================
