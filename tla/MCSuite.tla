------------------------------- MODULE MCSuite -------------------------------
(* Instances of Suite for TLC. *)
EXTENDS Suite
=============================================================================
