---------------------------- MODULE MCPortfolio ----------------------------
(* Instances of Portfolio for TLC. *)
EXTENDS Portfolio
=============================================================================
