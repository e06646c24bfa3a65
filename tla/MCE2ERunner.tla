----------------------------- MODULE MCE2ERunner -----------------------------
(* Instances of E2ERunner for TLC. *)
EXTENDS E2ERunner
=============================================================================
