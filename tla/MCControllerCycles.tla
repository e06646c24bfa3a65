------------------------- MODULE MCControllerCycles -------------------------
(* Instances of ControllerCycles for TLC. *)
EXTENDS ControllerCycles
=============================================================================
