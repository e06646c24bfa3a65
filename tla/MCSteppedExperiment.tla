------------------------- MODULE MCSteppedExperiment -------------------------
(* Instances of SteppedExperiment for TLC. *)
EXTENDS SteppedExperiment
MCBothModes == {FALSE, TRUE}
MCPaused == {FALSE}
MCStarts == {0, 1}
MCFresh == {0}
=============================================================================
