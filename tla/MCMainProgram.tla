---------------------------- MODULE MCMainProgram ----------------------------
(* Instances of RunSetup, and of MainProgram alone, for TLC. *)
EXTENDS RunSetup
Sound == [sections |-> TRUE, sim |-> "mapping", window_ms |-> WindowLength,
          physics_step_ms |-> 1, enforcement_required |-> TRUE]
MCFiles ==
  {Sound,
   [Sound EXCEPT !.sections = FALSE],
   [Sound EXCEPT !.sim = Text],
   [Sound EXCEPT !.window_ms = Null],
   [Sound EXCEPT !.sim = Absent, !.enforcement_required = FALSE],
   [Sound EXCEPT !.sim = Null, !.window_ms = 0],
   [Sound EXCEPT !.physics_step_ms = Absent, !.enforcement_required = Text],
   [Sound EXCEPT !.physics_step_ms = 0, !.enforcement_required = Null],
   [Sound EXCEPT !.physics_step_ms = WindowLength + 1]}
=============================================================================
