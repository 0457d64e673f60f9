------------------------------ MODULE MCTraps ------------------------------
(***************************************************************************)
(* The scheduler behind its traps and interrupts, with init in             *)
(* disastrOS_wait, the clock and four users that sleep up to three ticks.  *)
(***************************************************************************)
EXTENDS Traps

CONSTANTS init, clock, u1, u2, u3, u4, none

MCProc == {init, clock, u1, u2, u3, u4}
MCParked == {init}

=============================================================================
