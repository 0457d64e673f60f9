---------------------------- MODULE MCProcesses ----------------------------
(***************************************************************************)
(* Five PCBs: init, the clock and three more, which four spawns (MaxPid 5) *)
(* allocate.  A PCB that was freed is given out again ahead of one that    *)
(* was never used, and four spawns are the fewest for which the PCB of a   *)
(* dead parent belongs to a process that waits for a child of its own when *)
(* an orphan of the dead one exits.                                        *)
(***************************************************************************)
EXTENDS Processes

\* The answers of disastrOS_wait are read by no action and by no property but
\* the type invariant, so states that differ in them only are one state.
WithoutAnswers == <<lists, pool, status, parent, children, call>>

=============================================================================
