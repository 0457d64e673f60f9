---------------------------- MODULE MCResources ----------------------------
(***************************************************************************)
(* Two processes, two resource ids, a pool of two resources and one of one *)
(* or two queues.  Each process opens at most twice, and the fourth        *)
(* descriptor, and the fourth queue user, are one too many.                *)
(***************************************************************************)
EXTENDS Resources, TLC

ReaderOrAll == {{}, {"readers"}, {"writers", "non_block"}}

\* No operator tells one process from another.
ProcSymmetry == Permutations(Proc)

\* The openings of a queue are counted and never read; states that differ in
\* them only are explored once.
NoOpenings == <<resVars, queueFree, userVars, procVars, pc>>

=============================================================================
