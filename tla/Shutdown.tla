------------------------------ MODULE Shutdown ------------------------------
(***************************************************************************)
(* disastrOS_shutdown, over the processes: the others are given the        *)
(* context of the graveyard, in which a process does nothing but exit, and *)
(* the caller sleeps for some cycles before it ends the system.            *)
(*                                                                         *)
(* The model stops where the code has no defined outcome: a sleeper that   *)
(* is moved to the ready list keeps its timer, and a waiting parent its    *)
(* status, so that the timer, or the exit of its child, would detach it    *)
(* from the waiting list, where it is not.  The resources, which shutdown  *)
(* pops off their list and frees, are not part of Processes.               *)
(***************************************************************************)
EXTENDS Processes

VARIABLES shutdownNow,  \* shutdown_now
          caller,       \* who called, or NoBlock
          graveyard,    \* the processes whose context is the graveyard's
          ended         \* main_context has the cpu back: the program exits

shutVars == <<shutdownNow, caller, graveyard, ended>>

\* "process 0 (init) and 1 (clock) are obviously ignored".
Ignored(b) == pid[b] \in {0, 1}

\* The processes that the caller leaves on the ready list: those that were
\* ready are popped and only the ignored ones put back; those that were
\* waiting go behind.
Condemned(moved) == SelectSeq(ready, Ignored) \o moved

\* internal_sleep in internal_shutdown, and the switch to the next process.
SleepThrough(queue) ==
    /\ status' = [status EXCEPT ![running] = "Waiting"]
    /\ call' = [call EXCEPT ![running] = <<"SLEEP", 0>>]
    /\ waiting' = {b \in waiting : Ignored(b)} \cup {running}
    /\ running' = Head(queue)
    /\ ready' = Tail(queue)
    /\ UNCHANGED <<zombies, pool, parent, children, returned, ended>>

\* setcontext(&main_context), when nobody is left to be waited for.
EndAtOnce(queue) ==
    /\ waiting' = {b \in waiting : Ignored(b)}
    /\ ready' = queue
    /\ ended' = TRUE
    /\ UNCHANGED <<running, zombies, pool, status, parent, children, call, returned>>

\* internal_shutdown up to its sleep.
Begin ==
    /\ ~ shutdownNow /\ running # Clock
    /\ shutdownNow' = TRUE
    /\ caller' = running
    /\ graveyard' = {b \in ToSet(ready) \cup waiting : ~ Ignored(b)}
    /\ \E moved \in SetToSeqs({b \in waiting : ~ Ignored(b)}) :
          IF Len(ready) + Cardinality(waiting) - 2 > 0
          THEN SleepThrough(Condemned(moved))
          ELSE EndAtOnce(Condemned(moved))

\* internal_shutdown after its sleep.
End ==
    /\ shutdownNow /\ running = caller
    /\ ended' = TRUE
    /\ UNCHANGED <<procVars, shutdownNow, caller, graveyard>>

\* disastrOS_exit with DSOS_SHUTDOWN_EXIT, or a tick.
GraveyardStep ==
    \/ Schedule
    \/ /\ Exit
       /\ WaitsFor(parent[running], running) => parent[running] \in waiting

ShutInit ==
    /\ ProcInit
    /\ shutdownNow = FALSE
    /\ caller = NoBlock
    /\ graveyard = {}
    /\ ended = FALSE

ShutNext ==
    /\ ~ ended
    /\ \/ Begin
       \/ End
       \/ /\ running # caller
          /\ IF running \in graveyard THEN GraveyardStep ELSE ProcNext
          /\ UNCHANGED shutVars

ShutSpec == ShutInit /\ [][ShutNext]_<<procVars, shutVars>>

-----------------------------------------------------------------------------
(***************************************************************************)
(* While the shutdown waits for them, the processes that it sent to the    *)
(* graveyard can get there: they have the cpu or are on the ready list,    *)
(* until they exit.  "All ready processes go to graveyard context, so that *)
(* they can return to the waiting parent" (internal_shutdown).             *)
(***************************************************************************)
GraveyardReached ==
    ~ ended =>
        graveyard \subseteq {running} \cup ToSet(ready) \cup zombies \cup ToSet(free)

=============================================================================
