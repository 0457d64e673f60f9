------------------------------- MODULE Traps -------------------------------
(***************************************************************************)
(* How a process leaves its own code for the scheduler and comes back: the *)
(* contexts that swapcontext saves and setcontext restores, and the signal *)
(* mask that travels with them.  Scheduler takes an interrupt and a system *)
(* call as one step each; here they are made of the steps that justify it. *)
(*                                                                         *)
(* mode says what runs: the code of the running process, timerHandler on   *)
(* its stack, timerInterrupt or disastrOS_trap on the system stack, or the *)
(* rest of timerHandler when the process has the cpu back.                 *)
(*                                                                         *)
(* Assumed of the machine, and relied on by the code:                      *)
(*   - timerHandler and timerInterrupt end before the next alarm, 100 ms   *)
(*     later, as interrupt_context masks nothing;                          *)
(*   - swapcontext and setcontext exchange registers, stack and signal     *)
(*     mask at once as far as SIGALRM can tell.  Neither the code nor libc *)
(*     sees to it: glibc sets the mask before it loads the registers, so   *)
(*     an alarm left pending by a system call, or at the end of            *)
(*     timerInterrupt, is delivered on system_stack while running is       *)
(*     already the next process.  timerHandler then saves that point over  *)
(*     the process's cpu_state and enters timerInterrupt on the stack it   *)
(*     stands on, and what follows is undefined; likewise an alarm between *)
(*     the saving and the masking of disastrOS_syscall's swapcontext has   *)
(*     the call made again.  Nothing here speaks of those windows, and     *)
(*     what is shown of traps holds outside them.                          *)
(***************************************************************************)
EXTENDS Scheduler

VARIABLES mode,
          masked,   \* SIGALRM is blocked
          pending,  \* SIGALRM was raised and not delivered yet
          saved     \* cpu_state of each process

trapVars == <<schedVars, mode, masked, pending, saved>>

Context == [at : {"user", "return"}, masked : BOOLEAN]

\* Mutant: spawn keeps the mask of the system call it runs in.
InheritedContext == [at |-> "user", masked |-> TRUE]

\* The context that a process starts with.
SpawnedContext == [at |-> "user", masked |-> FALSE]

\* The mask of trap_context: "this disables alarm during system trap".
TrapMask == TRUE

\* The mask of interrupt_context.
InterruptMask == FALSE

\* swapcontext(&running->cpu_state, ...), in a process that goes on at "at":
\* its registers and its mask, saved at once.
SaveContext(at) ==
    saved' = [saved EXCEPT ![running] = [at |-> at, masked |-> masked]]

\* setcontext(&running->cpu_state), for the process that runs next: the mask
\* and the code that runs change at once.
Resume(p) ==
    /\ mode' = saved[p].at
    /\ masked' = saved[p].masked

-----------------------------------------------------------------------------
\* The interval timer raises SIGALRM; one that is pending already is lost.
Alarm ==
    /\ mode \notin {"handler", "interrupt"}
    /\ ~ pending
    /\ pending' = TRUE
    /\ UNCHANGED <<schedVars, mode, masked, saved>>

\* The kernel calls timerHandler, SIGALRM blocked meanwhile.
Deliver ==
    /\ pending /\ ~ masked
    /\ pending' = FALSE
    /\ mode' = "handler"
    /\ masked' = TRUE
    /\ UNCHANGED <<schedVars, saved>>

\* timerHandler.
TimerHandler ==
    /\ mode = "handler"
    /\ SaveContext("return")
    /\ mode' = "interrupt"
    /\ masked' = InterruptMask
    /\ UNCHANGED <<schedVars, pending>>

\* timerInterrupt.
Interrupt ==
    /\ mode = "interrupt"
    /\ TimerInterrupt
    /\ Resume(running')
    /\ UNCHANGED <<pending, saved>>

\* Mutant: the handler returns with SIGALRM still blocked.
ReturnMasked ==
    /\ mode = "return"
    /\ mode' = "user"
    /\ UNCHANGED <<schedVars, masked, pending, saved>>

\* timerHandler returns and the mask is what it was before the signal.
HandlerReturn ==
    /\ mode = "return"
    /\ mode' = "user"
    /\ masked' = FALSE
    /\ UNCHANGED <<schedVars, pending, saved>>

\* disastrOS_syscall, unless a signal is due first.
Syscall ==
    /\ mode = "user"
    /\ ~ (pending /\ ~ masked)
    /\ SaveContext("user")
    /\ mode' = "trap"
    /\ masked' = TrapMask
    /\ UNCHANGED <<schedVars, pending>>

\* disastrOS_trap: one of the calls of Scheduler, or one that is refused or
\* leaves the lists alone.
Trap ==
    /\ mode = "trap"
    /\ \/ Preempt
       \/ \E n \in 0..MaxSleep : Sleep(n)
       \/ UNCHANGED schedVars
    /\ Resume(running')
    /\ UNCHANGED <<pending, saved>>

TrapInit ==
    /\ SchedInit
    /\ mode = "user"
    /\ masked = FALSE
    /\ pending = FALSE
    /\ saved = [p \in Proc |-> SpawnedContext]

KernelStep == Deliver \/ TimerHandler \/ Interrupt \/ HandlerReturn \/ Trap

TrapNext == Alarm \/ Syscall \/ KernelStep

\* The timer is periodic, and what the kernel began it ends; a process may
\* compute for ever and never call the system.
TrapSpec ==
    /\ TrapInit /\ [][TrapNext]_trapVars
    /\ WF_trapVars(Alarm) /\ WF_trapVars(KernelStep)

-----------------------------------------------------------------------------
(***************************************************************************)
(* A process in its own code can be interrupted, however it came there:    *)
(* started, back from a system call, or back from an interrupt that was    *)
(* taken with SIGALRM blocked and resumed by the trap of another process.  *)
(* If it could not, it would keep the cpu until it calls the system.       *)
(***************************************************************************)
UserUnmasked == mode = "user" => ~ masked

(***************************************************************************)
(* Interrupts and traps, with their contexts and masks, implement the      *)
(* atomic steps of Scheduler, and keep its ticks coming.                   *)
(***************************************************************************)
ImplementsScheduler == SchedSpec

=============================================================================
