---------------------------- MODULE TrapsProofs ----------------------------
(***************************************************************************)
(* Theorems about traps and interrupts: their steps are those of the       *)
(* scheduler, so what SchedulerProofs proves of it holds of them, and the  *)
(* signal mask is right wherever a process is resumed.                     *)
(***************************************************************************)
EXTENDS Traps, SchedulerProofs

-----------------------------------------------------------------------------
\* A step of the trap or interrupt machinery is one of the scheduler, or
\* leaves its state alone.
LEMMA TrapStepIsSchedStep == [TrapNext]_trapVars => [SchedNext]_schedVars
<1> SUFFICES ASSUME [TrapNext]_trapVars PROVE [SchedNext]_schedVars
  OBVIOUS
<1>1. CASE Alarm \/ Syscall \/ Deliver \/ TimerHandler \/ HandlerReturn
  BY <1>1 DEF Alarm, Syscall, Deliver, TimerHandler, HandlerReturn
<1>2. CASE Interrupt
  BY <1>2 DEF Interrupt, SchedNext
<1>3. CASE Trap
  BY <1>3 DEF Trap, SchedNext
<1>4. CASE UNCHANGED trapVars
  BY <1>4 DEF trapVars
<1> QED BY <1>1, <1>2, <1>3, <1>4 DEF TrapNext, KernelStep

\* SchedInv holds behind the traps too.
LEMMA TrapSchedInv == TrapSpec => []SchedInv
<1>1. TrapInit => SchedInv
  BY InitInv DEF TrapInit
<1>2. SchedInv /\ [TrapNext]_trapVars => SchedInv'
  BY TrapStepIsSchedStep, NextInv
<1> QED BY <1>1, <1>2, PTL DEF TrapSpec

(***************************************************************************)
(* What a saved context will resume with: a process that goes on in its    *)
(* own code is interruptible, and one that goes on in timerHandler becomes *)
(* so when that returns.                                                   *)
(***************************************************************************)
MaskInv ==
    /\ saved \in [Proc -> Context]
    /\ \A p \in Proc : saved[p].at = "user" => ~ saved[p].masked
    /\ mode \in {"trap", "handler"} => masked
    /\ mode = "user" => ~ masked
    /\ masked \in BOOLEAN

\* The context that swapcontext saves keeps that.
LEMMA SaveKeepsMask ==
  ASSUME MaskInv, running \in Proc, NEW at \in {"user", "return"},
         SaveContext(at), at = "user" => ~ masked
  PROVE  /\ saved' \in [Proc -> Context]
         /\ \A p \in Proc : saved'[p].at = "user" => ~ saved'[p].masked
<1>1. [at |-> at, masked |-> masked] \in Context
  BY DEF MaskInv, Context
<1>2. saved' = [saved EXCEPT ![running] = [at |-> at, masked |-> masked]]
  BY DEF SaveContext
<1> QED BY <1>1, <1>2 DEF MaskInv

\* setcontext resumes a process with such a mask.
LEMMA ResumeKeepsMask ==
  ASSUME MaskInv, NEW p \in Proc, Resume(p)
  PROVE  /\ mode' \in {"user", "return"}
         /\ mode' = "user" => ~ masked'
         /\ masked' \in BOOLEAN
BY DEF MaskInv, Resume, Context

\* Every step of traps and interrupts keeps the masks right.
LEMMA MaskStep == SchedInv /\ SchedInv' /\ MaskInv /\ [TrapNext]_trapVars => MaskInv'
<1> SUFFICES ASSUME SchedInv, SchedInv', MaskInv, [TrapNext]_trapVars
             PROVE  MaskInv'
  OBVIOUS
<1>0. running \in Proc /\ running' \in Proc
  BY DEF SchedInv, OnePlace
<1>1. CASE Alarm
  BY <1>1 DEF Alarm, MaskInv
<1>2. CASE Deliver
  BY <1>2 DEF Deliver, MaskInv
<1>3. CASE TimerHandler
  <2>1. /\ saved' \in [Proc -> Context]
        /\ \A p \in Proc : saved'[p].at = "user" => ~ saved'[p].masked
    BY <1>0, <1>3, SaveKeepsMask DEF TimerHandler
  <2> QED BY <1>3, <2>1 DEF TimerHandler, InterruptMask, MaskInv
<1>4. CASE Interrupt
  <2>1. /\ mode' \in {"user", "return"} /\ masked' \in BOOLEAN
        /\ mode' = "user" => ~ masked'
    BY <1>0, <1>4, ResumeKeepsMask DEF Interrupt
  <2> QED BY <1>4, <2>1 DEF Interrupt, MaskInv
<1>5. CASE HandlerReturn
  BY <1>5 DEF HandlerReturn, MaskInv
<1>6. CASE Syscall
  <2>1. /\ saved' \in [Proc -> Context]
        /\ \A p \in Proc : saved'[p].at = "user" => ~ saved'[p].masked
    BY <1>0, <1>6, SaveKeepsMask DEF Syscall, MaskInv
  <2> QED BY <1>6, <2>1 DEF Syscall, TrapMask, MaskInv
<1>7. CASE Trap
  <2>1. /\ mode' \in {"user", "return"} /\ masked' \in BOOLEAN
        /\ mode' = "user" => ~ masked'
    BY <1>0, <1>7, ResumeKeepsMask DEF Trap
  <2> QED BY <1>7, <2>1 DEF Trap, MaskInv
<1>8. CASE UNCHANGED trapVars
  BY <1>8 DEF trapVars, MaskInv
<1> QED BY <1>1, <1>2, <1>3, <1>4, <1>5, <1>6, <1>7, <1>8 DEF TrapNext, KernelStep

\* The masks are right in every behaviour.
LEMMA TrapMaskInv == TrapSpec => []MaskInv
<1>1. ASSUME TrapInit PROVE MaskInv
  <2>1. SpawnedContext \in Context
    BY DEF SpawnedContext, Context
  <2>2. SpawnedContext.masked = FALSE
    BY DEF SpawnedContext
  <2>3. \A p \in Proc : saved[p] = SpawnedContext
    BY <1>1 DEF TrapInit
  <2>4. saved \in [Proc -> Context]
    BY <1>1, <2>1 DEF TrapInit
  <2>5. \A p \in Proc : saved[p].at = "user" => ~ saved[p].masked
    BY <2>2, <2>3
  <2> QED BY <1>1, <2>4, <2>5 DEF TrapInit, MaskInv
<1>2. SchedInv /\ SchedInv' /\ MaskInv /\ [TrapNext]_trapVars => MaskInv'
  BY MaskStep
<1> QED BY <1>1, <1>2, TrapSchedInv, PTL DEF TrapSpec

-----------------------------------------------------------------------------
(***************************************************************************)
(* Whatever sequence of traps and interrupts brought the cpu to a process, *)
(* and whoever made the last of them, it runs with SIGALRM unblocked.      *)
(***************************************************************************)
THEOREM TrapsUserUnmasked == TrapSpec => []UserUnmasked
<1>1. MaskInv => UserUnmasked
  BY DEF MaskInv, UserUnmasked
<1> QED BY <1>1, TrapMaskInv, PTL

(***************************************************************************)
(* Traps and interrupts start and go on as the scheduler does: handler     *)
(* entries, returns, saved contexts and masks add nothing to what happens  *)
(* to the lists.  Of ImplementsScheduler this leaves only the fairness.    *)
(***************************************************************************)
THEOREM TrapsMakeSchedulerSteps ==
  TrapSpec => SchedInit /\ [][SchedNext]_schedVars
<1>1. TrapInit => SchedInit
  BY DEF TrapInit
<1> QED BY <1>1, TrapStepIsSchedStep, PTL DEF TrapSpec

(***************************************************************************)
(* Every process stays in one place, every sleeper keeps its timer, the    *)
(* timers stay sorted and the statuses right when system calls and         *)
(* interrupts are made of their steps.                                     *)
(***************************************************************************)
THEOREM TrapsKeepProcesses ==
  TrapSpec => [](OnePlace /\ SleepersHaveOneTimer /\ TimersSorted /\ StatusAgrees)
<1>1. SchedInv => OnePlace /\ SleepersHaveOneTimer /\ TimersSorted /\ StatusAgrees
  BY DEF SchedInv
<1> QED BY <1>1, TrapSchedInv, PTL

(***************************************************************************)
(* Traps and interrupts over the lists of the scheduler implement the      *)
(* Processor: the two refinements, of the steps and of the lists, compose. *)
(***************************************************************************)
THEOREM TrapsImplementProcessor == TrapSpec => ImplementsProcessor
<1>1. TrapInit => Abstract!Init
  BY InitIsInit DEF TrapInit
<1>2. SchedInv /\ SchedInv' /\ [TrapNext]_trapVars => [Abstract!Next]_(Abstract!vars)
  BY TrapStepIsSchedStep, NextIsNext
<1> QED BY <1>1, <1>2, TrapSchedInv, PTL
        DEF TrapSpec, ImplementsProcessor, Abstract!Spec

=============================================================================
