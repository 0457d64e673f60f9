----------------------------- MODULE Scheduler -----------------------------
(***************************************************************************)
(* The round robin scheduler of disastrOS: the running process, the ready  *)
(* list, the waiting list and the timer list, with the three kernel        *)
(* entries that move processes between them without messages: the timer    *)
(* interrupt, disastrOS_preempt and disastrOS_sleep.                       *)
(*                                                                         *)
(* A system call runs on the system stack with SIGALRM blocked, and an     *)
(* interrupt is over long before the next one, so each is one step here.   *)
(*                                                                         *)
(* waiting_list is a set: the code never depends on its order, except      *)
(* through the guard of List_insert (see HasNeighbour).  A TimerItem keeps *)
(* the ticks left, awakening_time - disastrOS_time, instead of the         *)
(* absolute time, so that the clock need not be part of the state.         *)
(***************************************************************************)
EXTENDS Integers, Sequences, FiniteSets, Functions

CONSTANTS Proc,      \* the processes that exist
          Clock,     \* the sleeper of the test program: it never blocks
          Parked,    \* processes blocked in disastrOS_wait for the whole run
          NoProc,    \* the value 0 of the pointer "running"
          MaxSleep   \* the longest sleep asked for, in ticks

ASSUME SchedulerAssumption ==
    /\ IsFiniteSet(Proc)
    /\ Clock \in Proc
    /\ Parked \subseteq Proc \ {Clock}
    /\ NoProc \notin Proc
    /\ MaxSleep \in Nat

VARIABLES running, ready, waiting, timers, status

schedVars == <<running, ready, waiting, timers, status>>

ProcessStatus == {"Running", "Ready", "Waiting"}

TimerItem == [pcb : Proc, left : 0..MaxSleep]

(***************************************************************************)
(* The scan of the timer list stops after its first k items: they are due  *)
(* within n ticks and the next one is not.                                 *)
(***************************************************************************)
\* Mutant: an item due now is taken for one in the future.
DueUpToStrict(ts, n, k) ==
    /\ \A i \in 1..k : ts[i].left < n
    /\ k < Len(ts) => ts[k + 1].left >= n

DueUpTo(ts, n, k) ==
    /\ \A i \in 1..k : ts[i].left <= n
    /\ k < Len(ts) => ts[k + 1].left > n

\* Mutant: List_insert takes any item.
NeverHasNeighbour(p, w) == FALSE

\* List_insert refuses an item with a next or a prev: a process that is on
\* the waiting list w together with another one.
HasNeighbour(p, w) == p \in w /\ w # {p}

\* Mutant: TimerList_add puts the new item at the end.
TimerListAddLast(p, n) == timers' = Append(timers, [pcb |-> p, left |-> n])

\* TimerList_add keeps the list sorted, an equal time going behind.
TimerListAdd(p, n) ==
    \E k \in 0..Len(timers) :
        /\ DueUpTo(timers, n, k)
        /\ timers' = SubSeq(timers, 1, k) \o <<[pcb |-> p, left |-> n]>>
                                          \o SubSeq(timers, k + 1, Len(timers))

\* Mutant: only the head of the timer list is removed.
AfterFirst(ts, k) == IF k = 0 THEN ts ELSE Tail(ts)

\* TimerList_removeCurrent, for each of the first k items.
AfterCurrent(ts, k) == SubSeq(ts, k + 1, Len(ts))

\* Mutant: the running process goes in front of the ready list.
RequeueFirst(queue, rest) ==
    IF HasNeighbour(running, rest) THEN queue ELSE <<running>> \o queue

\* The running process goes behind the ready list.
Requeue(queue, rest) ==
    IF HasNeighbour(running, rest) THEN queue ELSE Append(queue, running)

(***************************************************************************)
(* internal_schedule, reading the timer list as ts: the processes whose    *)
(* timers elapsed leave the waiting list for the front of the ready list,  *)
(* in timer order, and then the running process goes behind the ready list *)
(* and its head runs.                                                      *)
(***************************************************************************)
InternalSchedule(ts) ==
    \E k \in 0..Len(ts) :
        /\ DueUpTo(ts, 0, k)
        /\ timers' = AfterCurrent(ts, k)
        /\ LET woken == [i \in 1..k |-> ts[i].pcb]
               queue == woken \o ready
               rest  == waiting \ Range(woken)
           IN  /\ waiting' = rest
               /\ \/ /\ queue = <<>>
                     /\ UNCHANGED <<running, ready, status>>
                  \/ /\ queue # <<>>
                     /\ running' = Head(queue)
                     /\ ready' = Requeue(Tail(queue), rest)
                     /\ status' = [p \in Proc |->
                            IF p = Head(queue) THEN "Running"
                            ELSE IF p \in Range(woken) \cup {running}
                                 THEN "Ready" ELSE status[p]]

\* Mutant: the next process runs without leaving the ready list.
DispatchWithoutDetach ==
    /\ running' = IF ready = <<>> THEN NoProc ELSE Head(ready)
    /\ ready'   = ready

\* The next process runs, or nobody does when they are all blocked.
Dispatch ==
    /\ running' = IF ready = <<>> THEN NoProc ELSE Head(ready)
    /\ ready'   = IF ready = <<>> THEN ready  ELSE Tail(ready)

-----------------------------------------------------------------------------
\* Mutant: the interrupt only counts the tick.
TickWithoutSchedule ==
    /\ running # NoProc
    /\ timers' = [i \in 1..Len(timers) |-> [timers[i] EXCEPT !.left = @ - 1]]
    /\ UNCHANGED <<running, ready, waiting, status>>

\* SIGALRM, delivered while a process runs.
TimerInterrupt ==
    /\ running # NoProc
    /\ InternalSchedule([i \in 1..Len(timers) |->
                            [timers[i] EXCEPT !.left = @ - 1]])

\* disastrOS_preempt.
Preempt ==
    /\ running # NoProc
    /\ InternalSchedule(timers)

\* Mutant: the sleeper keeps its status.
SleepKeepingStatus(n) ==
    /\ running \notin {NoProc, Clock}
    /\ TimerListAdd(running, n)
    /\ UNCHANGED status
    /\ waiting' = waiting \cup {running}
    /\ Dispatch

\* disastrOS_sleep(n).
Sleep(n) ==
    /\ running \notin {NoProc, Clock}
    /\ TimerListAdd(running, n)
    /\ status' = [status EXCEPT ![running] = "Waiting"]
    /\ waiting' = waiting \cup {running}
    /\ Dispatch

SchedInit ==
    /\ running \in Proc \ Parked
    /\ \E n \in 0..Cardinality(Proc) :
          ready \in Bijection(1..n, Proc \ (Parked \cup {running}))
    /\ waiting = Parked
    /\ timers = <<>>
    /\ status = [p \in Proc |-> IF p \in Parked THEN "Waiting"
                                ELSE IF p = running THEN "Running" ELSE "Ready"]

SchedNext ==
    \/ TimerInterrupt
    \/ Preempt
    \/ \E n \in 0..MaxSleep : Sleep(n)

\* The interval timer never stops, so ticks keep coming.
SchedSpec == SchedInit /\ [][SchedNext]_schedVars /\ WF_schedVars(TimerInterrupt)


-----------------------------------------------------------------------------
TypeOK ==
    /\ running \in Proc \cup {NoProc}
    /\ ready \in Seq(Proc)
    /\ waiting \subseteq Proc
    /\ timers \in Seq(TimerItem)
    /\ status \in [Proc -> ProcessStatus]

(***************************************************************************)
(* A process is running, or on the ready list once, or on the waiting list,*)
(* and never lost or in two of these: internal_schedule, internal_sleep    *)
(* and the timers only move it (the lists share one pair of links per PCB, *)
(* so a PCB on two lists corrupts both).                                   *)
(***************************************************************************)
OnePlace ==
    /\ running \in Proc
    /\ IsInjective(ready)
    /\ running \notin Range(ready) \cup waiting
    /\ Range(ready) \cap waiting = {}
    /\ Proc = {running} \cup Range(ready) \cup waiting

\* The process of a timer item.
Sleeper(i) == timers[i].pcb

(***************************************************************************)
(* Exactly the processes blocked in disastrOS_sleep have a timer, each one *)
(* timer: nobody sleeps forever, and a timer that elapses never moves a    *)
(* process that is not on the waiting list.                                *)
(***************************************************************************)
SleepersHaveOneTimer ==
    /\ \A i, j \in 1..Len(timers) : Sleeper(i) = Sleeper(j) => i = j
    /\ {Sleeper(i) : i \in 1..Len(timers)} = waiting \ Parked

(***************************************************************************)
(* The timer list is sorted: TimerList_current looks at the head only, so  *)
(* an item out of order would be found late.                               *)
(***************************************************************************)
TimersSorted ==
    \A i, j \in 1..Len(timers) : i < j => timers[i].left <= timers[j].left

(***************************************************************************)
(* The status field agrees with the lists, but for the process that runs   *)
(* because another went to sleep: internal_sleep leaves it Ready.          *)
(***************************************************************************)
StatusAgrees ==
    /\ \A p \in waiting : status[p] = "Waiting"
    /\ \A p \in Range(ready) : status[p] = "Ready"
    /\ status[running] \in {"Running", "Ready"}

(***************************************************************************)
(* Every process that is not in disastrOS_wait runs again and again,       *)
(* however the others sleep and preempt, although a process that wakes up  *)
(* is put in front of those that were ready.                               *)
(***************************************************************************)
NoStarvation == \A p \in Proc \ Parked : []<>(running = p)

(***************************************************************************)
(* The scheduler implements the Processor: whatever the order in which the *)
(* list operations take and put the items, a sleeper becomes ready exactly *)
(* at the dispatch its timer is due for, and runs ahead of the others.     *)
(***************************************************************************)
TicksLeft ==
    [p \in {Sleeper(i) : i \in 1..Len(timers)} |->
        timers[CHOOSE i \in 1..Len(timers) : Sleeper(i) = p].left]

Abstract == INSTANCE Processor
    WITH Proc <- Proc \ Parked, cpu <- running, runnable <- Range(ready),
         asleep <- TicksLeft

ImplementsProcessor == Abstract!Spec

=============================================================================
