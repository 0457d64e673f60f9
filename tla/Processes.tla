----------------------------- MODULE Processes -----------------------------
(***************************************************************************)
(* The life of a process: disastrOS_spawn, disastrOS_wait, disastrOS_exit  *)
(* and the pool of PCBs.                                                   *)
(*                                                                         *)
(* A process is named by the block of its PCB, as the parent, children and *)
(* list pointers of the code do; a block that was freed and allocated      *)
(* again belongs to another process, with another pid.  A PCBPtr stands    *)
(* for the block it points to (its own pool, which internal_exit leaks     *)
(* from, is left out), and the value given to exit travels with the pid.   *)
(* Timers are abstracted: any dispatch may wake any sleepers.  A process   *)
(* that exits runs, so it has no timer.  The signals of a PCB are written  *)
(* but never read, and left out.                                           *)
(***************************************************************************)
EXTENDS Integers, Sequences, FiniteSets, SequencesExt

CONSTANTS Block,   \* the blocks of the PCB pool
          Init,    \* the PCB of the first process, pid 0
          Clock,   \* the PCB of the test program's sleeper, pid 1
          NoBlock, \* the null pointer
          MaxPid   \* bound on the pids given out

ASSUME ProcessAssumption ==
    /\ IsFiniteSet(Block)
    /\ Init \in Block /\ Clock \in Block /\ Init # Clock
    /\ NoBlock \notin Block
    /\ MaxPid \in Nat \ {0}

VARIABLES running, ready, waiting, zombies,
          free,       \* the free list of the PCB pool
          lastPid,    \* last_pid
          pid, status, parent, children,  \* fields of a PCB
          call,       \* syscall_num and args[0] of a blocked process
          returned    \* syscall_retvalue of the last disastrOS_wait

lists == <<running, ready, waiting, zombies>>
pool == <<free, lastPid, pid>>
procVars == <<lists, pool, status, parent, children, call, returned>>

EWait == -5

\* syscall_num is read only while the process is blocked.
NoCall == <<"NONE", 0>>

ProcInit ==
    /\ running = Init
    /\ ready = <<Clock>>
    /\ waiting = {}
    /\ zombies = {}
    /\ free = SetToSeq(Block \ {Init, Clock})
    /\ lastPid = 2
    /\ pid = [b \in Block |-> IF b = Clock THEN 1 ELSE 0]
    /\ status = [b \in Block |-> CASE b = Init -> "Running"
                                   [] b = Clock -> "Ready"
                                   [] OTHER -> "Invalid"]
    /\ parent = [b \in Block |-> IF b = Clock THEN Init ELSE NoBlock]
    /\ children = [b \in Block |-> IF b = Init THEN <<Clock>> ELSE <<>>]
    /\ call = [b \in Block |-> NoCall]
    /\ returned = [b \in Block |-> 0]

\* PCB_free: the allocator refuses a block that is free.
PcbFree(b) == IF b \in ToSet(free) THEN free ELSE <<b>> \o free

\* Mutant: the next process stays on the ready list.
RunNextWithoutDetach ==
    /\ running' = Head(ready)
    /\ UNCHANGED ready

\* The head of the ready list runs, with the status it has.
RunNext ==
    /\ running' = Head(ready)
    /\ ready' = Tail(ready)

-----------------------------------------------------------------------------
\* internal_schedule, at a tick or a disastrOS_preempt.  woken are the
\* processes whose timers elapsed.
Schedule ==
    \E sleepers \in SUBSET {b \in waiting : call[b][1] = "SLEEP"} :
        \E woken \in SetToSeqs(sleepers) :
            LET queue == woken \o ready
            IN  \/ queue = <<>> /\ UNCHANGED procVars
                \/ /\ queue # <<>>
                   /\ waiting' = waiting \ sleepers
                   /\ running' = Head(queue)
                   /\ ready' = Append(Tail(queue), running)
                   /\ status' = [b \in Block |->
                          IF b = Head(queue) THEN "Running"
                          ELSE IF b \in sleepers \cup {running} THEN "Ready"
                          ELSE status[b]]
                   /\ call' = [b \in Block |->
                          IF b \in sleepers THEN NoCall ELSE call[b]]
                   /\ UNCHANGED <<zombies, pool, parent, children, returned>>

\* internal_sleep.
Sleep ==
    /\ running # Clock
    /\ status' = [status EXCEPT ![running] = "Waiting"]
    /\ call' = [call EXCEPT ![running] = <<"SLEEP", 0>>]
    /\ waiting' = waiting \cup {running}
    /\ RunNext
    /\ UNCHANGED <<zombies, pool, parent, children, returned>>

\* Mutant: last_pid is incremented first.
PidAfter == lastPid + 1

\* The pid of a new PCB.
NewPid == lastPid

\* internal_spawn, while the pool has a block.
Spawn ==
    /\ running # Clock
    /\ free # <<>> /\ lastPid <= MaxPid
    /\ LET new == Head(free)
       IN  /\ pid' = [pid EXCEPT ![new] = NewPid]
           /\ status' = [status EXCEPT ![new] = "Ready"]
           /\ parent' = [parent EXCEPT ![new] = running]
           /\ children' = [children EXCEPT ![new] = <<>>,
                                           ![running] = Append(@, new)]
           /\ returned' = [returned EXCEPT ![new] = 0]
           /\ ready' = Append(ready, new)
    /\ free' = Tail(free)
    /\ lastPid' = lastPid + 1
    /\ UNCHANGED <<running, waiting, zombies, call>>

-----------------------------------------------------------------------------
\* Mutant: only a wait for any child is answered.
WaitsForAny(p, child) ==
    /\ status[p] = "Waiting"
    /\ call[p] = <<"WAIT", 0>>

\* The parent is blocked in disastrOS_wait for this child.
WaitsFor(p, child) ==
    /\ status[p] = "Waiting"
    /\ call[p][1] = "WAIT"
    /\ call[p][2] \in {0, pid[child]}

\* Mutant: the children of the process that exits stay with it.
KeepChildren(self) == children

\* The children move to the first process.
Reparent(self) == [children EXCEPT ![self] = <<>>,
                                   ![Init] = @ \o children[self]]

\* Without its first entry for the process of that pid, if it has one.
RemoveByPid(list, n) ==
    LET at == SelectInSeq(list, LAMBDA b : pid[b] = n)
    IN  IF at = 0 THEN list ELSE RemoveAt(list, at)

\* internal_exit when the parent waits for it: the parent runs at once and
\* the PCB is freed.
ExitToParent ==
    LET self == running
        p == parent[self]
    IN  /\ WaitsFor(p, self)
        /\ waiting' = waiting \ {p}
        /\ running' = p
        /\ status' = [status EXCEPT ![self] = "Zombie", ![p] = "Running"]
        /\ children' = [Reparent(self) EXCEPT ![p] = RemoveByPid(@, pid[self])]
        /\ returned' = [returned EXCEPT ![p] = pid[self]]
        /\ call' = [call EXCEPT ![p] = NoCall]
        /\ free' = PcbFree(self)
        /\ UNCHANGED <<ready, zombies>>

\* internal_exit otherwise: the process stays a zombie and the next one runs.
ExitToZombie ==
    /\ ~ WaitsFor(parent[running], running)
    /\ children' = Reparent(running)
    /\ zombies' = zombies \cup {running}
    /\ RunNext
    /\ status' = [status EXCEPT ![running] = "Zombie",
                                ![Head(ready)] = "Running"]
    /\ UNCHANGED <<waiting, returned, free, call>>

\* internal_exit.
Exit ==
    /\ running \notin {Init, Clock}
    /\ ExitToParent \/ ExitToZombie
    /\ UNCHANGED <<lastPid, pid, parent>>

-----------------------------------------------------------------------------
\* internal_wait of a process without children.
WaitWithoutChildren ==
    /\ children[running] = <<>>
    /\ returned' = [returned EXCEPT ![running] = EWait]
    /\ UNCHANGED <<lists, free, status, children, call>>

\* The place in the children list where the scan for n stops: the first
\* zombie (n = 0) or the child of that pid, else the end of the list.
Awaited(n) ==
    LET at == SelectInSeq(children[running],
                          LAMBDA b : IF n = 0 THEN status[b] = "Zombie"
                                     ELSE pid[b] = n)
    IN  IF at = 0 THEN Len(children[running]) ELSE at

\* internal_wait when the awaited process is a zombie.
Collect(n) ==
    /\ children[running] # <<>>
    /\ LET at == Awaited(n)
           child == children[running][at]
       IN  /\ status[child] = "Zombie"
           /\ children' = [children EXCEPT ![running] = RemoveAt(@, at)]
           /\ zombies' = zombies \ {child}
           /\ returned' = [returned EXCEPT ![running] = pid[child]]
           /\ free' = PcbFree(child)
    /\ UNCHANGED <<running, ready, waiting, status, call>>

\* internal_wait when it is not: the caller blocks and the next process runs.
WaitForExit(n) ==
    /\ children[running] # <<>>
    /\ status[children[running][Awaited(n)]] # "Zombie"
    /\ status' = [status EXCEPT ![running] = "Waiting"]
    /\ call' = [call EXCEPT ![running] = <<"WAIT", n>>]
    /\ waiting' = waiting \cup {running}
    /\ RunNext
    /\ UNCHANGED <<zombies, children, returned, free>>

\* internal_wait.
Wait(n) ==
    /\ running # Clock
    /\ WaitWithoutChildren \/ Collect(n) \/ WaitForExit(n)
    /\ UNCHANGED <<lastPid, pid, parent>>

ProcNext ==
    \/ Schedule
    \/ Sleep
    \/ Spawn
    \/ Exit
    \/ \E n \in 0..lastPid - 1 : Wait(n)

ProcSpec == ProcInit /\ [][ProcNext]_procVars

-----------------------------------------------------------------------------
ProcTypeOK ==
    /\ running \in Block
    /\ ready \in Seq(Block) /\ free \in Seq(Block)
    /\ waiting \subseteq Block /\ zombies \subseteq Block
    /\ lastPid \in 2..MaxPid + 1
    /\ pid \in [Block -> 0..lastPid - 1]
    /\ status \in [Block -> {"Invalid", "Running", "Ready", "Waiting", "Zombie"}]
    /\ parent \in [Block -> Block \cup {NoBlock}]
    /\ children \in [Block -> Seq(Block)]
    /\ call \in [Block -> {"NONE", "SLEEP", "WAIT"} \X (0..MaxPid)]
    /\ returned \in [Block -> {EWait} \cup 0..MaxPid]

(***************************************************************************)
(* Every PCB has one home: the free list of the pool, the cpu, the ready,  *)
(* the waiting or the zombie list.  A PCB that wait or exit gives back is  *)
(* on no list any more, and none is lost or given back twice.              *)
(***************************************************************************)
Homes == <<{running}, ToSet(ready), waiting, zombies, ToSet(free)>>

OneHome ==
    /\ UNION ToSet(Homes) = Block
    /\ \A i, j \in 1..5 : i # j => Homes[i] \cap Homes[j] = {}
    /\ IsInjective(ready) /\ IsInjective(free)

Live == Block \ ToSet(free)

(***************************************************************************)
(* Every process that was not collected is in the children list of one     *)
(* process, so that somebody can wait for it, or is the first process.     *)
(***************************************************************************)
HasCollector ==
    \A b \in Live \ {Init} :
        \E p \in Live : b \in ToSet(children[p])

(***************************************************************************)
(* A process in disastrOS_wait does not sleep through the exit of a child  *)
(* it waits for, "parent should receive SIGCHLD and be awakened if it was  *)
(* waiting for this process to report its value" (internal_exit): for the  *)
(* children it spawned itself.                                             *)
(***************************************************************************)
CanCollect(p, b) ==
    /\ p \in waiting /\ call[p][1] = "WAIT" /\ call[p][2] \in {0, pid[b]}
    /\ b \in ToSet(children[p]) \cap zombies

WaiterServed ==
    \A p \in Block, b \in Block : CanCollect(p, b) => parent[b] # p

(***************************************************************************)
(* The same for every child, those that were reparented to the first       *)
(* process included.                                                       *)
(***************************************************************************)
WaiterOfOrphansServed == \A p, b \in Block : ~ CanCollect(p, b)

=============================================================================
