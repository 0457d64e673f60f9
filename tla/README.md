# disastrOS in TLA+

disastrOS is a teaching operating system in user space: one Unix process, a
`SIGALRM` every 100 ms as its timer interrupt, and `ucontext` switches as its
system calls and its dispatches. Processes are created, sleep, wait and exit;
resources are opened through descriptors; and one type of resource is a message
queue (`dmq_open`, `dmq_send`, `dmq_receive`, ...). These modules model its core,
TLC checks them on small instances, and TLAPS proves most of their safety
properties for every size.

Run `tlc -config X.cfg M` and `tlapm M.tla` in this directory. `PROJECT.json` holds
the table of the runs, the lines each definition was translated from, a fault
that each property catches, the hazards, the findings and the theorems.

## Inventory

| Part | Source | State | Operations | What makes it correct |
|---|---|---|---|---|
| Scheduler | `disastrOS_schedule.c`, `_preempt.c`, `_sleep.c`, `timerInterrupt` | `running`, `ready_list`, `waiting_list`, `status` | tick, preempt, sleep | every process in one place, nobody starves, sleepers wake when due |
| Timers | `disastrOS_timer.c` | `timer_list` | add, current, removeCurrent | sorted, one item per sleeper |
| Entry and interrupt | `disastrOS.c` | `cpu_state` of each process, signal mask | `disastrOS_syscall`, `disastrOS_trap`, `timerHandler` | user mode can always be interrupted, and the atomic steps of the scheduler are what comes out |
| Queue traffic | `disastrOS_queue.c`, `_send_msg.c`, `_receive_msg.c`, `_wake_queue.c` | messages, user lists with a status | send, receive, wake up, setattr | each call sends or takes once and in order, no wake up lost, bounds respected |
| Queue opening | `disastrOS_queue.c`, `_open_queue.c` | user lists, `openings`, `Resource.value` | `dmq_open`, `dmq_close`, `dmq_unlink` | users match descriptors, value is a live queue |
| Resources | `disastrOS_resource.c`, `_descriptor.c`, `_open_/_close_/_destroy_resource.c` | `resources_list`, descriptors, pools | open, close, destroy | descriptors pin resources, nothing half made is lost |
| Processes | `disastrOS_pcb.c`, `_spawn.c`, `_wait.c`, `_exit.c` | PCBs, children lists, zombies | spawn, wait, exit | no PCB lost or freed twice, everyone can be collected, a waiting parent is woken |
| Shutdown | `disastrOS_shutdown.c` | lists of processes, `shutdown_now` | shutdown | the others exit before the system does |
| Pool allocator | `pool_allocator.c` | free list of indices | getBlock, releaseBlock | one owner per block |
| Lists | `linked_list.c` | heads and links | insert, detach, pop, find | both chains agree |
| Start up | `disastrOS_start` | all of it | | the initial states below |
| Fork | `disastrOS_fork.c` | PCBs | fork | not modelled |
| Test program, log, printing | `disastrOS_test.c`, `_print*` | | | not modelled |

How they interact. Everything is shared memory and direct calls. A system call
runs to its end with `SIGALRM` blocked, so the kernel is not reentrant; the hard
part is between system calls. `dmq_send` and `dmq_receive` are loops in user mode
over three system calls, `dmq_open` is two, `dmq_close` is list surgery in user
mode around one; at each boundary a tick may run any other process. A blocked
process sits on one global `waiting_list`, whatever it waits for, and
`internal_wakeUpQueue` searches it by pid. The links of a list are inside the
items, so a PCB can be on one list only, and all objects come from pools whose
blocks keep their old contents. The hazards that follow, each at its line, are in
`PROJECT.json`, those that no property covers with the reason.

## Modules

| Module | Models | Variables and their counterpart |
|---|---|---|
| `Scheduler` | the scheduler and timers | `running`, `ready` (list), `waiting` (set), `timers` (items with ticks left), `status` |
| `Processor` | what the scheduler promises | `cpu`, `runnable`, `asleep` (ticks left per sleeper) |
| `Traps` (extends `Scheduler`) | system call entry, interrupt, contexts | `mode` (what runs: a process, the handler, the interrupt, a trap), `masked`, `pending` (`SIGALRM`), `saved` (`cpu_state`s) |
| `Messaging` (extends `Scheduler`) | one queue that its users have open | `messages`, `used` (pool blocks given out), `maxMessages`, `readerStatus`, `writerStatus` (of the `QueueUser`s), `pc` (where in `dmq_send`/`dmq_receive` a process is) |
| `Mailbox` | what a queue promises | `box`, `deposits`, `capacity`, `call` |
| `Resources` | resources, descriptors, queue opening and closing | `resources`, fields of the resource blocks, `holders` (`descriptors_ptrs`), free lists of two pools, `users`, `openings`, `usersOut`, `astray` (history: the users can be followed no longer), `descriptors`, `lastFd`, `pc` |
| `OpenResources` | what resources promise | `kind` (of each resource, by id), `opened` (the id of each open descriptor), `given` (descriptors given out so far) |
| `QueueClosing` (extends `LinkedList`) | the user mode part of `dmq_close`, assignment by assignment | the list, `pc`, `local` (the variables of `List_detach`) |
| `Processes` | spawn, wait, exit, the PCB pool | lists, `free`, `lastPid`, fields of the PCBs, `call` (`syscall_num` and its argument), `returned` |
| `Shutdown` (extends `Processes`) | `disastrOS_shutdown` | `shutdownNow`, `caller`, `graveyard` (who has its context), `ended` |
| `PoolAllocator` | the allocator | `freeList`, `firstIdx`, `size`, `answer` |
| `BlockPool` | what a pool promises | `free` (blocks nobody holds, the next one first), `answer` |
| `LinkedList` | the lists | `first`, `last`, `size`, `next`, `prev`; `call` (history: the last call with its arguments and its answer) |
| `ItemLists` | what lists promise | `contents` (a sequence per list), `call` |
| `ListLemmas` | lemmas about sequences and sets | |
| `SchedulerProofs`, `TrapsProofs`, `MessagingProofs`, `ResourcesProofs`, `ProcessesProofs`, `PoolAllocatorProofs`, `LinkedListProofs` | theorems | |
| `MC*` | instances for TLC | |

An action is a whole kernel entry, or a stretch of user mode between two entries;
`Traps` takes the entry, and `QueueClosing` such a stretch, apart. Definitions that
follow a `\* Mutant:` comment are faulty variants of the definition after them;
nothing uses them, and they exist so that each property can be seen to catch the
fault.

Abstractions that matter:

* `waiting_list` is a set. Its order is used nowhere but in the guard of
  `List_insert`, which takes an item with no neighbours to be on no list: that is
  `HasNeighbour`.
* A timer keeps the ticks left instead of `awakening_time`, so that no clock is
  part of the state. `TimerInterrupt` takes one off each item, where the code
  increments `disastrOS_time`.
* `Messaging` names a message by the number of its pool block; a block is used
  once because `Message_free` releases none: it passes the address of a field to
  the allocator and is refused.
* `Processes` lets any dispatch wake any sleepers. That the right ones wake is
  the subject of `Scheduler`.
* `Resources` has no scheduler: any process may take the next step, which is what
  ticks allow between system calls. Of the pools of descriptors and queue users it
  keeps what is out, so that a call can fail half way; of those of resources and
  queues the free list, because an old block comes back with its old `value`. Such a
  list, also that of the PCBs in `Processes`, is the `free` of `BlockPool`, which the
  allocator implements.
* The queue users of `Resources` go by the descriptor that got them, where the code
  goes by the pointers in it. That is right as long as the calls take their turns,
  and two things end it, which the history variable `astray` records. One is a call
  that changes the lists or the pool of the users while another process is inside
  the user mode part of `dmq_close` (`DmqClose` to `DetachUsers`): its assignments
  mix with those of the call, as in `close_race`. The other is the freeing, or the
  giving out again, of a queue with users on it, which is the queue of two resources
  then (`stale_queue`): the pointers of the other's descriptors dangle, and may
  point to what is by then a user of another queue. From either on the lists are
  taken as empty, any number of users may be left in the pool, and
  `UsersHaveDescriptors` says nothing; the rest of the model, which does not depend
  on them, goes on.
* In `LinkedList` the callers are the kernel's: they detach what is on the list
  they name, and insert what is on none or what `List_insert` refuses.
* `QueueClosing` has one list of one queue, opened once by each process, and not the
  pool of the queue users.

Assumptions.

* The test program spawns a process that never blocks (`sleeperFunction`, pid 1)
  and lets init wait for the others. The kernel needs the first: with nobody ready
  `running` becomes null. It is `Clock` here. `Parked` are the processes in
  `disastrOS_wait`; with none of them the queue breaks, see `two_lists`.
* An interrupt ends before the next alarm, 100 ms later: `interrupt_context` masks
  nothing, and `Traps` has no alarm during an interrupt.
* `swapcontext` and `setcontext` exchange registers, stack and signal mask at once,
  as far as `SIGALRM` can tell. The code relies on it, and glibc does not do it: it
  sets the mask first. An alarm that a system call left pending is so delivered in
  the `setcontext` that ends the trap (`disastrOS.c:131-132`), on `system_stack`, with
  `running` already the next process: `timerHandler` overwrites the `cpu_state` of
  that process and enters `timerInterrupt` on the stack it stands on. The end of
  `timerInterrupt` (`:56`) has the same window; the `swapcontext` of
  `disastrOS_syscall` (`:98`) has one after it saved the registers, where a tick has
  the call made a second time. What follows depends on libc and on a stack
  that is written over. `Traps` leaves these windows out, so no property says that a trap
  is never interrupted, and what is shown of masks and of the refinement of
  `Scheduler` holds outside them.
* `Shutdown` stops where the code has no defined outcome: a process moved from the
  waiting to the ready list keeps its timer or its `status`, by which it would be
  detached from a list that it is not on.

## Runs

| Run | Instance | Shows |
|---|---|---|
| `kernel` | `MCTraps`: init parked, the clock, four users, sleeps of 0 to 3 ticks | one place per process, sorted timers, one timer per sleeper, status, user mode interruptible, no starvation, refinement of `Scheduler` and of `Processor` |
| `messaging` | a reader, a non blocking writer, one that reads and writes; two places, lowered to one by `dmq_setattr`; four blocks; sleeps of 0 or 1 tick | one reason to wait, nobody lost, no lost wake up either way, readers and writers served, refinement of `Mailbox` |
| `pool` | five blocks of two bytes, addresses one block before to one block behind | the free list stays a chain, refinement of `BlockPool` (last released, first given) |
| `lists` | two lists, four items | both chains agree, a link means company on the list, refinement of `ItemLists` with the place and the answer of each call |
| `processes` | five PCBs, pids to 5 | one home per PCB, a collector for each process, a waiting parent is served |
| `resources` | two processes, two ids, two resources, one or two queues, two opens per process, pools of three descriptors and three queue users | descriptors pin, the queue is found by the second half of `dmq_open`, users have descriptors and go back to their pool while they can be followed, no block twice, refinement of `OpenResources` |
| `two_lists`, `nonblock`, `orphans`, `stale_queue`, `close_race`, `shutdown` | as small as shows it | the findings below |

Why the bounds are enough. Four sleepers give timers with equal times, items put
in front of, between and behind others, and dispatches that wake several at once,
in traps and in interrupts. Two processes on each side of the queue are the fewest
for which one wake up can be meant for the wrong one of them; two places and four
blocks make the queue go full, empty and (once) past a lowered limit, and the pool
run dry. Five blocks give free lists in every order. Four items on two lists give
every combination of neighbours, ends and moves. Three PCBs beside init and the
clock give parent, child and grandchild, and four spawns are the fewest for which
the PCB of a dead parent belongs to another process, in `disastrOS_wait` itself,
when an orphan of the dead one exits. Two processes that open twice are the fewest
for a resource that is shared, destroyed and replaced while another holds
descriptors; the queue pool starts with one queue or with two, so that it is
exhausted in some behaviours (`UndoOpen`) and two queues are apart in others; four
opens meet three descriptors, and the users of two sections three queue users, so
that a call fails before and after it changed something.
`MaxSleep`, `MaxPid`, `MaxFd`, `MsgPool`, `DescriptorPool` and `UserPool` are the
bounds on what the code counts.

Three runs are reduced. In `resources` the processes are symmetric, and in `lists`
the items: no operator tells one from another, none is chosen, and no liveness is
checked. `resources` and `stale_queue` have the same module, and `resources` a VIEW
without `openings`, which the actions count up and down and read for nothing else:
no guard, no other variable and no property but its type depends on it. `processes`
has a VIEW without `returned`: no action and no property but the type invariant
reads it. The types of both are proved (`ResTypeOKAlways`, `ProcessType`).

Deadlock is checked but where the system really stops: in `resources` and
`stale_queue` every process may have exited, in `close_race` closed the queue, and
`shutdown` ends the system.

Fairness. `Scheduler` assumes that ticks keep coming (weak fairness of the tick:
the interval timer is periodic). `Traps` justifies that from below: weak fairness
of the alarm, and of what the kernel does once it was entered, implies the ticks of
`Scheduler`, and a process may compute for ever. `Messaging` adds strong fairness of
the next step of a process inside `dmq_send` or `dmq_receive`: a process is enabled
only while it runs, and a turn of 100 ms is far longer than such a step, so that
one that runs again and again gets on. A process is never forced to call anything.

### Findings

Six runs end in a counterexample to something the code's comments or tests say.

* `two_lists`: a process that blocks on a queue while nobody else is on the
  waiting list goes on the ready list as well. `List_insert` detects membership
  by neighbours, and a lone item has none. The test program hides it: init waits.
* `nonblock`: `DSOS_NONBLOCK` is looked at in user mode only; after a tick in
  between the system call blocks.
* `orphans`: children are moved to init's list but their `parent` still points to
  the dead PCB, so init is not woken when they exit. When the PCB belongs to
  another process by then, and that one waits for any child, it is woken for a
  child not its own, which is freed while init still lists it.
* `stale_queue`: `value` of a resource survives `dmq_unlink` and the reuse of the
  block, so that a new queue resource starts with a freed queue.
* `close_race`: `List_detach` in `dmq_close` runs in user mode. When a neighbour on
  the list goes between its assignments, one that closed the queue comes back on
  its list.
* `shutdown`: processes that are ready when `disastrOS_shutdown` is called are
  popped off the ready list and put nowhere, so they never reach the graveyard.

These are why `messaging` has init parked, and why `WaiterServed` speaks of a
process's own children. Two more show in the statement of the properties instead:
raising `max_messages` wakes no writer, so `messaging` lowers it only and
`NoLostRoom` is proved for limits that are not raised; and as `Message_free` frees
nothing, `WritersServed` and the `Service` of `Mailbox` except the exhausted pool.

Two disagreements have no run. `disastrOS_exit.c:74` says "we release all resources of
a process upon termination" and `disastrOS_test.c:239` that "exit should handle the
queue closing", but the code is in the branch for a parent that waits: a zombie keeps
its descriptors and queue users for good (`ExitAlone`), and they satisfy
`DescriptorsPin` and `UsersHaveDescriptors`. And `disastrOS.c:221` says "this disables
alarm during system trap", which fails in the window of `setcontext` described above.

## Proofs

All proofs hold for any finite sets and any bounds that the named assumptions of
the modules allow. Each follows one pattern: an inductive invariant made of named
parts, one lemma per action that it is kept, and theorems that read the properties
off it.

`SchedulerProofs` (`SchedulerAssumption`): `SchedSpec` implies `[]TypeOK`,
`[]OnePlace`, `[]SleepersHaveOneTimer`, `[]TimersSorted`, `[]StatusAgrees`, and
implements `Processor`. The invariant `SchedInv` is the five together with two
facts: parked processes stay on the waiting list, and the clock never is there.
They need each other: that a process whose timer elapses comes from the waiting
list (and so is not put on the ready list twice) is `SleepersHaveOneTimer`; that the
due ones are a prefix of the list is `TimersSorted`; and that a sleeper has a
successor is the clock. What concerns the timer list alone is proved from the
weaker `TimerInv`, which also holds under `Messaging`, where a process that runs
may be on the waiting list.

`TrapsProofs`: every step of traps and interrupts is a step of the scheduler or
leaves its lists alone (`TrapsMakeSchedulerSteps`), so `SchedInv` and the refinement
of `Processor` carry over (`TrapsImplementProcessor`), and `MaskInv`, that every saved
context resumes with the mask it should have, gives `UserUnmasked`.

`MessagingProofs` (`MessagingAssumption`): `MsgInv` is `OneReasonToWait`,
`NobodyLost` and `BlockedNotReady` with the types and where in the loops the blocked
processes are. It is inductive only if some process is parked (`Parked # {}`), and
`two_lists` shows that it fails otherwise. `NoLostMessage` and `NoLostRoom` are
counting arguments on top of it: a deposit adds a message and a process that owes a
wake up; a wake up that finds a blocked user replaces the waker by the woken; one
that finds none leaves nobody blocked; and a take removes both. `NoLostRoom` needs
`NeverRaised`, that no value of `NewMax` is above the limit at the start or another
one of `NewMax`. `MessagingKeepsMailbox`, without any such condition, is the safety
half of the refinement of `Mailbox`.

`ResourcesProofs` (`ResourceAssumption`): `ResInv` gives `DescriptorsPin`,
`OpenQueueFinds` and `ResourcesKept`, and with `Accounted` `UsersHaveDescriptors`.
`DescriptorsPin` is split into the relation (`HoldersAgree`) and the pinning
(`Pinned`); to find the resource by id again needs that ids are unique on the list
(`OneById`); what holds between the system calls of `dmq_open` is `Opening`, inside
`dmq_close` `Detaching` and `Closing`; and that the descriptor of a queue user is of a
queue (`UsersOpen`) shows that a plain close leaves no user behind. What is said of
queue users is said until `astray`: `Follow` empties the lists then, so that each step
is proved either for the users that the call makes or for none (`FollowedUsers`).
`Counts` bounds the pool: what `Queue_add_pid` grants before it gives up is no more
than what is left (`GrantedFits`), and what goes back was out (`UsersGoBack`); with it
`ResTypeOK` is proved. `Accounted` is the other direction, that a user that is out is
on a list of its queue or was left by an exit (`Buried`: the dead stay dead), which
takes that a descriptor has users on one queue only. Together they are
`UsersHaveDescriptors`. It does not say that no queue user ever outlives its
descriptor: `close_race` shows one that does, after `astray`.
`ResourcesImplementOpenResources` maps the state to what
a user sees, ids and descriptors: `OneById` makes the kind a function of the id,
`HoldersAgree` keeps the id of a descriptor while its resource stays, and the
descriptors given out are those below `last_fd`. The undoing of a half done
`dmq_open` becomes one `Withdraw`; every other call is one step or a stutter.

`ProcessesProofs` (`ProcessAssumption`): `ProcInv` gives `ProcTypeOK`, `OneHome`,
`HasCollector` and `WaiterServed`. `StatusFits` ties `status`, which wait and exit look
at, to the lists; `Pids` says that a pid names one process, so that removing a
child by pid removes that child; `Family` says that zombies have no children and
that init lists those whose parent it is; and `WaiterServed` is inductive with them
because a child that exits under a waiting parent finds that parent's status and
call as the parent left them.

`PoolAllocatorProofs` (`PoolAssumption`): for any number of blocks of any size
`PoolSpec` implies `[]PoolTypeOK` and `[]FreeListIntact`, and implements `BlockPool`.
`FreeListIntact` says that a chain exists; the proofs name the new chain after each
step, the old one without its head (`GetKeepsChain`) or with the block in front
(`InsertKeepsChain`), and count it with the cardinality of an injection to show
that `size` stays within bounds. The refinement maps the array to the blocks met
along it (`Met`, a recursive function), which are that chain (`MetIsChain`).

`LinkedListProofs` (`ListAssumption`): `ListInv` says that the links of each list are
those of the sequence found by walking along `next` (`Chains`), that these sequences
share no item, and that an item on none has no links. `Walk` is a recursive function
over the links. That it returns the sequence of a chain is an induction, done
without an induction theorem: the chain satisfies the function's equation, and of
the places where the walk differs from it there would be a least one
(`WalkOfChain`). `InsertStep` and `DetachStep` then name the sequences after a call and
show, link by link, that the new links are theirs. From that follow `ChainsAgree`,
`NeighboursTell` and the refinement of `ItemLists`, whose steps are the calls with
their arguments and answers: an insertion behind the item given, a refusal of what is
on a list (`InsertImplements`), the removal of the item given or of the first one
(`DetachImplements`, `PopImplements`). `NeighboursTell` is why
`HasNeighbour` of `Scheduler` asks for another process on the waiting list: it is all
that `List_insert` can know.

Only model-checked: liveness, which is out of the prover's reach (`NoStarvation`,
`ReadersServed`, `WritersServed`, the `Service` of `Mailbox`, the fairness half of
`ImplementsScheduler`). The safety halves of the last two are
`MessagingKeepsMailbox` and `TrapsMakeSchedulerSteps`. Every invariant and every action
property of a passing run is a theorem. `QueueClosing` and `Shutdown` have none: their
runs show counterexamples.

## Not modelled

* Fork, which no program calls and which makes a PCB without a context; the tables
  of system calls; stacks; the log and the printing functions.
* Message sizes, the checks on them, and texts; return values of exit; signals,
  which nothing reads.
* The exhausted PCB pool, which dereferences null, and the pools of timers and
  `PCBPtr`s.
* What shutdown does to the resources, and what it does after the point where its
  outcome is undefined.
* The messages left on a queue that is unlinked; two queues that block processes at
  the same time.
* Threads, crashes and restarts: there are none, and nothing is stored.

## Plan

Done in this order: scheduler and timers, queue traffic, the pool, lists,
processes, resources, traps, the mailbox, bounded pools, closing and shutdown;
proofs about all but the last two. What is left, most important first:

1. Two queues over the one waiting list, with a process that uses both.
2. The `PCBPtr` pool, from which each wait answered by an exit loses a block.
3. The messages of a queue that is unlinked, and shutdown's clean up of the
   resources.
4. `msg_size`, checked in user mode against an attribute that others may change.
