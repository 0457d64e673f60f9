----------------------------- MODULE Messaging -----------------------------
(***************************************************************************)
(* A message queue of disastrOS on top of the scheduler: dmq_send and      *)
(* dmq_receive, the three system calls they loop over, and dmq_setattr of  *)
(* the largest number of messages, for processes that have the queue open. *)
(*                                                                         *)
(* A dmq_ function runs in user mode: a tick may come between its check,   *)
(* its system calls and its return, so each of these is one step and pc    *)
(* says which is next.  A process that finds the queue full or empty goes  *)
(* on the waiting list while it still runs; it leaves the cpu only at the  *)
(* disastrOS_preempt that follows, or at a tick that comes first.          *)
(*                                                                         *)
(* A message is the number of its block in the message pool.  Message_free *)
(* hands the allocator the address of a field of the message instead of    *)
(* the text (&m->message), is refused, and so releases neither block: a    *)
(* block is used once and the pool runs dry after MsgPool sends.           *)
(***************************************************************************)
EXTENDS Scheduler

CONSTANTS Readers,      \* the readers list: processes, in opening order
          Writers,      \* the writers list
          NonBlock,     \* the processes on the non_block list
          MaxMessages,  \* max_messages when the run begins
          NewMax,       \* the values dmq_setattr may give it
          MsgPool       \* blocks in the message pool

ASSUME MessagingAssumption ==
    /\ Readers \in Seq(Proc \ (Parked \cup {Clock})) /\ IsInjective(Readers)
    /\ Writers \in Seq(Proc \ (Parked \cup {Clock})) /\ IsInjective(Writers)
    /\ NonBlock \subseteq Proc
    /\ MaxMessages \in Nat
    /\ NewMax \subseteq Nat
    /\ MsgPool \in Nat

VARIABLES messages,     \* the message list
          used,         \* how many blocks of the pool were given out
          maxMessages,  \* max_messages
          readerStatus, \* the status of the QueueUser in the readers list
          writerStatus, \* the status of the QueueUser in the writers list
          pc

queueVars == <<messages, used, maxMessages, readerStatus, writerStatus>>
msgVars == <<schedVars, queueVars, pc>>

Goto(p, label) == pc' = [pc EXCEPT ![p] = label]

\* running->status = Waiting and List_insert in the waiting list; the caller
\* goes on running.
JoinWaiting(p) ==
    /\ status' = [status EXCEPT ![p] = "Waiting"]
    /\ waiting' = waiting \cup {p}
    /\ UNCHANGED <<running, ready, timers>>

\* Mutant: any queue user on the waiting list, whatever its own status.
WakeableByPid(users, userStatus) ==
    {i \in 1..Len(users) : users[i] \in waiting}

\* The queue users of a list that internal_wakeUpQueue would wake.
Wakeable(users, userStatus) ==
    {i \in 1..Len(users) : /\ userStatus[users[i]] = "Waiting"
                           /\ users[i] \in waiting}

\* Mutant: the process is taken off the waiting list and put nowhere.
WakeFirstToNowhere(users, i) ==
    /\ i \in 1..Len(users)
    /\ waiting' = waiting \ {users[i]}
    /\ UNCHANGED <<running, ready, timers, status>>

\* The first of them, in list order, goes behind the ready list.
WakeFirst(users, i) ==
    /\ i \in 1..Len(users)
    /\ waiting' = waiting \ {users[i]}
    /\ ready' = Append(ready, users[i])
    /\ UNCHANGED <<running, timers, status>>

IsFirst(i, S) == i \in S /\ \A j \in S : i <= j

\* Mutant: a reader is woken only by the message that ends the emptiness.
WakeupSendIfFirst == Len(messages) = 1

\* wakeup_flag_condition_send.
WakeupSend == Len(messages) > 0

\* Mutant: a writer is woken only by the receive that ends the fullness.
WakeupRecvIfFirst == Len(messages) = maxMessages - 1

\* wakeup_flag_condition_recv.
WakeupRecv == Len(messages) < maxMessages

-----------------------------------------------------------------------------
\* dmq_send up to its loop: a non blocking writer is turned away by a full
\* queue.
DmqSend(p) ==
    /\ running = p /\ pc[p] = "user" /\ p \in Range(Writers)
    /\ ~ (Len(messages) = maxMessages /\ p \in NonBlock)
    /\ Goto(p, "send")
    /\ UNCHANGED <<schedVars, queueVars>>

\* Mutant: nobody looks whether the pool had a block left.
OutOfBlocksUnseen == FALSE

\* MsgString_alloc and Message_alloc find no block.
OutOfBlocks == used >= MsgPool

\* Mutant: the result of a send that succeeded is taken for a failure.
EnqueueAndRetry(p) ==
    /\ Len(messages) < maxMessages /\ ~ OutOfBlocks
    /\ used' = used + 1
    /\ messages' = Append(messages, used + 1)
    /\ Goto(p, "sendYield")
    /\ UNCHANGED <<schedVars, writerStatus>>

\* There is room, and a block.
Enqueue(p) ==
    /\ Len(messages) < maxMessages /\ ~ OutOfBlocks
    /\ used' = used + 1
    /\ messages' = Append(messages, used + 1)
    /\ Goto(p, "wakeReaders")
    /\ UNCHANGED <<schedVars, writerStatus>>

GiveUp(p) ==
    /\ Len(messages) < maxMessages /\ OutOfBlocks
    /\ Goto(p, "sendYield")
    /\ UNCHANGED <<schedVars, messages, used, writerStatus>>

WaitForRoom(p) ==
    /\ Len(messages) >= maxMessages
    /\ writerStatus' = [writerStatus EXCEPT ![p] = "Waiting"]
    /\ JoinWaiting(p)
    /\ Goto(p, "sendYield")
    /\ UNCHANGED <<messages, used>>

\* internal_sendMessage.
SendMessage(p) ==
    /\ running = p /\ pc[p] = "send"
    /\ Enqueue(p) \/ GiveUp(p) \/ WaitForRoom(p)
    /\ UNCHANGED <<maxMessages, readerStatus>>

\* disastrOS_preempt in the loop of dmq_send.
SendYield(p) ==
    /\ running = p /\ pc[p] = "sendYield"
    /\ InternalSchedule(timers)
    /\ Goto(p, "send")
    /\ UNCHANGED queueVars

\* internal_wakeUpQueue with wakeup_flag_condition_send, and the return.
WakeReaders(p) ==
    /\ running = p /\ pc[p] = "wakeReaders"
    /\ Goto(p, "user")
    /\ UNCHANGED <<messages, used, maxMessages, writerStatus>>
    /\ LET W == Wakeable(Readers, readerStatus)
       IN  IF WakeupSend /\ W # {}
           THEN \E i \in W :
                   /\ IsFirst(i, W)
                   /\ readerStatus' = [readerStatus EXCEPT ![Readers[i]] = "Running"]
                   /\ WakeFirst(Readers, i)
           ELSE UNCHANGED <<schedVars, readerStatus>>

-----------------------------------------------------------------------------
\* dmq_receive up to its loop: a non blocking reader is turned away by an
\* empty queue.
DmqReceive(p) ==
    /\ running = p /\ pc[p] = "user" /\ p \in Range(Readers)
    /\ ~ (messages = <<>> /\ p \in NonBlock)
    /\ Goto(p, "recv")
    /\ UNCHANGED <<schedVars, queueVars>>

Dequeue(p) ==
    /\ messages # <<>>
    /\ messages' = Tail(messages)
    /\ Goto(p, "wakeWriters")
    /\ UNCHANGED <<schedVars, readerStatus>>

WaitForMessage(p) ==
    /\ messages = <<>>
    /\ readerStatus' = [readerStatus EXCEPT ![p] = "Waiting"]
    /\ JoinWaiting(p)
    /\ Goto(p, "recvYield")
    /\ UNCHANGED messages

\* internal_recvMessage.
RecvMessage(p) ==
    /\ running = p /\ pc[p] = "recv"
    /\ Dequeue(p) \/ WaitForMessage(p)
    /\ UNCHANGED <<used, maxMessages, writerStatus>>

\* disastrOS_preempt in the loop of dmq_receive.
RecvYield(p) ==
    /\ running = p /\ pc[p] = "recvYield"
    /\ InternalSchedule(timers)
    /\ Goto(p, "recv")
    /\ UNCHANGED queueVars

\* internal_wakeUpQueue with wakeup_flag_condition_recv, and the return.
WakeWriters(p) ==
    /\ running = p /\ pc[p] = "wakeWriters"
    /\ Goto(p, "user")
    /\ UNCHANGED <<messages, used, maxMessages, readerStatus>>
    /\ LET W == Wakeable(Writers, writerStatus)
       IN  IF WakeupRecv /\ W # {}
           THEN \E i \in W :
                   /\ IsFirst(i, W)
                   /\ writerStatus' = [writerStatus EXCEPT ![Writers[i]] = "Running"]
                   /\ WakeFirst(Writers, i)
           ELSE UNCHANGED <<schedVars, writerStatus>>

-----------------------------------------------------------------------------
\* dmq_setattr of ATT_QUEUE_MAX_MESSAGES.
SetMaxMessages(p, n) ==
    /\ running = p /\ pc[p] = "user" /\ p \in Range(Readers) \cup Range(Writers)
    /\ maxMessages' = n
    /\ UNCHANGED <<schedVars, messages, used, readerStatus, writerStatus, pc>>

MsgSleep(p, n) ==
    /\ running = p /\ pc[p] = "user"
    /\ Sleep(n)
    /\ UNCHANGED <<queueVars, pc>>

MsgTick == TimerInterrupt /\ UNCHANGED <<queueVars, pc>>

\* What p does once it called dmq_send or dmq_receive.
Continue(p) ==
    \/ SendMessage(p) \/ SendYield(p) \/ WakeReaders(p)
    \/ RecvMessage(p) \/ RecvYield(p) \/ WakeWriters(p)

\* What p may choose to do.
Call(p) ==
    \/ DmqSend(p) \/ DmqReceive(p)
    \/ \E n \in NewMax : SetMaxMessages(p, n)
    \/ \E n \in 0..MaxSleep : MsgSleep(p, n)

MsgInit ==
    /\ SchedInit
    /\ messages = <<>>
    /\ used = 0
    /\ maxMessages = MaxMessages
    /\ readerStatus = [p \in Range(Readers) |-> "Running"]
    /\ writerStatus = [p \in Range(Writers) |-> "Running"]
    /\ pc = [p \in Proc |-> "user"]

MsgNext == MsgTick \/ \E p \in Proc : Continue(p) \/ Call(p)

(***************************************************************************)
(* Ticks keep coming, and a process that gets the cpu again and again gets *)
(* on with its call: the interval of 100 ms is far longer than a step.     *)
(***************************************************************************)
MsgFairness == WF_msgVars(MsgTick) /\ \A p \in Proc : SF_msgVars(Continue(p))

MsgSpec == MsgInit /\ [][MsgNext]_msgVars /\ MsgFairness

-----------------------------------------------------------------------------
Labels == {"user", "send", "sendYield", "wakeReaders",
           "recv", "recvYield", "wakeWriters"}

MsgTypeOK ==
    /\ TypeOK
    /\ messages \in Seq(1..MsgPool)
    /\ used \in 0..MsgPool
    /\ maxMessages \in {MaxMessages} \cup NewMax
    /\ readerStatus \in [Range(Readers) -> {"Running", "Waiting"}]
    /\ writerStatus \in [Range(Writers) -> {"Running", "Waiting"}]
    /\ pc \in [Proc -> Labels]

BlockedReaders == {p \in Range(Readers) : readerStatus[p] = "Waiting"}
BlockedWriters == {p \in Range(Writers) : writerStatus[p] = "Waiting"}
Sleepers == {Sleeper(i) : i \in 1..Len(timers)}

(***************************************************************************)
(* Every process on the waiting list is there for one reason only: it is   *)
(* in disastrOS_wait, it sleeps, it waits for a message, or it waits for   *)
(* room.  internal_wakeUpQueue looks for the pid on the waiting list, and  *)
(* would take a process out of its sleep if a QueueUser could be Waiting   *)
(* without the process waiting for that queue.                             *)
(***************************************************************************)
OneReasonToWait ==
    /\ waiting = Parked \cup Sleepers \cup BlockedReaders \cup BlockedWriters
    /\ Parked \cap Sleepers = {}
    /\ (Parked \cup Sleepers) \cap (BlockedReaders \cup BlockedWriters) = {}
    /\ BlockedReaders \cap BlockedWriters = {}

(***************************************************************************)
(* No process is lost or listed twice, although a process that finds the   *)
(* queue full or empty goes on running while it is on the waiting list: it *)
(* is running, ready or waiting, and both running and waiting only up to   *)
(* the preempt of its loop.                                                *)
(***************************************************************************)
NobodyLost ==
    /\ Proc = {running} \cup Range(ready) \cup waiting
    /\ IsInjective(ready)
    /\ running \notin Range(ready)
    /\ running \in waiting => pc[running] \in {"sendYield", "recvYield"}

(***************************************************************************)
(* A process that the queue blocked is not ready as well: "queue is full,  *)
(* go into waiting until the queue has space again" (internal_sendMessage).*)
(* The two lists share the links of the PCB.                               *)
(***************************************************************************)
BlockedNotReady == Range(ready) \cap waiting = {}

(***************************************************************************)
(* No wake up is lost: while a reader is blocked, each message on the      *)
(* queue has a process on its way to it, a writer that has not made its    *)
(* wake up call yet or a reader that is awake and bound to try again.  The *)
(* message and its wake up are two system calls with ticks between.        *)
(***************************************************************************)
WakersOfReaders == {p \in Proc : pc[p] = "wakeReaders"}
AwakeReaders == {p \in Range(Readers) \ BlockedReaders :
                    pc[p] \in {"recv", "recvYield"}}

NoLostMessage ==
    BlockedReaders # {} =>
        Len(messages) <= Cardinality(WakersOfReaders \cup AwakeReaders)

(***************************************************************************)
(* The same for the free places of the queue and the blocked writers, when *)
(* nobody changes max_messages.                                            *)
(***************************************************************************)
WakersOfWriters == {p \in Proc : pc[p] = "wakeWriters"}
AwakeWriters == {p \in Range(Writers) \ BlockedWriters :
                    pc[p] \in {"send", "sendYield"}}

NoLostRoom ==
    BlockedWriters # {} =>
        maxMessages - Len(messages)
            <= Cardinality(WakersOfWriters \cup AwakeWriters)

(***************************************************************************)
(* Readers do not stay blocked on a queue that holds messages.             *)
(***************************************************************************)
ReadersServed == []<>(BlockedReaders = {} \/ messages = <<>>)

(***************************************************************************)
(* Writers do not stay blocked on a queue that has room, as long as the    *)
(* message pool has blocks.                                                *)
(***************************************************************************)
WritersServed ==
    []<>(BlockedWriters = {} \/ Len(messages) >= maxMessages \/ used = MsgPool)

(***************************************************************************)
(* The queue implements the Mailbox: although a call gives up, blocks and  *)
(* tries again any number of times, it sends or takes one message, in      *)
(* order, and as long as one of the calls can succeed one of them does.    *)
(***************************************************************************)
CallOf(label) ==
    CASE label = "user" -> "idle"
      [] label \in {"send", "sendYield"} -> "sending"
      [] label = "wakeReaders" -> "sent"
      [] label \in {"recv", "recvYield"} -> "receiving"
      [] label = "wakeWriters" -> "received"

Box == INSTANCE Mailbox
    WITH Client <- Proc, Capacity <- MaxMessages, NewCapacity <- NewMax,
         Supply <- MsgPool, box <- messages, deposits <- used,
         capacity <- maxMessages, call <- [p \in Proc |-> CallOf(pc[p])]

ImplementsMailbox == Box!Spec

(***************************************************************************)
(* A process that opened the queue with DSOS_NONBLOCK is never blocked by  *)
(* it.                                                                     *)
(***************************************************************************)
NonBlockNeverWaits == NonBlock \cap (BlockedReaders \cup BlockedWriters) = {}

=============================================================================
