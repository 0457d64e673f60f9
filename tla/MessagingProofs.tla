-------------------------- MODULE MessagingProofs --------------------------
(***************************************************************************)
(* Theorems about the message queue, for any readers, writers, limits and  *)
(* pools: while another process is in disastrOS_wait, the lists of the     *)
(* scheduler stay as they should although a process goes on running when   *)
(* the queue has put it on the waiting list.                               *)
(***************************************************************************)
EXTENDS Messaging, SchedulerProofs

(***************************************************************************)
(* The parts of the inductive invariant.                                   *)
(***************************************************************************)
Yields == {"sendYield", "recvYield"}

\* The processes and the lists they are on.
Lists ==
    /\ TypeOK /\ TimerInv
    /\ NobodyLost /\ BlockedNotReady
    /\ Clock \notin waiting

\* The fields of the queue.
Fields ==
    /\ messages \in Seq(1..MsgPool)
    /\ used \in 0..MsgPool
    /\ maxMessages \in {MaxMessages} \cup NewMax
    /\ readerStatus \in [Range(Readers) -> {"Running", "Waiting"}]
    /\ writerStatus \in [Range(Writers) -> {"Running", "Waiting"}]
    /\ pc \in [Proc -> Labels]

\* Who is in the loop of dmq_send or dmq_receive, and why.
Callers ==
    /\ \A p \in Proc : pc[p] \in {"send", "sendYield"} => p \in Range(Writers)
    /\ \A p \in Proc : pc[p] \in {"recv", "recvYield"} => p \in Range(Readers)
    /\ \A p \in BlockedReaders : pc[p] \in {"recv", "recvYield"}
    /\ \A p \in BlockedWriters : pc[p] \in {"send", "sendYield"}
    /\ \A p \in Sleepers : pc[p] = "user"

MsgInv == Lists /\ Fields /\ Callers /\ OneReasonToWait /\ Parked # {}

-----------------------------------------------------------------------------
\* The readers and writers are processes that do not park, nor the clock.
LEMMA UsersAreProcs ==
  /\ Range(Readers) \subseteq Proc \ (Parked \cup {Clock})
  /\ Range(Writers) \subseteq Proc \ (Parked \cup {Clock})
  BY MessagingAssumption, RangeIsElements

\* What the running process is not.
LEMMA RunningIsFree ==
  ASSUME MsgInv
  PROVE  /\ running \in Proc /\ running \notin Parked \cup Sleepers
         /\ running \in waiting => running # Clock /\ pc[running] \in Yields
<1>1. /\ running \in Proc \cup {NoProc} /\ waiting \subseteq Proc
      /\ Proc = {running} \cup Range(ready) \cup waiting
      /\ running \notin Range(ready)
      /\ running \in waiting => pc[running] \in Yields
      /\ Clock \notin waiting /\ ready \in Seq(Proc)
  BY DEF MsgInv, Lists, TypeOK, NobodyLost, Yields
<1>2. running \in Proc
  BY <1>1
<1>3. Parked \cup Sleepers \subseteq waiting
  BY DEF MsgInv, OneReasonToWait
<1>4. running \in waiting => running \in Range(Readers) \cup Range(Writers)
  BY <1>1, <1>2 DEF MsgInv, Callers, Yields
<1>5. running \notin Parked
  BY <1>3, <1>4, UsersAreProcs
<1>6. running \notin Sleepers
  <2>1. running \in Sleepers => pc[running] = "user"
    BY DEF MsgInv, Callers
  <2> QED BY <1>1, <1>3, <2>1 DEF Yields
<1> QED BY <1>1, <1>2, <1>5, <1>6

\* internal_schedule, wherever it is called: a process that the queue blocked
\* while it ran is not put on the ready list, because List_insert refuses it.
LEMMA ScheduleMoves ==
  ASSUME MsgInv, NEW ts, ReadAs(ts), InternalSchedule(ts)
  PROVE  /\ TypeOK' /\ TimerInv'
         /\ Proc = {running'} \cup Range(ready') \cup waiting'
         /\ IsInjective(ready') /\ running' \notin Range(ready') \cup waiting'
         /\ Range(ready') \cap waiting' = {}
         /\ Sleepers' \subseteq Sleepers
         /\ waiting' = waiting \ (Sleepers \ Sleepers')
<1>1. PICK k \in 0..Len(ts) :
        /\ DueUpTo(ts, 0, k)
        /\ timers' = AfterCurrent(ts, k)
        /\ LET queue == Woken(ts, k) \o ready
               rest  == waiting \ Range(Woken(ts, k))
           IN  /\ waiting' = rest
               /\ \/ /\ queue = <<>>
                     /\ UNCHANGED <<running, ready, status>>
                  \/ /\ queue # <<>>
                     /\ running' = Head(queue)
                     /\ ready' = Requeue(Tail(queue), rest)
                     /\ status' = [p \in Proc |->
                            IF p = Head(queue) THEN "Running"
                            ELSE IF p \in Range(Woken(ts, k)) \cup {running}
                                 THEN "Ready" ELSE status[p]]
  BY DEF InternalSchedule, Woken
<1> DEFINE w == Woken(ts, k)
           queue == w \o ready
<1>2. TimerInv /\ Parked # {} /\ Parked \cup Sleepers \subseteq waiting
      /\ Clock \notin waiting
  BY DEF MsgInv, Lists, OneReasonToWait
<1>3. /\ w \in Seq(Proc) /\ Len(w) = k /\ IsInjective(w)
      /\ Range(w) = {Sleeper(i) : i \in 1..k}
      /\ Range(w) \subseteq waiting \ Parked
  BY <1>2, WokenAreSleepers
<1>4. /\ ready \in Seq(Proc) /\ IsInjective(ready) /\ waiting \subseteq Proc
      /\ Proc = {running} \cup Range(ready) \cup waiting
      /\ running \notin Range(ready) /\ Range(ready) \cap waiting = {}
      /\ status \in [Proc -> ProcessStatus]
  BY DEF MsgInv, Lists, TypeOK, NobodyLost, BlockedNotReady
<1>5. running \in Proc /\ running \notin Parked \cup Sleepers
  BY RunningIsFree
<1>6. /\ timers' \in Seq(TimerItem) /\ TimersSorted'
      /\ \A i, j \in 1..Len(timers') : Sleeper(i)' = Sleeper(j)' => i = j
      /\ Sleepers = Range(w) \cup Sleepers' /\ Range(w) \cap Sleepers' = {}
  BY <1>1, <1>2, <1>3, TimersAfterSchedule DEF Sleepers
<1>7. /\ queue \in Seq(Proc)
      /\ Range(queue) = Range(w) \cup Range(ready)
      /\ IsInjective(queue)
  <2> HIDE DEF w
  <2> QED BY <1>3, <1>4, ConcatKeepsItems
<1>8. /\ waiting' = waiting \ Range(w)
      /\ \/ queue = <<>> /\ UNCHANGED <<running, ready, status>>
         \/ /\ queue # <<>>
            /\ running' = Head(queue)
            /\ ready' = Requeue(Tail(queue), waiting')
            /\ status' = [p \in Proc |-> IF p = Head(queue) THEN "Running"
                                         ELSE IF p \in Range(w) \cup {running}
                                              THEN "Ready" ELSE status[p]]
  BY <1>1
<1> HIDE DEF queue, w
<1>9. /\ running' \in Proc /\ ready' \in Seq(Proc) /\ IsInjective(ready')
      /\ status' \in [Proc -> ProcessStatus]
      /\ Range(ready') \subseteq Range(queue) \cup {running}
      /\ {running'} \cup Range(ready') \cup waiting'
            = {running} \cup Range(queue) \cup waiting'
      /\ running' \notin Range(ready') \cup waiting'
      /\ Range(ready') \cap waiting' = {}
  <2>1. CASE queue = <<>>
    <3>1. Range(queue) = {}
      BY <2>1 DEF Range
    <3>2. UNCHANGED <<running, ready, status>> /\ Range(ready) = {}
      BY <1>7, <1>8, <2>1, <3>1
    <3>3. running \notin waiting
      BY <1>2, <1>4, <3>2, SchedulerAssumption
    <3> QED BY <1>4, <1>5, <1>7, <1>8, <3>1, <3>2, <3>3
  <2>2. CASE queue # <<>>
    <3> DEFINE head == Head(queue)
               tail == Tail(queue)
    <3>1. /\ head \in Range(queue) /\ tail \in Seq(Proc)
          /\ Range(tail) = Range(queue) \ {head} /\ IsInjective(tail)
      BY <1>7, <2>2, DetachHead
    <3>2. /\ running' = head /\ ready' = Requeue(tail, waiting')
          /\ status' = [p \in Proc |-> IF p = head THEN "Running"
                                       ELSE IF p \in Range(w) \cup {running}
                                            THEN "Ready" ELSE status[p]]
      BY <1>8, <2>2
    <3> HIDE DEF head, tail
    <3>3. head \in Proc /\ head # running /\ head \notin waiting'
      BY <1>3, <1>4, <1>5, <1>6, <1>7, <1>8, <3>1
    <3>4. status' \in [Proc -> ProcessStatus]
      BY <1>4, <3>2 DEF ProcessStatus
    <3>5. running \notin Range(queue) /\ Range(queue) \cap waiting' = {}
      BY <1>4, <1>5, <1>6, <1>7, <1>8
    <3>6. CASE running \in waiting'
      <4>1. HasNeighbour(running, waiting')
        BY <1>2, <1>3, <1>5, <1>8, <3>6 DEF HasNeighbour
      <4>2. ready' = tail
        BY <3>2, <4>1 DEF Requeue
      <4> QED BY <3>1, <3>2, <3>3, <3>4, <3>5, <3>6, <4>2
    <3>7. CASE running \notin waiting'
      <4>1. ready' = Append(tail, running)
        BY <3>2, <3>7 DEF Requeue, HasNeighbour
      <4>2. /\ ready' \in Seq(Proc) /\ Range(ready') = Range(tail) \cup {running}
            /\ IsInjective(ready')
        BY <1>5, <3>1, <3>5, <4>1, InsertLast
      <4> QED BY <3>1, <3>2, <3>3, <3>4, <3>5, <3>7, <4>2
    <3> QED BY <3>6, <3>7
  <2> QED BY <2>1, <2>2
<1>10. waiting' = waiting \ (Sleepers \ Sleepers')
  BY <1>6, <1>8
<1>11. Sleepers' \subseteq waiting' \ Parked
  BY <1>2, <1>3, <1>6, <1>8 DEF TimerInv, Sleepers
<1>12. TypeOK'
  BY <1>4, <1>6, <1>8, <1>9 DEF TypeOK
<1>13. TimerInv'
  BY <1>6, <1>11 DEF TimerInv, Sleepers
<1>14. Proc = {running'} \cup Range(ready') \cup waiting'
  BY <1>3, <1>4, <1>7, <1>8, <1>9
<1> QED BY <1>6, <1>9, <1>10, <1>12, <1>13, <1>14

-----------------------------------------------------------------------------
\* A tick, or the disastrOS_preempt of a loop.
LEMMA ScheduleKeeps ==
  ASSUME MsgInv, NEW ts, ReadAs(ts), InternalSchedule(ts),
         UNCHANGED <<messages, used, maxMessages, readerStatus, writerStatus>>,
         pc' \in [Proc -> Labels],
         \A p \in Proc : \/ pc'[p] = pc[p]
                         \/ pc[p] = "sendYield" /\ pc'[p] = "send"
                         \/ pc[p] = "recvYield" /\ pc'[p] = "recv"
  PROVE  MsgInv'
<1>0. Fields /\ Callers /\ OneReasonToWait /\ Parked # {} /\ Clock \notin waiting
  BY DEF MsgInv, Lists
<1>1. /\ TypeOK' /\ TimerInv'
      /\ Proc = {running'} \cup Range(ready') \cup waiting'
      /\ IsInjective(ready') /\ running' \notin Range(ready') \cup waiting'
      /\ Range(ready') \cap waiting' = {}
      /\ Sleepers' \subseteq Sleepers
      /\ waiting' = waiting \ (Sleepers \ Sleepers')
  BY ScheduleMoves
<1>2. Lists'
  BY <1>0, <1>1 DEF Lists, NobodyLost, BlockedNotReady
<1>3. Fields'
  BY <1>0 DEF Fields
<1>4. BlockedReaders' = BlockedReaders /\ BlockedWriters' = BlockedWriters
  BY DEF BlockedReaders, BlockedWriters
<1>5. OneReasonToWait'
  BY <1>0, <1>1, <1>4 DEF OneReasonToWait
<1>6. Callers'
  <2>1. BlockedReaders \cup BlockedWriters \cup Sleepers \subseteq Proc
    BY UsersAreProcs, <1>0 DEF OneReasonToWait, BlockedReaders, BlockedWriters,
                               MsgInv, Lists, TypeOK
  <2> QED BY <1>0, <1>1, <1>4, <2>1 DEF Callers
<1> QED BY <1>0, <1>2, <1>3, <1>5, <1>6 DEF MsgInv

\* A tick keeps the invariant, a running process that is blocked already included.
LEMMA MsgTickStep ==
  ASSUME MsgInv, MsgTick
  PROVE  MsgInv'
<1> DEFINE ts == [i \in 1..Len(timers) |-> [timers[i] EXCEPT !.left = @ - 1]]
<1>1. ReadAs(ts)
  BY TimersRead DEF MsgInv, Lists
<1>2. InternalSchedule(ts) /\ UNCHANGED <<queueVars, pc>>
  BY DEF MsgTick, TimerInterrupt
<1>3. pc' \in [Proc -> Labels]
  BY <1>2 DEF MsgInv, Fields
<1> HIDE DEF ts
<1> QED BY <1>1, <1>2, <1>3, ScheduleKeeps DEF queueVars

\* The preempt behind a call that blocked keeps the invariant.
LEMMA YieldStep ==
  ASSUME MsgInv, NEW p \in Proc, SendYield(p) \/ RecvYield(p)
  PROVE  MsgInv'
<1>1. ReadAs(timers) /\ InternalSchedule(timers) /\ UNCHANGED queueVars
  BY TimersRead DEF MsgInv, Lists, SendYield, RecvYield
<1>2. pc \in [Proc -> Labels]
  BY DEF MsgInv, Fields
<1>3. /\ pc' \in [Proc -> Labels]
      /\ \A q \in Proc : \/ pc'[q] = pc[q]
                         \/ pc[q] = "sendYield" /\ pc'[q] = "send"
                         \/ pc[q] = "recvYield" /\ pc'[q] = "recv"
  BY <1>2 DEF SendYield, RecvYield, Goto, Labels
<1> QED BY <1>1, <1>3, ScheduleKeeps DEF queueVars

-----------------------------------------------------------------------------
\* A step of the running process that leaves the lists alone.
LEMMA StayStep ==
  ASSUME MsgInv, NEW label \in Labels,
         UNCHANGED <<schedVars, readerStatus, writerStatus>>,
         messages' \in Seq(1..MsgPool), used' \in 0..MsgPool,
         maxMessages' \in {MaxMessages} \cup NewMax,
         pc' = [pc EXCEPT ![running] = label],
         running \notin waiting,
         label \in {"send", "sendYield"} => running \in Range(Writers),
         label \in {"recv", "recvYield"} => running \in Range(Readers)
  PROVE  MsgInv'
<1>0. Lists /\ Fields /\ Callers /\ OneReasonToWait /\ Parked # {}
  BY DEF MsgInv
<1>1. running \in Proc
  BY RunningIsFree
<1>2. UNCHANGED <<running, ready, waiting, timers, status>>
  BY DEF schedVars
<1>3. /\ BlockedReaders' = BlockedReaders /\ BlockedWriters' = BlockedWriters
      /\ Sleepers' = Sleepers
  BY <1>2 DEF BlockedReaders, BlockedWriters, Sleepers, Sleeper
<1>4. BlockedReaders \cup BlockedWriters \cup Sleepers \subseteq waiting
  BY <1>0 DEF OneReasonToWait
<1>5. /\ pc' \in [Proc -> Labels] /\ pc'[running] = label
      /\ \A q \in Proc : q # running => pc'[q] = pc[q]
      /\ waiting \subseteq Proc
  BY <1>0, <1>1 DEF Fields, Lists, TypeOK
<1>6. Fields'
  BY <1>0, <1>5 DEF Fields
<1>7. TypeOK' /\ TimerInv' /\ BlockedNotReady'
  BY <1>0, <1>2 DEF Lists, TypeOK, TimerInv, TimersSorted, Sleeper, BlockedNotReady
<1>8. NobodyLost'
  BY <1>0, <1>2 DEF Lists, NobodyLost
<1>9. OneReasonToWait'
  BY <1>0, <1>2, <1>3 DEF OneReasonToWait
<1>10. Callers'
  BY <1>0, <1>1, <1>3, <1>4, <1>5 DEF Callers
<1> QED BY <1>0, <1>2, <1>6, <1>7, <1>8, <1>9, <1>10 DEF MsgInv, Lists

\* Entering dmq_send or dmq_receive keeps the invariant.
LEMMA DmqCallStep ==
  ASSUME MsgInv, NEW p \in Proc, DmqSend(p) \/ DmqReceive(p)
  PROVE  MsgInv'
<1>1. /\ running = p /\ pc[p] = "user"
      /\ UNCHANGED <<schedVars, queueVars>>
  BY DEF DmqSend, DmqReceive
<1>2. running \notin waiting
  BY <1>1, RunningIsFree DEF Yields
<1>3. PICK label \in {"send", "recv"} :
        /\ pc' = [pc EXCEPT ![running] = label]
        /\ label = "send" => running \in Range(Writers)
        /\ label = "recv" => running \in Range(Readers)
  BY DEF DmqSend, DmqReceive, Goto
<1>4. UNCHANGED <<messages, used, maxMessages, readerStatus, writerStatus>>
  BY <1>1 DEF queueVars
<1>5. /\ messages' \in Seq(1..MsgPool) /\ used' \in 0..MsgPool
      /\ maxMessages' \in {MaxMessages} \cup NewMax
  BY <1>4 DEF MsgInv, Fields
<1>6. label \in Labels
  BY DEF Labels
<1> QED BY <1>1, <1>2, <1>3, <1>4, <1>5, <1>6, StayStep

\* dmq_setattr keeps the invariant.
LEMMA SetMaxMessagesStep ==
  ASSUME MsgInv, NEW p \in Proc, NEW n \in NewMax, SetMaxMessages(p, n)
  PROVE  MsgInv'
<1>1. /\ running = p /\ pc[p] = "user" /\ maxMessages' = n
      /\ UNCHANGED <<schedVars, messages, used, readerStatus, writerStatus, pc>>
  BY DEF SetMaxMessages
<1>2. running \notin waiting
  BY <1>1, RunningIsFree DEF Yields
<1>3. pc' = [pc EXCEPT ![running] = "user"] /\ "user" \in Labels
  BY <1>1 DEF MsgInv, Fields, Labels
<1>4. messages' \in Seq(1..MsgPool) /\ used' \in 0..MsgPool
  BY <1>1 DEF MsgInv, Fields
<1> QED BY <1>1, <1>2, <1>3, <1>4, StayStep

\* A message is sent, or none can be for want of a block.
LEMMA EnqueueStep ==
  ASSUME MsgInv, NEW p \in Proc, running = p, pc[p] = "send",
         Enqueue(p) \/ GiveUp(p), UNCHANGED <<maxMessages, readerStatus>>
  PROVE  MsgInv'
<1>1. running \notin waiting
  BY RunningIsFree DEF Yields
<1>2. running \in Range(Writers)
  BY DEF MsgInv, Callers
<1>3. /\ messages \in Seq(1..MsgPool) /\ used \in 0..MsgPool
      /\ maxMessages \in {MaxMessages} \cup NewMax
  BY DEF MsgInv, Fields
<1>4. UNCHANGED <<schedVars, writerStatus>>
  BY DEF Enqueue, GiveUp
<1>5. messages' \in Seq(1..MsgPool) /\ used' \in 0..MsgPool
  <2>1. CASE Enqueue(p)
    <3>1. used + 1 \in 1..MsgPool
      BY <1>3, <2>1, MessagingAssumption DEF Enqueue, OutOfBlocks
    <3> QED BY <1>3, <2>1, <3>1 DEF Enqueue
  <2>2. CASE GiveUp(p)
    BY <1>3, <2>2 DEF GiveUp
  <2> QED BY <2>1, <2>2
<1>6. PICK label \in {"wakeReaders", "sendYield"} :
        pc' = [pc EXCEPT ![running] = label]
  BY DEF Enqueue, GiveUp, Goto
<1>7. label \in Labels
  BY DEF Labels
<1> QED BY <1>1, <1>2, <1>3, <1>4, <1>5, <1>6, <1>7, StayStep

\* Taking the oldest message keeps the invariant.
LEMMA DequeueStep ==
  ASSUME MsgInv, NEW p \in Proc, running = p, pc[p] = "recv", Dequeue(p),
         UNCHANGED <<used, maxMessages, writerStatus>>
  PROVE  MsgInv'
<1>1. running \notin waiting
  BY RunningIsFree DEF Yields
<1>2. /\ messages # <<>> /\ messages' = Tail(messages)
      /\ pc' = [pc EXCEPT ![running] = "wakeWriters"]
      /\ UNCHANGED <<schedVars, readerStatus>>
  BY DEF Dequeue, Goto
<1>3. /\ messages \in Seq(1..MsgPool) /\ used \in 0..MsgPool
      /\ maxMessages \in {MaxMessages} \cup NewMax
  BY DEF MsgInv, Fields
<1>4. messages' \in Seq(1..MsgPool)
  BY <1>2, <1>3
<1>5. "wakeWriters" \in Labels
  BY DEF Labels
<1> QED BY <1>1, <1>2, <1>3, <1>4, <1>5, StayStep

-----------------------------------------------------------------------------
\* The queue is full or empty: the caller is on the waiting list and runs on.
LEMMA BlockStep ==
  ASSUME MsgInv, running \notin waiting, JoinWaiting(running),
         NEW label \in Yields, pc' = [pc EXCEPT ![running] = label],
         UNCHANGED <<messages, used, maxMessages>>,
         readerStatus' \in [Range(Readers) -> {"Running", "Waiting"}],
         writerStatus' \in [Range(Writers) -> {"Running", "Waiting"}],
         \/ /\ label = "sendYield" /\ running \in Range(Writers)
            /\ BlockedWriters' = BlockedWriters \cup {running}
            /\ BlockedReaders' = BlockedReaders
         \/ /\ label = "recvYield" /\ running \in Range(Readers)
            /\ BlockedReaders' = BlockedReaders \cup {running}
            /\ BlockedWriters' = BlockedWriters
  PROVE  MsgInv'
<1>0. Lists /\ Fields /\ Callers /\ OneReasonToWait /\ Parked # {}
  BY DEF MsgInv
<1>1. /\ running \in Proc /\ running \notin Parked \cup Sleepers
      /\ running # Clock
  BY RunningIsFree, UsersAreProcs
<1>2. /\ status' = [status EXCEPT ![running] = "Waiting"]
      /\ waiting' = waiting \cup {running}
      /\ UNCHANGED <<running, ready, timers>>
  BY DEF JoinWaiting
<1>3. Sleepers' = Sleepers
  BY <1>2 DEF Sleepers, Sleeper
<1>4. Parked \cup Sleepers \cup BlockedReaders \cup BlockedWriters \subseteq waiting
  BY <1>0 DEF OneReasonToWait
<1>5. /\ pc' \in [Proc -> Labels] /\ pc'[running] = label
      /\ \A q \in Proc : q # running => pc'[q] = pc[q]
      /\ waiting \subseteq Proc
  BY <1>0, <1>1 DEF Fields, Lists, TypeOK, Labels, Yields
<1>6. Fields'
  BY <1>0, <1>5 DEF Fields
<1>7. TypeOK'
  BY <1>0, <1>1, <1>2 DEF Lists, TypeOK, ProcessStatus
<1>8. TimerInv'
  BY <1>0, <1>2, <1>3 DEF Lists, TimerInv, TimersSorted, Sleeper, Sleepers
<1>9. NobodyLost' /\ BlockedNotReady'
  BY <1>0, <1>1, <1>2, <1>5 DEF Lists, NobodyLost, BlockedNotReady, Yields
<1>10. OneReasonToWait'
  BY <1>0, <1>1, <1>2, <1>3, <1>4 DEF OneReasonToWait
<1>11. Callers'
  BY <1>0, <1>1, <1>3, <1>4, <1>5 DEF Callers
<1> QED BY <1>0, <1>1, <1>2, <1>6, <1>7, <1>8, <1>9, <1>10, <1>11 DEF MsgInv, Lists

\* internal_sendMessage keeps the invariant, whether it delivers or blocks.
LEMMA SendMessageStep ==
  ASSUME MsgInv, NEW p \in Proc, SendMessage(p)
  PROVE  MsgInv'
<1>1. /\ running = p /\ pc[p] = "send"
      /\ Enqueue(p) \/ GiveUp(p) \/ WaitForRoom(p)
      /\ UNCHANGED <<maxMessages, readerStatus>>
  BY DEF SendMessage
<1>2. CASE Enqueue(p) \/ GiveUp(p)
  BY <1>1, <1>2, EnqueueStep
<1>3. CASE WaitForRoom(p)
  <2>1. running \notin waiting
    BY <1>1, RunningIsFree DEF Yields
  <2>2. running \in Range(Writers)
    BY <1>1 DEF MsgInv, Callers
  <2>3. /\ writerStatus' = [writerStatus EXCEPT ![running] = "Waiting"]
        /\ JoinWaiting(running)
        /\ pc' = [pc EXCEPT ![running] = "sendYield"]
        /\ UNCHANGED <<messages, used, maxMessages, readerStatus>>
    BY <1>1, <1>3 DEF WaitForRoom, Goto
  <2>4. /\ readerStatus \in [Range(Readers) -> {"Running", "Waiting"}]
        /\ writerStatus \in [Range(Writers) -> {"Running", "Waiting"}]
    BY DEF MsgInv, Fields
  <2>5. /\ BlockedWriters' = BlockedWriters \cup {running}
        /\ BlockedReaders' = BlockedReaders
    BY <2>2, <2>3, <2>4 DEF BlockedWriters, BlockedReaders
  <2>6. writerStatus' \in [Range(Writers) -> {"Running", "Waiting"}]
    BY <2>3, <2>4
  <2> QED BY <2>1, <2>2, <2>3, <2>4, <2>5, <2>6, BlockStep DEF Yields
<1> QED BY <1>1, <1>2, <1>3

\* internal_recvMessage keeps the invariant, whether it takes or blocks.
LEMMA RecvMessageStep ==
  ASSUME MsgInv, NEW p \in Proc, RecvMessage(p)
  PROVE  MsgInv'
<1>1. /\ running = p /\ pc[p] = "recv"
      /\ Dequeue(p) \/ WaitForMessage(p)
      /\ UNCHANGED <<used, maxMessages, writerStatus>>
  BY DEF RecvMessage
<1>2. CASE Dequeue(p)
  BY <1>1, <1>2, DequeueStep
<1>3. CASE WaitForMessage(p)
  <2>1. running \notin waiting
    BY <1>1, RunningIsFree DEF Yields
  <2>2. running \in Range(Readers)
    BY <1>1 DEF MsgInv, Callers
  <2>3. /\ readerStatus' = [readerStatus EXCEPT ![running] = "Waiting"]
        /\ JoinWaiting(running)
        /\ pc' = [pc EXCEPT ![running] = "recvYield"]
        /\ UNCHANGED <<messages, used, maxMessages, writerStatus>>
    BY <1>1, <1>3 DEF WaitForMessage, Goto
  <2>4. /\ readerStatus \in [Range(Readers) -> {"Running", "Waiting"}]
        /\ writerStatus \in [Range(Writers) -> {"Running", "Waiting"}]
    BY DEF MsgInv, Fields
  <2>5. /\ BlockedReaders' = BlockedReaders \cup {running}
        /\ BlockedWriters' = BlockedWriters
    BY <2>2, <2>3, <2>4 DEF BlockedWriters, BlockedReaders
  <2>6. readerStatus' \in [Range(Readers) -> {"Running", "Waiting"}]
    BY <2>3, <2>4
  <2> QED BY <2>1, <2>2, <2>3, <2>4, <2>5, <2>6, BlockStep DEF Yields
<1> QED BY <1>1, <1>2, <1>3

-----------------------------------------------------------------------------
\* A process that the queue blocked becomes ready.
LEMMA UnblockStep ==
  ASSUME MsgInv, running \notin waiting,
         NEW x \in BlockedReaders \cup BlockedWriters,
         waiting' = waiting \ {x}, ready' = Append(ready, x),
         UNCHANGED <<running, timers, status, messages, used, maxMessages>>,
         pc' = [pc EXCEPT ![running] = "user"],
         readerStatus' \in [Range(Readers) -> {"Running", "Waiting"}],
         writerStatus' \in [Range(Writers) -> {"Running", "Waiting"}],
         BlockedReaders' = BlockedReaders \ {x},
         BlockedWriters' = BlockedWriters \ {x}
  PROVE  MsgInv'
<1>0. Lists /\ Fields /\ Callers /\ OneReasonToWait /\ Parked # {}
  BY DEF MsgInv
<1>1. running \in Proc
  BY RunningIsFree
<1>2. x \in waiting /\ x \notin Parked \cup Sleepers
  BY <1>0 DEF OneReasonToWait
<1>3. /\ ready \in Seq(Proc) /\ IsInjective(ready) /\ waiting \subseteq Proc
      /\ Proc = {running} \cup Range(ready) \cup waiting
      /\ running \notin Range(ready) /\ Range(ready) \cap waiting = {}
  BY <1>0 DEF Lists, TypeOK, NobodyLost, BlockedNotReady
<1>4. /\ ready' \in Seq(Proc) /\ Range(ready') = Range(ready) \cup {x}
      /\ IsInjective(ready')
  BY <1>2, <1>3, InsertLast
<1>5. /\ pc' \in [Proc -> Labels] /\ pc'[running] = "user"
      /\ \A q \in Proc : q # running => pc'[q] = pc[q]
  BY <1>0, <1>1 DEF Fields, Labels
<1>6. Sleepers' = Sleepers /\ Parked \cup Sleepers \subseteq waiting
  BY <1>0 DEF Sleepers, Sleeper, OneReasonToWait
<1>7. Fields'
  BY <1>0, <1>5 DEF Fields
<1>8. TypeOK'
  BY <1>0, <1>4 DEF Lists, TypeOK
<1>9. TimerInv'
  BY <1>0, <1>2, <1>6 DEF Lists, TimerInv, TimersSorted, Sleeper, Sleepers
<1>10. NobodyLost' /\ BlockedNotReady'
  BY <1>2, <1>3, <1>4 DEF NobodyLost, BlockedNotReady
<1>11. OneReasonToWait'
  BY <1>0, <1>2, <1>6 DEF OneReasonToWait
<1>12. Callers'
  BY <1>0, <1>1, <1>5, <1>6 DEF Callers, OneReasonToWait
<1> QED BY <1>0, <1>7, <1>8, <1>9, <1>10, <1>11, <1>12 DEF MsgInv, Lists

\* internal_wakeUpQueue of the readers keeps the invariant.
LEMMA WakeReadersStep ==
  ASSUME MsgInv, NEW p \in Proc, WakeReaders(p)
  PROVE  MsgInv'
<1> DEFINE W == Wakeable(Readers, readerStatus)
<1>1. /\ running = p /\ pc[p] = "wakeReaders"
      /\ pc' = [pc EXCEPT ![running] = "user"]
      /\ UNCHANGED <<messages, used, maxMessages, writerStatus>>
      /\ IF WakeupSend /\ W # {}
         THEN \E i \in W :
                 /\ IsFirst(i, W)
                 /\ readerStatus' = [readerStatus EXCEPT ![Readers[i]] = "Running"]
                 /\ WakeFirst(Readers, i)
         ELSE UNCHANGED <<schedVars, readerStatus>>
  BY DEF WakeReaders, Goto
<1>2. running \notin waiting
  BY <1>1, RunningIsFree DEF Yields
<1>3. Fields
  BY DEF MsgInv
<1>4. CASE WakeupSend /\ W # {}
  <2>1. PICK i \in W :
          /\ readerStatus' = [readerStatus EXCEPT ![Readers[i]] = "Running"]
          /\ WakeFirst(Readers, i)
    BY <1>1, <1>4
  <2> DEFINE x == Readers[i]
  <2>2. x \in Range(Readers) /\ readerStatus[x] = "Waiting"
    BY MessagingAssumption, RangeIsElements DEF Wakeable
  <2> HIDE DEF x
  <2>3. /\ waiting' = waiting \ {x} /\ ready' = Append(ready, x)
        /\ UNCHANGED <<running, timers, status>>
        /\ readerStatus' = [readerStatus EXCEPT ![x] = "Running"]
    BY <2>1 DEF WakeFirst, x
  <2>4. /\ readerStatus' \in [Range(Readers) -> {"Running", "Waiting"}]
        /\ writerStatus' \in [Range(Writers) -> {"Running", "Waiting"}]
    BY <1>1, <1>3, <2>2, <2>3 DEF Fields
  <2>5. x \in BlockedReaders /\ BlockedReaders' = BlockedReaders \ {x}
    BY <1>3, <2>2, <2>3 DEF Fields, BlockedReaders
  <2>6. BlockedWriters' = BlockedWriters \ {x}
    BY <1>1, <2>5 DEF MsgInv, OneReasonToWait, BlockedReaders, BlockedWriters
  <2> QED BY <1>1, <1>2, <2>3, <2>4, <2>5, <2>6, UnblockStep
<1>5. CASE ~ (WakeupSend /\ W # {})
  <2>1. UNCHANGED <<schedVars, readerStatus, writerStatus>>
    BY <1>1, <1>5
  <2>2. /\ messages' \in Seq(1..MsgPool) /\ used' \in 0..MsgPool
        /\ maxMessages' \in {MaxMessages} \cup NewMax
    BY <1>1, <1>3 DEF Fields
  <2>3. "user" \in Labels
    BY DEF Labels
  <2> QED BY <1>1, <1>2, <2>1, <2>2, <2>3, StayStep
<1> QED BY <1>4, <1>5

\* internal_wakeUpQueue of the writers keeps the invariant.
LEMMA WakeWritersStep ==
  ASSUME MsgInv, NEW p \in Proc, WakeWriters(p)
  PROVE  MsgInv'
<1> DEFINE W == Wakeable(Writers, writerStatus)
<1>1. /\ running = p /\ pc[p] = "wakeWriters"
      /\ pc' = [pc EXCEPT ![running] = "user"]
      /\ UNCHANGED <<messages, used, maxMessages, readerStatus>>
      /\ IF WakeupRecv /\ W # {}
         THEN \E i \in W :
                 /\ IsFirst(i, W)
                 /\ writerStatus' = [writerStatus EXCEPT ![Writers[i]] = "Running"]
                 /\ WakeFirst(Writers, i)
         ELSE UNCHANGED <<schedVars, writerStatus>>
  BY DEF WakeWriters, Goto
<1>2. running \notin waiting
  BY <1>1, RunningIsFree DEF Yields
<1>3. Fields
  BY DEF MsgInv
<1>4. CASE WakeupRecv /\ W # {}
  <2>1. PICK i \in W :
          /\ writerStatus' = [writerStatus EXCEPT ![Writers[i]] = "Running"]
          /\ WakeFirst(Writers, i)
    BY <1>1, <1>4
  <2> DEFINE x == Writers[i]
  <2>2. x \in Range(Writers) /\ writerStatus[x] = "Waiting"
    BY MessagingAssumption, RangeIsElements DEF Wakeable
  <2> HIDE DEF x
  <2>3. /\ waiting' = waiting \ {x} /\ ready' = Append(ready, x)
        /\ UNCHANGED <<running, timers, status>>
        /\ writerStatus' = [writerStatus EXCEPT ![x] = "Running"]
    BY <2>1 DEF WakeFirst, x
  <2>4. /\ writerStatus' \in [Range(Writers) -> {"Running", "Waiting"}]
        /\ readerStatus' \in [Range(Readers) -> {"Running", "Waiting"}]
    BY <1>1, <1>3, <2>2, <2>3 DEF Fields
  <2>5. x \in BlockedWriters /\ BlockedWriters' = BlockedWriters \ {x}
    BY <1>3, <2>2, <2>3 DEF Fields, BlockedWriters
  <2>6. BlockedReaders' = BlockedReaders \ {x}
    BY <1>1, <2>5 DEF MsgInv, OneReasonToWait, BlockedReaders, BlockedWriters
  <2> QED BY <1>1, <1>2, <2>3, <2>4, <2>5, <2>6, UnblockStep
<1>5. CASE ~ (WakeupRecv /\ W # {})
  <2>1. UNCHANGED <<schedVars, readerStatus, writerStatus>>
    BY <1>1, <1>5
  <2>2. /\ messages' \in Seq(1..MsgPool) /\ used' \in 0..MsgPool
        /\ maxMessages' \in {MaxMessages} \cup NewMax
    BY <1>1, <1>3 DEF Fields
  <2>3. "user" \in Labels
    BY DEF Labels
  <2> QED BY <1>1, <1>2, <2>1, <2>2, <2>3, StayStep
<1> QED BY <1>4, <1>5

-----------------------------------------------------------------------------
\* disastrOS_sleep: the clock is ready, so that somebody runs next.
LEMMA MsgSleepStep ==
  ASSUME MsgInv, NEW p \in Proc, NEW n \in 0..MaxSleep, MsgSleep(p, n)
  PROVE  MsgInv'
<1>0. Lists /\ Fields /\ Callers /\ OneReasonToWait /\ Parked # {}
  BY DEF MsgInv
<1>1. /\ running = p /\ pc[p] = "user" /\ running # Clock
      /\ TimerListAdd(running, n)
      /\ status' = [status EXCEPT ![running] = "Waiting"]
      /\ waiting' = waiting \cup {running}
      /\ Dispatch
      /\ UNCHANGED <<messages, used, maxMessages, readerStatus, writerStatus, pc>>
  BY DEF MsgSleep, Sleep, queueVars
<1>2. running \in Proc /\ running \notin Parked \cup waiting
  BY <1>1, RunningIsFree DEF Yields
<1>3. /\ ready \in Seq(Proc) /\ IsInjective(ready) /\ waiting \subseteq Proc
      /\ Proc = {running} \cup Range(ready) \cup waiting
      /\ running \notin Range(ready) /\ Range(ready) \cap waiting = {}
      /\ Clock \notin waiting /\ status \in [Proc -> ProcessStatus]
  BY <1>0 DEF Lists, TypeOK, NobodyLost, BlockedNotReady
<1>4. ready # <<>>
  <2>1. Clock \in Range(ready)
    BY <1>1, <1>3, SchedulerAssumption
  <2> QED BY <2>1 DEF Range
<1>5. /\ running' \in Range(ready) /\ ready' \in Seq(Proc)
      /\ Range(ready') = Range(ready) \ {running'} /\ IsInjective(ready')
  BY <1>1, <1>3, <1>4, DetachHead DEF Dispatch
<1>6. /\ timers' \in Seq(TimerItem) /\ TimersSorted'
      /\ \A i, j \in 1..Len(timers') : Sleeper(i)' = Sleeper(j)' => i = j
      /\ Sleepers' = Sleepers \cup {running}
  BY <1>0, <1>1, <1>2, TimersAfterSleep DEF Lists, Sleepers
<1>7. BlockedReaders' = BlockedReaders /\ BlockedWriters' = BlockedWriters
  BY <1>1 DEF BlockedReaders, BlockedWriters
<1>8. Fields'
  BY <1>0, <1>1 DEF Fields
<1>9. TypeOK'
  BY <1>1, <1>2, <1>3, <1>5, <1>6 DEF TypeOK, ProcessStatus
<1>10. TimerInv'
  BY <1>0, <1>1, <1>2, <1>6 DEF Lists, TimerInv, Sleepers
<1>11. NobodyLost' /\ BlockedNotReady'
  BY <1>1, <1>2, <1>3, <1>5 DEF NobodyLost, BlockedNotReady
<1>12. OneReasonToWait'
  BY <1>0, <1>1, <1>2, <1>6, <1>7 DEF OneReasonToWait
<1>13. Callers'
  BY <1>0, <1>1, <1>6, <1>7 DEF Callers
<1> QED BY <1>0, <1>1, <1>3, <1>8, <1>9, <1>10, <1>11, <1>12, <1>13 DEF MsgInv, Lists

\* A run begins with the parked processes on the waiting list and the queue
\* empty.
LEMMA MsgInitInv == Parked # {} /\ MsgInit => MsgInv
<1> SUFFICES ASSUME Parked # {}, MsgInit PROVE MsgInv
  OBVIOUS
<1>1. SchedInv
  BY InitInv DEF MsgInit
<1>2. /\ waiting = Parked /\ timers = <<>>
      /\ messages = <<>> /\ used = 0 /\ maxMessages = MaxMessages
      /\ readerStatus = [p \in Range(Readers) |-> "Running"]
      /\ writerStatus = [p \in Range(Writers) |-> "Running"]
      /\ pc = [p \in Proc |-> "user"]
  BY DEF MsgInit, SchedInit
<1>3. Sleepers = {}
  BY <1>2 DEF Sleepers
<1>4. BlockedReaders = {} /\ BlockedWriters = {}
  BY <1>2 DEF BlockedReaders, BlockedWriters
<1>5. Lists
  BY <1>1, TimersHold DEF SchedInv, OnePlace, Lists, NobodyLost, BlockedNotReady
<1>6. Fields
  BY <1>2, MessagingAssumption DEF Fields, Labels
<1>7. Callers
  BY <1>2, <1>3, <1>4 DEF Callers
<1>8. OneReasonToWait
  BY <1>2, <1>3, <1>4 DEF OneReasonToWait
<1> QED BY <1>5, <1>6, <1>7, <1>8 DEF MsgInv

\* Every step of the queue keeps the invariant.
LEMMA MsgNextInv == MsgInv /\ [MsgNext]_msgVars => MsgInv'
<1> SUFFICES ASSUME MsgInv, [MsgNext]_msgVars PROVE MsgInv'
  OBVIOUS
<1>1. CASE MsgTick
  BY <1>1, MsgTickStep
<1>2. ASSUME NEW p \in Proc, Continue(p) PROVE MsgInv'
  BY <1>2, SendMessageStep, YieldStep, WakeReadersStep, RecvMessageStep,
     WakeWritersStep DEF Continue
<1>3. ASSUME NEW p \in Proc, Call(p) PROVE MsgInv'
  BY <1>3, DmqCallStep, SetMaxMessagesStep, MsgSleepStep DEF Call
<1>4. CASE UNCHANGED msgVars
  <2>1. UNCHANGED <<running, ready, waiting, timers, status, messages, used,
                    maxMessages, readerStatus, writerStatus, pc>>
    BY <1>4 DEF msgVars, schedVars, queueVars
  <2>2. /\ BlockedReaders' = BlockedReaders /\ BlockedWriters' = BlockedWriters
        /\ Sleepers' = Sleepers
    BY <2>1 DEF BlockedReaders, BlockedWriters, Sleepers, Sleeper
  <2>3. Lists'
    BY <2>1 DEF MsgInv, Lists, TypeOK, TimerInv, TimersSorted, Sleeper, NobodyLost,
                BlockedNotReady
  <2>4. Fields' /\ Callers' /\ OneReasonToWait'
    BY <2>1, <2>2 DEF MsgInv, Fields, Callers, OneReasonToWait
  <2> QED BY <2>3, <2>4 DEF MsgInv
<1> QED BY <1>1, <1>2, <1>3, <1>4 DEF MsgNext

(***************************************************************************)
(* The strengthened invariant of a queue under the scheduler: each process *)
(* has one place and one reason to wait, however the steps of dmq_send,    *)
(* dmq_receive and dmq_setattr interleave with sleeps and ticks.           *)
(***************************************************************************)
THEOREM MessagingInvariant == Parked # {} /\ MsgSpec => []MsgInv
<1> QED BY MsgInitInv, MsgNextInv, PTL DEF MsgSpec

(***************************************************************************)
(* The fields of the queue and of the scheduler keep their types: a        *)
(* message is a block of the pool, and no more blocks are given out than   *)
(* the pool has.                                                           *)
(***************************************************************************)
THEOREM MessagingType == Parked # {} /\ MsgSpec => []MsgTypeOK
<1>1. MsgInv => MsgTypeOK
  BY DEF MsgInv, Lists, Fields, MsgTypeOK
<1> QED BY <1>1, MessagingInvariant, PTL

(***************************************************************************)
(* A process is on the waiting list for one reason: no wake up of a queue  *)
(* ends a disastrOS_sleep or a disastrOS_wait.                             *)
(***************************************************************************)
THEOREM OneReason == Parked # {} /\ MsgSpec => []OneReasonToWait
<1>1. MsgInv => OneReasonToWait
  BY DEF MsgInv
<1> QED BY <1>1, MessagingInvariant, PTL

(***************************************************************************)
(* No process is lost or listed twice, whatever the ticks that come        *)
(* between the waiting of a process and its disastrOS_preempt.             *)
(***************************************************************************)
THEOREM NobodyLostAlways == Parked # {} /\ MsgSpec => []NobodyLost
<1>1. MsgInv => NobodyLost
  BY DEF MsgInv, Lists
<1> QED BY <1>1, MessagingInvariant, PTL

(***************************************************************************)
(* A process that the queue blocked is on the waiting list only, provided  *)
(* that some process parks there for the whole run.  Without one the       *)
(* run two_lists shows it on two lists.                                    *)
(***************************************************************************)
THEOREM BlockedNotReadyAlways == Parked # {} /\ MsgSpec => []BlockedNotReady
<1>1. MsgInv => BlockedNotReady
  BY DEF MsgInv, Lists
<1> QED BY <1>1, MessagingInvariant, PTL

-----------------------------------------------------------------------------
(***************************************************************************)
(* Wake ups.  Those on their way to the messages are counted against the   *)
(* messages, and those on their way to the free places against these.      *)
(***************************************************************************)
MessageBound == WakersOfReaders \cup AwakeReaders
RoomBound == WakersOfWriters \cup AwakeWriters

\* What a set loses and gains is counted.
LEMMA CountChanges ==
  ASSUME NEW S \in SUBSET Proc, NEW x \in Proc
  PROVE  /\ Cardinality(S) \in Nat
         /\ x \notin S => Cardinality(S \cup {x}) = Cardinality(S) + 1
         /\ x \in S => Cardinality(S \ {x}) = Cardinality(S) - 1
         /\ \A T \in SUBSET Proc : S \subseteq T => Cardinality(S) <= Cardinality(T)
<1>1. \A T \in SUBSET Proc : IsFiniteSet(T)
  BY SchedulerAssumption, FS_Subset
<1>2. \A T \in SUBSET Proc : S \subseteq T => Cardinality(S) <= Cardinality(T)
  BY <1>1, FS_Subset
<1>3. Cardinality(S) \in Nat
  BY <1>1, FS_CardinalityType
<1>4. x \notin S => Cardinality(S \cup {x}) = Cardinality(S) + 1
  BY <1>1, FS_AddElement
<1>5. x \in S => Cardinality(S \ {x}) = Cardinality(S) - 1
  BY <1>1, FS_RemoveElement
<1> QED BY <1>2, <1>3, <1>4, <1>5

\* Who is counted, before a step and after it.
LEMMA BoundElements ==
  /\ MessageBound \in SUBSET Proc /\ RoomBound \in SUBSET Proc
  /\ MessageBound' \in SUBSET Proc /\ RoomBound' \in SUBSET Proc
  /\ \A p \in Proc : p \in MessageBound <=>
        \/ pc[p] = "wakeReaders"
        \/ /\ p \in Range(Readers) /\ readerStatus[p] # "Waiting"
           /\ pc[p] \in {"recv", "recvYield"}
  /\ \A p \in Proc : p \in MessageBound' <=>
        \/ pc'[p] = "wakeReaders"
        \/ /\ p \in Range(Readers) /\ readerStatus'[p] # "Waiting"
           /\ pc'[p] \in {"recv", "recvYield"}
  /\ \A p \in Proc : p \in RoomBound <=>
        \/ pc[p] = "wakeWriters"
        \/ /\ p \in Range(Writers) /\ writerStatus[p] # "Waiting"
           /\ pc[p] \in {"send", "sendYield"}
  /\ \A p \in Proc : p \in RoomBound' <=>
        \/ pc'[p] = "wakeWriters"
        \/ /\ p \in Range(Writers) /\ writerStatus'[p] # "Waiting"
           /\ pc'[p] \in {"send", "sendYield"}
  BY UsersAreProcs DEF MessageBound, RoomBound, WakersOfReaders, WakersOfWriters,
     AwakeReaders, AwakeWriters, BlockedReaders, BlockedWriters

\* A step of p that neither sends nor takes a message, nor wakes a reader.
LEMMA MessagesKept ==
  ASSUME MsgInv, NoLostMessage, messages' = messages, readerStatus' = readerStatus,
         \A p \in Proc : \/ pc'[p] = pc[p]
                         \/ pc[p] \notin {"wakeReaders", "recv", "recvYield"}
                         \/ pc[p] = "recvYield" /\ pc'[p] = "recv"
  PROVE  NoLostMessage'
<1>1. BlockedReaders' = BlockedReaders
  BY DEF BlockedReaders
<1>2. MessageBound \subseteq MessageBound'
  BY BoundElements
<1>3. Cardinality(MessageBound) <= Cardinality(MessageBound')
      /\ Cardinality(MessageBound) \in Nat /\ Cardinality(MessageBound') \in Nat
  BY <1>2, BoundElements, CountChanges, SchedulerAssumption
<1>4. Len(messages) \in Nat
  BY LenProperties DEF MsgInv, Fields
<1> QED BY <1>1, <1>3, <1>4 DEF NoLostMessage, MessageBound

\* The steps that leave a queue alone but for the calls under way.
LEMMA StepEffects ==
  ASSUME MsgInv
  PROVE  /\ MsgTick => UNCHANGED <<queueVars, pc>>
         /\ \A p \in Proc : Call(p) =>
               /\ UNCHANGED <<messages, used, readerStatus, writerStatus>>
               /\ maxMessages' = maxMessages \/ maxMessages' \in NewMax
               /\ \A q \in Proc : pc'[q] = pc[q] \/ pc[q] = "user"
         /\ \A p \in Proc : SendYield(p) \/ RecvYield(p) =>
               /\ UNCHANGED queueVars
               /\ \A q \in Proc : \/ pc'[q] = pc[q]
                                  \/ pc[q] = "sendYield" /\ pc'[q] = "send"
                                  \/ pc[q] = "recvYield" /\ pc'[q] = "recv"
<1>1. DOMAIN pc = Proc
  BY DEF MsgInv, Fields
<1>2. MsgTick => UNCHANGED <<queueVars, pc>>
  BY DEF MsgTick
<1>3. ASSUME NEW p \in Proc, Call(p)
      PROVE  /\ UNCHANGED <<messages, used, readerStatus, writerStatus>>
             /\ maxMessages' = maxMessages \/ maxMessages' \in NewMax
             /\ \A q \in Proc : pc'[q] = pc[q] \/ pc[q] = "user"
  BY <1>1, <1>3 DEF Call, DmqSend, DmqReceive, SetMaxMessages, MsgSleep, Goto, queueVars
<1>4. ASSUME NEW p \in Proc, SendYield(p) \/ RecvYield(p)
      PROVE  /\ UNCHANGED queueVars
             /\ \A q \in Proc : \/ pc'[q] = pc[q]
                                \/ pc[q] = "sendYield" /\ pc'[q] = "send"
                                \/ pc[q] = "recvYield" /\ pc'[q] = "recv"
  BY <1>1, <1>4 DEF SendYield, RecvYield, Goto
<1> QED BY <1>2, <1>3, <1>4

\* A send keeps the message count: the sender owes the wake up.
LEMMA NoLostMessageSend ==
  ASSUME MsgInv, NoLostMessage, NEW p \in Proc, SendMessage(p)
  PROVE  NoLostMessage'
<1>1. DOMAIN pc = Proc /\ Len(messages) \in Nat /\ messages \in Seq(1..MsgPool)
  BY LenProperties DEF MsgInv, Fields
<1>2. pc[p] = "send" /\ readerStatus' = readerStatus
  BY DEF SendMessage
<1>3. CASE Enqueue(p)
  <2>1. Len(messages') = Len(messages) + 1
    BY <1>1, <1>3 DEF Enqueue
  <2>2. p \notin MessageBound
    BY <1>2, BoundElements
  <2>3. MessageBound' = MessageBound \cup {p}
    BY <1>1, <1>2, <1>3, BoundElements DEF Enqueue, Goto
  <2>4. Cardinality(MessageBound') = Cardinality(MessageBound) + 1
        /\ Cardinality(MessageBound) \in Nat
    BY <2>2, <2>3, BoundElements, CountChanges
  <2>5. BlockedReaders' = BlockedReaders
    BY <1>2 DEF BlockedReaders
  <2> QED BY <1>1, <2>1, <2>4, <2>5 DEF NoLostMessage, MessageBound
<1>4. CASE GiveUp(p) \/ WaitForRoom(p)
  BY <1>1, <1>2, <1>4, MessagesKept DEF GiveUp, WaitForRoom, Goto
<1> QED BY <1>3, <1>4 DEF SendMessage

\* A receive keeps the message count: who blocks found no message.
LEMMA NoLostMessageReceive ==
  ASSUME MsgInv, NoLostMessage, NEW p \in Proc, RecvMessage(p)
  PROVE  NoLostMessage'
<1>1. /\ DOMAIN pc = Proc /\ Len(messages) \in Nat /\ messages \in Seq(1..MsgPool)
      /\ p \in Range(Readers) /\ pc[p] = "recv" /\ running = p
  BY LenProperties DEF MsgInv, Fields, Callers, RecvMessage
<1>2. CASE Dequeue(p)
  <2>1. Len(messages') = Len(messages) - 1 /\ readerStatus' = readerStatus
    BY <1>1, <1>2 DEF Dequeue
  <2>2. p \in MessageBound
    <3>1. p \notin BlockedReaders
      BY <1>1, RunningIsFree DEF MsgInv, OneReasonToWait, Yields
    <3> QED BY <1>1, <3>1, BoundElements DEF BlockedReaders
  <2>3. MessageBound' = MessageBound \ {p}
    BY <1>1, <1>2, <2>1, BoundElements DEF Dequeue, Goto
  <2>4. Cardinality(MessageBound') = Cardinality(MessageBound) - 1
        /\ Cardinality(MessageBound) \in Nat
    BY <2>2, <2>3, BoundElements, CountChanges
  <2>5. BlockedReaders' = BlockedReaders
    BY <2>1 DEF BlockedReaders
  <2> QED BY <1>1, <2>1, <2>4, <2>5 DEF NoLostMessage, MessageBound
<1>3. CASE WaitForMessage(p)
  <2>1. Len(messages') = 0
    BY <1>3 DEF WaitForMessage
  <2>2. Cardinality(MessageBound') \in Nat
    BY BoundElements, CountChanges, SchedulerAssumption
  <2> QED BY <2>1, <2>2 DEF NoLostMessage, MessageBound
<1> QED BY <1>2, <1>3 DEF RecvMessage

\* The reader woken takes the place of the writer that woke it.
LEMMA NoLostMessageWake ==
  ASSUME MsgInv, NoLostMessage, NEW p \in Proc, WakeReaders(p)
  PROVE  NoLostMessage'
<1> DEFINE W == Wakeable(Readers, readerStatus)
<1>1. /\ running = p /\ pc[p] = "wakeReaders" /\ pc' = [pc EXCEPT ![p] = "user"]
      /\ messages' = messages /\ Len(messages) \in Nat
      /\ pc \in [Proc -> Labels]
      /\ readerStatus \in [Range(Readers) -> {"Running", "Waiting"}]
  BY LenProperties DEF MsgInv, Fields, WakeReaders, Goto
<1>2. CASE WakeupSend /\ W # {}
  <2>1. PICK i \in W : readerStatus' = [readerStatus EXCEPT ![Readers[i]] = "Running"]
    BY <1>2 DEF WakeReaders
  <2> DEFINE x == Readers[i]
  <2>2. x \in BlockedReaders /\ x \in Range(Readers)
    BY MessagingAssumption, RangeIsElements DEF Wakeable, BlockedReaders
  <2> HIDE DEF x
  <2>3. readerStatus' = [readerStatus EXCEPT ![x] = "Running"]
    BY <2>1 DEF x
  <2>4. /\ x \in Proc /\ readerStatus[x] = "Waiting" /\ x # p
        /\ pc[x] \in {"recv", "recvYield"}
    BY <1>1, <2>2, UsersAreProcs DEF MsgInv, Callers, BlockedReaders
  <2>5. p \in MessageBound /\ x \notin MessageBound
    BY <1>1, <2>4, BoundElements
  <2>6. MessageBound' = (MessageBound \ {p}) \cup {x}
    BY <1>1, <2>2, <2>3, <2>4, BoundElements
  <2>7. Cardinality(MessageBound') = Cardinality(MessageBound)
        /\ Cardinality(MessageBound) \in Nat
    <3>1. /\ Cardinality(MessageBound) \in Nat
          /\ Cardinality(MessageBound \ {p}) = Cardinality(MessageBound) - 1
      BY <2>5, BoundElements, CountChanges
    <3>2. MessageBound \ {p} \in SUBSET Proc /\ x \notin MessageBound \ {p}
      BY <2>5, BoundElements
    <3>3. Cardinality((MessageBound \ {p}) \cup {x})
              = Cardinality(MessageBound \ {p}) + 1
      BY <2>4, <3>2, CountChanges
    <3> QED BY <2>6, <3>1, <3>3
  <2> QED BY <1>1, <2>2, <2>7 DEF NoLostMessage, MessageBound
<1>3. CASE ~ (WakeupSend /\ W # {})
  <2>1. readerStatus' = readerStatus
    BY <1>3 DEF WakeReaders
  <2>2. BlockedReaders' = BlockedReaders
    BY <2>1 DEF BlockedReaders
  <2>3. ASSUME NEW x \in BlockedReaders PROVE Len(messages) = 0
    <3>1. PICK i \in 1..Len(Readers) : Readers[i] = x
      BY MessagingAssumption, RangeIsElements DEF BlockedReaders
    <3>2. i \in W
      BY <3>1 DEF Wakeable, BlockedReaders, MsgInv, OneReasonToWait
    <3> QED BY <1>1, <1>3, <3>2 DEF WakeupSend
  <2>4. Cardinality(MessageBound') \in Nat
    BY BoundElements, CountChanges, SchedulerAssumption
  <2> QED BY <1>1, <2>2, <2>3, <2>4 DEF NoLostMessage, MessageBound
<1> QED BY <1>2, <1>3

\* Every step keeps the message count.
LEMMA NoLostMessageStep == MsgInv /\ NoLostMessage /\ [MsgNext]_msgVars => NoLostMessage'
<1> SUFFICES ASSUME MsgInv, NoLostMessage, [MsgNext]_msgVars PROVE NoLostMessage'
  OBVIOUS
<1>1. CASE MsgTick
  BY <1>1, StepEffects, MessagesKept DEF queueVars
<1>2. ASSUME NEW p \in Proc, Call(p) PROVE NoLostMessage'
  BY <1>2, StepEffects, MessagesKept
<1>3. ASSUME NEW p \in Proc, SendYield(p) \/ RecvYield(p) PROVE NoLostMessage'
  BY <1>3, StepEffects, MessagesKept DEF queueVars
<1>4. ASSUME NEW p \in Proc, WakeWriters(p) PROVE NoLostMessage'
  <2>1. DOMAIN pc = Proc
    BY DEF MsgInv, Fields
  <2> QED BY <1>4, <2>1, MessagesKept DEF WakeWriters, Goto
<1>5. CASE UNCHANGED msgVars
  BY <1>5, MessagesKept DEF msgVars, queueVars
<1> QED BY <1>1, <1>2, <1>3, <1>4, <1>5, NoLostMessageSend, NoLostMessageReceive,
           NoLostMessageWake DEF MsgNext, Continue

(***************************************************************************)
(* No message waits for a blocked reader without a process on its way to   *)
(* it, although a message and its wake up are two system calls with ticks  *)
(* and other senders between them.                                         *)
(***************************************************************************)
THEOREM NoLostMessageAlways == Parked # {} /\ MsgSpec => []NoLostMessage
<1>1. MsgInit => NoLostMessage
  BY DEF MsgInit, NoLostMessage, BlockedReaders
<1> QED BY <1>1, MessagingInvariant, NoLostMessageStep, PTL DEF MsgSpec

-----------------------------------------------------------------------------
(***************************************************************************)
(* The free places, while nobody raises max_messages: a higher limit gives *)
(* room that nobody is told of.                                            *)
(***************************************************************************)
NeverRaised == \A n \in NewMax : \A m \in NewMax \cup {MaxMessages} : n <= m

Room == maxMessages - Len(messages)

RoomInv == NoLostRoom /\ NeverRaised

\* The values that Room is made of.
LEMMA RoomType ==
  ASSUME MsgInv, MsgInv'
  PROVE  /\ maxMessages \in Nat /\ Len(messages) \in Nat
         /\ maxMessages' \in Nat /\ Len(messages') \in Nat
         /\ Cardinality(RoomBound) \in Nat /\ Cardinality(RoomBound') \in Nat
<1>1. /\ maxMessages \in Nat /\ messages \in Seq(1..MsgPool)
      /\ maxMessages' \in Nat /\ messages' \in Seq(1..MsgPool)
  BY MessagingAssumption DEF MsgInv, Fields
<1>2. Len(messages) \in Nat /\ Len(messages') \in Nat
  BY <1>1, LenProperties
<1>3. Cardinality(RoomBound) \in Nat /\ Cardinality(RoomBound') \in Nat
  BY BoundElements, CountChanges, SchedulerAssumption
<1> QED BY <1>1, <1>2, <1>3

\* A step that neither sends nor takes a message, nor wakes a writer.
LEMMA RoomKept ==
  ASSUME MsgInv, MsgInv', RoomInv, messages' = messages, writerStatus' = writerStatus,
         maxMessages' = maxMessages \/ maxMessages' \in NewMax,
         \A p \in Proc : \/ pc'[p] = pc[p]
                         \/ pc[p] \notin {"wakeWriters", "send", "sendYield"}
                         \/ pc[p] = "sendYield" /\ pc'[p] = "send"
                         \/ pc[p] = "send" /\ pc'[p] = "sendYield"
  PROVE  NoLostRoom'
<1>1. BlockedWriters' = BlockedWriters
  BY DEF BlockedWriters
<1>2. RoomBound \subseteq RoomBound'
  BY BoundElements
<1>3. Cardinality(RoomBound) <= Cardinality(RoomBound')
  BY <1>2, BoundElements, CountChanges, SchedulerAssumption
<1>4. maxMessages' <= maxMessages
  BY RoomType DEF RoomInv, NeverRaised, MsgInv, Fields
<1> QED BY <1>1, <1>3, <1>4, RoomType DEF RoomInv, NoLostRoom, RoomBound

\* A receive keeps the room count: the receiver owes the wake up.
LEMMA NoLostRoomReceive ==
  ASSUME MsgInv, MsgInv', RoomInv, NEW p \in Proc, RecvMessage(p)
  PROVE  NoLostRoom'
<1>1. /\ DOMAIN pc = Proc /\ pc[p] = "recv" /\ messages \in Seq(1..MsgPool)
      /\ UNCHANGED <<maxMessages, writerStatus>>
  BY DEF MsgInv, Fields, RecvMessage
<1>2. CASE Dequeue(p)
  <2>1. Len(messages') = Len(messages) - 1
    BY <1>1, <1>2 DEF Dequeue
  <2>2. p \notin RoomBound
    BY <1>1, BoundElements
  <2>3. RoomBound' = RoomBound \cup {p}
    BY <1>1, <1>2, BoundElements DEF Dequeue, Goto
  <2>4. Cardinality(RoomBound') = Cardinality(RoomBound) + 1
    BY <2>2, <2>3, BoundElements, CountChanges
  <2>5. BlockedWriters' = BlockedWriters
    BY <1>1 DEF BlockedWriters
  <2> QED BY <1>1, <2>1, <2>4, <2>5, RoomType DEF RoomInv, NoLostRoom, RoomBound
<1>3. CASE WaitForMessage(p)
  BY <1>1, <1>3, RoomKept DEF WaitForMessage, Goto
<1> QED BY <1>2, <1>3 DEF RecvMessage

\* A send keeps the room count: who blocks found no place.
LEMMA NoLostRoomSend ==
  ASSUME MsgInv, MsgInv', RoomInv, NEW p \in Proc, SendMessage(p)
  PROVE  NoLostRoom'
<1>1. /\ DOMAIN pc = Proc /\ messages \in Seq(1..MsgPool)
      /\ p \in Range(Writers) /\ pc[p] = "send" /\ running = p
      /\ maxMessages' = maxMessages
  BY DEF MsgInv, Fields, Callers, SendMessage
<1>2. CASE Enqueue(p)
  <2>1. Len(messages') = Len(messages) + 1 /\ writerStatus' = writerStatus
    BY <1>1, <1>2 DEF Enqueue
  <2>2. p \in RoomBound
    <3>1. p \notin BlockedWriters
      BY <1>1, RunningIsFree DEF MsgInv, OneReasonToWait, Yields
    <3> QED BY <1>1, <3>1, BoundElements DEF BlockedWriters
  <2>3. RoomBound' = RoomBound \ {p}
    BY <1>1, <1>2, <2>1, BoundElements DEF Enqueue, Goto
  <2>4. Cardinality(RoomBound') = Cardinality(RoomBound) - 1
    BY <2>2, <2>3, BoundElements, CountChanges
  <2>5. BlockedWriters' = BlockedWriters
    BY <2>1 DEF BlockedWriters
  <2> QED BY <1>1, <2>1, <2>4, <2>5, RoomType DEF RoomInv, NoLostRoom, RoomBound
<1>3. CASE GiveUp(p)
  BY <1>1, <1>3, RoomKept DEF GiveUp, Goto
<1>4. CASE WaitForRoom(p)
  <2>1. Len(messages') >= maxMessages'
    BY <1>1, <1>4 DEF WaitForRoom
  <2> QED BY <2>1, RoomType DEF NoLostRoom, RoomBound
<1> QED BY <1>2, <1>3, <1>4 DEF SendMessage

\* The writer woken takes the place of the reader that woke it.
LEMMA NoLostRoomWake ==
  ASSUME MsgInv, MsgInv', RoomInv, NEW p \in Proc, WakeWriters(p)
  PROVE  NoLostRoom'
<1> DEFINE W == Wakeable(Writers, writerStatus)
<1>1. /\ running = p /\ pc[p] = "wakeWriters" /\ pc' = [pc EXCEPT ![p] = "user"]
      /\ UNCHANGED <<messages, maxMessages>>
      /\ pc \in [Proc -> Labels]
      /\ writerStatus \in [Range(Writers) -> {"Running", "Waiting"}]
  BY DEF MsgInv, Fields, WakeWriters, Goto
<1>2. CASE WakeupRecv /\ W # {}
  <2>1. PICK i \in W : writerStatus' = [writerStatus EXCEPT ![Writers[i]] = "Running"]
    BY <1>2 DEF WakeWriters
  <2> DEFINE x == Writers[i]
  <2>2. x \in BlockedWriters /\ x \in Range(Writers)
    BY MessagingAssumption, RangeIsElements DEF Wakeable, BlockedWriters
  <2> HIDE DEF x
  <2>3. writerStatus' = [writerStatus EXCEPT ![x] = "Running"]
    BY <2>1 DEF x
  <2>4. /\ x \in Proc /\ writerStatus[x] = "Waiting" /\ x # p
        /\ pc[x] \in {"send", "sendYield"}
    BY <1>1, <2>2, UsersAreProcs DEF MsgInv, Callers, BlockedWriters
  <2>5. p \in RoomBound /\ x \notin RoomBound
    BY <1>1, <2>4, BoundElements
  <2>6. RoomBound' = (RoomBound \ {p}) \cup {x}
    BY <1>1, <2>2, <2>3, <2>4, BoundElements
  <2>7. Cardinality(RoomBound') = Cardinality(RoomBound)
    <3>1. /\ Cardinality(RoomBound) \in Nat
          /\ Cardinality(RoomBound \ {p}) = Cardinality(RoomBound) - 1
      BY <2>5, BoundElements, CountChanges
    <3>2. RoomBound \ {p} \in SUBSET Proc /\ x \notin RoomBound \ {p}
      BY <2>5, BoundElements
    <3>3. Cardinality((RoomBound \ {p}) \cup {x}) = Cardinality(RoomBound \ {p}) + 1
      BY <2>4, <3>2, CountChanges
    <3> QED BY <2>6, <3>1, <3>3
  <2> QED BY <1>1, <2>2, <2>7, RoomType DEF RoomInv, NoLostRoom, RoomBound
<1>3. CASE ~ (WakeupRecv /\ W # {})
  <2>1. writerStatus' = writerStatus
    BY <1>3 DEF WakeWriters
  <2>2. BlockedWriters' = BlockedWriters
    BY <2>1 DEF BlockedWriters
  <2>3. ASSUME NEW x \in BlockedWriters PROVE Len(messages) >= maxMessages
    <3>1. PICK i \in 1..Len(Writers) : Writers[i] = x
      BY MessagingAssumption, RangeIsElements DEF BlockedWriters
    <3>2. i \in W
      BY <3>1 DEF Wakeable, BlockedWriters, MsgInv, OneReasonToWait
    <3> QED BY <1>3, <3>2, RoomType DEF WakeupRecv
  <2> QED BY <1>1, <2>2, <2>3, RoomType DEF NoLostRoom, RoomBound
<1> QED BY <1>2, <1>3

\* Every step keeps the room count.
LEMMA NoLostRoomStep == MsgInv /\ MsgInv' /\ RoomInv /\ [MsgNext]_msgVars => RoomInv'
<1> SUFFICES ASSUME MsgInv, MsgInv', RoomInv, [MsgNext]_msgVars PROVE NoLostRoom'
  BY DEF RoomInv, NeverRaised
<1>1. CASE MsgTick
  BY <1>1, StepEffects, RoomKept DEF queueVars
<1>2. ASSUME NEW p \in Proc, Call(p) PROVE NoLostRoom'
  BY <1>2, StepEffects, RoomKept
<1>3. ASSUME NEW p \in Proc, SendYield(p) \/ RecvYield(p) PROVE NoLostRoom'
  BY <1>3, StepEffects, RoomKept DEF queueVars
<1>4. ASSUME NEW p \in Proc, WakeReaders(p) PROVE NoLostRoom'
  <2>1. DOMAIN pc = Proc
    BY DEF MsgInv, Fields
  <2> QED BY <1>4, <2>1, RoomKept DEF WakeReaders, Goto
<1>5. CASE UNCHANGED msgVars
  BY <1>5, RoomKept DEF msgVars, queueVars
<1> QED BY <1>1, <1>2, <1>3, <1>4, <1>5, NoLostRoomSend, NoLostRoomReceive,
           NoLostRoomWake DEF MsgNext, Continue

(***************************************************************************)
(* No free place waits for a blocked writer without a process on its way   *)
(* to it, as long as dmq_setattr does not raise max_messages.              *)
(***************************************************************************)
THEOREM NoLostRoomAlways == Parked # {} /\ NeverRaised /\ MsgSpec => []NoLostRoom
<1>1. MsgInit => NoLostRoom
  BY DEF MsgInit, NoLostRoom, BlockedWriters
<1>2. MsgInit /\ NeverRaised => RoomInv
  BY <1>1 DEF RoomInv
<1>3. RoomInv => NoLostRoom
  BY DEF RoomInv
<1> QED BY <1>2, <1>3, MessagingInvariant, NoLostRoomStep, PTL DEF MsgSpec

-----------------------------------------------------------------------------
(***************************************************************************)
(* The queue and the Mailbox.                                              *)
(***************************************************************************)
CallType == pc \in [Proc -> Labels] /\ used \in Nat

\* pc moves from label to label, and blocks are counted.
LEMMA CallTypeStep == CallType /\ [MsgNext]_msgVars => CallType'
<1> SUFFICES ASSUME CallType, [MsgNext]_msgVars PROVE CallType'
  OBVIOUS
<1>1. ASSUME NEW p \in Proc, NEW label \in Labels, Goto(p, label),
             used' = used \/ used' = used + 1
      PROVE  CallType'
  BY <1>1 DEF CallType, Goto
<1>2. CASE MsgTick \/ UNCHANGED msgVars
  BY <1>2 DEF MsgTick, msgVars, queueVars, CallType
<1>3. ASSUME NEW p \in Proc, Continue(p) PROVE CallType'
  BY <1>1, <1>3 DEF Continue, SendMessage, Enqueue, GiveUp, WaitForRoom, SendYield,
     WakeReaders, RecvMessage, Dequeue, WaitForMessage, RecvYield, WakeWriters, Labels,
     queueVars
<1>4. ASSUME NEW p \in Proc, Call(p) PROVE CallType'
  BY <1>1, <1>4 DEF Call, DmqSend, DmqReceive, SetMaxMessages, MsgSleep, Labels,
     queueVars, CallType
<1> QED BY <1>2, <1>3, <1>4 DEF MsgNext

\* What the mapping makes of a step of pc.
LEMMA CallMapped ==
  ASSUME CallType, NEW p \in Proc, NEW label \in Labels, Goto(p, label)
  PROVE  [q \in Proc |-> CallOf(pc'[q])]
             = [[q \in Proc |-> CallOf(pc[q])] EXCEPT ![p] = CallOf(label)]
  BY DEF CallType, Goto

\* internal_sendMessage is a Deposit, or a stutter when it blocks.
LEMMA SendIsDeposit ==
  ASSUME CallType, NEW p \in Proc, SendMessage(p)
  PROVE  [Box!Next]_(Box!vars)
<1>1. pc[p] = "send" /\ maxMessages' = maxMessages
  BY DEF SendMessage
<1>2. CASE Enqueue(p)
  <2>1. /\ Goto(p, "wakeReaders") /\ "wakeReaders" \in Labels
        /\ Len(messages) < maxMessages /\ used < MsgPool
        /\ used' = used + 1 /\ messages' = Append(messages, used')
    BY <1>2, MessagingAssumption DEF Enqueue, OutOfBlocks, Labels, CallType
  <2>2. CallOf(pc[p]) = "sending" /\ CallOf("wakeReaders") = "sent"
    BY <1>1 DEF CallOf
  <2>3. Box!Deposit(p)
    BY <1>1, <2>1, <2>2, CallMapped DEF Box!Deposit, Box!Turn
  <2> QED BY <2>3 DEF Box!Next
<1>3. CASE GiveUp(p) \/ WaitForRoom(p)
  <2>1. Goto(p, "sendYield") /\ "sendYield" \in Labels /\ UNCHANGED <<messages, used>>
    BY <1>3 DEF GiveUp, WaitForRoom, Labels
  <2>2. CallOf(pc[p]) = CallOf("sendYield")
    BY <1>1 DEF CallOf
  <2>3. UNCHANGED Box!vars
    BY <1>1, <2>1, <2>2, CallMapped DEF Box!vars
  <2> QED BY <2>3
<1> QED BY <1>2, <1>3 DEF SendMessage

\* internal_recvMessage is a Take, or a stutter when it blocks.
LEMMA ReceiveIsTake ==
  ASSUME CallType, NEW p \in Proc, RecvMessage(p)
  PROVE  [Box!Next]_(Box!vars)
<1>1. pc[p] = "recv" /\ UNCHANGED <<used, maxMessages>>
  BY DEF RecvMessage
<1>2. CASE Dequeue(p)
  <2>1. /\ Goto(p, "wakeWriters") /\ "wakeWriters" \in Labels
        /\ messages # <<>> /\ messages' = Tail(messages)
    BY <1>2 DEF Dequeue, Labels
  <2>2. CallOf(pc[p]) = "receiving" /\ CallOf("wakeWriters") = "received"
    BY <1>1 DEF CallOf
  <2>3. Box!Take(p)
    BY <1>1, <2>1, <2>2, CallMapped DEF Box!Take, Box!Turn
  <2> QED BY <2>3 DEF Box!Next
<1>3. CASE WaitForMessage(p)
  <2>1. Goto(p, "recvYield") /\ "recvYield" \in Labels /\ messages' = messages
    BY <1>3 DEF WaitForMessage, Labels
  <2>2. CallOf(pc[p]) = CallOf("recvYield")
    BY <1>1 DEF CallOf
  <2>3. UNCHANGED Box!vars
    BY <1>1, <2>1, <2>2, CallMapped DEF Box!vars
  <2> QED BY <2>3
<1> QED BY <1>2, <1>3 DEF RecvMessage

\* The preempt behind a call that blocked is a stutter of the Mailbox.
LEMMA YieldIsStutter ==
  ASSUME CallType, NEW p \in Proc, SendYield(p) \/ RecvYield(p)
  PROVE  UNCHANGED Box!vars
<1>1. PICK from \in Labels, to \in Labels :
        pc[p] = from /\ Goto(p, to) /\ CallOf(from) = CallOf(to)
  BY DEF SendYield, RecvYield, Labels, CallOf
<1>2. UNCHANGED <<messages, used, maxMessages>>
  BY DEF SendYield, RecvYield, queueVars
<1> QED BY <1>1, <1>2, CallMapped DEF Box!vars

\* The wake up that ends a call is its Return.
LEMMA WakeIsReturn ==
  ASSUME CallType, NEW p \in Proc, WakeReaders(p) \/ WakeWriters(p)
  PROVE  Box!Return(p)
<1>1. /\ pc[p] \in {"wakeReaders", "wakeWriters"}
      /\ Goto(p, "user") /\ "user" \in Labels
      /\ UNCHANGED <<messages, used, maxMessages>>
  BY DEF WakeReaders, WakeWriters, Labels
<1>2. CallOf(pc[p]) \in {"sent", "received"} /\ CallOf("user") = "idle"
  BY <1>1 DEF CallOf
<1> QED BY <1>1, <1>2, CallMapped DEF Box!Return, Box!Turn

\* Entering dmq_send or dmq_receive is a Begin.
LEMMA CallIsBegin ==
  ASSUME CallType, NEW p \in Proc, Call(p)
  PROVE  [Box!Next]_(Box!vars)
<1>1. CASE DmqSend(p) \/ DmqReceive(p)
  <2>1. PICK to \in {"send", "recv"} : Goto(p, to)
    BY <1>1 DEF DmqSend, DmqReceive
  <2>2. pc[p] = "user" /\ UNCHANGED <<messages, used, maxMessages>>
    BY <1>1 DEF DmqSend, DmqReceive, queueVars
  <2>3. /\ CallOf(pc[p]) = "idle" /\ CallOf(to) \in {"sending", "receiving"}
        /\ to \in Labels
    BY <2>2 DEF CallOf, Labels
  <2>4. Box!Begin(p)
    BY <2>1, <2>2, <2>3, CallMapped DEF Box!Begin, Box!Turn
  <2> QED BY <2>4 DEF Box!Next
<1>2. ASSUME NEW n \in NewMax, SetMaxMessages(p, n) PROVE Box!Resize
  BY <1>2 DEF SetMaxMessages, Box!Resize
<1>3. ASSUME NEW n \in 0..MaxSleep, MsgSleep(p, n) PROVE UNCHANGED Box!vars
  BY <1>3 DEF MsgSleep, queueVars, Box!vars
<1> QED BY <1>1, <1>2, <1>3 DEF Call, Box!Next

\* Every step of the queue is a step of the Mailbox or a stutter.
LEMMA MsgNextIsBoxNext == CallType /\ [MsgNext]_msgVars => [Box!Next]_(Box!vars)
<1> SUFFICES ASSUME CallType, [MsgNext]_msgVars PROVE [Box!Next]_(Box!vars)
  OBVIOUS
<1>1. CASE MsgTick \/ UNCHANGED msgVars
  BY <1>1 DEF MsgTick, msgVars, queueVars, Box!vars
<1>2. ASSUME NEW p \in Proc, Continue(p) PROVE [Box!Next]_(Box!vars)
  BY <1>2, SendIsDeposit, ReceiveIsTake, YieldIsStutter, WakeIsReturn
     DEF Continue, Box!Next
<1>3. ASSUME NEW p \in Proc, Call(p) PROVE [Box!Next]_(Box!vars)
  BY <1>3, CallIsBegin
<1> QED BY <1>1, <1>2, <1>3 DEF MsgNext

(***************************************************************************)
(* Whatever blocks, ticks and retries a call goes through, it deposits or  *)
(* takes its message once and in order, before it returns.  This needs no  *)
(* parked process: two lists lose processes, but no message.               *)
(***************************************************************************)
THEOREM MessagingKeepsMailbox == MsgSpec => Box!Init /\ [][Box!Next]_(Box!vars)
<1>1. MsgInit => CallType /\ Box!Init
  BY DEF MsgInit, CallType, Labels, Box!Init, CallOf
<1> QED BY <1>1, CallTypeStep, MsgNextIsBoxNext, PTL DEF MsgSpec

=============================================================================
