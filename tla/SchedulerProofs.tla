-------------------------- MODULE SchedulerProofs --------------------------
(***************************************************************************)
(* Proofs about the scheduler, for any finite set of processes and any     *)
(* longest sleep: its safety invariants, and that its steps are steps of   *)
(* the Processor.                                                          *)
(***************************************************************************)
EXTENDS Scheduler, ListLemmas

-----------------------------------------------------------------------------
(***************************************************************************)
(* The inductive invariant.  OnePlace alone is not inductive: that a       *)
(* process whose timer elapses comes from the waiting list needs           *)
(* SleepersHaveOneTimer, and that a sleeper has a successor needs the      *)
(* clock, which never waits.                                               *)
(***************************************************************************)
SchedInv ==
    /\ TypeOK
    /\ OnePlace
    /\ SleepersHaveOneTimer
    /\ TimersSorted
    /\ StatusAgrees
    /\ Parked \subseteq waiting
    /\ Clock \notin waiting

\* The part of it that is about the timer list alone.
TimerInv ==
    /\ timers \in Seq(TimerItem)
    /\ \A i, j \in 1..Len(timers) : Sleeper(i) = Sleeper(j) => i = j
    /\ {Sleeper(i) : i \in 1..Len(timers)} \subseteq waiting \ Parked
    /\ TimersSorted

\* The invariant of the scheduler gives what its timers need.
LEMMA TimersHold == SchedInv => TimerInv
  BY DEF SchedInv, TypeOK, SleepersHaveOneTimer, TimerInv

\* The timer list as internal_schedule reads it: the items that are there,
\* sorted, with any number of ticks left up to MaxSleep.
ReadAs(ts) ==
    /\ ts \in Seq([pcb : Proc, left : Int])
    /\ Len(ts) = Len(timers)
    /\ \A i \in 1..Len(ts) : ts[i].pcb = timers[i].pcb /\ ts[i].left <= MaxSleep
    /\ \A i, j \in 1..Len(ts) : i < j => ts[i].left <= ts[j].left

\* The processes of the first k items of the list.
Woken(ts, k) == [i \in 1..k |-> ts[i].pcb]

\* The processes woken are sleepers, each once.
LEMMA WokenAreSleepers ==
  ASSUME TimerInv, NEW ts, ReadAs(ts), NEW k \in 0..Len(ts)
  PROVE  /\ Woken(ts, k) \in Seq(Proc)
         /\ Len(Woken(ts, k)) = k
         /\ IsInjective(Woken(ts, k))
         /\ Range(Woken(ts, k)) = {Sleeper(i) : i \in 1..k}
         /\ Range(Woken(ts, k)) \subseteq waiting \ Parked
<1> DEFINE w == Woken(ts, k)
<1>1. Len(ts) \in Nat /\ Len(ts) = Len(timers) /\ k \in Nat /\ k <= Len(ts)
  BY LenProperties DEF ReadAs
<1>2. \A i \in 1..k : ts[i].pcb = Sleeper(i) /\ Sleeper(i) \in Proc
  <2>1. \A i \in 1..Len(timers) : timers[i] \in TimerItem
    BY ElementOfSeq DEF TimerInv
  <2> QED BY <1>1, <2>1 DEF ReadAs, Sleeper, TimerItem
<1>3. w \in [1..k -> Proc] /\ \A i \in 1..k : w[i] = Sleeper(i)
  BY <1>2 DEF Woken
<1>4. w \in Seq(Proc) /\ Len(w) = k /\ DOMAIN w = 1..k
  BY <1>1, <1>3
<1> HIDE DEF w
<1>5. IsInjective(w)
  BY <1>1, <1>3, <1>4 DEF IsInjective, TimerInv
<1>6. Range(w) = {Sleeper(i) : i \in 1..k}
  BY <1>3, <1>4 DEF Range
<1>7. Range(w) \subseteq waiting \ Parked
  BY <1>1, <1>6 DEF TimerInv
<1> QED BY <1>4, <1>5, <1>6, <1>7 DEF w

\* What internal_schedule leaves of the timer list.
LEMMA TimersAfterSchedule ==
  ASSUME TimerInv, NEW ts, ReadAs(ts), NEW k \in 0..Len(ts),
         DueUpTo(ts, 0, k), timers' = AfterCurrent(ts, k)
  PROVE  /\ timers' \in Seq(TimerItem)
         /\ Len(timers') = Len(timers) - k
         /\ \A i \in 1..Len(timers') : /\ timers'[i].pcb = Sleeper(k + i)
                                       /\ timers'[i].left = ts[k + i].left
         /\ TimersSorted'
         /\ \A i, j \in 1..Len(timers') : Sleeper(i)' = Sleeper(j)' => i = j
         /\ {Sleeper(i) : i \in 1..Len(timers)}
                = {Sleeper(i) : i \in 1..k} \cup {Sleeper(i)' : i \in 1..Len(timers')}
         /\ {Sleeper(i) : i \in 1..k} \cap {Sleeper(i)' : i \in 1..Len(timers')} = {}
<1>1. Len(ts) \in Nat /\ Len(ts) = Len(timers) /\ k \in Nat /\ k <= Len(ts)
  BY LenProperties DEF ReadAs
<1>2. \A i \in 1..Len(ts) : ts[i] \in [pcb : Proc, left : Int]
  BY ElementOfSeq DEF ReadAs
<1>3. /\ timers' \in Seq([pcb : Proc, left : Int])
      /\ Len(timers') = Len(ts) - k
      /\ \A i \in 1..Len(ts) - k : timers'[i] = ts[k + i]
  <2>1. \A i \in (k + 1)..Len(ts) : ts[i] \in [pcb : Proc, left : Int]
    BY <1>1, <1>2
  <2>2. k + 1 \in Int /\ Len(ts) \in Int
    BY <1>1
  <2>3. /\ SubSeq(ts, k + 1, Len(ts)) \in Seq([pcb : Proc, left : Int])
        /\ Len(SubSeq(ts, k + 1, Len(ts)))
             = IF k + 1 <= Len(ts) THEN Len(ts) - (k + 1) + 1 ELSE 0
        /\ \A i \in 1..(Len(ts) - (k + 1) + 1) :
               SubSeq(ts, k + 1, Len(ts))[i] = ts[(k + 1) + i - 1]
    BY <2>1, <2>2, SubSeqProperties
  <2> QED BY <1>1, <2>3 DEF AfterCurrent
<1>4. \A i \in 1..Len(timers') : /\ k + i \in 1..Len(ts)
                                 /\ timers'[i] = ts[k + i]
                                 /\ timers'[i].pcb = Sleeper(k + i)
                                 /\ Sleeper(i)' = Sleeper(k + i)
  <2>1. \A i \in 1..Len(timers') : k + i \in 1..Len(ts)
    BY <1>1, <1>3
  <2> QED BY <1>1, <1>3, <2>1 DEF Sleeper, ReadAs
<1>5. \A i \in 1..Len(timers') : timers'[i].left \in 1..MaxSleep
  <2> SUFFICES ASSUME NEW i \in 1..Len(timers')
               PROVE  ts[k + i].left \in 1..MaxSleep
    BY <1>4
  <2>0. k + 1 \in 1..Len(ts) /\ k + i \in 1..Len(ts)
    BY <1>1, <1>3
  <2>1. k + 1 \in 1..Len(ts) /\ k + i \in 1..Len(ts) /\ ts[k + 1].left \in Int
        /\ ts[k + i].left \in Int
    BY <1>2, <2>0
  <2>2. ts[k + 1].left > 0
    BY <1>1, <2>1 DEF DueUpTo
  <2>3. ts[k + 1].left <= ts[k + i].left
    <3>1. \A a, b \in 1..Len(ts) : a < b => ts[a].left <= ts[b].left
      BY DEF ReadAs
    <3>2. k + 1 = k + i \/ k + 1 < k + i
      BY <1>1
    <3> QED BY <2>1, <3>1, <3>2
  <2>4. ts[k + i].left <= MaxSleep
    BY <2>1 DEF ReadAs
  <2> QED BY <2>1, <2>2, <2>3, <2>4, SchedulerAssumption
<1>6. timers' \in Seq(TimerItem)
  <2>1. \A i \in 1..Len(timers') : timers'[i] \in TimerItem
    BY <1>2, <1>4, <1>5 DEF TimerItem
  <2>2. timers' \in [1..Len(timers') -> [pcb : Proc, left : Int]]
    BY <1>3, LenProperties
  <2>3. Len(timers') \in Nat
    BY <1>3, LenProperties
  <2> DEFINE t == timers'
  <2>4. t \in [1..Len(t) -> TimerItem]
    <3>1. t \in [1..Len(t) -> [pcb : Proc, left : Int]]
      BY <2>2
    <3>2. \A i \in 1..Len(t) : t[i] \in TimerItem
      BY <2>1
    <3> HIDE DEF t
    <3> QED BY <3>1, <3>2
  <2>5. t \in Seq(TimerItem)
    <3>1. Len(t) \in Nat
      BY <2>3
    <3> HIDE DEF t
    <3> QED BY <2>4, <3>1, SeqDef
  <2> QED BY <2>5
<1>7. TimersSorted'
  <2> SUFFICES ASSUME NEW i \in 1..Len(timers'), NEW j \in 1..Len(timers'), i < j
               PROVE  timers'[i].left <= timers'[j].left
    BY DEF TimersSorted
  <2>1. k + i \in 1..Len(ts) /\ k + j \in 1..Len(ts) /\ k + i < k + j
    BY <1>1, <1>3, <1>4
  <2>2. ts[k + i].left <= ts[k + j].left
    BY <2>1 DEF ReadAs
  <2> QED BY <1>4, <2>2
<1>8. ASSUME NEW i \in 1..Len(timers'), NEW j \in 1..Len(timers'),
             Sleeper(i)' = Sleeper(j)'
      PROVE  i = j
  <2>1. k + i = k + j
    BY <1>1, <1>4, <1>8 DEF TimerInv
  <2> QED BY <1>1, <2>1
<1>9. {Sleeper(i) : i \in 1..Len(timers)}
         = {Sleeper(i) : i \in 1..k} \cup {Sleeper(i)' : i \in 1..Len(timers')}
  <2>1. ASSUME NEW i \in 1..Len(timers), i > k
        PROVE  \E j \in 1..Len(timers') : Sleeper(i) = Sleeper(j)'
    <3>1. i - k \in 1..Len(timers') /\ k + (i - k) = i
      BY <1>1, <1>3, <2>1
    <3>2. Sleeper(i - k)' = Sleeper(i)
      BY <1>4, <3>1
    <3> QED BY <3>1, <3>2
  <2>2. \A i \in 1..Len(timers) : i <= k => i \in 1..k
    BY <1>1
  <2>3. 1..k \subseteq 1..Len(timers)
    BY <1>1
  <2> QED BY <1>1, <1>4, <2>1, <2>2, <2>3
<1>10. {Sleeper(i) : i \in 1..k} \cap {Sleeper(i)' : i \in 1..Len(timers')} = {}
  <2>1. ASSUME NEW i \in 1..k, NEW j \in 1..Len(timers'), Sleeper(i) = Sleeper(j)'
        PROVE  FALSE
    <3>1. i = k + j
      BY <1>1, <1>4, <2>1 DEF TimerInv
    <3> QED BY <1>1, <3>1
  <2> QED BY <2>1
<1> QED BY <1>1, <1>3, <1>4, <1>6, <1>7, <1>8, <1>9, <1>10

\* internal_schedule moves the processes without losing or repeating one.
LEMMA ScheduleStep ==
  ASSUME SchedInv, NEW ts, ReadAs(ts), InternalSchedule(ts)
  PROVE  SchedInv'
<1>1. PICK k \in 0..Len(ts) :
        /\ DueUpTo(ts, 0, k)
        /\ timers' = AfterCurrent(ts, k)
        /\ LET queue == Woken(ts, k) \o ready
               rest  == waiting \ Range(Woken(ts, k))
           IN  /\ waiting' = rest
               /\ \/ /\ queue = <<>>
                     /\ UNCHANGED <<running, ready, status>>
                  \/ /\ queue # <<>>
                     /\ running' = Head(queue)
                     /\ ready' = Requeue(Tail(queue), rest)
                     /\ status' = [p \in Proc |->
                            IF p = Head(queue) THEN "Running"
                            ELSE IF p \in Range(Woken(ts, k)) \cup {running}
                                 THEN "Ready" ELSE status[p]]
  BY DEF InternalSchedule, Woken
<1> DEFINE w == Woken(ts, k)
           queue == w \o ready
<1>2. /\ w \in Seq(Proc) /\ Len(w) = k /\ IsInjective(w)
      /\ Range(w) = {Sleeper(i) : i \in 1..k}
      /\ Range(w) \subseteq waiting \ Parked
  BY WokenAreSleepers, TimersHold
<1>3. /\ running \in Proc /\ ready \in Seq(Proc) /\ IsInjective(ready)
      /\ running \notin Range(ready) \cup waiting
      /\ Range(ready) \cap waiting = {}
      /\ Proc = {running} \cup Range(ready) \cup waiting
      /\ status \in [Proc -> ProcessStatus]
  BY DEF SchedInv, TypeOK, OnePlace
<1>4. /\ queue \in Seq(Proc)
      /\ Range(queue) = Range(w) \cup Range(ready)
      /\ IsInjective(queue)
  <2> HIDE DEF w
  <2> QED BY <1>2, <1>3, ConcatKeepsItems
<1>5. waiting' = waiting \ Range(w)
  BY <1>1
<1>6. /\ running' \in Proc /\ ready' \in Seq(Proc) /\ IsInjective(ready')
      /\ status' \in [Proc -> ProcessStatus]
      /\ {running'} \cup Range(ready') = {running} \cup Range(queue)
      /\ running' \notin Range(ready')
      /\ \A p \in waiting' : status'[p] = status[p]
      /\ \A p \in Range(ready') : status'[p] = "Ready"
      /\ status'[running'] \in {"Running", "Ready"}
  <2>1. CASE queue = <<>>
    <3>1. UNCHANGED <<running, ready, status>>
      BY <1>1, <2>1
    <3>2. Range(queue) = {}
      <4>1. \A e : e \in Range(queue) <=> \E i \in 1..Len(queue) : queue[i] = e
        BY <1>4, RangeIsElements
      <4>2. Len(queue) = 0
        BY <2>1
      <4> QED BY <4>1, <4>2
    <3>3. Range(ready) = {}
      BY <1>4, <3>2
    <3>4. status[running] \in {"Running", "Ready"}
      BY DEF SchedInv, StatusAgrees
    <3> HIDE DEF queue
    <3> QED BY <1>3, <3>1, <3>2, <3>3, <3>4
  <2>2. CASE queue # <<>>
    <3> DEFINE next == Head(queue)
               tail == Tail(queue)
    <3>1. /\ running' = next
          /\ ready' = Requeue(tail, waiting \ Range(w))
          /\ status' = [p \in Proc |-> IF p = next THEN "Running"
                                       ELSE IF p \in Range(w) \cup {running}
                                            THEN "Ready" ELSE status[p]]
      BY <1>1, <2>2
    <3>2. /\ next \in Range(queue) /\ tail \in Seq(Proc)
          /\ Range(tail) = Range(queue) \ {next} /\ IsInjective(tail)
      <4> HIDE DEF queue
      <4> QED BY <1>4, <2>2, DetachHead
    <3> HIDE DEF next, tail, queue, w
    <3>3. ready' = Append(tail, running)
      BY <1>3, <3>1 DEF Requeue, HasNeighbour
    <3>4. running \notin Range(queue)
      BY <1>2, <1>3, <1>4
    <3>5. /\ ready' \in Seq(Proc) /\ Range(ready') = Range(tail) \cup {running}
          /\ IsInjective(ready')
      BY <1>3, <3>2, <3>3, <3>4, InsertLast
    <3>6. next \in Proc
      BY <1>2, <1>3, <1>4, <3>2
    <3>7. \A p \in Range(ready) : status[p] = "Ready"
      BY DEF SchedInv, StatusAgrees
    <3>8. status' \in [Proc -> ProcessStatus]
      BY <1>3, <3>1 DEF ProcessStatus
    <3>9. \A p \in waiting' : p \in Proc /\ status'[p] = status[p]
      BY <1>2, <1>3, <1>4, <1>5, <3>1, <3>2
    <3>10. \A p \in Range(ready') : p \in Proc /\ p # next /\ status'[p] = "Ready"
      BY <1>2, <1>3, <1>4, <3>1, <3>2, <3>4, <3>5, <3>7
    <3>11. status'[running'] \in {"Running", "Ready"}
      BY <3>1, <3>6
    <3>12. {running'} \cup Range(ready') = {running} \cup Range(queue)
      BY <3>1, <3>2, <3>5
    <3>13. running' \notin Range(ready')
      BY <3>1, <3>2, <3>4, <3>5
    <3> QED BY <3>1, <3>5, <3>6, <3>8, <3>9, <3>10, <3>11, <3>12, <3>13
  <2> QED BY <2>1, <2>2
<1>7. /\ timers' \in Seq(TimerItem)
      /\ TimersSorted'
      /\ \A i, j \in 1..Len(timers') : Sleeper(i)' = Sleeper(j)' => i = j
      /\ {Sleeper(i) : i \in 1..Len(timers)}
             = {Sleeper(i) : i \in 1..k} \cup {Sleeper(i)' : i \in 1..Len(timers')}
      /\ {Sleeper(i) : i \in 1..k} \cap {Sleeper(i)' : i \in 1..Len(timers')} = {}
  BY <1>1, TimersAfterSchedule, TimersHold
<1> HIDE DEF queue, w
<1>8. TypeOK'
  BY <1>3, <1>5, <1>6, <1>7 DEF TypeOK
<1>9. OnePlace'
  BY <1>2, <1>3, <1>4, <1>5, <1>6 DEF OnePlace
<1>10. SleepersHaveOneTimer'
  <2>1. {Sleeper(i) : i \in 1..Len(timers)} = waiting \ Parked
    BY DEF SchedInv, SleepersHaveOneTimer
  <2>2. {Sleeper(i)' : i \in 1..Len(timers')} = waiting' \ Parked
    BY <1>2, <1>5, <1>7, <2>1
  <2> QED BY <1>7, <2>2 DEF SleepersHaveOneTimer
<1>11. StatusAgrees'
  <2>1. \A p \in waiting : status[p] = "Waiting"
    BY DEF SchedInv, StatusAgrees
  <2> QED BY <1>5, <1>6, <2>1 DEF StatusAgrees
<1>12. Parked \subseteq waiting' /\ Clock \notin waiting'
  BY <1>2, <1>5 DEF SchedInv
<1> QED BY <1>7, <1>8, <1>9, <1>10, <1>11, <1>12 DEF SchedInv

\* The list read by disastrOS_preempt and by the timer interrupt.
LEMMA TimersRead ==
  ASSUME TimerInv
  PROVE  /\ ReadAs(timers)
         /\ ReadAs([i \in 1..Len(timers) |-> [timers[i] EXCEPT !.left = @ - 1]])
<1> DEFINE ts == [i \in 1..Len(timers) |-> [timers[i] EXCEPT !.left = @ - 1]]
<1>1. /\ timers \in Seq(TimerItem) /\ Len(timers) \in Nat
      /\ \A i \in 1..Len(timers) : timers[i] \in TimerItem
  BY LenProperties, ElementOfSeq DEF TimerInv
<1>2. \A i \in 1..Len(timers) : /\ timers[i] \in [pcb : Proc, left : Int]
                                /\ timers[i].left <= MaxSleep
  BY <1>1, SchedulerAssumption DEF TimerItem
<1>3. ReadAs(timers)
  <2>1. timers \in Seq([pcb : Proc, left : Int])
    <3>1. TimerItem \subseteq [pcb : Proc, left : Int]
      BY SchedulerAssumption DEF TimerItem
    <3> QED BY <1>1, <3>1, SeqMonotonic
  <2> QED BY <1>2, <2>1 DEF ReadAs, TimerInv, TimersSorted
<1>4. \A i \in 1..Len(timers) : /\ ts[i] \in [pcb : Proc, left : Int]
                                /\ ts[i].pcb = timers[i].pcb
                                /\ ts[i].left = timers[i].left - 1
  BY <1>2
<1>5. ts \in Seq([pcb : Proc, left : Int]) /\ Len(ts) = Len(timers)
  BY <1>1, <1>4
<1>6. ReadAs(ts)
  <2> HIDE DEF ts
  <2>1. \A i, j \in 1..Len(timers) : i < j => timers[i].left <= timers[j].left
    BY DEF TimerInv, TimersSorted
  <2>2. \A i \in 1..Len(ts) : ts[i].left <= MaxSleep
    BY <1>2, <1>4, <1>5, SchedulerAssumption
  <2>3. \A i, j \in 1..Len(ts) : i < j => ts[i].left <= ts[j].left
    BY <1>2, <1>4, <1>5, <2>1
  <2> QED BY <1>4, <1>5, <2>2, <2>3 DEF ReadAs
<1> QED BY <1>3, <1>6

\* Where the items are after disastrOS_sleep put a new one in the list.
LEMMA TimerListAddItems ==
  ASSUME TimerInv, NEW p \in Proc, NEW n \in 0..MaxSleep, NEW k \in 0..Len(timers),
         timers' = Inserted(timers, k, [pcb |-> p, left |-> n])
  PROVE  /\ timers' \in Seq(TimerItem)
         /\ Len(timers') = Len(timers) + 1
         /\ \A i \in 1..Len(timers) + 1 :
               timers'[i] = IF i <= k THEN timers[i]
                            ELSE IF i = k + 1 THEN [pcb |-> p, left |-> n]
                            ELSE timers[i - 1]
<1> DEFINE item == [pcb |-> p, left |-> n]
<1>1. timers' = SubSeq(timers, 1, k) \o <<item>>
                                     \o SubSeq(timers, k + 1, Len(timers))
  BY DEF Inserted
<1>2. /\ timers \in Seq(TimerItem) /\ Len(timers) \in Nat
      /\ k \in Nat /\ k <= Len(timers)
      /\ \A i \in 1..Len(timers) : timers[i] \in TimerItem
  <2>1. timers \in Seq(TimerItem)
    BY DEF TimerInv
  <2> QED BY <2>1, LenProperties, ElementOfSeq
<1>3. item \in TimerItem
  BY DEF TimerItem
<1>4. /\ SubSeq(timers, 1, k) \in Seq(TimerItem)
      /\ Len(SubSeq(timers, 1, k)) = k
      /\ \A i \in 1..k : SubSeq(timers, 1, k)[i] = timers[i]
  BY <1>2
<1>5. /\ SubSeq(timers, k + 1, Len(timers)) \in Seq(TimerItem)
      /\ Len(SubSeq(timers, k + 1, Len(timers))) = Len(timers) - k
      /\ \A i \in 1..Len(timers) - k :
            SubSeq(timers, k + 1, Len(timers))[i] = timers[k + i]
  BY <1>2
<1>6. /\ timers' \in Seq(TimerItem)
      /\ Len(timers') = Len(timers) + 1
      /\ \A i \in 1..Len(timers) + 1 :
            timers'[i] = IF i <= k THEN timers[i]
                         ELSE IF i = k + 1 THEN item ELSE timers[i - 1]
  <2> DEFINE front == SubSeq(timers, 1, k)
             back  == SubSeq(timers, k + 1, Len(timers))
  <2> HIDE DEF front, back, item
  <2>1. timers' = front \o <<item>> \o back
    BY <1>1 DEF front, back
  <2>2. front \in Seq(TimerItem) /\ Len(front) = k /\ \A i \in 1..k : front[i] = timers[i]
    BY <1>4 DEF front
  <2>3. back \in Seq(TimerItem) /\ Len(back) = Len(timers) - k
        /\ \A i \in 1..Len(timers) - k : back[i] = timers[k + i]
    BY <1>5 DEF back
  <2>4. /\ (front \o <<item>>) \in Seq(TimerItem)
        /\ Len(front \o <<item>>) = k + 1
        /\ \A i \in 1..k + 1 : (front \o <<item>>)[i]
                                  = IF i <= k THEN timers[i] ELSE item
    BY <1>2, <1>3, <2>2
  <2> DEFINE head == front \o <<item>>
  <2> HIDE DEF head
  <2>5. head \in Seq(TimerItem) /\ Len(head) = k + 1
        /\ \A i \in 1..k + 1 : head[i] = IF i <= k THEN timers[i] ELSE item
    BY <2>4 DEF head
  <2>6. /\ head \o back \in Seq(TimerItem)
        /\ Len(head \o back) = Len(head) + Len(back)
        /\ \A i \in 1..Len(head) + Len(back) : (head \o back)[i]
              = IF i <= Len(head) THEN head[i] ELSE back[i - Len(head)]
    BY <2>3, <2>5, ConcatProperties
  <2>7. Len(head) + Len(back) = Len(timers) + 1
    BY <1>2, <2>3, <2>5
  <2>8. ASSUME NEW i \in 1..Len(timers) + 1
        PROVE  (head \o back)[i] = IF i <= k THEN timers[i]
                                   ELSE IF i = k + 1 THEN item ELSE timers[i - 1]
    <3>1. CASE i <= k + 1
      <4>1. i \in 1..k + 1 /\ (head \o back)[i] = head[i]
        BY <1>2, <2>5, <2>6, <2>7, <3>1
      <4>2. ~(i <= k) => i = k + 1
        BY <1>2, <4>1
      <4> QED BY <2>5, <4>1, <4>2
    <3>2. CASE i > k + 1
      <4>1. i - (k + 1) \in 1..Len(timers) - k /\ k + (i - (k + 1)) = i - 1
        BY <1>2, <3>2
      <4>2. (head \o back)[i] = back[i - (k + 1)]
        BY <1>2, <2>5, <2>6, <2>7, <3>2
      <4>3. back[i - (k + 1)] = timers[i - 1]
        BY <2>3, <4>1
      <4>4. ~(i <= k) /\ i # k + 1
        BY <1>2, <3>2
      <4> QED BY <4>2, <4>3, <4>4
    <3>3. i <= k + 1 \/ i > k + 1
      BY <1>2
    <3> QED BY <3>1, <3>2, <3>3
  <2> QED BY <2>1, <2>6, <2>7, <2>8 DEF head
<1> HIDE DEF item
<1> QED BY <1>6 DEF item

\* The old items stay, and there is one for the new sleeper.
LEMMA ItemsAfterSleep ==
  ASSUME TimerInv, NEW p \in Proc, NEW n \in 0..MaxSleep, TimerListAdd(p, n)
  PROVE  /\ \A i \in 1..Len(timers) :
              \E j \in 1..Len(timers') : timers'[j] = timers[i]
         /\ \E j \in 1..Len(timers') : timers'[j] = [pcb |-> p, left |-> n]
<1>1. PICK k \in 0..Len(timers) :
         timers' = Inserted(timers, k, [pcb |-> p, left |-> n])
  BY DEF TimerListAdd, Inserted
<1>2. Len(timers) \in Nat /\ k \in Nat /\ k <= Len(timers)
  BY LenProperties DEF TimerInv
<1>3. /\ Len(timers') = Len(timers) + 1
      /\ \A i \in 1..Len(timers) + 1 :
            timers'[i] = IF i <= k THEN timers[i]
                         ELSE IF i = k + 1 THEN [pcb |-> p, left |-> n]
                         ELSE timers[i - 1]
  BY <1>1, TimerListAddItems
<1>4. ASSUME NEW i \in 1..Len(timers)
      PROVE  \E j \in 1..Len(timers') : timers'[j] = timers[i]
  <2>1. CASE i <= k
    <3>1. i \in 1..Len(timers') /\ timers'[i] = timers[i]
      BY <1>2, <1>3, <2>1
    <3> QED BY <3>1
  <2>2. CASE i > k
    <3>1. i + 1 \in 1..Len(timers') /\ timers'[i + 1] = timers[i]
      BY <1>2, <1>3, <2>2
    <3> QED BY <3>1
  <2> QED BY <1>2, <2>1, <2>2
<1>5. k + 1 \in 1..Len(timers') /\ timers'[k + 1] = [pcb |-> p, left |-> n]
  BY <1>2, <1>3
<1> QED BY <1>4, <1>5

\* disastrOS_sleep puts one sorted item for one more sleeper in the list.
LEMMA TimersAfterSleep ==
  ASSUME TimerInv, NEW p \in Proc, p \notin waiting, NEW n \in 0..MaxSleep,
         TimerListAdd(p, n)
  PROVE  /\ timers' \in Seq(TimerItem)
         /\ TimersSorted'
         /\ \A i, j \in 1..Len(timers') : Sleeper(i)' = Sleeper(j)' => i = j
         /\ {Sleeper(i)' : i \in 1..Len(timers')}
                = {Sleeper(i) : i \in 1..Len(timers)} \cup {p}
<1> DEFINE item == [pcb |-> p, left |-> n]
<1>1. PICK k \in 0..Len(timers) :
        /\ DueUpTo(timers, n, k)
        /\ timers' = Inserted(timers, k, [pcb |-> p, left |-> n])
  BY DEF TimerListAdd, Inserted
<1>2. /\ timers \in Seq(TimerItem) /\ Len(timers) \in Nat
      /\ k \in Nat /\ k <= Len(timers)
      /\ \A i \in 1..Len(timers) : timers[i] \in TimerItem
  <2>1. timers \in Seq(TimerItem)
    BY DEF TimerInv
  <2> QED BY <2>1, LenProperties, ElementOfSeq
<1>6. /\ timers' \in Seq(TimerItem)
      /\ Len(timers') = Len(timers) + 1
      /\ \A i \in 1..Len(timers) + 1 :
            timers'[i] = IF i <= k THEN timers[i]
                         ELSE IF i = k + 1 THEN item ELSE timers[i - 1]
  BY <1>1, TimerListAddItems
<1> HIDE DEF item
<1>7. TimersSorted'
  <2> SUFFICES ASSUME NEW i \in 1..Len(timers'), NEW j \in 1..Len(timers'), i < j
               PROVE  timers'[i].left <= timers'[j].left
    BY DEF TimersSorted
  <2>1. item.left = n /\ n \in Int
    BY DEF item
  <2>2. \A a \in 1..Len(timers) : timers[a].left \in Int
    BY <1>2, SchedulerAssumption DEF TimerItem
  <2>3. \A a, b \in 1..Len(timers) : a < b => timers[a].left <= timers[b].left
    BY DEF TimerInv, TimersSorted
  <2>4. \A a \in 1..k : timers[a].left <= n
    BY <1>1 DEF DueUpTo
  <2>5. \A b \in (k + 1)..Len(timers) : n <= timers[b].left
    <3>1. k < Len(timers) => timers[k + 1].left > n
      BY <1>1 DEF DueUpTo
    <3> SUFFICES ASSUME NEW b \in (k + 1)..Len(timers)
                 PROVE  n <= timers[b].left
      OBVIOUS
    <3>2. b \in 1..Len(timers) /\ k + 1 \in 1..Len(timers) /\ k < Len(timers)
      BY <1>2
    <3>3. timers[k + 1].left <= timers[b].left
      <4>1. CASE b = k + 1
        BY <2>2, <3>2, <4>1
      <4>2. CASE b # k + 1
        <5>1. k + 1 < b
          BY <1>2, <4>2
        <5> QED BY <2>3, <3>2, <5>1
      <4> QED BY <4>1, <4>2
    <3> QED BY <2>1, <2>2, <3>1, <3>2, <3>3
  <2>6. CASE j <= k
    <3>1. /\ i \in 1..Len(timers) /\ j \in 1..Len(timers)
          /\ timers'[i] = timers[i] /\ timers'[j] = timers[j]
      BY <1>2, <1>6, <2>6
    <3> QED BY <2>3, <3>1
  <2>7. CASE j = k + 1
    BY <1>2, <1>6, <2>1, <2>4, <2>7
  <2>8. CASE j > k + 1
    <3>1. timers'[j] = timers[j - 1] /\ j - 1 \in (k + 1)..Len(timers)
      BY <1>2, <1>6, <2>8
    <3>2. CASE i <= k
      <4>1. timers'[i] = timers[i] /\ i \in 1..Len(timers) /\ i < j - 1
        BY <1>2, <1>6, <2>8, <3>2
      <4> QED BY <1>2, <2>3, <3>1, <4>1
    <3>3. CASE i = k + 1
      BY <1>2, <1>6, <2>1, <2>5, <3>1, <3>3
    <3>4. CASE i > k + 1
      <4>1. timers'[i] = timers[i - 1] /\ i - 1 \in 1..Len(timers) /\ i - 1 < j - 1
        BY <1>2, <1>6, <3>4
      <4> QED BY <1>2, <2>3, <3>1, <4>1
    <3> QED BY <1>2, <3>2, <3>3, <3>4
  <2> QED BY <1>2, <1>6, <2>6, <2>7, <2>8
<1>8. \A i \in 1..Len(timers') :
         Sleeper(i)' = IF i <= k THEN Sleeper(i)
                       ELSE IF i = k + 1 THEN p ELSE Sleeper(i - 1)
  BY <1>2, <1>6 DEF Sleeper, item
<1>9. {Sleeper(i) : i \in 1..Len(timers)} \subseteq waiting \ Parked
  BY DEF TimerInv
<1>10. \A i \in 1..Len(timers) : Sleeper(i) # p
  BY <1>9
<1>11. \A i, j \in 1..Len(timers) : Sleeper(i) = Sleeper(j) => i = j
  BY DEF TimerInv
<1>12. ASSUME NEW i \in 1..Len(timers'), NEW j \in 1..Len(timers'),
              Sleeper(i)' = Sleeper(j)'
       PROVE  i = j
  <2> DEFINE old(x) == IF x <= k THEN x ELSE x - 1
  <2>1. \A x \in 1..Len(timers') : x # k + 1 => /\ old(x) \in 1..Len(timers)
                                                /\ Sleeper(x)' = Sleeper(old(x))
    BY <1>2, <1>6, <1>8
  <2>2. CASE i = k + 1 /\ j # k + 1
    BY <1>2, <1>8, <1>10, <1>12, <2>1, <2>2
  <2>3. CASE i # k + 1 /\ j = k + 1
    BY <1>2, <1>8, <1>10, <1>12, <2>1, <2>3
  <2>4. CASE i # k + 1 /\ j # k + 1
    <3>1. old(i) = old(j)
      BY <1>11, <1>12, <2>1, <2>4
    <3> QED BY <1>2, <1>6, <2>4, <3>1
  <2> QED BY <2>2, <2>3, <2>4
<1>13. {Sleeper(i)' : i \in 1..Len(timers')}
          = {Sleeper(i) : i \in 1..Len(timers)} \cup {p}
  <2>1. \A i \in 1..Len(timers') :
           Sleeper(i)' \in {Sleeper(x) : x \in 1..Len(timers)} \cup {p}
    <3> SUFFICES ASSUME NEW i \in 1..Len(timers')
                 PROVE  Sleeper(i)' \in {Sleeper(x) : x \in 1..Len(timers)} \cup {p}
      OBVIOUS
    <3>1. CASE i <= k
      BY <1>2, <1>8, <3>1
    <3>2. CASE i = k + 1
      BY <1>2, <1>8, <3>2
    <3>3. CASE i > k + 1
      <4>1. i - 1 \in 1..Len(timers) /\ Sleeper(i)' = Sleeper(i - 1)
        BY <1>2, <1>6, <1>8, <3>3
      <4> QED BY <4>1
    <3> QED BY <1>2, <3>1, <3>2, <3>3
  <2>2. \A x \in 1..Len(timers) : \E i \in 1..Len(timers') : Sleeper(i)' = Sleeper(x)
    <3> SUFFICES ASSUME NEW x \in 1..Len(timers)
                 PROVE  \E i \in 1..Len(timers') : Sleeper(i)' = Sleeper(x)
      OBVIOUS
    <3>1. CASE x <= k
      <4>1. x \in 1..Len(timers') /\ Sleeper(x)' = Sleeper(x)
        BY <1>2, <1>6, <1>8, <3>1
      <4> QED BY <4>1
    <3>2. CASE x > k
      <4>1. x + 1 \in 1..Len(timers') /\ Sleeper(x + 1)' = Sleeper(x)
        BY <1>2, <1>6, <1>8, <3>2
      <4> QED BY <4>1
    <3> QED BY <1>2, <3>1, <3>2
  <2>3. k + 1 \in 1..Len(timers') /\ Sleeper(k + 1)' = p
    BY <1>2, <1>6, <1>8
  <2> QED BY <2>1, <2>2, <2>3
<1> QED BY <1>6, <1>7, <1>12, <1>13

\* disastrOS_sleep moves the running process, and only it, to the waiting list.
LEMMA SleepStep ==
  ASSUME SchedInv, NEW n \in 0..MaxSleep, Sleep(n)
  PROVE  SchedInv'
<1>1. /\ running # Clock
      /\ TimerListAdd(running, n)
      /\ status' = [status EXCEPT ![running] = "Waiting"]
      /\ waiting' = waiting \cup {running}
      /\ Dispatch
  BY DEF Sleep
<1>2. /\ running \in Proc /\ ready \in Seq(Proc) /\ IsInjective(ready)
      /\ running \notin Range(ready) \cup waiting
      /\ Range(ready) \cap waiting = {}
      /\ Proc = {running} \cup Range(ready) \cup waiting
      /\ waiting \subseteq Proc
      /\ status \in [Proc -> ProcessStatus]
      /\ Parked \subseteq waiting /\ Clock \notin waiting
  BY DEF SchedInv, TypeOK, OnePlace
<1>3. ready # <<>>
  <2>1. Clock \in Range(ready)
    BY <1>1, <1>2, SchedulerAssumption
  <2>2. \A e : e \in Range(ready) <=> \E i \in 1..Len(ready) : ready[i] = e
    BY <1>2, RangeIsElements
  <2> QED BY <2>1, <2>2
<1>4. /\ running' = Head(ready) /\ ready' = Tail(ready)
      /\ running' \in Range(ready)
      /\ ready' \in Seq(Proc) /\ IsInjective(ready')
      /\ Range(ready') = Range(ready) \ {running'}
  BY <1>1, <1>2, <1>3, DetachHead DEF Dispatch
<1>5. /\ timers' \in Seq(TimerItem)
      /\ TimersSorted'
      /\ \A i, j \in 1..Len(timers') : Sleeper(i)' = Sleeper(j)' => i = j
      /\ {Sleeper(i)' : i \in 1..Len(timers')}
             = {Sleeper(i) : i \in 1..Len(timers)} \cup {running}
  BY <1>1, <1>2, TimersAfterSleep, TimersHold
<1>6. status' \in [Proc -> ProcessStatus]
      /\ \A p \in Proc : status'[p] = IF p = running THEN "Waiting" ELSE status[p]
  BY <1>1, <1>2 DEF ProcessStatus
<1>7. TypeOK'
  BY <1>1, <1>2, <1>4, <1>5, <1>6 DEF TypeOK
<1>8. OnePlace'
  BY <1>1, <1>2, <1>4 DEF OnePlace
<1>9. SleepersHaveOneTimer'
  <2>1. {Sleeper(i) : i \in 1..Len(timers)} = waiting \ Parked
    BY DEF SchedInv, SleepersHaveOneTimer
  <2>2. {Sleeper(i)' : i \in 1..Len(timers')} = waiting' \ Parked
    BY <1>1, <1>2, <1>5, <2>1
  <2> QED BY <1>5, <2>2 DEF SleepersHaveOneTimer
<1>10. StatusAgrees'
  <2>1. /\ \A p \in waiting : status[p] = "Waiting"
        /\ \A p \in Range(ready) : status[p] = "Ready"
    BY DEF SchedInv, StatusAgrees
  <2>2. \A p \in waiting' : status'[p] = "Waiting"
    BY <1>1, <1>2, <1>6, <2>1
  <2>3. \A p \in Range(ready) : p \in Proc /\ p # running /\ status'[p] = "Ready"
    BY <1>2, <1>6, <2>1
  <2> QED BY <1>4, <2>2, <2>3 DEF StatusAgrees
<1>11. Parked \subseteq waiting' /\ Clock \notin waiting'
  BY <1>1, <1>2
<1> QED BY <1>5, <1>7, <1>8, <1>9, <1>10, <1>11 DEF SchedInv

\* The invariant holds when the run begins.
LEMMA InitInv == SchedInit => SchedInv
<1> SUFFICES ASSUME SchedInit PROVE SchedInv
  OBVIOUS
<1>1. PICK n \in 0..Cardinality(Proc) :
        ready \in Bijection(1..n, Proc \ (Parked \cup {running}))
  BY DEF SchedInit
<1>2. n \in Nat
  BY <1>1, SchedulerAssumption, FS_CardinalityType
<1>3. /\ ready \in [1..n -> Proc \ (Parked \cup {running})]
      /\ IsInjective(ready)
      /\ \A p \in Proc \ (Parked \cup {running}) : \E i \in 1..n : ready[i] = p
  BY <1>1 DEF Bijection, Injection, Surjection
<1>4. Range(ready) = Proc \ (Parked \cup {running})
  BY <1>3 DEF Range
<1>5. ready \in Seq(Proc)
  BY <1>2, <1>3
<1>6. /\ running \in Proc \ Parked /\ waiting = Parked
      /\ timers \in Seq(TimerItem) /\ Len(timers) = 0
      /\ status = [p \in Proc |-> IF p \in Parked THEN "Waiting"
                                  ELSE IF p = running THEN "Running" ELSE "Ready"]
      /\ Parked \subseteq Proc \ {Clock}
  BY SchedulerAssumption DEF SchedInit
<1>7. TypeOK
  BY <1>5, <1>6 DEF TypeOK, ProcessStatus
<1>8. OnePlace
  BY <1>3, <1>4, <1>6 DEF OnePlace
<1>9. SleepersHaveOneTimer /\ TimersSorted
  BY <1>6 DEF SleepersHaveOneTimer, TimersSorted
<1>10. StatusAgrees
  BY <1>4, <1>6 DEF StatusAgrees
<1> QED BY <1>6, <1>7, <1>8, <1>9, <1>10 DEF SchedInv

\* Every step keeps the invariant, whatever list moved.
LEMMA NextInv == SchedInv /\ [SchedNext]_schedVars => SchedInv'
<1> SUFFICES ASSUME SchedInv, [SchedNext]_schedVars PROVE SchedInv'
  OBVIOUS
<1>1. CASE TimerInterrupt
  BY <1>1, TimersRead, TimersHold, ScheduleStep DEF TimerInterrupt
<1>2. CASE Preempt
  BY <1>2, TimersRead, TimersHold, ScheduleStep DEF Preempt
<1>3. ASSUME NEW n \in 0..MaxSleep, Sleep(n) PROVE SchedInv'
  BY <1>3, SleepStep
<1>4. CASE UNCHANGED schedVars
  BY <1>4 DEF schedVars, SchedInv, TypeOK, OnePlace, SleepersHaveOneTimer,
              TimersSorted, StatusAgrees, Sleeper
<1> QED BY <1>1, <1>2, <1>3, <1>4 DEF SchedNext

(***************************************************************************)
(* For every set of processes: the fields keep their types, and in         *)
(* particular no timer is ever overdue after a tick was handled.           *)
(***************************************************************************)
THEOREM SchedulerType == SchedSpec => []TypeOK
<1>1. SchedInv => TypeOK
  BY DEF SchedInv
<1> QED BY <1>1, InitInv, NextInv, PTL DEF SchedSpec

(***************************************************************************)
(* No process is ever on two lists, listed twice or lost, and somebody     *)
(* always runs.                                                            *)
(***************************************************************************)
THEOREM SchedulerOnePlace == SchedSpec => []OnePlace
<1>1. SchedInv => OnePlace
  BY DEF SchedInv
<1> QED BY <1>1, InitInv, NextInv, PTL DEF SchedSpec

(***************************************************************************)
(* The sleepers and the timers are the same, one for one.                  *)
(***************************************************************************)
THEOREM SchedulerTimers == SchedSpec => []SleepersHaveOneTimer
<1>1. SchedInv => SleepersHaveOneTimer
  BY DEF SchedInv
<1> QED BY <1>1, InitInv, NextInv, PTL DEF SchedSpec

(***************************************************************************)
(* The timer list stays sorted.                                            *)
(***************************************************************************)
THEOREM SchedulerTimersSorted == SchedSpec => []TimersSorted
<1>1. SchedInv => TimersSorted
  BY DEF SchedInv
<1> QED BY <1>1, InitInv, NextInv, PTL DEF SchedSpec

(***************************************************************************)
(* The status field agrees with the lists.                                 *)
(***************************************************************************)
THEOREM SchedulerStatus == SchedSpec => []StatusAgrees
<1>1. SchedInv => StatusAgrees
  BY DEF SchedInv
<1> QED BY <1>1, InitInv, NextInv, PTL DEF SchedSpec

-----------------------------------------------------------------------------
\* What the refinement mapping reads off a timer list.
LEMMA TicksRead ==
  ASSUME NEW ts,
         \A i, j \in 1..Len(ts) : ts[i].pcb = ts[j].pcb => i = j,
         NEW f, f = [p \in {ts[i].pcb : i \in 1..Len(ts)} |->
                        ts[CHOOSE i \in 1..Len(ts) : ts[i].pcb = p].left]
  PROVE  /\ DOMAIN f = {ts[i].pcb : i \in 1..Len(ts)}
         /\ \A i \in 1..Len(ts) : f[ts[i].pcb] = ts[i].left
<1> SUFFICES ASSUME NEW i \in 1..Len(ts)
             PROVE  f[ts[i].pcb] = ts[i].left
  OBVIOUS
<1> DEFINE p == ts[i].pcb
           j == CHOOSE x \in 1..Len(ts) : ts[x].pcb = p
<1>1. j \in 1..Len(ts) /\ ts[j].pcb = p
  OBVIOUS
<1>2. j = i
  BY <1>1
<1>3. f[p] = ts[j].left
  OBVIOUS
<1> QED BY <1>2, <1>3

\* The ticks left of a sleeper are those of its only timer.
LEMMA TicksLeftRead ==
  ASSUME SchedInv
  PROVE  /\ DOMAIN TicksLeft = waiting \ Parked
         /\ \A i \in 1..Len(timers) : /\ Sleeper(i) \in waiting \ Parked
                                      /\ TicksLeft[Sleeper(i)] = timers[i].left
<1>1. /\ {timers[i].pcb : i \in 1..Len(timers)} = waiting \ Parked
      /\ \A i, j \in 1..Len(timers) : timers[i].pcb = timers[j].pcb => i = j
  BY DEF SchedInv, SleepersHaveOneTimer, Sleeper
<1> QED BY <1>1, TicksRead DEF TicksLeft, Sleeper

\* internal_schedule gives the cpu as the Processor may.
LEMMA ScheduleGivesCpu ==
  ASSUME SchedInv, SchedInv', NEW ts, ReadAs(ts), InternalSchedule(ts),
         NEW left, DOMAIN left = waiting \ Parked,
         \A i \in 1..Len(timers) : left[Sleeper(i)] = ts[i].left
  PROVE  Abstract!GiveCpu(left)
<1>1. PICK k \in 0..Len(ts) :
        /\ DueUpTo(ts, 0, k)
        /\ timers' = AfterCurrent(ts, k)
        /\ waiting' = waiting \ Range(Woken(ts, k))
        /\ \/ /\ Woken(ts, k) \o ready = <<>>
              /\ UNCHANGED <<running, ready>>
           \/ /\ Woken(ts, k) \o ready # <<>>
              /\ running' = Head(Woken(ts, k) \o ready)
  BY DEF InternalSchedule, Woken
<1> DEFINE w == Woken(ts, k)
<1>2. /\ Len(ts) \in Nat /\ Len(ts) = Len(timers) /\ k \in Nat /\ k <= Len(ts)
      /\ \A i \in 1..Len(ts) : ts[i].left \in Int
  <2>1. ts \in Seq([pcb : Proc, left : Int]) /\ Len(ts) = Len(timers)
    BY DEF ReadAs
  <2>2. \A i \in 1..Len(ts) : ts[i] \in [pcb : Proc, left : Int]
    BY <2>1, ElementOfSeq
  <2> QED BY <2>1, <2>2, LenProperties
<1>3. /\ w \in Seq(Proc) /\ Len(w) = k
      /\ Range(w) = {Sleeper(i) : i \in 1..k}
      /\ Range(w) \subseteq waiting \ Parked
      /\ IsInjective(w)
  BY WokenAreSleepers, TimersHold
<1>4. /\ Len(timers') = Len(timers) - k
      /\ \A i \in 1..Len(timers') : /\ timers'[i].pcb = Sleeper(k + i)
                                    /\ timers'[i].left = ts[k + i].left
  BY <1>1, TimersAfterSchedule, TimersHold
<1>5. {Sleeper(i) : i \in 1..Len(timers)} = waiting \ Parked
  BY DEF SchedInv, SleepersHaveOneTimer
<1>6. \A i \in 1..k : ts[i].left <= 0
  BY <1>1 DEF DueUpTo
<1>7. ASSUME NEW i \in 1..Len(ts), i > k PROVE ts[i].left > 0
  <2>1. k + 1 \in 1..Len(ts) /\ k < Len(ts)
    BY <1>2, <1>7
  <2>2. ts[k + 1].left > 0
    BY <1>1, <2>1 DEF DueUpTo
  <2>3. CASE i = k + 1
    BY <2>2, <2>3
  <2>4. CASE i # k + 1
    <3>1. k + 1 < i
      BY <1>2, <1>7, <2>4
    <3>2. ts[k + 1].left <= ts[i].left
      BY <2>1, <3>1 DEF ReadAs
    <3> QED BY <1>2, <2>1, <2>2, <3>2
  <2> QED BY <2>3, <2>4
<1>8. Abstract!Due(left) = Range(w)
  <2>1. ASSUME NEW p \in Range(w) PROVE p \in Abstract!Due(left)
    <3>1. PICK i \in 1..k : p = Sleeper(i)
      BY <1>3
    <3>3. i \in 1..Len(timers)
      BY <1>2
    <3>2. i \in 1..Len(timers) /\ left[p] = ts[i].left
      BY <3>1, <3>3
    <3> QED BY <1>3, <1>6, <3>2 DEF Abstract!Due
  <2>2. ASSUME NEW p \in Abstract!Due(left) PROVE p \in Range(w)
    <3>1. p \in waiting \ Parked /\ left[p] <= 0
      BY DEF Abstract!Due
    <3>2. PICK i \in 1..Len(timers) : p = Sleeper(i)
      BY <1>5, <3>1
    <3>3. ts[i].left <= 0
      BY <3>1, <3>2
    <3>4. ~(i > k)
      BY <1>2, <1>7, <3>3
    <3>5. i \in 1..k
      BY <1>2, <3>4
    <3> QED BY <1>3, <3>2, <3>5
  <2> QED BY <2>1, <2>2
<1>9. TicksLeft' = [p \in DOMAIN left \ Abstract!Due(left) |-> left[p]]
  <2>1. DOMAIN TicksLeft' = waiting' \ Parked
        /\ TicksLeft' = [p \in waiting' \ Parked |-> TicksLeft'[p]]
        /\ \A i \in 1..Len(timers') : TicksLeft'[Sleeper(i)'] = timers'[i].left
    <3>1. /\ {timers'[i].pcb : i \in 1..Len(timers')} = waiting' \ Parked
          /\ \A i, j \in 1..Len(timers') : timers'[i].pcb = timers'[j].pcb => i = j
      BY DEF SchedInv, SleepersHaveOneTimer, Sleeper
    <3>2. TicksLeft' = [p \in {timers'[i].pcb : i \in 1..Len(timers')} |->
             timers'[CHOOSE i \in 1..Len(timers') : timers'[i].pcb = p].left]
      BY DEF TicksLeft, Sleeper
    <3>3. /\ DOMAIN TicksLeft' = {timers'[i].pcb : i \in 1..Len(timers')}
          /\ \A i \in 1..Len(timers') : TicksLeft'[timers'[i].pcb] = timers'[i].left
      BY <3>1, <3>2, TicksRead
    <3>4. TicksLeft' = [p \in waiting' \ Parked |-> TicksLeft'[p]]
      BY <3>1, <3>2
    <3> QED BY <3>1, <3>3, <3>4 DEF Sleeper
  <2>2. DOMAIN left \ Abstract!Due(left) = waiting' \ Parked
    BY <1>1, <1>8
  <2>3. ASSUME NEW p \in waiting' \ Parked PROVE TicksLeft'[p] = left[p]
    <3>1. {Sleeper(i)' : i \in 1..Len(timers')} = waiting' \ Parked
      BY DEF SchedInv, SleepersHaveOneTimer
    <3>2. PICK i \in 1..Len(timers') : p = Sleeper(i)'
      BY <3>1
    <3>3. /\ k + i \in 1..Len(timers)
          /\ Sleeper(i)' = Sleeper(k + i)
          /\ timers'[i].left = ts[k + i].left
      BY <1>2, <1>4 DEF Sleeper
    <3> QED BY <2>1, <3>2, <3>3
  <2> QED BY <2>1, <2>2, <2>3
<1>10. /\ running \in Proc /\ running \notin waiting
       /\ Range(ready) = Proc \ (waiting \cup {running})
       /\ ready \in Seq(Proc)
       /\ running' \in Proc /\ running' \notin waiting'
       /\ Range(ready') = Proc \ (waiting' \cup {running'})
       /\ waiting \subseteq Proc
  BY DEF SchedInv, OnePlace, TypeOK
<1>11. Range(ready') = (Range(ready) \cup Range(w) \cup {running}) \ {running'}
  BY <1>1, <1>3, <1>10
<1>12. /\ w \o ready \in Seq(Proc)
       /\ Len(w \o ready) = k + Len(ready)
       /\ \A i \in 1..k + Len(ready) :
             (w \o ready)[i] = IF i <= k THEN w[i] ELSE ready[i - k]
       /\ Len(ready) \in Nat
  <2> HIDE DEF w
  <2>1. w \in Seq(Proc) /\ ready \in Seq(Proc) /\ Len(w) = k
    BY <1>3, <1>10
  <2>2. /\ w \o ready \in Seq(Proc)
        /\ Len(w \o ready) = Len(w) + Len(ready)
        /\ \A i \in 1..Len(w) + Len(ready) :
              (w \o ready)[i] = IF i <= Len(w) THEN w[i] ELSE ready[i - Len(w)]
    BY <2>1, ConcatProperties
  <2> QED BY <2>1, <2>2, LenProperties
<1>13. \A e : e \in Range(ready) <=> \E i \in 1..Len(ready) : ready[i] = e
  BY <1>10, RangeIsElements
<1>14. CASE Range(ready) \cup Abstract!Due(left) = {}
  <2>1. k = 0
    BY <1>2, <1>3, <1>8, <1>14
  <2>2. Len(ready) = 0
    <3>1. Range(ready) = {}
      BY <1>14
    <3>2. Len(ready) # 0 => ready[1] \in Range(ready)
      BY <1>12, <1>13
    <3> QED BY <3>1, <3>2
  <2>3. w \o ready = <<>>
    BY <1>12, <2>1, <2>2, EmptySeq
  <2>4. UNCHANGED <<running, ready>>
    BY <1>1, <2>3
  <2> QED BY <1>9, <1>14, <2>4 DEF Abstract!GiveCpu
<1>15. CASE Range(ready) \cup Abstract!Due(left) # {}
  <2>1. k + Len(ready) > 0
    <3>1. CASE Abstract!Due(left) # {}
      <4>1. PICK i \in 1..k : TRUE
        BY <1>3, <1>8, <3>1
      <4> QED BY <1>2, <1>12, <4>1
    <3>2. CASE Range(ready) # {}
      BY <1>2, <1>12, <1>13, <3>2
    <3> QED BY <1>15, <3>1, <3>2
  <2>2. w \o ready # <<>>
    BY <1>12, <2>1
  <2>3. running' = (w \o ready)[1]
    <3> DEFINE queue == w \o ready
    <3> HIDE DEF queue
    <3>1. queue \in Seq(Proc) /\ queue # <<>>
      BY <1>12, <2>2 DEF queue
    <3>2. Head(queue) = queue[1]
      BY <3>1
    <3> QED BY <1>1, <2>2, <3>2 DEF queue
  <2>4. CASE k = 0
    <3>1. running' = ready[1] /\ 1 \in 1..Len(ready)
      BY <1>12, <2>1, <2>3, <2>4
    <3>2. Abstract!Due(left) = {}
      <4>1. 1..k = {}
        BY <2>4
      <4>2. Range(w) = {}
        BY <1>3, <4>1
      <4> QED BY <1>8, <4>2
    <3>3. running' \in Range(ready)
      BY <1>13, <3>1
    <3> QED BY <1>8, <1>9, <1>11, <1>15, <3>2, <3>3 DEF Abstract!GiveCpu
  <2>5. CASE k > 0
    <3>1. 1 \in 1..k /\ 1 \in 1..Len(timers)
      BY <1>2, <2>5
    <3>2. running' = Sleeper(1)
      <4>1. running' = w[1]
        BY <1>12, <2>1, <2>3, <2>5
      <4> QED BY <3>1, <4>1, <1>2 DEF Woken, ReadAs, Sleeper
    <3>3. Sleeper(1) \in Abstract!Due(left)
      BY <1>3, <1>8, <3>1
    <3>4. ASSUME NEW q \in Abstract!Due(left)
          PROVE  left[Sleeper(1)] <= left[q]
      <4>1. PICK i \in 1..k : q = Sleeper(i)
        BY <1>3, <1>8
      <4>5. i \in 1..Len(ts) /\ i \in 1..Len(timers)
        BY <1>2
      <4>2. i \in 1..Len(ts) /\ left[q] = ts[i].left /\ left[Sleeper(1)] = ts[1].left
        BY <3>1, <4>1, <4>5
      <4>3. CASE i = 1
        BY <1>2, <4>2, <4>3
      <4>4. CASE i # 1
        <5>1. 1 < i /\ 1 \in 1..Len(ts)
          BY <1>2, <4>2, <4>4
        <5> QED BY <4>2, <5>1 DEF ReadAs
      <4> QED BY <4>3, <4>4
    <3>5. running' \in Abstract!LongestDue(left)
      BY <3>2, <3>3, <3>4 DEF Abstract!LongestDue
    <3> QED BY <1>8, <1>9, <1>11, <1>15, <3>3, <3>5 DEF Abstract!GiveCpu
  <2> QED BY <1>2, <2>4, <2>5
<1> QED BY <1>14, <1>15

\* disastrOS_sleep is a Doze of the Processor.
LEMMA SleepIsDoze ==
  ASSUME SchedInv, SchedInv', NEW n \in 0..MaxSleep, Sleep(n)
  PROVE  Abstract!Doze(n)
<1>1. /\ running # Clock
      /\ TimerListAdd(running, n)
      /\ waiting' = waiting \cup {running}
      /\ Dispatch
  BY DEF Sleep
<1>2. /\ running \in Proc /\ ready \in Seq(Proc) /\ waiting \subseteq Proc
      /\ running \notin waiting
      /\ Range(ready) = Proc \ (waiting \cup {running})
      /\ Range(ready') = Proc \ (waiting' \cup {running'})
      /\ running' \in Proc /\ running' \notin waiting'
      /\ Clock \notin waiting /\ Parked \subseteq waiting
  BY DEF SchedInv, OnePlace, TypeOK
<1>3. running' \in Range(ready) /\ Range(ready') = Range(ready) \ {running'}
  BY <1>1, <1>2
<1>4. /\ DOMAIN TicksLeft = waiting \ Parked
      /\ \A i \in 1..Len(timers) : /\ Sleeper(i) \in waiting \ Parked
                                   /\ TicksLeft[Sleeper(i)] = timers[i].left
      /\ {Sleeper(i) : i \in 1..Len(timers)} = waiting \ Parked
  BY TicksLeftRead DEF SchedInv, SleepersHaveOneTimer
<1>5. /\ {timers'[i].pcb : i \in 1..Len(timers')} = waiting' \ Parked
      /\ \A i, j \in 1..Len(timers') : timers'[i].pcb = timers'[j].pcb => i = j
  BY DEF SchedInv, SleepersHaveOneTimer, Sleeper
<1>6. TicksLeft' = [p \in {timers'[i].pcb : i \in 1..Len(timers')} |->
         timers'[CHOOSE i \in 1..Len(timers') : timers'[i].pcb = p].left]
  BY DEF TicksLeft, Sleeper
<1>7. /\ DOMAIN TicksLeft' = {timers'[i].pcb : i \in 1..Len(timers')}
      /\ \A i \in 1..Len(timers') : TicksLeft'[timers'[i].pcb] = timers'[i].left
  BY <1>5, <1>6, TicksRead
<1>8. TicksLeft' = [p \in waiting' \ Parked |-> TicksLeft'[p]]
  BY <1>5, <1>6
<1>9. waiting' \ Parked = (waiting \ Parked) \cup {running}
  BY <1>1, <1>2
<1>10. /\ \A i \in 1..Len(timers) :
            \E j \in 1..Len(timers') : timers'[j] = timers[i]
       /\ \E j \in 1..Len(timers') : timers'[j] = [pcb |-> running, left |-> n]
  BY <1>1, <1>2, ItemsAfterSleep, TimersHold
<1>11. ASSUME NEW p \in waiting \ Parked PROVE TicksLeft'[p] = TicksLeft[p]
  <2>1. PICK i \in 1..Len(timers) : p = Sleeper(i)
    BY <1>4
  <2>2. PICK j \in 1..Len(timers') : timers'[j] = timers[i]
    BY <1>10
  <2> QED BY <1>4, <1>7, <2>1, <2>2 DEF Sleeper
<1>12. TicksLeft'[running] = n
  <2>1. PICK j \in 1..Len(timers') : timers'[j] = [pcb |-> running, left |-> n]
    BY <1>10
  <2>2. timers'[j].pcb = running /\ timers'[j].left = n
    BY <2>1
  <2> QED BY <1>7, <2>2
<1>13. TicksLeft' = [p \in DOMAIN TicksLeft \cup {running} |->
                        IF p = running THEN n ELSE TicksLeft[p]]
  BY <1>2, <1>4, <1>8, <1>9, <1>11, <1>12
<1> QED BY <1>1, <1>3, <1>13 DEF Abstract!Doze

\* A run begins as the Processor may.
LEMMA InitIsInit == SchedInit => Abstract!Init
<1> SUFFICES ASSUME SchedInit PROVE Abstract!Init
  OBVIOUS
<1>1. SchedInv
  BY InitInv
<1>2. running \in Proc \ Parked /\ waiting = Parked /\ Len(timers) = 0
  BY DEF SchedInit
<1>3. Range(ready) = (Proc \ Parked) \ {running}
  BY <1>1, <1>2 DEF SchedInv, OnePlace
<1>4. TicksLeft = [p \in {} |-> 0]
  <2>1. DOMAIN TicksLeft = {}
    BY <1>1, <1>2, TicksLeftRead
  <2>2. TicksLeft = [p \in DOMAIN TicksLeft |-> TicksLeft[p]]
    BY DEF TicksLeft
  <2> QED BY <2>1, <2>2
<1> QED BY <1>2, <1>3, <1>4 DEF Abstract!Init

\* Every step is a step of the Processor, or leaves what it sees alone.
LEMMA NextIsNext ==
  SchedInv /\ SchedInv' /\ [SchedNext]_schedVars => [Abstract!Next]_(Abstract!vars)
<1> SUFFICES ASSUME SchedInv, SchedInv', [SchedNext]_schedVars
             PROVE  [Abstract!Next]_(Abstract!vars)
  OBVIOUS
<1>0. /\ DOMAIN TicksLeft = waiting \ Parked
      /\ \A i \in 1..Len(timers) : /\ Sleeper(i) \in waiting \ Parked
                                   /\ TicksLeft[Sleeper(i)] = timers[i].left
  BY TicksLeftRead
<1>1. CASE TimerInterrupt
  <2> DEFINE ts == [i \in 1..Len(timers) |-> [timers[i] EXCEPT !.left = @ - 1]]
             left == [p \in DOMAIN TicksLeft |-> TicksLeft[p] - 1]
  <2>1. ReadAs(ts) /\ InternalSchedule(ts)
    BY <1>1, TimersRead, TimersHold DEF TimerInterrupt
  <2>2. \A i \in 1..Len(timers) : timers[i] \in TimerItem
    BY ElementOfSeq DEF SchedInv, TypeOK
  <2>3. \A i \in 1..Len(timers) : left[Sleeper(i)] = ts[i].left
    BY <1>0, <2>2 DEF TimerItem
  <2>4. DOMAIN left = waiting \ Parked
    BY <1>0
  <2> HIDE DEF ts, left
  <2>5. Abstract!GiveCpu(left)
    BY <2>1, <2>3, <2>4, ScheduleGivesCpu
  <2> QED BY <2>5 DEF left, Abstract!Tick, Abstract!Next
<1>2. CASE Preempt
  <2>1. ReadAs(timers) /\ InternalSchedule(timers)
    BY <1>2, TimersRead, TimersHold DEF Preempt
  <2>2. Abstract!GiveCpu(TicksLeft)
    BY <1>0, <2>1, ScheduleGivesCpu
  <2> QED BY <2>2 DEF Abstract!Yield, Abstract!Next
<1>3. ASSUME NEW n \in 0..MaxSleep, Sleep(n)
      PROVE  Abstract!Next
  BY <1>3, SleepIsDoze DEF Abstract!Next
<1>4. CASE UNCHANGED schedVars
  <2>1. /\ running' = running /\ Range(ready)' = Range(ready)
        /\ TicksLeft' = TicksLeft
    BY <1>4 DEF schedVars, TicksLeft, Sleeper
  <2> QED BY <2>1 DEF Abstract!vars
<1> QED BY <1>1, <1>2, <1>3, <1>4 DEF SchedNext

(***************************************************************************)
(* The scheduler with its lists implements the Processor, whatever the     *)
(* number of processes: a sleeper becomes ready at exactly the dispatch    *)
(* that its sleep asked for, and runs before every process that was ready. *)
(***************************************************************************)
THEOREM SchedulerImplementsProcessor == SchedSpec => ImplementsProcessor
<1>1. SchedInit => Abstract!Init
  BY InitIsInit
<1>2. SchedInv /\ SchedInv' /\ [SchedNext]_schedVars => [Abstract!Next]_(Abstract!vars)
  BY NextIsNext
<1> QED BY <1>1, <1>2, InitInv, NextInv, PTL
        DEF SchedSpec, ImplementsProcessor, Abstract!Spec

=============================================================================
