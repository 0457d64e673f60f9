-------------------------- MODULE ProcessesProofs --------------------------
(***************************************************************************)
(* Theorems about spawn, wait and exit, for any number of PCBs and of      *)
(* spawns: every PCB has one home, every process a collector, and a parent *)
(* does not sleep through the exit of a child of its own.                  *)
(***************************************************************************)
EXTENDS Processes, ListLemmas

(***************************************************************************)
(* The parts of the inductive invariant.                                   *)
(***************************************************************************)
\* OneHome, home by home.
Places ==
    /\ {running} \cup Range(ready) \cup waiting \cup zombies \cup Range(free) = Block
    /\ running \notin Range(ready) \cup waiting \cup zombies \cup Range(free)
    /\ Range(ready) \cap (waiting \cup zombies \cup Range(free)) = {}
    /\ waiting \cap (zombies \cup Range(free)) = {}
    /\ zombies \cap Range(free) = {}
    /\ IsInjective(ready) /\ IsInjective(free)

\* wait and exit look at the status for what the lists say.
StatusFits ==
    /\ \A b \in Block : b \in waiting <=> status[b] = "Waiting"
    /\ \A b \in zombies : status[b] = "Zombie"
    /\ \A b \in Block : status[b] = "Zombie" => b \in zombies \cup Range(free)

\* The first two processes never end, and the clock never blocks.
Permanent ==
    /\ Clock \notin waiting \cup zombies \cup Range(free)
    /\ Init \notin zombies \cup Range(free)

\* A pid is given out once, to a process that somebody spawned.
Pids ==
    /\ \A b, c \in Block : pid[b] = pid[c] /\ pid[b] # 0 => b = c
    /\ \A b \in Block \ Range(free) :
          b # Init => pid[b] # 0 /\ parent[b] \in Block

\* A zombie has no children, and the first process keeps those it spawned.
Family ==
    /\ \A b \in zombies : children[b] = <<>>
    /\ \A b \in Block \ Range(free) :
          b # Init /\ parent[b] = Init => b \in Range(children[Init])
    /\ \A b \in Block \ Range(free) : b # Init =>
          \E p \in Block \ Range(free) : b \in Range(children[p])

ProcInv ==
    ProcTypeOK /\ Places /\ StatusFits /\ Permanent /\ Pids /\ Family /\ WaiterServed

-----------------------------------------------------------------------------
\* The processes that were not freed.
LEMMA LiveIsRange == Live = Block \ Range(free)
  BY DEF Live, ToSet, Range

\* The family tree gives every process its collector.
LEMMA FamilyHasCollector == Family => HasCollector
  BY LiveIsRange, ToSetIsRange DEF Family, HasCollector

\* Places without repetition are one home for each PCB.
LEMMA PlacesOneHome == Places => OneHome
<1> SUFFICES ASSUME Places PROVE OneHome
  OBVIOUS
<1>1. /\ Homes[1] = {running} /\ Homes[2] = Range(ready) /\ Homes[3] = waiting
      /\ Homes[4] = zombies /\ Homes[5] = Range(free)
  BY ToSetIsRange DEF Homes
<1>2. UNION ToSet(Homes) = Block
  <2>1. \A h : h \in ToSet(Homes) <=> \E i \in 1..5 : h = Homes[i]
    <3>1. DOMAIN Homes = 1..5
      BY DEF Homes
    <3> QED BY <3>1 DEF ToSet
  <2>2. \A h : h \in ToSet(Homes) <=>
           h \in {Homes[1], Homes[2], Homes[3], Homes[4], Homes[5]}
    <3>1. \A i : i \in 1..5 <=> i \in {1, 2, 3, 4, 5}
      OBVIOUS
    <3> QED BY <2>1, <3>1
  <2>3. ToSet(Homes) = {{running}, Range(ready), waiting, zombies, Range(free)}
    BY <1>1, <2>2
  <2> QED BY <2>3 DEF Places
<1>3. ASSUME NEW i \in 1..5, NEW j \in 1..5, i # j PROVE Homes[i] \cap Homes[j] = {}
  <2>1. i \in {1, 2, 3, 4, 5} /\ j \in {1, 2, 3, 4, 5}
    OBVIOUS
  <2>2. CASE i = 1
    BY <1>1, <1>3, <2>1, <2>2 DEF Places
  <2>3. CASE i = 2
    BY <1>1, <1>3, <2>1, <2>3 DEF Places
  <2>4. CASE i = 3
    BY <1>1, <1>3, <2>1, <2>4 DEF Places
  <2>5. CASE i = 4
    BY <1>1, <1>3, <2>1, <2>5 DEF Places
  <2>6. CASE i = 5
    BY <1>1, <1>3, <2>1, <2>6 DEF Places
  <2> QED BY <2>1, <2>2, <2>3, <2>4, <2>5, <2>6
<1> QED BY <1>2, <1>3 DEF OneHome, Places

\* Who runs is alive, and while another than the clock does, the clock is ready.
LEMMA SomebodyReady ==
  ASSUME ProcInv
  PROVE  /\ running \in Block \ Range(free)
         /\ status[running] # "Waiting" /\ status[running] # "Zombie"
         /\ running # Clock => ready # <<>>
<1>1. running \in Block /\ running \notin Range(free) /\ running \notin waiting /\ running \notin zombies
  BY DEF ProcInv, ProcTypeOK, Places
<1>2. status[running] # "Waiting" /\ status[running] # "Zombie"
  BY <1>1 DEF ProcInv, StatusFits
<1>3. ASSUME running # Clock, ready = <<>> PROVE FALSE
  <2>1. Range(ready) = {}
    BY <1>3 DEF Range
  <2>2. Clock \in {running} \cup Range(ready)
    BY ProcessAssumption DEF ProcInv, Places, Permanent
  <2> QED BY <1>3, <2>1, <2>2
<1> QED BY <1>1, <1>2, <1>3

-----------------------------------------------------------------------------
\* The first process and the clock, as the system starts them.
LEMMA InitHolds == ProcInit => ProcInv
<1> SUFFICES ASSUME ProcInit PROVE ProcInv
  OBVIOUS
<1>0. /\ Init \in Block /\ Clock \in Block /\ Init # Clock
      /\ NoBlock \notin Block /\ MaxPid \in Nat /\ MaxPid >= 1
  BY ProcessAssumption
<1>1. /\ free \in Seq(Block \ {Init, Clock}) /\ IsInjective(free)
      /\ Range(free) = Block \ {Init, Clock}
  <2>1. IsFiniteSet(Block \ {Init, Clock})
    BY ProcessAssumption, FS_Subset
  <2> QED BY <2>1, ListOfSet DEF ProcInit
<1>2. free \in Seq(Block)
  BY <1>1, <1>0
<1>3. /\ running = Init /\ ready = <<Clock>> /\ waiting = {} /\ zombies = {}
      /\ Range(ready) = {Clock} /\ IsInjective(ready) /\ ready \in Seq(Block)
  BY <1>0 DEF ProcInit, Range, IsInjective
<1>4. /\ children \in [Block -> Seq(Block)]
      /\ children[Init] = <<Clock>> /\ Range(children[Init]) = {Clock}
  BY <1>0 DEF ProcInit, Range
<1>5. /\ pid \in [Block -> 0..lastPid - 1] /\ lastPid \in 2..MaxPid + 1
      /\ pid[Clock] = 1 /\ \A b \in Block : b # Clock => pid[b] = 0
  BY <1>0 DEF ProcInit
<1>6. status \in [Block -> {"Invalid", "Running", "Ready", "Waiting", "Zombie"}]
      /\ \A b \in Block : status[b] \in {"Invalid", "Running", "Ready"}
  BY <1>0 DEF ProcInit
<1>7. ProcTypeOK
  <2>1. parent \in [Block -> Block \cup {NoBlock}]
    BY <1>0 DEF ProcInit
  <2>2. call \in [Block -> {"NONE", "SLEEP", "WAIT"} \X (0..MaxPid)]
    BY <1>0 DEF ProcInit, NoCall
  <2>3. returned \in [Block -> {EWait} \cup 0..MaxPid]
    BY <1>0 DEF ProcInit
  <2> QED BY <1>0, <1>2, <1>3, <1>4, <1>5, <1>6, <2>1, <2>2, <2>3 DEF ProcTypeOK
<1>8. Places
  BY <1>0, <1>1, <1>3 DEF Places
<1>9. StatusFits
  BY <1>3, <1>6 DEF StatusFits
<1>10. Permanent
  BY <1>0, <1>1, <1>3 DEF Permanent
<1>11. parent[Clock] = Init
  BY <1>0 DEF ProcInit
<1>12. Pids
  BY <1>0, <1>1, <1>5, <1>11 DEF Pids
<1>13. Family
  BY <1>0, <1>1, <1>3, <1>4 DEF Family
<1>14. WaiterServed
  BY <1>3 DEF WaiterServed, CanCollect
<1> QED BY <1>7, <1>8, <1>9, <1>10, <1>12, <1>13, <1>14 DEF ProcInv

-----------------------------------------------------------------------------
\* The next process is taken off the ready list.
LEMMA RunNextEffect ==
  ASSUME ProcInv, running # Clock, RunNext
  PROVE  /\ running' = Head(ready) /\ Head(ready) \in Range(ready)
         /\ Head(ready) \in Block /\ Head(ready) # running
         /\ ready' \in Seq(Block) /\ IsInjective(ready')
         /\ Range(ready') = Range(ready) \ {Head(ready)}
<1>1. ready # <<>> /\ ready \in Seq(Block) /\ IsInjective(ready)
  BY SomebodyReady DEF ProcInv, Places, ProcTypeOK
<1>2. /\ Head(ready) \in Range(ready) /\ Tail(ready) \in Seq(Block)
      /\ Range(Tail(ready)) = Range(ready) \ {Head(ready)}
      /\ IsInjective(Tail(ready))
  BY <1>1, DetachHead
<1>3. Range(ready) \subseteq Block /\ running \notin Range(ready)
  BY DEF ProcInv, Places
<1> QED BY <1>2, <1>3 DEF RunNext

\* disastrOS_sleep and disastrOS_wait block the caller.
LEMMA BlockEffect ==
  ASSUME ProcInv, running # Clock, RunNext,
         waiting' = waiting \cup {running},
         status' = [status EXCEPT ![running] = "Waiting"],
         UNCHANGED <<zombies, pool, parent, children, returned>>,
         call' \in [Block -> {"NONE", "SLEEP", "WAIT"} \X (0..MaxPid)]
  PROVE  ProcTypeOK' /\ Places' /\ StatusFits' /\ Permanent' /\ Pids' /\ Family'
<1>0. ProcTypeOK /\ Places /\ StatusFits /\ Permanent /\ Pids /\ Family
  BY DEF ProcInv
<1>1. /\ zombies' = zombies /\ free' = free /\ lastPid' = lastPid /\ pid' = pid
      /\ parent' = parent /\ children' = children /\ returned' = returned
  BY DEF pool
<1>2. /\ running' = Head(ready) /\ Head(ready) \in Range(ready)
      /\ Head(ready) \in Block /\ Head(ready) # running
      /\ ready' \in Seq(Block) /\ IsInjective(ready')
      /\ Range(ready') = Range(ready) \ {Head(ready)}
  BY RunNextEffect
<1>3. ProcTypeOK'
  BY <1>0, <1>1, <1>2 DEF ProcTypeOK
<1>4. Places'
  BY <1>0, <1>1, <1>2 DEF Places
<1>5. StatusFits'
  BY <1>0, <1>1, SomebodyReady DEF StatusFits, ProcTypeOK
<1>6. Permanent'
  BY <1>0, <1>1 DEF Permanent
<1>7. Pids' /\ Family'
  BY <1>0, <1>1 DEF Pids, Family
<1> QED BY <1>3, <1>4, <1>5, <1>6, <1>7

\* disastrOS_sleep keeps the invariant.
LEMMA SleepStep == ProcInv /\ Sleep => ProcInv'
<1> SUFFICES ASSUME ProcInv, Sleep PROVE ProcInv'
  OBVIOUS
<1>0. ProcTypeOK /\ WaiterServed /\ MaxPid \in Nat
  BY ProcessAssumption DEF ProcInv
<1>1. call' \in [Block -> {"NONE", "SLEEP", "WAIT"} \X (0..MaxPid)]
  <2>1. <<"SLEEP", 0>> \in {"NONE", "SLEEP", "WAIT"} \X (0..MaxPid)
    BY <1>0
  <2> QED BY <1>0, <2>1 DEF Sleep, ProcTypeOK
<1>2. ProcTypeOK' /\ Places' /\ StatusFits' /\ Permanent' /\ Pids' /\ Family'
  BY <1>1, BlockEffect DEF Sleep
<1>3. WaiterServed'
  <2> SUFFICES ASSUME NEW p \in Block, NEW b \in Block, CanCollect(p, b)'
               PROVE  parent'[b] # p
    BY DEF WaiterServed
  <2>1. p # running
    BY <1>0 DEF Sleep, CanCollect, ProcTypeOK
  <2>2. CanCollect(p, b)
    BY <1>0, <2>1 DEF Sleep, CanCollect, ProcTypeOK, pool
  <2> QED BY <1>0, <2>2 DEF Sleep, WaiterServed
<1> QED BY <1>2, <1>3 DEF ProcInv

\* internal_schedule moves the woken and the running process.
LEMMA ScheduleStep == ProcInv /\ Schedule => ProcInv'
<1> SUFFICES ASSUME ProcInv, Schedule PROVE ProcInv'
  OBVIOUS
<1>0. ProcTypeOK /\ Places /\ StatusFits /\ Permanent /\ Pids /\ Family /\ WaiterServed
  BY DEF ProcInv
<1> DEFINE Wakes(sleepers, woken) ==
        \/ woken \o ready = <<>> /\ UNCHANGED procVars
        \/ /\ woken \o ready # <<>>
           /\ waiting' = waiting \ sleepers
           /\ running' = Head(woken \o ready)
           /\ ready' = Append(Tail(woken \o ready), running)
           /\ status' = [b \in Block |->
                  IF b = Head(woken \o ready) THEN "Running"
                  ELSE IF b \in sleepers \cup {running} THEN "Ready"
                  ELSE status[b]]
           /\ call' = [b \in Block |-> IF b \in sleepers THEN NoCall ELSE call[b]]
           /\ UNCHANGED <<zombies, pool, parent, children, returned>>
<1>7. PICK sleepers \in SUBSET {b \in waiting : call[b][1] = "SLEEP"} :
         \E woken \in SetToSeqs(sleepers) : Wakes(sleepers, woken)
  BY DEF Schedule
<1>1. PICK woken \in SetToSeqs(sleepers) : Wakes(sleepers, woken)
  BY <1>7
<1>2. sleepers \subseteq waiting /\ sleepers \subseteq Block
  BY <1>0 DEF ProcTypeOK
<1>3. woken \in Seq(Block) /\ Range(woken) = sleepers /\ IsInjective(woken)
  <2>1. IsFiniteSet(sleepers)
    BY <1>2, ProcessAssumption, FS_Subset
  <2>2. woken \in [1..Cardinality(sleepers) -> sleepers] /\ IsInjective(woken)
    BY <1>1 DEF SetToSeqs, IsInjective
  <2>3. woken \in Seq(sleepers) /\ Range(woken) = sleepers
    BY <2>1, <2>2, FullList
  <2> QED BY <1>2, <2>2, <2>3
<1> DEFINE queue == woken \o ready
<1>4. queue \in Seq(Block) /\ Range(queue) = sleepers \cup Range(ready) /\ IsInjective(queue)
  <2>1. Range(woken) \cap Range(ready) = {}
    BY <1>0, <1>2, <1>3 DEF Places
  <2> QED BY <1>0, <1>3, <2>1, ConcatKeepsItems DEF ProcTypeOK, Places
<1>5. CASE queue = <<>> /\ UNCHANGED procVars
  BY <1>0, <1>5 DEF ProcInv, procVars, lists, pool, ProcTypeOK, Places, StatusFits, Permanent,
       Pids, Family, WaiterServed, CanCollect
<1>6. CASE queue # <<>> /\ waiting' = waiting \ sleepers
  <2> DEFINE h == Head(queue)
  <2>1. /\ h \in Range(queue) /\ Tail(queue) \in Seq(Block)
        /\ Range(Tail(queue)) = Range(queue) \ {h} /\ IsInjective(Tail(queue))
    BY <1>4, <1>6, DetachHead
  <2>2. /\ running' = h
        /\ ready' = Append(Tail(queue), running)
        /\ status' = [b \in Block |->
               IF b = h THEN "Running"
               ELSE IF b \in sleepers \cup {running} THEN "Ready"
               ELSE status[b]]
        /\ call' = [b \in Block |-> IF b \in sleepers THEN NoCall ELSE call[b]]
        /\ zombies' = zombies /\ free' = free /\ lastPid' = lastPid /\ pid' = pid
        /\ parent' = parent /\ children' = children /\ returned' = returned
    BY <1>1, <1>6 DEF pool
  <2> HIDE DEF queue
  <2>3. running \in Block /\ running \notin Range(queue) /\ h \in Block
    BY <1>0, <1>2, <1>4, <2>1 DEF Places, ProcTypeOK
  <2>4. /\ ready' \in Seq(Block) /\ IsInjective(ready')
        /\ Range(ready') = (Range(queue) \ {h}) \cup {running}
    <3> DEFINE t == Tail(queue)
    <3>1. t \in Seq(Block) /\ IsInjective(t) /\ running \in Block /\ running \notin Range(t)
      BY <2>1, <2>3
    <3>2. ready' = Append(t, running) /\ Range(t) = Range(queue) \ {h}
      BY <2>1, <2>2
    <3> HIDE DEF t, h
    <3> QED BY <3>1, <3>2, InsertLast
  <2>5. ProcTypeOK'
    <3>1. NoCall \in {"NONE", "SLEEP", "WAIT"} \X (0..MaxPid)
      BY ProcessAssumption DEF NoCall
    <3>2. call' \in [Block -> {"NONE", "SLEEP", "WAIT"} \X (0..MaxPid)]
      BY <1>0, <2>2, <3>1 DEF ProcTypeOK
    <3>3. status' \in [Block -> {"Invalid", "Running", "Ready", "Waiting", "Zombie"}]
      BY <1>0, <2>2 DEF ProcTypeOK
    <3> QED BY <1>0, <1>6, <2>2, <2>3, <2>4, <3>2, <3>3 DEF ProcTypeOK
  <2>6. Places'
    BY <1>0, <1>2, <1>4, <1>6, <2>1, <2>2, <2>3, <2>4 DEF Places
  <2>7. StatusFits'
    <3>1. \A b \in Block : b \in waiting' <=> status'[b] = "Waiting"
      BY <1>0, <1>2, <1>4, <1>6, <2>1, <2>2 DEF StatusFits, Places
    <3>2. \A b \in zombies' : status'[b] = "Zombie"
      BY <1>0, <1>2, <1>4, <2>1, <2>2 DEF StatusFits, Places, ProcTypeOK
    <3>3. \A b \in Block : status'[b] = "Zombie" => b \in zombies' \cup Range(free')
      BY <1>0, <2>2 DEF StatusFits
    <3> QED BY <3>1, <3>2, <3>3 DEF StatusFits
  <2>8. Permanent' /\ Pids' /\ Family'
    BY <1>0, <1>6, <2>2 DEF Permanent, Pids, Family
  <2>9. WaiterServed'
    <3> SUFFICES ASSUME NEW p \in Block, NEW b \in Block, CanCollect(p, b)'
                 PROVE  parent'[b] # p
      BY DEF WaiterServed
    <3>1. CanCollect(p, b)
      BY <1>6, <2>2 DEF CanCollect
    <3> QED BY <1>0, <2>2, <3>1 DEF WaiterServed
  <2> QED BY <2>5, <2>6, <2>7, <2>8, <2>9 DEF ProcInv
<1> QED BY <1>1, <1>5, <1>6

\* internal_spawn takes a block of the pool.
LEMMA SpawnStep == ProcInv /\ Spawn => ProcInv'
<1> SUFFICES ASSUME ProcInv, Spawn PROVE ProcInv'
  OBVIOUS
<1> DEFINE new == Head(free)
<1>0. /\ ProcTypeOK /\ Places /\ StatusFits /\ Permanent /\ Pids /\ Family /\ WaiterServed
      /\ MaxPid \in Nat
  BY ProcessAssumption DEF ProcInv
<1>1. /\ free # <<>> /\ lastPid <= MaxPid
      /\ pid' = [pid EXCEPT ![new] = lastPid]
      /\ status' = [status EXCEPT ![new] = "Ready"]
      /\ parent' = [parent EXCEPT ![new] = running]
      /\ children' = [children EXCEPT ![new] = <<>>, ![running] = Append(@, new)]
      /\ returned' = [returned EXCEPT ![new] = 0]
      /\ ready' = Append(ready, new)
      /\ free' = Tail(free) /\ lastPid' = lastPid + 1
      /\ running' = running /\ waiting' = waiting /\ zombies' = zombies /\ call' = call
  BY DEF Spawn, NewPid
<1>2. /\ new \in Range(free) /\ free' \in Seq(Block)
      /\ Range(free') = Range(free) \ {new} /\ IsInjective(free')
  BY <1>0, <1>1, DetachHead DEF ProcTypeOK, Places
<1>3. /\ new \in Block /\ new \notin Range(ready) /\ new # running
      /\ new \notin waiting /\ new \notin zombies /\ new # Init
      /\ running \in Block /\ running \notin Range(free) /\ running \notin zombies
      /\ running \notin waiting
  BY <1>0, <1>2 DEF Places, Permanent, ProcTypeOK
<1> HIDE DEF new
<1>4. /\ ready' \in Seq(Block) /\ IsInjective(ready')
      /\ Range(ready') = Range(ready) \cup {new}
  BY <1>0, <1>1, <1>3, InsertLast DEF ProcTypeOK, Places
<1>5. /\ children' \in [Block -> Seq(Block)]
      /\ Range(children'[running]) = Range(children[running]) \cup {new}
      /\ \A b \in Block : b # running /\ b # new => children'[b] = children[b]
  <2>1. children[running] \in Seq(Block)
    BY <1>0, <1>3 DEF ProcTypeOK
  <2>2. /\ Append(children[running], new) \in Seq(Block)
        /\ Range(Append(children[running], new)) = Range(children[running]) \cup {new}
    BY <1>3, <2>1, AppendItems
  <2>3. /\ children'[running] = Append(children[running], new)
        /\ \A b \in Block : b # running /\ b # new => children'[b] = children[b]
    BY <1>0, <1>1, <1>3 DEF ProcTypeOK
  <2>4. children' \in [Block -> Seq(Block)]
    <3>1. children \in [Block -> Seq(Block)] /\ <<>> \in Seq(Block)
      BY <1>0 DEF ProcTypeOK
    <3>2. children' = [b \in Block |-> IF b = running THEN Append(children[running], new)
                                       ELSE IF b = new THEN <<>> ELSE children[b]]
      BY <1>1, <1>3, <3>1
    <3>3. \A b \in Block : (IF b = running THEN Append(children[running], new)
                            ELSE IF b = new THEN <<>> ELSE children[b]) \in Seq(Block)
      BY <2>2, <3>1
    <3> QED BY <3>2, <3>3
  <2> QED BY <2>2, <2>3, <2>4
<1>6. ProcTypeOK'
  <2>1. lastPid \in Nat /\ lastPid' \in 2..MaxPid + 1
    BY <1>0, <1>1 DEF ProcTypeOK
  <2>2. pid' \in [Block -> 0..lastPid' - 1]
    <3>1. pid \in [Block -> 0..lastPid - 1] /\ lastPid' = lastPid + 1
      BY <1>0, <1>1 DEF ProcTypeOK
    <3>2. lastPid \in 0..lastPid' - 1 /\ \A b \in Block : pid[b] \in 0..lastPid' - 1
      BY <2>1, <3>1
    <3>3. pid' = [b \in Block |-> IF b = new THEN lastPid ELSE pid[b]]
      BY <1>1, <1>3, <3>1
    <3> QED BY <3>2, <3>3
  <2>3. returned' \in [Block -> {EWait} \cup 0..MaxPid]
    <3>1. 0 \in {EWait} \cup 0..MaxPid
      BY <1>0
    <3> QED BY <1>0, <1>1, <3>1 DEF ProcTypeOK
  <2>4. status' \in [Block -> {"Invalid", "Running", "Ready", "Waiting", "Zombie"}]
    BY <1>0, <1>1 DEF ProcTypeOK
  <2>5. parent' \in [Block -> Block \cup {NoBlock}]
    BY <1>0, <1>1, <1>3 DEF ProcTypeOK
  <2> QED BY <1>0, <1>1, <1>2, <1>4, <1>5, <2>1, <2>2, <2>3, <2>4, <2>5 DEF ProcTypeOK
<1>7. Places'
  BY <1>0, <1>1, <1>2, <1>3, <1>4 DEF Places
<1>8. StatusFits'
  BY <1>0, <1>1, <1>2, <1>3 DEF StatusFits, ProcTypeOK
<1>9. Permanent'
  BY <1>0, <1>1, <1>2 DEF Permanent
<1>10. Pids'
  <2>1. pid'[new] = lastPid /\ \A b \in Block : b # new => pid'[b] = pid[b] /\ pid[b] # lastPid
    BY <1>0, <1>1, <1>3 DEF ProcTypeOK
  <2>2. \A b, c \in Block : pid'[b] = pid'[c] /\ pid'[b] # 0 => b = c
    BY <1>0, <2>1 DEF Pids
  <2>3. parent'[new] = running /\ \A b \in Block : b # new => parent'[b] = parent[b]
    BY <1>0, <1>1, <1>3 DEF ProcTypeOK
  <2>4. lastPid # 0
    BY <1>0 DEF ProcTypeOK
  <2>5. \A b \in Block \ Range(free') : b # Init => pid'[b] # 0 /\ parent'[b] \in Block
    BY <1>0, <1>2, <1>3, <2>1, <2>3, <2>4 DEF Pids
  <2> QED BY <2>2, <2>5 DEF Pids
<1>11. Family'
  <2>1. \A b \in zombies' : children'[b] = <<>>
    BY <1>0, <1>1, <1>3, <1>5 DEF Family, ProcTypeOK
  <2>2. \A b \in Block : b # new => Range(children[b]) \subseteq Range(children'[b])
    BY <1>5
  <2>3. ASSUME NEW b \in Block \ Range(free'), b # Init, parent'[b] = Init
        PROVE  b \in Range(children'[Init])
    <3>1. CASE b = new
      <4>1. running = Init
        BY <1>0, <1>1, <2>3, <3>1 DEF ProcTypeOK
      <4> QED BY <1>5, <3>1, <4>1
    <3>2. CASE b # new
      <4>1. parent[b] = Init
        BY <1>0, <1>1, <2>3, <3>2 DEF ProcTypeOK
      <4>2. b \in Range(children[Init])
        BY <1>0, <1>2, <2>3, <3>2, <4>1 DEF Family
      <4> QED BY <1>3, <2>2, <4>2, ProcessAssumption
    <3> QED BY <3>1, <3>2
  <2>4. ASSUME NEW b \in Block \ Range(free'), b # Init
        PROVE  \E p \in Block \ Range(free') : b \in Range(children'[p])
    <3>1. CASE b = new
      BY <1>2, <1>3, <1>5, <3>1
    <3>2. CASE b # new
      <4>1. PICK p \in Block \ Range(free) : b \in Range(children[p])
        BY <1>0, <1>2, <2>4, <3>2 DEF Family
      <4> QED BY <1>2, <2>2, <4>1
    <3> QED BY <3>1, <3>2
  <2> QED BY <2>1, <2>3, <2>4 DEF Family
<1>12. WaiterServed'
  <2> SUFFICES ASSUME NEW p \in Block, NEW b \in Block, CanCollect(p, b)'
               PROVE  parent'[b] # p
    BY DEF WaiterServed
  <2>1. p \in waiting /\ b \in zombies
    BY <1>1 DEF CanCollect
  <2>2. children'[p] = children[p] /\ pid'[b] = pid[b] /\ parent'[b] = parent[b]
    BY <1>0, <1>1, <1>3, <1>5, <2>1 DEF ProcTypeOK
  <2>3. CanCollect(p, b)
    BY <1>1, <2>2 DEF CanCollect
  <2> QED BY <1>0, <2>2, <2>3 DEF WaiterServed
<1> QED BY <1>6, <1>7, <1>8, <1>9, <1>10, <1>11, <1>12 DEF ProcInv

-----------------------------------------------------------------------------
\* A place that SelectInSeq finds is one, of an item that passes the test.
LEMMA RemoveByPidKeeps ==
  ASSUME NEW list \in Seq(Block), NEW n
  PROVE  /\ RemoveByPid(list, n) \in Seq(Block)
         /\ Range(RemoveByPid(list, n)) \subseteq Range(list)
         /\ \A b \in Range(list) : pid[b] # n => b \in Range(RemoveByPid(list, n))
<1> DEFINE places == {i \in 1..Len(list) : pid[list[i]] = n}
<1>1. CASE places = {}
  <2>1. RemoveByPid(list, n) = list
    BY <1>1 DEF RemoveByPid, SelectInSeq
  <2> QED BY <2>1
<1>2. CASE places # {}
  <2>1. Min(places) \in places
    BY <1>2, MinIsFirst
  <2> DEFINE at == Min(places)
  <2>2. at \in 1..Len(list) /\ pid[list[at]] = n /\ at # 0
    BY <2>1
  <2>3. RemoveByPid(list, n) = RemoveAt(list, at)
    BY <1>2, <2>2 DEF RemoveByPid, SelectInSeq
  <2> HIDE DEF at, places
  <2>4. /\ RemoveAt(list, at) \in Seq(Block)
        /\ Range(RemoveAt(list, at)) \subseteq Range(list)
        /\ Range(list) \subseteq Range(RemoveAt(list, at)) \cup {list[at]}
    BY <2>2, RemoveAtKeepsItems
  <2> QED BY <2>2, <2>3, <2>4
<1> QED BY <1>1, <1>2

\* PCB_free of a block that the caller found in a list of PCBs.
LEMMA PcbFreeEffect ==
  ASSUME ProcInv, NEW b \in Block, free' = PcbFree(b)
  PROVE  /\ free' \in Seq(Block) /\ IsInjective(free')
         /\ Range(free') = Range(free) \cup {b}
<1>0. free \in Seq(Block) /\ IsInjective(free)
  BY DEF ProcInv, ProcTypeOK, Places
<1>1. CASE b \in Range(free)
  BY <1>0, <1>1, ToSetIsRange DEF PcbFree
<1>2. CASE b \notin Range(free)
  BY <1>0, <1>2, ToSetIsRange, InsertFirst DEF PcbFree
<1> QED BY <1>1, <1>2

\* No waiting parent has a zombie of its own among children that moved to
\* the first process: those it spawned were on its list already.
LEMMA MovedChildrenServed ==
  ASSUME ProcInv, NEW p \in Block, NEW b \in zombies,
         p \in waiting, call[p][1] = "WAIT", call[p][2] \in {0, pid[b]},
         b \in Range(children[p]) \/ p = Init
  PROVE  parent[b] # p
<1> SUFFICES ASSUME parent[b] = p PROVE FALSE
  OBVIOUS
<1>1. b \in Block \ Range(free) /\ b # Init
  BY DEF ProcInv, ProcTypeOK, Places, Permanent
<1>2. b \in Range(children[p])
  BY <1>1 DEF ProcInv, Family
<1>3. CanCollect(p, b)
  BY <1>2, ToSetIsRange DEF CanCollect
<1> QED BY <1>1, <1>3 DEF ProcInv, WaiterServed

-----------------------------------------------------------------------------
\* The children of a process that exits are init's.
LEMMA ReparentEffect ==
  ASSUME ProcTypeOK, NEW self \in Block, self # Init
  PROVE  /\ Reparent(self) \in [Block -> Seq(Block)]
         /\ Range(Reparent(self)[Init]) = Range(children[Init]) \cup Range(children[self])
         /\ Reparent(self)[self] = <<>>
         /\ \A q \in Block : q # Init /\ q # self => Reparent(self)[q] = children[q]
<1> DEFINE moved == children[Init] \o children[self]
<1>1. /\ children \in [Block -> Seq(Block)] /\ <<>> \in Seq(Block) /\ Init \in Block
      /\ children[Init] \in Seq(Block) /\ children[self] \in Seq(Block)
  BY ProcessAssumption DEF ProcTypeOK
<1>2. moved \in Seq(Block) /\ Range(moved) = Range(children[Init]) \cup Range(children[self])
  BY <1>1, ConcatItems
<1>3. Reparent(self) = [children EXCEPT ![self] = <<>>, ![Init] = moved]
  BY DEF Reparent
<1> HIDE DEF moved
<1>4. Reparent(self) = [q \in Block |-> IF q = Init THEN moved
                                        ELSE IF q = self THEN <<>> ELSE children[q]]
  BY <1>1, <1>3
<1>5. \A q \in Block : (IF q = Init THEN moved
                        ELSE IF q = self THEN <<>> ELSE children[q]) \in Seq(Block)
  BY <1>1, <1>2
<1>6. Reparent(self) \in [Block -> Seq(Block)]
  BY <1>4, <1>5
<1> QED BY <1>1, <1>2, <1>4, <1>6

\* internal_exit when the parent is woken and the PCB freed.
LEMMA ExitToParentStep ==
  ASSUME ProcInv, running \notin {Init, Clock}, ExitToParent,
         UNCHANGED <<lastPid, pid, parent>>
  PROVE  ProcInv'
<1> DEFINE self == running
           p == parent[running]
<1>0. /\ ProcTypeOK /\ Places /\ StatusFits /\ Permanent /\ Pids /\ Family /\ WaiterServed
      /\ Init \in Block
  BY ProcessAssumption DEF ProcInv
<1>1. /\ status[p] = "Waiting"
      /\ waiting' = waiting \ {p}
      /\ running' = p
      /\ status' = [status EXCEPT ![self] = "Zombie", ![p] = "Running"]
      /\ children' = [Reparent(self) EXCEPT ![p] = RemoveByPid(@, pid[self])]
      /\ returned' = [returned EXCEPT ![p] = pid[self]]
      /\ call' = [call EXCEPT ![p] = NoCall]
      /\ free' = PcbFree(self)
      /\ ready' = ready /\ zombies' = zombies
      /\ lastPid' = lastPid /\ pid' = pid /\ parent' = parent
  BY DEF ExitToParent, WaitsFor
<1>2. /\ self \in Block /\ self \notin Range(free) /\ self \notin Range(ready)
      /\ self \notin waiting /\ self \notin zombies /\ self # Init
      /\ p \in Block /\ pid[self] # 0
  BY <1>0 DEF ProcTypeOK, Places, Pids
<1>3. p \in waiting /\ p # self /\ p \notin zombies /\ p \notin Range(free) /\ p \notin Range(ready)
  BY <1>0, <1>1, <1>2 DEF StatusFits, Places
<1>4. /\ free' \in Seq(Block) /\ IsInjective(free')
      /\ Range(free') = Range(free) \cup {self}
  BY <1>1, <1>2, PcbFreeEffect
<1> HIDE DEF self, p
<1>5. /\ children' \in [Block -> Seq(Block)]
      /\ \A q \in Block : q # self =>
            /\ Range(children[q]) \subseteq Range(children'[q]) \cup {self}
            /\ q # Init => Range(children'[q]) \subseteq Range(children[q])
      /\ Range(children[self]) \subseteq Range(children'[Init]) \cup {self}
      /\ \A q \in Block : children[q] = <<>> /\ q # p /\ q # Init => children'[q] = <<>>
  <2> DEFINE moved == Reparent(self)
             left == RemoveByPid(moved[p], pid[self])
  <2>1. moved \in [Block -> Seq(Block)]
    BY <1>0, <1>2, ReparentEffect
  <2>2. /\ Range(moved[Init]) = Range(children[Init]) \cup Range(children[self])
         /\ moved[self] = <<>>
         /\ \A q \in Block : q # Init /\ q # self => moved[q] = children[q]
    BY <1>0, <1>2, ReparentEffect
  <2>3. children' = [q \in Block |-> IF q = p THEN left ELSE moved[q]]
    <3>1. children' = [moved EXCEPT ![p] = RemoveByPid(@, pid[self])]
      BY <1>1
    <3> HIDE DEF moved
    <3> QED BY <1>2, <2>1, <3>1
  <2> HIDE DEF moved
  <2>4. /\ left \in Seq(Block) /\ Range(left) \subseteq Range(moved[p])
        /\ \A b \in Range(moved[p]) : pid[b] # pid[self] => b \in Range(left)
    BY <1>2, <2>1, RemoveByPidKeeps
  <2> HIDE DEF left
  <2>5. Range(moved[p]) \subseteq Range(left) \cup {self}
    <3>1. Range(moved[p]) \subseteq Block
      BY <1>2, <2>1, RangeIsElements
    <3>2. \A b \in Range(moved[p]) : pid[b] = pid[self] => b = self
      BY <1>0, <1>2, <3>1 DEF Pids
    <3> QED BY <2>4, <3>2
  <2>6. children' \in [Block -> Seq(Block)]
    BY <2>1, <2>3, <2>4
  <2>7. \A q \in Block : /\ Range(moved[q]) \subseteq Range(children'[q]) \cup {self}
                         /\ Range(children'[q]) \subseteq Range(moved[q])
    BY <1>2, <2>3, <2>4, <2>5
  <2>8. ASSUME NEW q \in Block, q # self
        PROVE  /\ Range(children[q]) \subseteq Range(children'[q]) \cup {self}
               /\ q # Init => Range(children'[q]) \subseteq Range(children[q])
    <3>1. CASE q = Init
      BY <2>2, <2>7, <3>1
    <3>2. CASE q # Init
      BY <2>8, <2>2, <2>7, <3>2
    <3> QED BY <3>1, <3>2
  <2>9. Range(children[self]) \subseteq Range(children'[Init]) \cup {self}
    BY <1>0, <2>2, <2>7
  <2>10. \A q \in Block : children[q] = <<>> /\ q # p /\ q # Init => children'[q] = <<>>
    BY <2>3, <2>2
  <2> QED BY <2>6, <2>8, <2>9, <2>10
<1>6. ProcTypeOK'
  <2>1. NoCall \in {"NONE", "SLEEP", "WAIT"} \X (0..MaxPid)
    BY ProcessAssumption DEF NoCall
  <2>2. call' \in [Block -> {"NONE", "SLEEP", "WAIT"} \X (0..MaxPid)]
    BY <1>0, <1>1, <2>1 DEF ProcTypeOK
  <2>3. returned' \in [Block -> {EWait} \cup 0..MaxPid]
    <3>1. pid[self] \in {EWait} \cup 0..MaxPid
      <4>1. pid[self] \in 0..lastPid - 1 /\ lastPid \in 2..MaxPid + 1 /\ MaxPid \in Nat
        BY <1>0, <1>2, ProcessAssumption DEF ProcTypeOK
      <4>2. pid[self] \in 0..MaxPid
        BY <4>1
      <4> QED BY <4>2
    <3> QED BY <1>0, <1>1, <3>1 DEF ProcTypeOK
  <2>4. status' \in [Block -> {"Invalid", "Running", "Ready", "Waiting", "Zombie"}]
    BY <1>0, <1>1 DEF ProcTypeOK
  <2>5. /\ running' \in Block /\ ready' \in Seq(Block) /\ free' \in Seq(Block)
        /\ waiting' \subseteq Block /\ zombies' \subseteq Block
        /\ lastPid' \in 2..MaxPid + 1 /\ pid' \in [Block -> 0..lastPid' - 1]
        /\ parent' \in [Block -> Block \cup {NoBlock}]
    BY <1>0, <1>1, <1>2, <1>4 DEF ProcTypeOK
  <2>6. children' \in [Block -> Seq(Block)]
    BY <1>5
  <2> QED BY <2>2, <2>3, <2>4, <2>5, <2>6 DEF ProcTypeOK
<1>7. Places'
  <2>1. running' = p /\ running = self
    BY <1>1 DEF self
  <2> QED BY <1>0, <1>1, <1>2, <1>3, <1>4, <2>1 DEF Places
<1>8. StatusFits'
  <2>1. /\ status'[self] = "Zombie" /\ status'[p] = "Running"
        /\ \A b \in Block : b # self /\ b # p => status'[b] = status[b]
    BY <1>0, <1>1, <1>2, <1>3 DEF ProcTypeOK
  <2> QED BY <1>0, <1>1, <1>2, <1>3, <1>4, <2>1 DEF StatusFits, ProcTypeOK
<1>9. Permanent'
  BY <1>0, <1>1, <1>4 DEF Permanent, self
<1>10. Pids'
  BY <1>0, <1>1, <1>4 DEF Pids
<1>11. Family'
  <2>1. ASSUME NEW b \in zombies' PROVE children'[b] = <<>>
    <3>1. b \in zombies /\ b \in Block /\ b # Init /\ b # p
      BY <1>0, <1>1, <1>3 DEF ProcTypeOK, Permanent
    <3> QED BY <1>0, <1>5, <3>1 DEF Family
  <2>2. ASSUME NEW b \in Block \ Range(free'), b # Init, parent'[b] = Init
        PROVE  b \in Range(children'[Init])
    <3>1. b # self /\ b \in Range(children[Init])
      BY <1>0, <1>1, <1>4, <2>2 DEF Family
    <3> QED BY <1>0, <1>2, <1>5, <3>1
  <2>3. ASSUME NEW b \in Block \ Range(free'), b # Init
        PROVE  \E q \in Block \ Range(free') : b \in Range(children'[q])
    <3>1. b # self /\ b \in Block \ Range(free)
      BY <1>4
    <3>2. PICK q \in Block \ Range(free) : b \in Range(children[q])
      BY <1>0, <2>3, <3>1 DEF Family
    <3>3. CASE q = self
      <4>1. b \in Range(children'[Init])
        BY <1>5, <3>1, <3>2, <3>3
      <4>2. Init \in Block \ Range(free')
        BY <1>0, <1>2, <1>4 DEF Permanent
      <4> QED BY <4>1, <4>2
    <3>4. CASE q # self
      BY <1>4, <1>5, <3>1, <3>2, <3>4
    <3> QED BY <3>3, <3>4
  <2> QED BY <2>1, <2>2, <2>3 DEF Family
<1>12. WaiterServed'
  <2> SUFFICES ASSUME NEW q \in Block, NEW b \in Block, CanCollect(q, b)'
               PROVE  parent[b] # q
    BY <1>1 DEF WaiterServed
  <2>1. /\ q \in waiting /\ q # p /\ b \in zombies /\ b \in Range(children'[q])
        /\ call'[q][1] = "WAIT" /\ call'[q][2] \in {0, pid[b]}
    BY <1>1, ToSetIsRange DEF CanCollect
  <2>2. call'[q] = call[q] /\ q # self
    BY <1>0, <1>1, <1>2, <2>1 DEF ProcTypeOK
  <2>3. b \in Range(children[q]) \/ q = Init
    BY <1>5, <2>1, <2>2
  <2> QED BY <2>1, <2>2, <2>3, MovedChildrenServed
<1> QED BY <1>6, <1>7, <1>8, <1>9, <1>10, <1>11, <1>12 DEF ProcInv

\* internal_exit when nobody waits.
LEMMA ExitToZombieStep ==
  ASSUME ProcInv, running \notin {Init, Clock}, ExitToZombie,
         UNCHANGED <<lastPid, pid, parent>>
  PROVE  ProcInv'
<1> DEFINE self == running
           h == Head(ready)
<1>0. /\ ProcTypeOK /\ Places /\ StatusFits /\ Permanent /\ Pids /\ Family /\ WaiterServed
      /\ Init \in Block
  BY ProcessAssumption DEF ProcInv
<1>1. /\ ~ WaitsFor(parent[self], self)
      /\ children' = Reparent(self)
      /\ zombies' = zombies \cup {self}
      /\ status' = [status EXCEPT ![self] = "Zombie", ![h] = "Running"]
      /\ waiting' = waiting /\ returned' = returned /\ free' = free /\ call' = call
      /\ lastPid' = lastPid /\ pid' = pid /\ parent' = parent
  BY DEF ExitToZombie
<1>2. /\ running' = h /\ h \in Range(ready) /\ h \in Block /\ h # self
      /\ ready' \in Seq(Block) /\ IsInjective(ready')
      /\ Range(ready') = Range(ready) \ {h}
  BY RunNextEffect DEF ExitToZombie
<1>3. /\ self \in Block /\ self \notin Range(free) /\ self \notin waiting
      /\ self \notin zombies /\ self # Init
      /\ h \notin waiting /\ h \notin zombies /\ h \notin Range(free)
  BY <1>0, <1>2 DEF ProcTypeOK, Places
<1>4. /\ children' \in [Block -> Seq(Block)]
      /\ Range(children'[Init]) = Range(children[Init]) \cup Range(children[self])
      /\ children'[self] = <<>>
      /\ \A q \in Block : q # Init /\ q # self => children'[q] = children[q]
  BY <1>0, <1>1, <1>3, ReparentEffect
<1>5. Places'
  <2>1. running = self
    OBVIOUS
  <2> HIDE DEF self, h
  <2> QED BY <1>0, <1>1, <1>2, <1>3, <2>1 DEF Places
<1> HIDE DEF self, h
<1>6. ProcTypeOK'
  <2>1. status' \in [Block -> {"Invalid", "Running", "Ready", "Waiting", "Zombie"}]
    BY <1>0, <1>1 DEF ProcTypeOK
  <2> QED BY <1>0, <1>1, <1>2, <1>3, <1>4, <2>1 DEF ProcTypeOK
<1>7. StatusFits'
  <2>1. /\ status'[self] = "Zombie" /\ status'[h] = "Running"
        /\ \A b \in Block : b # self /\ b # h => status'[b] = status[b]
    BY <1>0, <1>1, <1>2, <1>3 DEF ProcTypeOK
  <2> QED BY <1>0, <1>1, <1>2, <1>3, <2>1 DEF StatusFits, ProcTypeOK
<1>8. Permanent'
  BY <1>0, <1>1 DEF Permanent, self
<1>9. Pids'
  BY <1>0, <1>1 DEF Pids
<1>10. Family'
  <2>1. ASSUME NEW b \in zombies' PROVE children'[b] = <<>>
    <3>1. CASE b = self
      BY <1>4, <3>1
    <3>2. CASE b # self
      <4>1. b \in zombies /\ b \in Block /\ b # Init
        BY <1>0, <1>1, <2>1, <3>2 DEF ProcTypeOK, Permanent
      <4> QED BY <1>0, <1>4, <3>2, <4>1 DEF Family
    <3> QED BY <3>1, <3>2
  <2>2. ASSUME NEW b \in Block \ Range(free'), b # Init, parent'[b] = Init
        PROVE  b \in Range(children'[Init])
    BY <1>0, <1>1, <1>4, <2>2 DEF Family
  <2>3. ASSUME NEW b \in Block \ Range(free'), b # Init
        PROVE  \E q \in Block \ Range(free') : b \in Range(children'[q])
    <3>1. PICK q \in Block \ Range(free) : b \in Range(children[q])
      BY <1>0, <1>1, <2>3 DEF Family
    <3>2. Init \in Block \ Range(free')
      BY <1>0, <1>1 DEF Permanent
    <3>3. CASE q = self \/ q = Init
      BY <1>4, <3>1, <3>2, <3>3
    <3>4. CASE q # self /\ q # Init
      BY <1>1, <1>4, <3>1, <3>4
    <3> QED BY <3>3, <3>4
  <2> QED BY <2>1, <2>2, <2>3 DEF Family
<1>11. WaiterServed'
  <2> SUFFICES ASSUME NEW q \in Block, NEW b \in Block, CanCollect(q, b)', parent[b] = q
               PROVE  FALSE
    BY <1>1 DEF WaiterServed
  <2>1. /\ q \in waiting /\ b \in zombies \cup {self} /\ b \in Range(children'[q])
        /\ call[q][1] = "WAIT" /\ call[q][2] \in {0, pid[b]}
    BY <1>1, ToSetIsRange DEF CanCollect
  <2>2. CASE b = self
    <3>1. status[q] = "Waiting"
      BY <1>0, <2>1 DEF StatusFits
    <3> QED BY <1>1, <2>1, <2>2, <3>1 DEF WaitsFor
  <2>3. CASE b # self
    <3>1. b \in zombies /\ q # self
      BY <1>3, <2>1, <2>3
    <3>2. b \in Range(children[q]) \/ q = Init
      BY <1>4, <2>1, <3>1
    <3> QED BY <2>1, <3>1, <3>2, MovedChildrenServed
  <2> QED BY <2>2, <2>3
<1> QED BY <1>5, <1>6, <1>7, <1>8, <1>9, <1>10, <1>11 DEF ProcInv

-----------------------------------------------------------------------------
\* Where the scan of internal_wait stops.
LEMMA AwaitedChild ==
  ASSUME ProcInv, children[running] # <<>>, NEW n
  PROVE  /\ Awaited(n) \in 1..Len(children[running])
         /\ children[running][Awaited(n)] \in Range(children[running])
         /\ \A b \in Range(children[running]) :
               IF n = 0 THEN status[b] = "Zombie"
                             => status[children[running][Awaited(n)]] = "Zombie"
               ELSE pid[b] = n => pid[children[running][Awaited(n)]] = n
<1> DEFINE list == children[running]
           Test(b) == IF n = 0 THEN status[b] = "Zombie" ELSE pid[b] = n
           places == {i \in 1..Len(list) : Test(list[i])}
<1>1. list \in Seq(Block) /\ list # <<>> /\ Len(list) \in Nat /\ Len(list) > 0
  <2>1. list \in Seq(Block)
    BY DEF ProcInv, ProcTypeOK
  <2> QED BY <2>1, EmptySeq, LenProperties
<1>2. CASE places = {}
  <2>1. Awaited(n) = Len(list)
    BY <1>2 DEF Awaited, SelectInSeq
  <2>2. \A b \in Range(list) : ~ Test(b)
    BY <1>1, <1>2, RangeIsElements
  <2>3. Awaited(n) \in 1..Len(list)
    BY <1>1, <2>1
  <2>4. list[Awaited(n)] \in Range(list)
    BY <1>1, <2>3, RangeIsElements
  <2> QED BY <2>2, <2>3, <2>4
<1>3. CASE places # {}
  <2> DEFINE at == Min(places)
  <2>1. at \in places
    <3>1. places \in SUBSET Nat
      OBVIOUS
    <3> HIDE DEF places
    <3> QED BY <1>3, <3>1, MinIsFirst
  <2>2. at \in 1..Len(list) /\ Test(list[at]) /\ at # 0
    BY <2>1
  <2>3. Awaited(n) = at
    BY <1>3, <2>2 DEF Awaited, SelectInSeq
  <2> HIDE DEF at
  <2>4. list[at] \in Range(list)
    BY <1>1, <2>2, RangeIsElements
  <2> QED BY <2>2, <2>3, <2>4
<1> QED BY <1>2, <1>3

\* internal_wait of a zombie.
LEMMA CollectStep ==
  ASSUME ProcInv, NEW n \in 0..lastPid - 1, Collect(n),
         UNCHANGED <<lastPid, pid, parent>>
  PROVE  ProcInv'
<1> DEFINE self == running
           at == Awaited(n)
           child == children[self][at]
<1>0. /\ ProcTypeOK /\ Places /\ StatusFits /\ Permanent /\ Pids /\ Family /\ WaiterServed
      /\ Init \in Block /\ self \in Block /\ children[self] \in Seq(Block)
  BY ProcessAssumption DEF ProcInv, ProcTypeOK
<1>1. /\ children[self] # <<>> /\ status[child] = "Zombie"
      /\ children' = [children EXCEPT ![self] = RemoveAt(@, at)]
      /\ zombies' = zombies \ {child}
      /\ returned' = [returned EXCEPT ![self] = pid[child]]
      /\ free' = PcbFree(child)
      /\ running' = self /\ ready' = ready /\ waiting' = waiting
      /\ status' = status /\ call' = call
      /\ lastPid' = lastPid /\ pid' = pid /\ parent' = parent
  BY DEF Collect
<1>2. at \in 1..Len(children[self]) /\ child \in Range(children[self])
  BY <1>1, AwaitedChild
<1>3. child \in Block
  BY <1>0, <1>2, RangeIsElements
<1> HIDE DEF child
<1>4. child \in zombies \cup Range(free) /\ child # Init /\ child # Clock
  BY <1>0, <1>1, <1>3 DEF StatusFits, Permanent
<1>5. /\ free' \in Seq(Block) /\ IsInjective(free')
      /\ Range(free') = Range(free) \cup {child}
  BY <1>1, <1>3, PcbFreeEffect
<1>6. /\ RemoveAt(children[self], at) \in Seq(Block)
      /\ Range(RemoveAt(children[self], at)) \subseteq Range(children[self])
      /\ Range(children[self]) \subseteq Range(RemoveAt(children[self], at)) \cup {child}
  BY <1>0, <1>2, RemoveAtKeepsItems DEF child
<1> HIDE DEF self, at
<1>7. /\ children' \in [Block -> Seq(Block)]
      /\ \A q \in Block : /\ Range(children'[q]) \subseteq Range(children[q])
                          /\ Range(children[q]) \subseteq Range(children'[q]) \cup {child}
                          /\ q # self => children'[q] = children[q]
  <2>1. children \in [Block -> Seq(Block)]
    BY <1>0 DEF ProcTypeOK
  <2>2. children' = [q \in Block |-> IF q = self THEN RemoveAt(children[self], at)
                                     ELSE children[q]]
    BY <1>0, <1>1, <2>1
  <2> QED BY <1>6, <2>1, <2>2
<1>8. ProcTypeOK'
  <2>1. returned' \in [Block -> {EWait} \cup 0..MaxPid]
    <3>1. pid[child] \in {EWait} \cup 0..MaxPid
      <4>1. pid[child] \in 0..lastPid - 1 /\ lastPid \in 2..MaxPid + 1 /\ MaxPid \in Nat
        BY <1>0, <1>3, ProcessAssumption DEF ProcTypeOK
      <4>2. pid[child] \in 0..MaxPid
        BY <4>1
      <4> QED BY <4>2
    <3> QED BY <1>0, <1>1, <3>1 DEF ProcTypeOK
  <2>2. children' \in [Block -> Seq(Block)]
    BY <1>7
  <2> QED BY <1>0, <1>1, <1>5, <2>1, <2>2 DEF ProcTypeOK
<1>9. Places'
  <2>1. running = self
    BY DEF self
  <2> QED BY <1>0, <1>1, <1>4, <1>5, <2>1 DEF Places
<1>10. StatusFits'
  BY <1>0, <1>1, <1>5 DEF StatusFits
<1>11. Permanent'
  BY <1>0, <1>1, <1>4, <1>5 DEF Permanent
<1>12. Pids'
  BY <1>0, <1>1, <1>5 DEF Pids
<1>13. Family'
  <2>1. ASSUME NEW b \in zombies' PROVE children'[b] = <<>>
    <3>1. b \in zombies /\ b \in Block
      BY <1>0, <1>1 DEF ProcTypeOK
    <3>2. b # self
      BY <1>0, <3>1 DEF Places, self
    <3> QED BY <1>0, <1>7, <3>1, <3>2 DEF Family
  <2>2. ASSUME NEW b \in Block \ Range(free'), b # Init, parent'[b] = Init
        PROVE  b \in Range(children'[Init])
    <3>1. b # child /\ b \in Range(children[Init])
      BY <1>0, <1>1, <1>5, <2>2 DEF Family
    <3> QED BY <1>0, <1>7, <3>1
  <2>3. ASSUME NEW b \in Block \ Range(free'), b # Init
        PROVE  \E q \in Block \ Range(free') : b \in Range(children'[q])
    <3>1. b # child /\ b \in Block \ Range(free)
      BY <1>5
    <3>2. PICK q \in Block \ Range(free) : b \in Range(children[q])
      BY <1>0, <2>3, <3>1 DEF Family
    <3>3. q # child
      <4>1. child \in zombies => Range(children[child]) = {}
        BY <1>0 DEF Family, Range
      <4> QED BY <1>4, <3>2, <4>1
    <3> QED BY <1>5, <1>7, <3>1, <3>2, <3>3
  <2> QED BY <2>1, <2>2, <2>3 DEF Family
<1>14. WaiterServed'
  <2> SUFFICES ASSUME NEW q \in Block, NEW b \in Block, CanCollect(q, b)'
               PROVE  parent[b] # q
    BY <1>1 DEF WaiterServed
  <2>1. CanCollect(q, b)
    BY <1>1, <1>7, ToSetIsRange DEF CanCollect
  <2> QED BY <1>0, <2>1 DEF WaiterServed
<1> QED BY <1>8, <1>9, <1>10, <1>11, <1>12, <1>13, <1>14 DEF ProcInv

\* internal_wait of a process that is not a zombie: had it waited past a
\* zombie child of its own, the scan would have stopped there.
LEMMA WaitForExitStep ==
  ASSUME ProcInv, running # Clock, NEW n \in 0..lastPid - 1, WaitForExit(n),
         UNCHANGED <<lastPid, pid, parent>>
  PROVE  ProcInv'
<1> DEFINE child == children[running][Awaited(n)]
<1>0. ProcTypeOK /\ Places /\ StatusFits /\ Permanent /\ Pids /\ WaiterServed /\ MaxPid \in Nat
  BY ProcessAssumption DEF ProcInv
<1>1. /\ children[running] # <<>> /\ status[child] # "Zombie"
      /\ call' = [call EXCEPT ![running] = <<"WAIT", n>>]
      /\ waiting' = waiting \cup {running}
      /\ zombies' = zombies /\ children' = children
      /\ pid' = pid /\ parent' = parent
  BY DEF WaitForExit
<1>2. call' \in [Block -> {"NONE", "SLEEP", "WAIT"} \X (0..MaxPid)]
  <2>1. n \in 0..MaxPid
    BY <1>0 DEF ProcTypeOK
  <2> QED BY <1>0, <1>1, <2>1 DEF ProcTypeOK
<1>3. ProcTypeOK' /\ Places' /\ StatusFits' /\ Permanent' /\ Pids' /\ Family'
  BY <1>2, BlockEffect DEF WaitForExit, pool
<1>4. WaiterServed'
  <2> SUFFICES ASSUME NEW p \in Block, NEW b \in Block, CanCollect(p, b)', parent[b] = p
               PROVE  FALSE
    BY <1>1 DEF WaiterServed
  <2>1. b \in zombies /\ b \in Range(children[p])
    BY <1>1, ToSetIsRange DEF CanCollect
  <2>2. CASE p # running
    <3>1. CanCollect(p, b)
      BY <1>0, <1>1, <2>2 DEF CanCollect, ProcTypeOK
    <3> QED BY <1>0, <3>1 DEF WaiterServed
  <2>3. CASE p = running
    <3>1. n \in {0, pid[b]}
      BY <1>0, <1>1, <2>3 DEF CanCollect, ProcTypeOK
    <3>2. status[b] = "Zombie"
      BY <1>0, <2>1 DEF StatusFits
    <3>3. /\ child \in Range(children[running])
          /\ IF n = 0 THEN status[b] = "Zombie" => status[child] = "Zombie"
             ELSE pid[b] = n => pid[child] = n
      BY <1>1, <2>1, <2>3, AwaitedChild
    <3>4. CASE n = 0
      BY <1>1, <3>2, <3>3, <3>4
    <3>5. CASE n # 0
      <4>1. pid[b] = n /\ pid[child] = n
        BY <3>1, <3>3, <3>5
      <4>2. child \in Block
        <5>1. children[running] \in Seq(Block)
          BY <1>0 DEF ProcTypeOK
        <5> QED BY <3>3, <5>1, RangeIsElements
      <4>3. child = b
        BY <1>0, <3>5, <4>1, <4>2 DEF Pids
      <4> QED BY <1>1, <3>2, <4>3
    <3> QED BY <3>4, <3>5
  <2> QED BY <2>2, <2>3
<1> QED BY <1>3, <1>4 DEF ProcInv

\* disastrOS_wait of a process without children keeps the invariant.
LEMMA WaitWithoutChildrenStep ==
  ASSUME ProcInv, WaitWithoutChildren, UNCHANGED <<lastPid, pid, parent>>
  PROVE  ProcInv'
<1>1. returned' \in [Block -> {EWait} \cup 0..MaxPid]
  BY DEF WaitWithoutChildren, ProcInv, ProcTypeOK
<1>2. ProcTypeOK'
  BY <1>1 DEF WaitWithoutChildren, lists, ProcInv, ProcTypeOK
<1>3. Places' /\ StatusFits' /\ Permanent' /\ Pids' /\ Family' /\ WaiterServed'
  BY DEF WaitWithoutChildren, lists, ProcInv, Places, StatusFits, Permanent, Pids, Family,
     WaiterServed, CanCollect
<1> QED BY <1>2, <1>3 DEF ProcInv

\* Every step of the processes keeps the invariant.
LEMMA ProcStep == ProcInv /\ [ProcNext]_procVars => ProcInv'
<1> SUFFICES ASSUME ProcInv, [ProcNext]_procVars PROVE ProcInv'
  OBVIOUS
<1>1. CASE Schedule
  BY <1>1, ScheduleStep
<1>2. CASE Sleep
  BY <1>2, SleepStep
<1>3. CASE Spawn
  BY <1>3, SpawnStep
<1>4. CASE Exit
  BY <1>4, ExitToParentStep, ExitToZombieStep DEF Exit
<1>5. ASSUME NEW n \in 0..lastPid - 1, Wait(n) PROVE ProcInv'
  BY <1>5, WaitWithoutChildrenStep, CollectStep, WaitForExitStep DEF Wait
<1>6. CASE UNCHANGED procVars
  BY <1>6 DEF procVars, lists, pool, ProcInv, ProcTypeOK, Places, StatusFits, Permanent, Pids,
     Family, WaiterServed, CanCollect
<1> QED BY <1>1, <1>2, <1>3, <1>4, <1>5, <1>6 DEF ProcNext

(***************************************************************************)
(* The strengthened invariant: lists, status fields, pids and families fit *)
(* together, whatever processes spawn, wait, exit and reuse the PCBs.      *)
(***************************************************************************)
THEOREM ProcessInvariant == ProcSpec => []ProcInv
<1> QED BY InitHolds, ProcStep, PTL DEF ProcSpec

(***************************************************************************)
(* The lists and the fields of the PCBs keep their types: in particular    *)
(* disastrOS_wait and internal_exit never take a null list item for a PCB, *)
(* since somebody is ready whenever they look for the next process.        *)
(***************************************************************************)
THEOREM ProcessType == ProcSpec => []ProcTypeOK
<1>1. ProcInv => ProcTypeOK
  BY DEF ProcInv
<1> QED BY <1>1, ProcessInvariant, PTL

(***************************************************************************)
(* Every PCB is in one place, and none is lost or freed twice, also when   *)
(* init collects an orphan that another process was told about already.    *)
(***************************************************************************)
THEOREM OneHomeAlways == ProcSpec => []OneHome
<1>1. ProcInv => OneHome
  BY PlacesOneHome DEF ProcInv
<1> QED BY <1>1, ProcessInvariant, PTL

(***************************************************************************)
(* Somebody can collect every process, however deep the families and       *)
(* whichever of parent and child exits first.                              *)
(***************************************************************************)
THEOREM HasCollectorAlways == ProcSpec => []HasCollector
<1>1. ProcInv => HasCollector
  BY FamilyHasCollector DEF ProcInv
<1> QED BY <1>1, ProcessInvariant, PTL

(***************************************************************************)
(* A parent in disastrOS_wait does not sleep through the exit of a child   *)
(* that it spawned and waits for.                                          *)
(***************************************************************************)
THEOREM WaiterServedAlways == ProcSpec => []WaiterServed
<1>1. ProcInv => WaiterServed
  BY DEF ProcInv
<1> QED BY <1>1, ProcessInvariant, PTL

=============================================================================
