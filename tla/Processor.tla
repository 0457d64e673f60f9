----------------------------- MODULE Processor -----------------------------
(***************************************************************************)
(* What the scheduler promises, without its lists: one process has the     *)
(* cpu, some are runnable, and each sleeper has a number of ticks left.  A *)
(* sleeper becomes runnable at the first dispatch at which it has no tick  *)
(* left, neither earlier nor later, and then the cpu goes to one that has  *)
(* been due for longest before it goes to any other process.               *)
(***************************************************************************)
EXTENDS Integers

CONSTANTS Proc,      \* the processes that are not blocked for good
          Clock,     \* the one that never sleeps
          MaxSleep   \* the longest sleep, in ticks

VARIABLES cpu, runnable, asleep

vars == <<cpu, runnable, asleep>>

Due(left) == {p \in DOMAIN left : left[p] <= 0}

LongestDue(left) == {p \in Due(left) : \A q \in Due(left) : left[p] <= left[q]}

\* A dispatch when the sleepers have "left" ticks left.
GiveCpu(left) ==
    /\ asleep' = [p \in DOMAIN left \ Due(left) |-> left[p]]
    /\ IF runnable \cup Due(left) = {}
       THEN UNCHANGED <<cpu, runnable>>
       ELSE /\ cpu' \in IF Due(left) # {} THEN LongestDue(left) ELSE runnable
            /\ runnable' = (runnable \cup Due(left) \cup {cpu}) \ {cpu'}

Tick == GiveCpu([p \in DOMAIN asleep |-> asleep[p] - 1])

Yield == GiveCpu(asleep)

Doze(n) ==
    /\ cpu # Clock
    /\ asleep' = [p \in DOMAIN asleep \cup {cpu} |->
                     IF p = cpu THEN n ELSE asleep[p]]
    /\ cpu' \in runnable
    /\ runnable' = runnable \ {cpu'}

Init ==
    /\ cpu \in Proc
    /\ runnable = Proc \ {cpu}
    /\ asleep = [p \in {} |-> 0]

Next == Tick \/ Yield \/ \E n \in 0..MaxSleep : Doze(n)

Spec == Init /\ [][Next]_vars

=============================================================================
