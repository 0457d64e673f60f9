---------------------------- MODULE QueueClosing ----------------------------
(***************************************************************************)
(* dmq_close takes the QueueUsers of the caller off the lists of the queue *)
(* in user mode: ticks fall between the assignments of List_detach, and    *)
(* other processes open and close the queue, or exit, meanwhile.  Here for *)
(* one list of one queue; a QueueUser is named by its process, which opens *)
(* the queue once.                                                         *)
(***************************************************************************)
EXTENDS LinkedList

CONSTANT Readers  \* the list

VARIABLES pc,
          local   \* the variables prev and next of List_detach

closeVars == <<listVars, call, pc, local>>

Goto(p, from, to) == pc[p] = from /\ pc' = [pc EXCEPT ![p] = to]

\* Queue_add_pid, in the second system call of dmq_open.
Open(p) ==
    /\ Goto(p, "new", "user")
    /\ ListInsert(Readers, last[Readers], p)
    /\ UNCHANGED local

\* List_detach called by dmq_close: the neighbours of the item are read,
DetachRead(p) ==
    /\ Goto(p, "user", "link")
    /\ local' = [local EXCEPT ![p] = [prev |-> prev[p], next |-> next[p]]]
    /\ UNCHANGED listVars

\* linked with each other,
DetachLink(p) ==
    /\ Goto(p, "link", "ends")
    /\ next' = Set(next, local[p].prev, local[p].next)
    /\ prev' = Set(prev, local[p].next, local[p].prev)
    /\ UNCHANGED <<first, last, size, local>>

\* the ends of the list moved,
DetachEnds(p) ==
    /\ Goto(p, "ends", "clear")
    /\ first' = IF p = first[Readers] THEN Set(first, Readers, local[p].next) ELSE first
    /\ last' = IF p = last[Readers] THEN Set(last, Readers, local[p].prev) ELSE last
    /\ UNCHANGED <<size, next, prev, local>>

\* and the item cleared.  The rest of dmq_close leaves the list alone.
DetachClear(p) ==
    /\ Goto(p, "clear", "closed")
    /\ size' = [size EXCEPT ![Readers] = @ - 1]
    /\ next' = [next EXCEPT ![p] = Null]
    /\ prev' = [prev EXCEPT ![p] = Null]
    /\ UNCHANGED <<first, last, local>>

\* internal_exit, a system call, of a process whose parent waits.
ExitAwaited(p) ==
    /\ Goto(p, "user", "closed")
    /\ ListDetach(Readers, p)
    /\ UNCHANGED local

CloseInit ==
    /\ ListInit
    /\ pc = [p \in Item |-> "new"]
    /\ local = [p \in Item |-> [prev |-> Null, next |-> Null]]

CloseNext ==
    /\ \E p \in Item :
          \/ Open(p) \/ ExitAwaited(p)
          \/ DetachRead(p) \/ DetachLink(p) \/ DetachEnds(p) \/ DetachClear(p)
    /\ UNCHANGED call

CloseSpec == CloseInit /\ [][CloseNext]_closeVars

-----------------------------------------------------------------------------
(***************************************************************************)
(* When nobody is inside dmq_close, those who closed the queue are not on  *)
(* its list: dmq_close is to "remove current pid from every section they   *)
(* could ever be".  Their QueueUsers are back in the pool, and a wake up   *)
(* would be given to them.                                                 *)
(***************************************************************************)
Quiet == \A p \in Item : pc[p] \in {"new", "user", "closed"}

ClosedUsersGone ==
    Quiet => \A p \in Item : pc[p] = "closed" => p \notin ToSet(Contents[Readers])

=============================================================================
