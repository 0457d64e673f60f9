--------------------------- MODULE OpenResources ---------------------------
(***************************************************************************)
(* What the resources of disastrOS promise their users: an id names one    *)
(* resource at a time, whose kind does not change; a descriptor stands for *)
(* one id as long as it is open, and its resource stays; and a descriptor  *)
(* that was given out once is never given out again.                       *)
(***************************************************************************)
CONSTANTS Proc, Id, Fd, Kind

VARIABLES kind,    \* the kind of each resource that exists, by id
          opened,  \* the id of each open descriptor, <<process, fd>>
          given    \* the descriptors given out so far

vars == <<kind, opened, given>>

Create(i, t) ==
    /\ i \notin DOMAIN kind
    /\ kind' = [j \in DOMAIN kind \cup {i} |-> IF j = i THEN t ELSE kind[j]]

\* The resource i is taken away.
Drop(i) == kind' = [j \in DOMAIN kind \ {i} |-> kind[j]]

Give(h, i) ==
    /\ given' = given \cup {h}
    /\ opened' = [g \in DOMAIN opened \cup {h} |-> IF g = h THEN i ELSE opened[g]]

\* The descriptors H are closed.
TakeBack(H) ==
    /\ UNCHANGED given
    /\ opened' = [h \in DOMAIN opened \ H |-> opened[h]]

Open(h, i) == UNCHANGED kind /\ i \in DOMAIN kind /\ Give(h, i)

OpenNew(h, i, t) == Create(i, t) /\ Give(h, i)

\* A resource is created, and no descriptor is left for it.
CreateOnly(i, t) == Create(i, t) /\ UNCHANGED <<opened, given>>

Close(h) == UNCHANGED kind /\ TakeBack({h})

\* The last descriptor of a resource is closed, and the resource with it.
Withdraw(h) ==
    /\ \A g \in DOMAIN opened : opened[g] = opened[h] => g = h
    /\ Drop(opened[h])
    /\ TakeBack({h})

\* A process ends, and its descriptors are closed.
Leave(p) == UNCHANGED kind /\ TakeBack({p} \X Fd)

Destroy(i) ==
    /\ i \in DOMAIN kind
    /\ \A h \in DOMAIN opened : opened[h] # i
    /\ Drop(i)
    /\ UNCHANGED <<opened, given>>

Init ==
    /\ kind = [i \in {} |-> 0]
    /\ opened = [h \in {} |-> 0]
    /\ given = {}

Next ==
    \/ \E h \in DOMAIN opened : Close(h) \/ Withdraw(h)
    \/ \E h \in (Proc \X Fd) \ given, i \in Id :
          Open(h, i) \/ \E t \in Kind : OpenNew(h, i, t)
    \/ \E i \in Id : Destroy(i) \/ \E t \in Kind : CreateOnly(i, t)
    \/ \E p \in Proc : Leave(p)

Spec == Init /\ [][Next]_vars

=============================================================================
