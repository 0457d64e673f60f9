------------------------------ MODULE Mailbox ------------------------------
(***************************************************************************)
(* What a message queue promises to those who have it open, without lists, *)
(* blocked processes or wake ups: a send deposits its message once, while  *)
(* the box has room, a receive takes the oldest one once, and neither      *)
(* returns before it did.                                                  *)
(*                                                                         *)
(* A message is the number of its deposit; the store it comes from has     *)
(* Supply of them.                                                         *)
(***************************************************************************)
EXTENDS Naturals, Sequences

CONSTANTS Client, Capacity, NewCapacity, Supply

VARIABLES box,
          deposits,  \* how many messages were deposited
          capacity,
          call       \* what each client is doing

vars == <<box, deposits, capacity, call>>

CallState == {"idle", "sending", "sent", "receiving", "received"}

Turn(p, from, to) == call[p] = from /\ call' = [call EXCEPT ![p] = to]

Begin(p) ==
    /\ Turn(p, "idle", "sending") \/ Turn(p, "idle", "receiving")
    /\ UNCHANGED <<box, deposits, capacity>>

Deposit(p) ==
    /\ Turn(p, "sending", "sent")
    /\ Len(box) < capacity /\ deposits < Supply
    /\ deposits' = deposits + 1
    /\ box' = Append(box, deposits')
    /\ UNCHANGED capacity

Take(p) ==
    /\ Turn(p, "receiving", "received")
    /\ box # <<>>
    /\ box' = Tail(box)
    /\ UNCHANGED <<deposits, capacity>>

Return(p) ==
    /\ Turn(p, "sent", "idle") \/ Turn(p, "received", "idle")
    /\ UNCHANGED <<box, deposits, capacity>>

Resize ==
    /\ capacity' \in NewCapacity
    /\ UNCHANGED <<box, deposits, call>>

Init ==
    /\ box = <<>>
    /\ deposits = 0
    /\ capacity = Capacity
    /\ call = [p \in Client |-> "idle"]

Next == Resize \/ \E p \in Client : Begin(p) \/ Deposit(p) \/ Take(p) \/ Return(p)

(***************************************************************************)
(* As long as a message can be taken, or deposited, by somebody, there are *)
(* again and again some who just did.                                      *)
(***************************************************************************)
Doing(s) == \E p \in Client : call[p] = s

Service ==
    /\ []<>(Doing("receiving") /\ box # <<>> => Doing("received"))
    /\ []<>(Doing("sending") /\ Len(box) < capacity /\ deposits < Supply
                => Doing("sent"))

Spec == Init /\ [][Next]_vars /\ Service

=============================================================================
