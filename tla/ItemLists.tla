----------------------------- MODULE ItemLists -----------------------------
(***************************************************************************)
(* What the lists of disastrOS promise: a list is a sequence of items, an  *)
(* item is on one list at most, and a call does what its name says, to the *)
(* list and at the place it is called with, and to no other list.  call    *)
(* holds the last one: its arguments, and then its answer.                 *)
(***************************************************************************)
EXTENDS Naturals, Sequences

CONSTANTS List, Item, Null

VARIABLES contents, call

OnAList == UNION {{contents[l][i] : i \in 1..Len(contents[l])} : l \in List}

\* The item goes right behind before, or to the front of the list.
Insert(l, before, item) ==
    /\ call' = <<"insert", l, before, item, item>>
    /\ item \notin OnAList
    /\ \E k \in 0..Len(contents[l]) :
          /\ before = IF k = 0 THEN Null ELSE contents[l][k]
          /\ contents' = [contents EXCEPT ![l] =
                 SubSeq(@, 1, k) \o <<item>> \o SubSeq(@, k + 1, Len(@))]

\* An item that is on a list already, this one or another.
Refuse(l, before, item) ==
    /\ call' = <<"insert", l, before, item, Null>>
    /\ item \in OnAList
    /\ UNCHANGED contents

\* The k-th item is taken out.
Remove(l, k) ==
    contents' = [contents EXCEPT ![l] =
        SubSeq(@, 1, k - 1) \o SubSeq(@, k + 1, Len(@))]

Detach(l, item) ==
    /\ call' = <<"detach", l, item, item>>
    /\ \E k \in 1..Len(contents[l]) : contents[l][k] = item /\ Remove(l, k)

Pop(l) ==
    /\ contents[l] # <<>>
    /\ call' = <<"pop", l, contents[l][1]>>
    /\ Remove(l, 1)

PopEmpty(l) ==
    /\ call' = <<"pop", l, Null>>
    /\ contents[l] = <<>>
    /\ UNCHANGED contents

Init == contents = [l \in List |-> <<>>] /\ call = <<"init">>

Next ==
    \E l \in List :
        \/ \E item \in Item, before \in Item \cup {Null} :
              Insert(l, before, item) \/ Refuse(l, before, item)
        \/ \E item \in Item : Detach(l, item)
        \/ Pop(l) \/ PopEmpty(l)

Spec == Init /\ [][Next]_<<contents, call>>

=============================================================================
