----------------------------- MODULE LinkedList -----------------------------
(***************************************************************************)
(* The doubly linked lists of disastrOS.  The links live in the items, one *)
(* pair per item, so a PCB or a descriptor can be on one list only; the    *)
(* lists of the kernel share the items of this module.                     *)
(*                                                                         *)
(* The callers are the kernel's: they detach what is on the list, insert   *)
(* behind an item of the list or at its front, and insert an item that is  *)
(* on no list, or one that List_insert refuses.  An item that is alone on  *)
(* its list has no links: that List_insert would take it is the subject of *)
(* BlockedNotReady in Messaging.                                           *)
(***************************************************************************)
EXTENDS Integers, Sequences, FiniteSets, SequencesExt

CONSTANTS List,  \* the list heads
          Item,  \* the list items
          Null   \* the null pointer

ASSUME ListAssumption == IsFiniteSet(Item) /\ Null \notin Item

VARIABLES first, last, size,   \* the fields of a ListHead
          next, prev,          \* the fields of a ListItem
          call                 \* the last call: its arguments and its answer

listVars == <<first, last, size, next, prev>>

ListInit ==
    /\ first = [l \in List |-> Null]
    /\ last = [l \in List |-> Null]
    /\ size = [l \in List |-> 0]
    /\ next = [i \in Item |-> Null]
    /\ prev = [i \in Item |-> Null]
    /\ call = <<"init">>

\* f with f[x] = y, if x is an object at all.
Set(f, x, y) == [z \in DOMAIN f |-> IF z = x THEN y ELSE f[z]]

\* Mutant: the item behind the new one is not linked back to it.
LinkNextOnly(l, before, item, after) ==
    /\ next' = Set(Set(next, before, item), item, after)
    /\ prev' = Set(prev, item, before)

\* The links between the new item and its neighbours.
Link(l, before, item, after) ==
    /\ next' = Set(Set(next, before, item), item, after)
    /\ prev' = Set(Set(prev, after, item), item, before)

\* Mutant: last is not moved by an insertion.
MoveFirstOnly(l, before, item, after) ==
    /\ first' = IF before = Null THEN Set(first, l, item) ELSE first
    /\ UNCHANGED last

MoveEnds(l, before, item, after) ==
    /\ first' = IF before = Null THEN Set(first, l, item) ELSE first
    /\ last' = IF after = Null THEN Set(last, l, item) ELSE last

\* The test for "item already in the list" of List_insert.
Linked(item) == next[item] # Null \/ prev[item] # Null

\* List_insert of item behind before, or in front if that is Null.
ListInsert(l, before, item) ==
    IF Linked(item)
    THEN UNCHANGED listVars
    ELSE LET after == IF before = Null THEN first[l] ELSE next[before]
         IN  /\ Link(l, before, item, after)
             /\ MoveEnds(l, before, item, after)
             /\ size' = [size EXCEPT ![l] = @ + 1]

\* Mutant: only an inner item has its neighbours linked to each other.
UnlinkInner(item) ==
    IF next[item] = Null \/ prev[item] = Null
    THEN /\ next' = Set(next, item, Null)
         /\ prev' = Set(prev, item, Null)
    ELSE /\ next' = Set(Set(next, prev[item], next[item]), item, Null)
         /\ prev' = Set(Set(prev, next[item], prev[item]), item, Null)

Unlink(item) ==
    /\ next' = Set(Set(next, prev[item], next[item]), item, Null)
    /\ prev' = Set(Set(prev, next[item], prev[item]), item, Null)

\* List_detach.
ListDetach(l, item) ==
    /\ Unlink(item)
    /\ first' = IF item = first[l] THEN Set(first, l, next[item]) ELSE first
    /\ last' = IF item = last[l] THEN Set(last, l, prev[item]) ELSE last
    /\ size' = [size EXCEPT ![l] = @ - 1]

\* Mutant: the last item is taken.
ListPopLast(l) ==
    \/ first[l] = Null /\ UNCHANGED listVars
    \/ first[l] # Null /\ ListDetach(l, last[l])

\* List_pop; an empty list stays as it is.
ListPop(l) ==
    \/ first[l] = Null /\ UNCHANGED listVars
    \/ first[l] # Null /\ ListDetach(l, first[l])

\* The items met from x along link, Cardinality(Item) + 1 at most.
Walk(link, x) ==
    LET walk[n \in 0..Cardinality(Item) + 1] ==
            IF n = 0 THEN <<x>>
            ELSE LET s == walk[n - 1]
                 IN  IF Last(s) = Null THEN s ELSE Append(s, link[Last(s)])
    IN  Front(walk[Cardinality(Item) + 1])

Contents == [l \in List |-> Walk(next, first[l])]

\* List_find.
ListFind(l, item) == item \in ToSet(Contents[l])

\* The calls, with what they return.
Insert(l, before, item) ==
    /\ ListInsert(l, before, item)
    /\ call' = <<"insert", l, before, item, IF Linked(item) THEN Null ELSE item>>

Detach(l, item) ==
    /\ ListDetach(l, item)
    /\ call' = <<"detach", l, item, item>>

Pop(l) ==
    /\ ListPop(l)
    /\ call' = <<"pop", l, first[l]>>

\* What the kernel calls List_insert with.
Insertable(item) == Linked(item) \/ \A l \in List : ~ ListFind(l, item)

ListNext ==
    \E l \in List :
        \/ \E item \in Item, before \in ToSet(Contents[l]) \cup {Null} :
              Insertable(item) /\ Insert(l, before, item)
        \/ \E item \in Item : ListFind(l, item) /\ Detach(l, item)
        \/ Pop(l)

ListSpec == ListInit /\ [][ListNext]_<<listVars, call>>

-----------------------------------------------------------------------------
(***************************************************************************)
(* The two chains of a list agree: last ends the chain of next, and the    *)
(* chain of prev is that chain backwards, so that List_detach works from   *)
(* either side; size is its length; and an item on no list has no links,   *)
(* or it could never be inserted again.                                    *)
(***************************************************************************)
ChainsAgree ==
    /\ \A l \in List :
          /\ Walk(prev, last[l]) = Reverse(Contents[l])
          /\ size[l] = Len(Contents[l])
    /\ \A item \in Item :
          (\A l \in List : ~ ListFind(l, item))
              => next[item] = Null /\ prev[item] = Null

(***************************************************************************)
(* What the guard of List_insert tells: an item has a link exactly when it *)
(* shares its list with another one, so the guard keeps an item from being *)
(* on two lists only there (HasNeighbour in Scheduler).                    *)
(***************************************************************************)
NeighboursTell ==
    \A l \in List : \A item \in ToSet(Contents[l]) :
        Linked(item) <=> Len(Contents[l]) > 1

(***************************************************************************)
(* The linked items implement sequences, call by call: List_insert puts    *)
(* its item right behind the one that it is given, or in front, and        *)
(* refuses it exactly when it is on a list; List_detach takes out the item *)
(* that it is given and List_pop the first, and both answer with it; and   *)
(* every other list, and the order of what stays, is left alone.           *)
(***************************************************************************)
Lists == INSTANCE ItemLists WITH contents <- Contents

ImplementsItemLists == Lists!Spec

=============================================================================
