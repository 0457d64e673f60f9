---------------------------- MODULE MCLinkedList ----------------------------
(***************************************************************************)
(* Two lists and four items: every arrangement of neighbours, ends and a   *)
(* move between lists.  The items are symmetric: no operator tells one     *)
(* from another, none is chosen, and no liveness is checked.               *)
(***************************************************************************)
EXTENDS LinkedList

ItemSymmetry == Permutations(Item)

=============================================================================
