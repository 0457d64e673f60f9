----------------------------- MODULE BlockPool -----------------------------
(***************************************************************************)
(* What a pool of equal blocks promises to those who allocate from it: a   *)
(* block is given to one of them at a time, the one given back last goes   *)
(* out first, there is one as long as not all are held, and giving back    *)
(* what is not held is refused.                                            *)
(*                                                                         *)
(* free are the blocks nobody holds, the next one to be given first;       *)
(* answer is the value of the last call.                                   *)
(***************************************************************************)
EXTENDS Integers, Sequences, Functions

CONSTANT Block

VARIABLES free, answer

poolVars == <<free, answer>>

Held == Block \ Range(free)

Get(b) ==
    /\ free # <<>> /\ b = Head(free)
    /\ free' = Tail(free)
    /\ answer' = <<"block", b>>

GetNone ==
    /\ Held = Block
    /\ UNCHANGED free
    /\ answer' = <<"none">>

Release(b) ==
    /\ b \in Held
    /\ free' = <<b>> \o free
    /\ answer' = <<"Success">>

\* b is given back once too often.
RefuseFree(b) ==
    /\ b \in Block \ Held
    /\ UNCHANGED free
    /\ answer' = <<"DoubleFree">>

\* What is given back is no block.
RefuseAddress ==
    /\ UNCHANGED free
    /\ answer' \in {<<"UnalignedFree">>, <<"OutOfRange">>}

Init ==
    /\ free \in Seq(Block) /\ IsInjective(free) /\ Held = {}
    /\ answer = <<"Success">>

Next ==
    \/ \E b \in Block : Get(b) \/ Release(b) \/ RefuseFree(b)
    \/ GetNone
    \/ RefuseAddress

Spec == Init /\ [][Next]_poolVars

=============================================================================
