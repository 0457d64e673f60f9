-------------------------- MODULE MCPoolAllocator --------------------------
(***************************************************************************)
(* A pool of five blocks of two bytes, so that releaseBlock also sees      *)
(* addresses inside a block.                                               *)
(***************************************************************************)
EXTENDS PoolAllocator

=============================================================================
