--------------------------- MODULE PoolAllocator ---------------------------
(***************************************************************************)
(* The allocator behind every structure of disastrOS (PCBs, timers,        *)
(* descriptors, resources, queues, messages): num_items blocks of          *)
(* item_size bytes, the free ones linked by an array of indices.           *)
(*                                                                         *)
(* An address is its distance in bytes from the buffer of the pool, the    *)
(* block idx being at idx * ItemSize.  A call is one step: the pools are   *)
(* used by system calls, with SIGALRM blocked (QueueUser_free of dmq_close *)
(* is the exception, see the README).                                      *)
(***************************************************************************)
EXTENDS Integers, Sequences, FiniteSets, Functions

CONSTANTS NumItems,   \* num_items
          ItemSize    \* item_size

ASSUME PoolAssumption ==
    /\ NumItems \in Nat \ {0}
    /\ ItemSize \in Nat \ {0}

VARIABLES freeList,   \* free_list
          firstIdx,   \* first_idx
          size,       \* size, the number of free blocks
          answer      \* what the last call returned

vars == <<freeList, firstIdx, size, answer>>

NullIdx == -1
DetachedIdx == -2

Idx == 0..NumItems - 1

\* The addresses handed to releaseBlock, a block before and behind the buffer
\* included.
Address == -ItemSize..(NumItems + 1) * ItemSize

\* PoolAllocator_init.
PoolInit ==
    /\ freeList = [i \in Idx |-> IF i = NumItems - 1 THEN NullIdx ELSE i + 1]
    /\ firstIdx = 0
    /\ size = NumItems
    /\ answer = <<"Success">>

\* Mutant: the block that is handed out is not marked as detached.
AdvanceOnly ==
    /\ firstIdx' = freeList[firstIdx]
    /\ UNCHANGED freeList

\* Takes the head off the free list and marks it.
DetachFirst ==
    /\ firstIdx' = freeList[firstIdx]
    /\ freeList' = [freeList EXCEPT ![firstIdx] = DetachedIdx]

\* Mutant: the blocks are handed out uncounted.
GetBlockUncounted ==
    /\ DetachFirst
    /\ UNCHANGED size
    /\ answer' = <<"block", firstIdx>>

\* PoolAllocator_getBlock with a block left.
GetBlock ==
    /\ firstIdx # NullIdx
    /\ DetachFirst
    /\ size' = size - 1
    /\ answer' = <<"block", firstIdx>>

\* PoolAllocator_getBlock of an exhausted pool.
GetNothing ==
    /\ firstIdx = NullIdx
    /\ answer' = <<"none">>
    /\ UNCHANGED <<freeList, firstIdx, size>>

Refuse(code) ==
    /\ answer' = <<code>>
    /\ UNCHANGED <<freeList, firstIdx, size>>

InRange(idx) == idx \in Idx

\* Mutant: a free block may be released again.
NeverFree(idx) == FALSE

IsFree(idx) == freeList[idx] # DetachedIdx

\* Puts the block in front of the free list.
Insert(idx) ==
    /\ freeList' = [freeList EXCEPT ![idx] = firstIdx]
    /\ firstIdx' = idx
    /\ size' = size + 1
    /\ answer' = <<"Success">>

\* PoolAllocator_releaseBlock.
ReleaseBlock(offset) ==
    \/ offset % ItemSize # 0 /\ Refuse("UnalignedFree")
    \/ /\ offset % ItemSize = 0
       /\ LET idx == offset \div ItemSize
          IN  \/ ~ InRange(idx) /\ Refuse("OutOfRange")
              \/ InRange(idx) /\ IsFree(idx) /\ Refuse("DoubleFree")
              \/ InRange(idx) /\ ~ IsFree(idx) /\ Insert(idx)

PoolNext ==
    \/ GetBlock
    \/ GetNothing
    \/ \E offset \in Address : ReleaseBlock(offset)

PoolSpec == PoolInit /\ [][PoolNext]_vars

-----------------------------------------------------------------------------
PoolTypeOK ==
    /\ freeList \in [Idx -> Idx \cup {NullIdx, DetachedIdx}]
    /\ firstIdx \in Idx \cup {NullIdx}
    /\ size \in 0..NumItems
    /\ answer \in {<<"block", i>> : i \in Idx}
                    \cup {<<"none">>, <<"Success">>, <<"UnalignedFree">>,
                          <<"OutOfRange">>, <<"DoubleFree">>}

\* The blocks that were handed out and not released yet.
Held == {i \in Idx : freeList[i] = DetachedIdx}

\* s are the n blocks met from first_idx along free_list, up to NullIdx.
IsFreeChain(n, s) ==
    /\ firstIdx = IF n = 0 THEN NullIdx ELSE s[1]
    /\ \A k \in 1..n : freeList[s[k]] = IF k = n THEN NullIdx ELSE s[k + 1]

(***************************************************************************)
(* The free list is one chain that holds each free block once, ends, and   *)
(* has the length size says, after any sequence of getBlock and            *)
(* releaseBlock calls, refused ones included: a cycle or a link to a block *)
(* in use would hand out one block twice.                                  *)
(***************************************************************************)
FreeListIntact ==
    \E n \in 0..NumItems : \E s \in [1..n -> Idx] :
        /\ IsInjective(s)
        /\ Range(s) = Idx \ Held
        /\ IsFreeChain(n, s)
        /\ size = n

\* The n blocks met from head along link.
Met(head, link, n) ==
    LET met[k \in 1..n] == IF k = 1 THEN head ELSE link[met[k - 1]]
    IN  met

\* The free blocks in the order in which getBlock hands them out.
FreeBlocks == Met(firstIdx, freeList, size)

(***************************************************************************)
(* The array of indices implements the pool of blocks: a block is never    *)
(* given to two holders, getBlock hands out the free block released last   *)
(* and fails only when all of them are held, and releaseBlock takes back   *)
(* exactly what is held, and says so.  The modules whose structures come   *)
(* from a pool keep its free list as such a sequence.                      *)
(***************************************************************************)
Pool == INSTANCE BlockPool WITH Block <- Idx, free <- FreeBlocks

ImplementsBlockPool == Pool!Spec

=============================================================================
