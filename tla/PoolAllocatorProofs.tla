------------------------ MODULE PoolAllocatorProofs ------------------------
(***************************************************************************)
(* Proofs about the allocator, for any number and size of blocks: its free *)
(* list stays one chain of the free blocks, and it implements the pool of  *)
(* blocks.  The chain is the invariant: the proof gives, for each call,    *)
(* the chain after it (the tail, or the released block in front).  As a    *)
(* chain is what FreeBlocks meets, it is also the pool's list of blocks.   *)
(***************************************************************************)
EXTENDS PoolAllocator, ListLemmas

Answer ==
    {<<"block", i>> : i \in Idx}
      \cup {<<"none">>, <<"Success">>, <<"UnalignedFree">>, <<"OutOfRange">>,
            <<"DoubleFree">>}

\* s is the free list, of n blocks.
FreeChain(n, s) ==
    /\ IsInjective(s)
    /\ Range(s) = Idx \ Held
    /\ IsFreeChain(n, s)
    /\ size = n

\* The inductive invariant.
PoolInv == PoolTypeOK /\ FreeListIntact

\* An injective sequence of blocks is no longer than the pool.
LEMMA ChainFits ==
  ASSUME NEW n \in Nat, NEW s \in [1..n -> Idx], IsInjective(s)
  PROVE  n <= NumItems
<1>1. s \in Injection(1..n, Idx)
  BY DEF Injection
<1>2. IsFiniteSet(Idx) /\ Cardinality(Idx) = NumItems
  BY FS_Interval, PoolAssumption DEF Idx
<1>3. Cardinality(1..n) = n
  BY FS_Interval
<1>4. Cardinality(1..n) <= Cardinality(Idx)
  BY <1>1, <1>2, FS_Injection
<1> QED BY <1>2, <1>3, <1>4

\* PoolAllocator_init makes the chain 0, 1, ..., NumItems - 1.
LEMMA InitChain == PoolInit => PoolInv
<1> SUFFICES ASSUME PoolInit PROVE PoolInv
  OBVIOUS
<1> USE PoolAssumption
<1> DEFINE s == [k \in 1..NumItems |-> k - 1]
<1>1. PoolTypeOK
  BY DEF PoolInit, PoolTypeOK, Idx, NullIdx, DetachedIdx
<1>2. s \in [1..NumItems -> Idx] /\ IsInjective(s)
  BY DEF Idx, IsInjective
<1>3. Held = {}
  BY DEF PoolInit, Held, Idx, NullIdx, DetachedIdx
<1>4. Range(s) = Idx
  <2>1. ASSUME NEW i \in Idx PROVE i \in Range(s)
    <3>1. i + 1 \in 1..NumItems /\ s[i + 1] = i
      BY DEF Idx
    <3> QED BY <3>1 DEF Range
  <2> QED BY <1>2, <2>1 DEF Range
<1>5. IsFreeChain(NumItems, s)
  BY DEF IsFreeChain, PoolInit, Idx, NullIdx
<1>6. size = NumItems /\ NumItems \in 0..NumItems
  BY DEF PoolInit
<1> HIDE DEF s
<1>7. FreeListIntact
  BY <1>2, <1>3, <1>4, <1>5, <1>6 DEF FreeListIntact
<1> QED BY <1>1, <1>7 DEF PoolInv

\* The chain in use: PoolInv with a name for it.
LEMMA HasChain ==
  ASSUME PoolInv
  PROVE  \E n \in 0..NumItems : \E s \in [1..n -> Idx] : FreeChain(n, s)
  BY DEF PoolInv, FreeListIntact, FreeChain

\* A chain of all free blocks, once named, is what FreeListIntact asks for.
LEMMA ChainIsIntact ==
  ASSUME NEW n \in 0..NumItems, NEW s \in [1..n -> Idx], FreeChain(n, s)
  PROVE  FreeListIntact
  BY DEF FreeListIntact, FreeChain

(***************************************************************************)
(* Met is a recursive function: along a chain it computes the chain.  The  *)
(* chain satisfies the equation of the function, so there is a solution,   *)
(* and two solutions have no first place where they differ.                *)
(***************************************************************************)
LEMMA MetIsChain ==
  ASSUME NEW head, NEW link, NEW n \in Nat, NEW s \in [1..n -> Idx],
         n # 0 => head = s[1],
         \A k \in 1..n : k # n => link[s[k]] = s[k + 1]
  PROVE  Met(head, link, n) = s
<1> DEFINE Eq(f) == f = [k \in 1..n |-> IF k = 1 THEN head ELSE link[f[k - 1]]]
           met == CHOOSE f : Eq(f)
<1>1. Eq(s)
  <2>1. ASSUME NEW k \in 1..n PROVE s[k] = IF k = 1 THEN head ELSE link[s[k - 1]]
    <3>1. k # 1 => k - 1 \in 1..n /\ k - 1 # n /\ (k - 1) + 1 = k
      OBVIOUS
    <3> QED BY <3>1
  <2> QED BY <2>1
<1>2. Eq(met)
  <2>1. \E f : Eq(f)
    BY <1>1
  <2> HIDE DEF Eq
  <2> QED BY <2>1
<1> HIDE DEF met
<1>3. /\ DOMAIN met = 1..n
      /\ \A k \in 1..n : met[k] = IF k = 1 THEN head ELSE link[met[k - 1]]
  BY <1>2
<1>4. \A k \in 1..n : met[k] = s[k]
  <2> DEFINE B == {k \in 1..n : met[k] # s[k]}
  <2>1. SUFFICES ASSUME B # {} PROVE FALSE
    OBVIOUS
  <2>2. B \in SUBSET Nat
    OBVIOUS
  <2>3. PICK k \in B : \A j \in B : k <= j
    BY <2>1, <2>2, MinIsFirst
  <2>4. k # 1
    BY <1>3, <2>3
  <2>5. k - 1 \in 1..n /\ k - 1 \notin B /\ k - 1 # n /\ (k - 1) + 1 = k
    BY <2>3, <2>4
  <2>6. met[k] = link[s[k - 1]]
    BY <1>3, <2>3, <2>4, <2>5
  <2> QED BY <2>3, <2>5, <2>6
<1>5. met = s
  BY <1>2, <1>3, <1>4
<1> QED BY <1>5 DEF Met, met, Eq

\* So FreeBlocks is the chain, as a sequence.
LEMMA FreeBlocksIsChain ==
  ASSUME NEW n \in Nat, NEW s \in [1..n -> Idx], FreeChain(n, s)
  PROVE  /\ FreeBlocks = s
         /\ s \in Seq(Idx) /\ Len(s) = n
<1>1. n # 0 => firstIdx = s[1]
  BY DEF FreeChain, IsFreeChain
<1>2. \A k \in 1..n : k # n => freeList[s[k]] = s[k + 1]
  BY DEF FreeChain, IsFreeChain
<1>3. Met(firstIdx, freeList, n) = s
  BY <1>1, <1>2, MetIsChain
<1> QED BY <1>3 DEF FreeBlocks, FreeChain

\* The same of the chain after a step.
LEMMA NextBlocksIsChain ==
  ASSUME NEW n \in Nat, NEW s \in [1..n -> Idx], IsFreeChain(n, s)', size' = n
  PROVE  FreeBlocks' = s /\ s \in Seq(Idx) /\ Len(s) = n
<1>1. n # 0 => firstIdx' = s[1]
  BY DEF IsFreeChain
<1>2. \A k \in 1..n : k # n => freeList'[s[k]] = s[k + 1]
  BY DEF IsFreeChain
<1>3. Met(firstIdx', freeList', n) = s
  BY <1>1, <1>2, MetIsChain
<1> QED BY <1>3 DEF FreeBlocks

\* getBlock leaves the tail of the chain.
LEMMA GetKeepsChain ==
  ASSUME PoolInv, GetBlock
  PROVE  /\ PoolInv'
         /\ firstIdx \in Idx \ Held
         /\ Held' = Held \cup {firstIdx}
         /\ FreeBlocks # <<>> /\ firstIdx = Head(FreeBlocks)
         /\ FreeBlocks' = Tail(FreeBlocks)
<1> USE PoolAssumption DEF NullIdx, DetachedIdx
<1>0. PICK n \in 0..NumItems : \E s \in [1..n -> Idx] : FreeChain(n, s)
  BY HasChain
<1>1. PICK s \in [1..n -> Idx] : FreeChain(n, s)
  BY <1>0
<1>2. n \in Nat /\ n # 0 /\ firstIdx = s[1] /\ 1 \in 1..n
  BY <1>1 DEF FreeChain, IsFreeChain, GetBlock
<1>3. firstIdx \in Idx \ Held
  BY <1>1, <1>2 DEF FreeChain, Range
<1>4. freeList' = [freeList EXCEPT ![firstIdx] = DetachedIdx]
      /\ firstIdx' = freeList[firstIdx] /\ size' = size - 1
  BY DEF GetBlock, DetachFirst
<1>5. freeList \in [Idx -> Idx \cup {NullIdx, DetachedIdx}]
  BY DEF PoolInv, PoolTypeOK
<1>6. \A i \in Idx : freeList'[i] = IF i = firstIdx THEN DetachedIdx ELSE freeList[i]
  BY <1>4, <1>5
<1>7. Held' = Held \cup {firstIdx}
  BY <1>3, <1>6 DEF Held
<1> DEFINE t == [k \in 1..n - 1 |-> s[k + 1]]
<1>8. \A k \in 1..n - 1 : k + 1 \in 1..n /\ t[k] = s[k + 1] /\ t[k] # firstIdx
  <2> SUFFICES ASSUME NEW k \in 1..n - 1
               PROVE  k + 1 \in 1..n /\ t[k] = s[k + 1] /\ t[k] # firstIdx
    OBVIOUS
  <2>1. k + 1 \in 1..n /\ k + 1 # 1
    BY <1>2
  <2>2. s[k + 1] # s[1]
    BY <1>1, <1>2, <2>1 DEF FreeChain, IsInjective
  <2> QED BY <1>2, <2>1, <2>2
<1>9. t \in [1..n - 1 -> Idx] /\ DOMAIN t = 1..n - 1
  BY <1>8
<1> HIDE DEF t
<1>10. IsInjective(t)
  <2> SUFFICES ASSUME NEW j \in 1..n - 1, NEW k \in 1..n - 1, t[j] = t[k]
               PROVE  j = k
    BY <1>9 DEF IsInjective
  <2>1. j + 1 = k + 1
    BY <1>1, <1>8 DEF FreeChain, IsInjective
  <2> QED BY <1>2, <2>1
<1>11. Range(t) = Idx \ Held'
  <2>1. ASSUME NEW i \in Range(t) PROVE i \in Idx \ Held'
    <3>1. PICK k \in 1..n - 1 : i = t[k]
      BY <1>9 DEF Range
    <3>2. i \in Range(s)
      BY <1>8, <3>1 DEF Range
    <3> QED BY <1>1, <1>7, <1>8, <3>1, <3>2 DEF FreeChain
  <2>2. ASSUME NEW i \in Idx \ Held' PROVE i \in Range(t)
    <3>1. i \in Range(s) /\ i # firstIdx
      BY <1>1, <1>7, <2>2 DEF FreeChain
    <3>2. PICK j \in 1..n : i = s[j]
      BY <3>1 DEF Range
    <3>3. j - 1 \in 1..n - 1 /\ (j - 1) + 1 = j
      BY <1>2, <3>1, <3>2
    <3>4. t[j - 1] = i
      BY <1>8, <3>2, <3>3
    <3> QED BY <1>9, <3>3, <3>4 DEF Range
  <2> QED BY <2>1, <2>2
<1>12. IsFreeChain(n - 1, t)'
  <2>1. firstIdx' = IF n - 1 = 0 THEN NullIdx ELSE t[1]
    <3>1. freeList[s[1]] = IF 1 = n THEN NullIdx ELSE s[1 + 1]
      BY <1>1, <1>2 DEF FreeChain, IsFreeChain
    <3>2. n # 1 => 1 \in 1..n - 1 /\ t[1] = s[1 + 1]
      BY <1>2, <1>8
    <3> QED BY <1>2, <1>4, <3>1, <3>2
  <2>2. ASSUME NEW k \in 1..n - 1
        PROVE  freeList'[t[k]] = IF k = n - 1 THEN NullIdx ELSE t[k + 1]
    <3>1. freeList'[t[k]] = freeList[s[k + 1]]
      BY <1>6, <1>8, <1>9
    <3>2. freeList[s[k + 1]] = IF k + 1 = n THEN NullIdx ELSE s[(k + 1) + 1]
      BY <1>1, <1>8 DEF FreeChain, IsFreeChain
    <3>3. k # n - 1 => k + 1 \in 1..n - 1
      BY <1>2
    <3>4. k # n - 1 => t[k + 1] = s[(k + 1) + 1]
      BY <1>8, <3>3
    <3> QED BY <1>2, <3>1, <3>2, <3>4
  <2> QED BY <2>1, <2>2 DEF IsFreeChain
<1>13. n - 1 \in 0..NumItems /\ size' = n - 1
  BY <1>1, <1>2, <1>4 DEF FreeChain
<1>14. FreeListIntact'
  BY <1>9, <1>10, <1>11, <1>12, <1>13 DEF FreeListIntact
<1>15. PoolTypeOK'
  <2>1. freeList' \in [Idx -> Idx \cup {NullIdx, DetachedIdx}]
    BY <1>4, <1>5
  <2>2. firstIdx' \in Idx \cup {NullIdx}
    <3>1. n - 1 # 0 => 1 \in 1..n - 1
      BY <1>2
    <3> QED BY <1>9, <1>12, <3>1 DEF IsFreeChain
  <2>3. answer' = <<"block", firstIdx>>
    BY DEF GetBlock
  <2> QED BY <1>3, <1>13, <2>1, <2>2, <2>3 DEF PoolTypeOK
<1>16. FreeBlocks = s /\ s \in Seq(Idx) /\ Len(s) = n
  BY <1>1, <1>2, FreeBlocksIsChain
<1>17. FreeBlocks' = t /\ t \in Seq(Idx) /\ Len(t) = n - 1
  BY <1>2, <1>9, <1>12, <1>13, NextBlocksIsChain
<1>18. s # <<>> /\ Head(s) = s[1] /\ Tail(s) = t
  <2>1. s # <<>> /\ Head(s) = s[1]
    BY <1>2, <1>16
  <2>2. /\ Tail(s) \in Seq(Idx) /\ Len(Tail(s)) = n - 1
        /\ \A k \in 1..n - 1 : Tail(s)[k] = s[k + 1]
    BY <1>2, <1>16, <2>1, HeadTailProperties
  <2>3. Tail(s) = t
    BY <1>8, <1>17, <2>2, SeqEqual
  <2> QED BY <2>1, <2>3
<1> QED BY <1>2, <1>3, <1>7, <1>14, <1>15, <1>16, <1>17, <1>18 DEF PoolInv

\* releaseBlock puts the block in front of the chain.
LEMMA InsertKeepsChain ==
  ASSUME PoolInv, NEW idx \in Idx, ~ IsFree(idx), Insert(idx)
  PROVE  /\ PoolInv'
         /\ idx \in Held
         /\ Held' = Held \ {idx}
         /\ FreeBlocks' = <<idx>> \o FreeBlocks
<1> USE PoolAssumption DEF NullIdx, DetachedIdx
<1>0. PICK n \in 0..NumItems : \E s \in [1..n -> Idx] : FreeChain(n, s)
  BY HasChain
<1>1. PICK s \in [1..n -> Idx] : FreeChain(n, s)
  BY <1>0
<1>2. idx \in Held
  BY DEF IsFree, Held
<1>3. freeList' = [freeList EXCEPT ![idx] = firstIdx]
      /\ firstIdx' = idx /\ size' = size + 1
  BY DEF Insert
<1>4. freeList \in [Idx -> Idx \cup {NullIdx, DetachedIdx}]
      /\ firstIdx \in Idx \cup {NullIdx}
  BY DEF PoolInv, PoolTypeOK
<1>5. \A i \in Idx : freeList'[i] = IF i = idx THEN firstIdx ELSE freeList[i]
  BY <1>3, <1>4
<1>6. firstIdx # DetachedIdx
  BY <1>4 DEF Idx
<1>7. Held' = Held \ {idx}
  BY <1>5, <1>6 DEF Held
<1> DEFINE t == [k \in 1..n + 1 |-> IF k = 1 THEN idx ELSE s[k - 1]]
<1>8. n \in Nat /\ 1 \in 1..n + 1 /\ t[1] = idx
  OBVIOUS
<1>9. \A k \in 1..n + 1 : k # 1 => k - 1 \in 1..n /\ t[k] = s[k - 1] /\ t[k] # idx
  <2> SUFFICES ASSUME NEW k \in 1..n + 1, k # 1
               PROVE  k - 1 \in 1..n /\ t[k] = s[k - 1] /\ t[k] # idx
    OBVIOUS
  <2>1. k - 1 \in 1..n
    OBVIOUS
  <2>2. s[k - 1] \in Range(s)
    BY <2>1 DEF Range
  <2> QED BY <1>1, <1>2, <2>1, <2>2 DEF FreeChain
<1>10. t \in [1..n + 1 -> Idx] /\ DOMAIN t = 1..n + 1
  <2>1. \A k \in 1..n + 1 : t[k] \in Idx
    BY <1>8, <1>9
  <2> QED BY <2>1
<1> HIDE DEF t
<1>11. IsInjective(t)
  <2> SUFFICES ASSUME NEW j \in 1..n + 1, NEW k \in 1..n + 1, t[j] = t[k]
               PROVE  j = k
    BY <1>10 DEF IsInjective
  <2>1. CASE j = 1 \/ k = 1
    BY <1>8, <1>9, <2>1
  <2>2. CASE j # 1 /\ k # 1
    <3>1. j - 1 \in 1..n /\ k - 1 \in 1..n /\ s[j - 1] = s[k - 1]
      BY <1>9, <2>2
    <3>2. j - 1 = k - 1
      BY <1>1, <3>1 DEF FreeChain, IsInjective
    <3> QED BY <3>2
  <2> QED BY <2>1, <2>2
<1>12. Range(t) = Idx \ Held'
  <2>1. ASSUME NEW i \in Range(t) PROVE i \in Idx \ Held'
    <3>1. PICK k \in 1..n + 1 : i = t[k]
      BY <1>10 DEF Range
    <3>2. CASE k = 1
      BY <1>7, <1>8, <3>1, <3>2
    <3>3. CASE k # 1
      <4>1. i \in Range(s)
        BY <1>9, <3>1, <3>3 DEF Range
      <4> QED BY <1>1, <1>7, <4>1 DEF FreeChain
    <3> QED BY <3>2, <3>3
  <2>2. ASSUME NEW i \in Idx \ Held' PROVE i \in Range(t)
    <3>1. CASE i = idx
      BY <1>8, <1>10, <3>1 DEF Range
    <3>2. CASE i # idx
      <4>1. i \in Range(s)
        BY <1>1, <1>7, <2>2, <3>2 DEF FreeChain
      <4>2. PICK j \in 1..n : i = s[j]
        BY <4>1 DEF Range
      <4>3. j + 1 \in 1..n + 1 /\ j + 1 # 1 /\ (j + 1) - 1 = j
        BY <1>8
      <4>4. t[j + 1] = i
        BY <1>9, <4>2, <4>3
      <4> QED BY <1>10, <4>3, <4>4 DEF Range
    <3> QED BY <3>1, <3>2
  <2> QED BY <2>1, <2>2
<1>13. IsFreeChain(n + 1, t)'
  <2>1. firstIdx' = IF n + 1 = 0 THEN NullIdx ELSE t[1]
    BY <1>3, <1>8
  <2>2. ASSUME NEW k \in 1..n + 1
        PROVE  freeList'[t[k]] = IF k = n + 1 THEN NullIdx ELSE t[k + 1]
    <3>1. k # n + 1 => k + 1 \in 1..n + 1 /\ k + 1 # 1 /\ (k + 1) - 1 = k
      BY <1>8
    <3>2. k # n + 1 => t[k + 1] = s[k]
      BY <1>9, <3>1
    <3>3. CASE k = 1
      <4>1. freeList'[t[k]] = firstIdx
        BY <1>5, <1>8, <3>3
      <4>2. firstIdx = IF n = 0 THEN NullIdx ELSE s[1]
        BY <1>1 DEF FreeChain, IsFreeChain
      <4> QED BY <1>8, <3>2, <3>3, <4>1, <4>2
    <3>4. CASE k # 1
      <4>1. freeList'[t[k]] = freeList[s[k - 1]] /\ k - 1 \in 1..n
        BY <1>5, <1>9, <1>10, <3>4
      <4>2. freeList[s[k - 1]] = IF k - 1 = n THEN NullIdx ELSE s[(k - 1) + 1]
        BY <1>1, <4>1 DEF FreeChain, IsFreeChain
      <4>3. (k - 1) + 1 = k /\ (k - 1 = n <=> k = n + 1)
        BY <1>8
      <4> QED BY <3>2, <4>1, <4>2, <4>3
    <3> QED BY <3>3, <3>4
  <2> QED BY <2>1, <2>2 DEF IsFreeChain
<1>14. n + 1 \in 0..NumItems /\ size' = n + 1
  <2>1. n + 1 <= NumItems
    BY <1>8, <1>10, <1>11, ChainFits
  <2> QED BY <1>1, <1>3, <1>8, <2>1 DEF FreeChain
<1>15. FreeListIntact'
  BY <1>10, <1>11, <1>12, <1>13, <1>14 DEF FreeListIntact
<1>16. PoolTypeOK'
  <2>1. freeList' \in [Idx -> Idx \cup {NullIdx, DetachedIdx}]
    BY <1>3, <1>4
  <2>2. answer' = <<"Success">>
    BY DEF Insert
  <2> QED BY <1>3, <1>14, <2>1, <2>2 DEF PoolTypeOK
<1>17. FreeBlocks = s /\ s \in Seq(Idx) /\ Len(s) = n
  BY <1>1, <1>8, FreeBlocksIsChain
<1>18. FreeBlocks' = t /\ t \in Seq(Idx) /\ Len(t) = n + 1
  BY <1>8, <1>10, <1>13, <1>14, NextBlocksIsChain
<1>19. <<idx>> \o s = t
  <2> DEFINE u == <<idx>> \o s
  <2>1. u \in Seq(Idx) /\ Len(u) = n + 1 /\ u[1] = idx
    BY <1>8, <1>17
  <2>2. ASSUME NEW k \in 1..n + 1, k # 1 PROVE u[k] = s[k - 1]
    BY <1>8, <1>17, <2>2
  <2> HIDE DEF u
  <2>3. \A k \in 1..n + 1 : u[k] = t[k]
    BY <1>8, <1>9, <2>1, <2>2
  <2>4. u = t
    BY <1>18, <2>1, <2>3, SeqEqual
  <2> QED BY <2>4 DEF u
<1> QED BY <1>2, <1>7, <1>15, <1>16, <1>17, <1>18, <1>19 DEF PoolInv

\* A call that only answers leaves the pool as it is.
LEMMA AnswerKeepsInv ==
  ASSUME PoolInv, UNCHANGED <<freeList, firstIdx, size>>, answer' \in Answer
  PROVE  PoolInv' /\ Held' = Held /\ FreeBlocks' = FreeBlocks
<1>1. Held' = Held /\ FreeBlocks' = FreeBlocks
  BY DEF Held, FreeBlocks
<1>2. PoolTypeOK'
  BY DEF PoolInv, PoolTypeOK, Answer
<1>3. FreeListIntact'
  BY <1>1 DEF PoolInv, FreeListIntact, IsFreeChain
<1> QED BY <1>1, <1>2, <1>3 DEF PoolInv

-----------------------------------------------------------------------------
\* One call of the allocator.
LEMMA NextKeepsInv ==
  ASSUME PoolInv, [PoolNext]_vars
  PROVE  PoolInv'
<1>1. CASE GetBlock
  BY <1>1, GetKeepsChain
<1>2. CASE GetNothing
  BY <1>2, AnswerKeepsInv DEF GetNothing, Answer
<1>3. ASSUME NEW offset \in Address, ReleaseBlock(offset)
      PROVE  PoolInv'
  <2> DEFINE idx == offset \div ItemSize
  <2>1. CASE \E code \in {"UnalignedFree", "OutOfRange", "DoubleFree"} : Refuse(code)
    BY <2>1, AnswerKeepsInv DEF Refuse, Answer
  <2>2. CASE InRange(idx) /\ ~ IsFree(idx) /\ Insert(idx)
    BY <2>2, InsertKeepsChain DEF InRange
  <2> QED BY <1>3, <2>1, <2>2 DEF ReleaseBlock
<1>4. CASE UNCHANGED vars
  <2>1. UNCHANGED <<freeList, firstIdx, size>> /\ answer' = answer
    BY <1>4 DEF vars
  <2>2. answer \in Answer
    BY DEF PoolInv, PoolTypeOK, Answer
  <2> QED BY <2>1, <2>2, AnswerKeepsInv
<1> QED BY <1>1, <1>2, <1>3, <1>4 DEF PoolNext

\* The invariant holds in every behaviour.
LEMMA PoolInvariant == PoolSpec => []PoolInv
<1>1. PoolInv /\ [PoolNext]_vars => PoolInv'
  BY NextKeepsInv
<1> QED BY InitChain, <1>1, PTL DEF PoolSpec

(***************************************************************************)
(* The fields of an allocator keep their types; size is never negative and *)
(* never more than the number of blocks.                                   *)
(***************************************************************************)
THEOREM PoolType == PoolSpec => []PoolTypeOK
BY PoolInvariant, PTL DEF PoolInv

(***************************************************************************)
(* The free list of an allocator of any size stays one chain that holds    *)
(* each free block once, whatever is allocated and released, rightly or    *)
(* not.                                                                    *)
(***************************************************************************)
THEOREM PoolFreeList == PoolSpec => []FreeListIntact
BY PoolInvariant, PTL DEF PoolInv

-----------------------------------------------------------------------------
\* What the pool of blocks holds to be held is.
LEMMA HeldIsHeld ==
  ASSUME PoolInv
  PROVE  /\ Pool!Held = Held
         /\ FreeBlocks \in Seq(Idx) /\ IsInjective(FreeBlocks)
<1>0. PICK n \in 0..NumItems : \E s \in [1..n -> Idx] : FreeChain(n, s)
  BY HasChain
<1>1. PICK s \in [1..n -> Idx] : FreeChain(n, s)
  BY <1>0
<1>2. FreeBlocks = s /\ s \in Seq(Idx)
  BY <1>1, FreeBlocksIsChain
<1>3. Range(s) = Idx \ Held /\ Held \subseteq Idx
  BY <1>1 DEF FreeChain, Held
<1>4. Pool!Range(s) = Range(s)
  BY DEF Pool!Range, Range
<1> QED BY <1>1, <1>2, <1>3, <1>4 DEF Pool!Held, FreeChain

\* The pool starts as a BlockPool with no block held.
LEMMA PoolInitIsInit == PoolInit => Pool!Init
<1> SUFFICES ASSUME PoolInit PROVE Pool!Init
  OBVIOUS
<1>1. Held = {}
  BY PoolAssumption DEF PoolInit, Held, Idx, NullIdx, DetachedIdx
<1> QED BY <1>1, InitChain, HeldIsHeld
       DEF PoolInit, Pool!Init, IsInjective, Pool!IsInjective

\* getBlock fails only when every block is held.
LEMMA NothingMeansAllHeld ==
  ASSUME PoolInv, firstIdx = NullIdx
  PROVE  Held = Idx
<1>0. PICK n \in 0..NumItems : \E s \in [1..n -> Idx] : FreeChain(n, s)
  BY HasChain
<1>1. PICK s \in [1..n -> Idx] : FreeChain(n, s)
  BY <1>0
<1>2. n = 0
  <2> SUFFICES ASSUME n # 0 PROVE FALSE
    OBVIOUS
  <2>1. 1 \in 1..n
    OBVIOUS
  <2>2. s[1] \in Idx
    BY <2>1
  <2> QED BY <1>1, <2>2 DEF FreeChain, IsFreeChain, Idx, NullIdx
<1>3. Range(s) = {}
  BY <1>2 DEF Range
<1> QED BY <1>1, <1>3 DEF FreeChain, Held

\* Each call is a step of the pool of blocks.
LEMMA PoolNextIsNext ==
  ASSUME PoolInv, [PoolNext]_vars
  PROVE  [Pool!Next]_(Pool!poolVars)
<1>1. CASE GetBlock
  <2>1. Pool!Get(firstIdx)
    BY <1>1, GetKeepsChain DEF Pool!Get, GetBlock
  <2> QED BY <1>1, <2>1, GetKeepsChain DEF Pool!Next
<1>2. CASE GetNothing
  <2>1. FreeBlocks' = FreeBlocks
    BY <1>2 DEF GetNothing, FreeBlocks
  <2> QED BY <1>2, <2>1, NothingMeansAllHeld, HeldIsHeld
          DEF GetNothing, Pool!GetNone, Pool!Next
<1>3. ASSUME NEW offset \in Address, ReleaseBlock(offset)
      PROVE  Pool!Next
  <2> DEFINE idx == offset \div ItemSize
  <2>1. CASE Refuse("UnalignedFree") \/ Refuse("OutOfRange")
    BY <2>1 DEF Refuse, FreeBlocks, Pool!RefuseAddress, Pool!Next
  <2>2. CASE InRange(idx) /\ IsFree(idx) /\ Refuse("DoubleFree")
    <3>1. idx \in Idx \ Held
      BY <2>2 DEF InRange, IsFree, Held
    <3>2. Pool!RefuseFree(idx)
      BY <2>2, <3>1, HeldIsHeld DEF Refuse, FreeBlocks, Pool!RefuseFree
    <3> QED BY <3>1, <3>2 DEF Pool!Next
  <2>3. CASE InRange(idx) /\ ~ IsFree(idx) /\ Insert(idx)
    <3>1. idx \in Idx
      BY <2>3 DEF InRange
    <3>2. Pool!Release(idx)
      BY <2>3, <3>1, InsertKeepsChain, HeldIsHeld DEF Insert, Pool!Release
    <3> QED BY <3>1, <3>2 DEF Pool!Next
  <2> QED BY <1>3, <2>1, <2>2, <2>3 DEF ReleaseBlock
<1>4. CASE UNCHANGED vars
  BY <1>4 DEF vars, FreeBlocks, Pool!poolVars
<1> QED BY <1>1, <1>2, <1>3, <1>4 DEF PoolNext

(***************************************************************************)
(* The allocator implements the pool of blocks: no block has two holders,  *)
(* the block released last is the next to be given, and a release of a     *)
(* block that nobody holds changes nothing.                                *)
(***************************************************************************)
THEOREM PoolImplementsBlockPool == PoolSpec => ImplementsBlockPool
<1>1. PoolInv /\ [PoolNext]_vars => [Pool!Next]_(Pool!poolVars)
  BY PoolNextIsNext
<1> QED BY PoolInvariant, PoolInitIsInit, <1>1, PTL
        DEF PoolSpec, ImplementsBlockPool, Pool!Spec

=============================================================================
