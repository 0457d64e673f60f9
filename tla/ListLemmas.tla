----------------------------- MODULE ListLemmas -----------------------------
(***************************************************************************)
(* Lemmas about lists that hold nothing twice, for the proofs about the    *)
(* lists of processes and the free lists of the pools.                     *)
(***************************************************************************)
EXTENDS Integers, Sequences, FiniteSets, SequencesExt, SequenceTheorems,
        FiniteSetTheorems, WellFoundedInduction, TLAPS

(***************************************************************************)
(* The list operations on sequences without repetition: what they hold     *)
(* afterwards, and that they still hold nothing twice.                     *)
(***************************************************************************)
\* The processes on a list are its elements by position.
LEMMA RangeIsElements ==
  ASSUME NEW S, NEW s \in Seq(S)
  PROVE  /\ \A e : e \in Range(s) <=> \E i \in 1..Len(s) : s[i] = e
         /\ IsInjective(s) <=> \A i, j \in 1..Len(s) : s[i] = s[j] => i = j
         /\ Range(s) \subseteq S
  BY LenProperties DEF Range, IsInjective

\* One list behind another holds what the two hold.
LEMMA ConcatItems ==
  ASSUME NEW S, NEW s \in Seq(S), NEW t \in Seq(S)
  PROVE  s \o t \in Seq(S) /\ Range(s \o t) = Range(s) \cup Range(t)
<1>1. /\ s \o t \in Seq(S)
      /\ Len(s \o t) = Len(s) + Len(t)
      /\ \A i \in 1 .. Len(s) + Len(t) :
            (s \o t)[i] = IF i <= Len(s) THEN s[i] ELSE t[i - Len(s)]
  BY ConcatProperties
<1>2. Len(s) \in Nat /\ Len(t) \in Nat
  BY LenProperties
<1>3. Range(s \o t) = Range(s) \cup Range(t)
  <2>1. ASSUME NEW e \in Range(s \o t)
        PROVE  e \in Range(s) \cup Range(t)
    <3>1. PICK i \in 1..Len(s \o t) : (s \o t)[i] = e
      BY <1>1, RangeIsElements
    <3>2. CASE i <= Len(s)
      BY <1>1, <1>2, <3>1, <3>2, RangeIsElements
    <3>3. CASE ~(i <= Len(s))
      <4>1. i - Len(s) \in 1..Len(t) /\ t[i - Len(s)] = e
        BY <1>1, <1>2, <3>1, <3>3
      <4> QED BY <4>1, RangeIsElements
    <3> QED BY <3>2, <3>3
  <2>2. ASSUME NEW e \in Range(s) PROVE e \in Range(s \o t)
    <3>1. PICK i \in 1..Len(s) : s[i] = e
      BY RangeIsElements
    <3>2. i \in 1..Len(s \o t) /\ (s \o t)[i] = e
      BY <1>1, <1>2, <3>1
    <3> QED BY <1>1, <3>2, RangeIsElements
  <2>3. ASSUME NEW e \in Range(t) PROVE e \in Range(s \o t)
    <3>1. PICK i \in 1..Len(t) : t[i] = e
      BY RangeIsElements
    <3>2. i + Len(s) \in 1..Len(s \o t) /\ (s \o t)[i + Len(s)] = e
      BY <1>1, <1>2, <3>1
    <3> QED BY <1>1, <3>2, RangeIsElements
  <2> QED BY <2>1, <2>2, <2>3
<1> QED BY <1>1, <1>3

\* Woken processes put in front of a list.
LEMMA ConcatKeepsItems ==
  ASSUME NEW S, NEW s \in Seq(S), NEW t \in Seq(S),
         IsInjective(s), IsInjective(t), Range(s) \cap Range(t) = {}
  PROVE  /\ s \o t \in Seq(S)
         /\ Range(s \o t) = Range(s) \cup Range(t)
         /\ IsInjective(s \o t)
<1>1. /\ s \o t \in Seq(S)
      /\ Len(s \o t) = Len(s) + Len(t)
      /\ \A i \in 1 .. Len(s) + Len(t) :
            (s \o t)[i] = IF i <= Len(s) THEN s[i] ELSE t[i - Len(s)]
  BY ConcatProperties
<1>2. Len(s) \in Nat /\ Len(t) \in Nat
  BY LenProperties
<1>3. Range(s \o t) = Range(s) \cup Range(t)
  BY ConcatItems
<1>4. ASSUME NEW i \in 1..Len(s \o t), NEW j \in 1..Len(s \o t),
             (s \o t)[i] = (s \o t)[j]
      PROVE  i = j
  <2>1. ASSUME NEW a \in 1..Len(s), NEW b \in 1..Len(t)
        PROVE  s[a] # t[b]
    <3>1. s[a] \in Range(s) /\ t[b] \in Range(t)
      BY RangeIsElements
    <3> QED BY <3>1
  <2>2. CASE i <= Len(s) /\ j <= Len(s)
    BY <1>1, <1>2, <1>4, <2>2, RangeIsElements
  <2>3. CASE i <= Len(s) /\ j > Len(s)
    BY <1>1, <1>2, <1>4, <2>1, <2>3
  <2>4. CASE i > Len(s) /\ j <= Len(s)
    BY <1>1, <1>2, <1>4, <2>1, <2>4
  <2>5. CASE i > Len(s) /\ j > Len(s)
    <3>1. /\ i - Len(s) \in 1..Len(t) /\ j - Len(s) \in 1..Len(t)
          /\ t[i - Len(s)] = t[j - Len(s)]
      BY <1>1, <1>2, <1>4, <2>5
    <3>2. i - Len(s) = j - Len(s)
      BY <3>1, RangeIsElements
    <3> QED BY <1>1, <1>2, <3>2
  <2> QED BY <1>1, <1>2, <2>2, <2>3, <2>4, <2>5
<1> QED BY <1>1, <1>3, <1>4, RangeIsElements

\* The head of a list detached.
LEMMA DetachHead ==
  ASSUME NEW S, NEW s \in Seq(S), s # <<>>, IsInjective(s)
  PROVE  /\ Head(s) \in Range(s)
         /\ Tail(s) \in Seq(S)
         /\ Range(Tail(s)) = Range(s) \ {Head(s)}
         /\ IsInjective(Tail(s))
<1>1. /\ Tail(s) \in Seq(S)
      /\ Len(Tail(s)) = Len(s) - 1
      /\ \A i \in 1..Len(Tail(s)) : Tail(s)[i] = s[i + 1]
      /\ Len(s) \in Nat \ {0}
      /\ Head(s) = s[1]
  BY HeadTailProperties, EmptySeq
<1>2. Head(s) \in Range(s)
  BY <1>1, RangeIsElements
<1> DEFINE t == Tail(s)
<1>6. \A e : e \in Range(t) <=> \E i \in 1..Len(t) : t[i] = e
  <2>1. t \in Seq(S)
    BY <1>1
  <2> HIDE DEF t
  <2> QED BY <2>1, RangeIsElements
<1>3. ASSUME NEW e \in Range(Tail(s)) PROVE e \in Range(s) \ {Head(s)}
  <2>1. PICK i \in 1..Len(Tail(s)) : Tail(s)[i] = e
    BY <1>3, <1>6
  <2>2. i + 1 \in 1..Len(s) /\ s[i + 1] = e /\ i + 1 # 1
    BY <1>1, <2>1
  <2> QED BY <1>1, <2>2, RangeIsElements
<1>4. ASSUME NEW e \in Range(s) \ {Head(s)} PROVE e \in Range(Tail(s))
  <2>1. PICK i \in 1..Len(s) : s[i] = e
    BY RangeIsElements
  <2>2. i # 1
    BY <1>1, <2>1
  <2>3. i - 1 \in 1..Len(Tail(s)) /\ Tail(s)[i - 1] = s[(i - 1) + 1]
    BY <1>1, <2>2
  <2>4. Tail(s)[i - 1] = e
    BY <2>1, <2>3
  <2> QED BY <1>6, <2>3, <2>4
<1>5. ASSUME NEW i \in 1..Len(Tail(s)), NEW j \in 1..Len(Tail(s)),
             Tail(s)[i] = Tail(s)[j]
      PROVE  i = j
  <2>1. i + 1 \in 1..Len(s) /\ j + 1 \in 1..Len(s) /\ s[i + 1] = s[j + 1]
    BY <1>1, <1>5
  <2>2. i + 1 = j + 1
    BY <2>1, RangeIsElements
  <2> QED BY <1>1, <2>2
<1> QED BY <1>1, <1>2, <1>3, <1>4, <1>5, RangeIsElements

\* An item appended to a list.
LEMMA AppendItems ==
  ASSUME NEW S, NEW s \in Seq(S), NEW p \in S
  PROVE  Append(s, p) \in Seq(S) /\ Range(Append(s, p)) = Range(s) \cup {p}
<1>1. /\ Append(s, p) \in Seq(S)
      /\ Len(Append(s, p)) = Len(s) + 1
      /\ Len(s) \in Nat
      /\ \A i \in 1..Len(s) + 1 :
            Append(s, p)[i] = IF i <= Len(s) THEN s[i] ELSE p
  OBVIOUS
<1>2. Range(Append(s, p)) = Range(s) \cup {p}
  <2>1. ASSUME NEW e \in Range(Append(s, p)) PROVE e \in Range(s) \cup {p}
    <3>1. PICK i \in 1..Len(s) + 1 : Append(s, p)[i] = e
      BY <1>1, RangeIsElements
    <3> QED BY <1>1, <3>1, RangeIsElements
  <2>2. ASSUME NEW e \in Range(s) PROVE e \in Range(Append(s, p))
    <3>1. PICK i \in 1..Len(s) : s[i] = e
      BY RangeIsElements
    <3>2. i \in 1..Len(Append(s, p)) /\ Append(s, p)[i] = e
      BY <1>1, <3>1
    <3> QED BY <1>1, <3>2, RangeIsElements
  <2>3. p \in Range(Append(s, p))
    <3>1. Len(s) + 1 \in 1..Len(Append(s, p)) /\ Append(s, p)[Len(s) + 1] = p
      BY <1>1
    <3> QED BY <1>1, <3>1, RangeIsElements
  <2> QED BY <2>1, <2>2, <2>3
<1> QED BY <1>1, <1>2

\* A process put behind a list that does not hold it.
LEMMA InsertLast ==
  ASSUME NEW S, NEW s \in Seq(S), NEW p \in S, IsInjective(s), p \notin Range(s)
  PROVE  /\ Append(s, p) \in Seq(S)
         /\ Range(Append(s, p)) = Range(s) \cup {p}
         /\ IsInjective(Append(s, p))
<1>1. /\ Append(s, p) \in Seq(S)
      /\ Len(Append(s, p)) = Len(s) + 1
      /\ Len(s) \in Nat
      /\ \A i \in 1..Len(s) + 1 :
            Append(s, p)[i] = IF i <= Len(s) THEN s[i] ELSE p
  OBVIOUS
<1>2. Range(Append(s, p)) = Range(s) \cup {p}
  BY AppendItems
<1>3. ASSUME NEW i \in 1..Len(Append(s, p)), NEW j \in 1..Len(Append(s, p)),
             Append(s, p)[i] = Append(s, p)[j]
      PROVE  i = j
  <2>1. \A a \in 1..Len(s) : s[a] # p
    BY RangeIsElements
  <2>2. CASE i <= Len(s) /\ j <= Len(s)
    BY <1>1, <1>3, <2>2, RangeIsElements
  <2>3. CASE ~(i <= Len(s) /\ j <= Len(s))
    BY <1>1, <1>3, <2>1, <2>3
  <2> QED BY <2>2, <2>3
<1> QED BY <1>1, <1>2, <1>3, RangeIsElements

\* A block put in front of a free list.
LEMMA InsertFirst ==
  ASSUME NEW S, NEW s \in Seq(S), NEW p \in S, IsInjective(s), p \notin Range(s)
  PROVE  /\ <<p>> \o s \in Seq(S)
         /\ Range(<<p>> \o s) = {p} \cup Range(s)
         /\ IsInjective(<<p>> \o s)
<1>1. <<p>> \in Seq(S) /\ Range(<<p>>) = {p} /\ IsInjective(<<p>>)
  BY DEF Range, IsInjective
<1>2. Range(<<p>>) \cap Range(s) = {}
  BY <1>1
<1>3. /\ <<p>> \o s \in Seq(S)
      /\ Range(<<p>> \o s) = Range(<<p>>) \cup Range(s)
      /\ IsInjective(<<p>> \o s)
  BY <1>1, <1>2, ConcatKeepsItems
<1> QED BY <1>1, <1>3

\* An injection fills a list as long as the set it takes its elements from.
LEMMA FullList ==
  ASSUME NEW S, IsFiniteSet(S), NEW s \in [1..Cardinality(S) -> S], IsInjective(s)
  PROVE  s \in Seq(S) /\ Range(s) = S
<1>1. Cardinality(S) \in Nat
  BY FS_CardinalityType
<1>2. Cardinality(1..Cardinality(S)) = Cardinality(S)
  BY <1>1, FS_Interval
<1>3. s \in Injection(1..Cardinality(S), S)
  BY DEF Injection, IsInjective
<1>4. s \in Surjection(1..Cardinality(S), S)
  BY <1>2, <1>3, FS_Injection
<1>5. s \in Seq(S)
  BY <1>1
<1> QED BY <1>4, <1>5 DEF Surjection, Range

\* The two names of the community modules for what is on a list.
LEMMA ToSetIsRange == \A s : ToSet(s) = Range(s)
  BY DEF ToSet, Range

\* The free list of a full pool: the elements of a set in some order.
LEMMA ListOfSet ==
  ASSUME NEW S, IsFiniteSet(S)
  PROVE  /\ SetToSeq(S) \in Seq(S) /\ IsInjective(SetToSeq(S))
         /\ Len(SetToSeq(S)) = Cardinality(S)
         /\ Range(SetToSeq(S)) = S
<1>1. PICK f : f \in Bijection(1..Cardinality(S), S)
  BY FS_CardinalityType DEF ExistsBijection
<1>2. f \in [1..Cardinality(S) -> S] /\ IsInjective(f)
  BY <1>1 DEF Bijection, Injection, IsInjective
<1>3. SetToSeq(S) \in [1..Cardinality(S) -> S] /\ IsInjective(SetToSeq(S))
  BY <1>2 DEF SetToSeq
<1>4. SetToSeq(S) \in Seq(S) /\ Range(SetToSeq(S)) = S
  BY <1>3, FullList
<1>5. Cardinality(S) \in Nat
  BY FS_CardinalityType
<1> QED BY <1>3, <1>4, <1>5

\* The places of a list from the middle of which an item is taken.
LEMMA RemoveAtPlaces ==
  ASSUME NEW S, NEW s \in Seq(S), NEW k \in 1..Len(s)
  PROVE  /\ RemoveAt(s, k) \in Seq(S)
         /\ Len(RemoveAt(s, k)) = Len(s) - 1
         /\ \A i \in 1..Len(s) - 1 :
               RemoveAt(s, k)[i] = IF i <= k - 1 THEN s[i] ELSE s[i + 1]
<1> DEFINE front == SubSeq(s, 1, k - 1)
           back  == SubSeq(s, k + 1, Len(s))
<1>0. Len(s) \in Nat /\ k \in Nat /\ k >= 1 /\ k <= Len(s)
  BY LenProperties
<1>1. /\ front \in Seq(S) /\ Len(front) = k - 1
      /\ \A i \in 1..k - 1 : front[i] = s[i]
  <2>1. CASE k = 1
    <3>1. front = <<>>
      BY <2>1, <1>0
    <3> QED BY <2>1, <3>1
  <2>2. CASE k # 1
    BY <1>0, <2>2, SubSeqProperties
  <2> QED BY <2>1, <2>2
<1>2. /\ back \in Seq(S) /\ Len(back) = Len(s) - k
      /\ \A i \in 1..Len(s) - k : back[i] = s[k + i]
  <2>1. CASE k = Len(s)
    <3>1. back = <<>>
      BY <2>1, <1>0
    <3> QED BY <1>0, <2>1, <3>1
  <2>2. CASE k # Len(s)
    BY <1>0, <2>2, SubSeqProperties
  <2> QED BY <2>1, <2>2
<1> HIDE DEF front, back
<1> DEFINE t == front \o back
<1>3. /\ t \in Seq(S) /\ Len(t) = Len(s) - 1
      /\ \A i \in 1..Len(s) - 1 : t[i] = IF i <= k - 1 THEN s[i] ELSE s[i + 1]
  <2>1. /\ t \in Seq(S) /\ Len(t) = Len(front) + Len(back)
        /\ \A i \in 1..Len(front) + Len(back) :
              t[i] = IF i <= Len(front) THEN front[i] ELSE back[i - Len(front)]
    BY <1>1, <1>2, ConcatProperties
  <2>2. Len(front) + Len(back) = Len(s) - 1
    BY <1>0, <1>1, <1>2
  <2>3. ASSUME NEW i \in 1..Len(s) - 1, ~ (i <= k - 1) PROVE t[i] = s[i + 1]
    <3>1. i - (k - 1) \in 1..Len(s) - k /\ k + (i - (k - 1)) = i + 1
      BY <1>0, <2>3
    <3>2. t[i] = back[i - (k - 1)]
      BY <1>1, <2>1, <2>2, <2>3
    <3> QED BY <1>2, <3>1, <3>2
  <2>4. ASSUME NEW i \in 1..Len(s) - 1, i <= k - 1 PROVE t[i] = s[i]
    BY <1>0, <1>1, <2>1, <2>2, <2>4
  <2> QED BY <2>1, <2>2, <2>3, <2>4
<1>6. t = RemoveAt(s, k)
  BY DEF RemoveAt, front, back
<1> QED BY <1>3, <1>6

\* What List_detach takes out of the middle of a list.
LEMMA RemoveAtKeepsItems ==
  ASSUME NEW S, NEW s \in Seq(S), NEW k \in 1..Len(s)
  PROVE  /\ RemoveAt(s, k) \in Seq(S)
         /\ Range(RemoveAt(s, k)) \subseteq Range(s)
         /\ Range(s) \subseteq Range(RemoveAt(s, k)) \cup {s[k]}
<1> DEFINE t == RemoveAt(s, k)
<1>0. Len(s) \in Nat /\ k \in Nat /\ k >= 1 /\ k <= Len(s)
  BY LenProperties
<1>1. /\ t \in Seq(S) /\ Len(t) = Len(s) - 1
      /\ \A i \in 1..Len(s) - 1 : t[i] = IF i <= k - 1 THEN s[i] ELSE s[i + 1]
  BY RemoveAtPlaces
<1> HIDE DEF t
<1>2. ASSUME NEW e \in Range(t) PROVE e \in Range(s)
  <2>1. PICK i \in 1..Len(t) : t[i] = e
    BY <1>1, RangeIsElements
  <2>2. CASE i <= k - 1
    BY <1>0, <1>1, <2>1, <2>2, RangeIsElements
  <2>3. CASE ~ (i <= k - 1)
    <3>1. i + 1 \in 1..Len(s) /\ s[i + 1] = e
      BY <1>0, <1>1, <2>1, <2>3
    <3> QED BY <3>1, RangeIsElements
  <2> QED BY <2>2, <2>3
<1>3. ASSUME NEW e \in Range(s), e # s[k] PROVE e \in Range(t)
  <2>1. PICK i \in 1..Len(s) : s[i] = e
    BY RangeIsElements
  <2>2. CASE i < k
    <3>1. i \in 1..Len(t) /\ t[i] = e
      BY <1>0, <1>1, <2>1, <2>2
    <3> QED BY <1>1, <3>1, RangeIsElements
  <2>3. CASE i > k
    <3>1. /\ i - 1 \in 1..Len(s) - 1 /\ ~ (i - 1 <= k - 1)
          /\ (i - 1) + 1 = i
      BY <1>0, <2>3
    <3>2. i - 1 \in 1..Len(t) /\ t[i - 1] = e
      BY <1>1, <2>1, <3>1
    <3> QED BY <1>1, <3>2, RangeIsElements
  <2>4. i # k
    BY <1>3, <2>1
  <2> QED BY <1>0, <2>2, <2>3, <2>4
<1> QED BY <1>1, <1>2, <1>3 DEF t

\* s with p behind the first k.
Inserted(s, k, p) == SubSeq(s, 1, k) \o <<p>> \o SubSeq(s, k + 1, Len(s))

\* The places of a list into which an item is put behind the first k.
LEMMA InsertPlaces ==
  ASSUME NEW S, NEW s \in Seq(S), NEW k \in 0..Len(s), NEW p \in S
  PROVE  /\ Inserted(s, k, p) \in Seq(S)
         /\ Len(Inserted(s, k, p)) = Len(s) + 1
         /\ \A i \in 1..Len(s) + 1 :
               Inserted(s, k, p)[i] =
                  IF i <= k THEN s[i] ELSE IF i = k + 1 THEN p ELSE s[i - 1]
<1> DEFINE front == SubSeq(s, 1, k)
           back  == SubSeq(s, k + 1, Len(s))
           mid   == front \o <<p>>
           t     == mid \o back
<1>0. /\ Len(s) \in Nat /\ k \in Nat /\ k <= Len(s)
      /\ \A i \in 1..Len(s) : s[i] \in S
  BY LenProperties, ElementOfSeq
<1>1. front \in Seq(S) /\ Len(front) = k /\ \A i \in 1..k : front[i] = s[i]
  <2>1. /\ SubSeq(s, 1, k) \in Seq(S)
        /\ Len(SubSeq(s, 1, k)) = IF 1 <= k THEN k - 1 + 1 ELSE 0
        /\ \A i \in 1 .. k - 1 + 1 : SubSeq(s, 1, k)[i] = s[1 + i - 1]
    BY <1>0, SubSeqProperties
  <2> QED BY <1>0, <2>1
<1>2. /\ back \in Seq(S) /\ Len(back) = Len(s) - k
      /\ \A i \in 1..Len(s) - k : back[i] = s[k + i]
  <2> DEFINE m == k + 1
  <2>0. m \in Int /\ \A i \in m..Len(s) : s[i] \in S
    BY <1>0
  <2>1. /\ SubSeq(s, m, Len(s)) \in Seq(S)
        /\ Len(SubSeq(s, m, Len(s))) = IF m <= Len(s) THEN Len(s) - m + 1 ELSE 0
        /\ \A i \in 1 .. Len(s) - m + 1 : SubSeq(s, m, Len(s))[i] = s[m + i - 1]
    <3> HIDE DEF m
    <3> QED BY <1>0, <2>0, SubSeqProperties
  <2> QED BY <1>0, <2>1
<1> HIDE DEF front, back
<1>3. /\ mid \in Seq(S) /\ Len(mid) = k + 1
      /\ \A i \in 1..k + 1 : mid[i] = IF i <= k THEN s[i] ELSE p
  <2>1. <<p>> \in Seq(S) /\ Len(<<p>>) = 1 /\ <<p>>[1] = p
    OBVIOUS
  <2>2. /\ mid \in Seq(S) /\ Len(mid) = k + 1
        /\ \A i \in 1..k + 1 : mid[i] = IF i <= k THEN front[i] ELSE <<p>>[i - k]
    BY <1>1, <2>1, ConcatProperties
  <2>3. \A i \in 1..k + 1 : ~ (i <= k) => i - k = 1
    BY <1>0
  <2> QED BY <1>0, <1>1, <2>1, <2>2, <2>3
<1> HIDE DEF mid
<1>4. /\ t \in Seq(S) /\ Len(t) = Len(s) + 1
      /\ \A i \in 1..Len(s) + 1 :
            t[i] = IF i <= k + 1 THEN mid[i] ELSE back[i - (k + 1)]
  <2>1. /\ t \in Seq(S) /\ Len(t) = Len(mid) + Len(back)
        /\ \A i \in 1..Len(mid) + Len(back) :
              t[i] = IF i <= Len(mid) THEN mid[i] ELSE back[i - Len(mid)]
    BY <1>2, <1>3, ConcatProperties
  <2>2. Len(mid) + Len(back) = Len(s) + 1
    BY <1>0, <1>2, <1>3
  <2> QED BY <1>3, <2>1, <2>2
<1>5. ASSUME NEW i \in 1..Len(s) + 1
      PROVE  t[i] = IF i <= k THEN s[i] ELSE IF i = k + 1 THEN p ELSE s[i - 1]
  <2>1. CASE i <= k + 1
    <3>1. t[i] = mid[i] /\ i \in 1..k + 1
      BY <1>0, <1>4, <2>1
    <3> QED BY <1>0, <1>3, <2>1, <3>1
  <2>2. CASE ~ (i <= k + 1)
    <3>1. t[i] = back[i - (k + 1)]
      BY <1>4, <2>2
    <3>2. i - (k + 1) \in 1..Len(s) - k /\ k + (i - (k + 1)) = i - 1
      BY <1>0, <2>2
    <3>3. t[i] = s[i - 1]
      BY <1>2, <3>1, <3>2
    <3> QED BY <1>0, <2>2, <3>3
  <2> QED BY <2>1, <2>2
<1>6. t = Inserted(s, k, p)
  BY DEF Inserted, mid, front, back
<1> HIDE DEF t
<1> QED BY <1>4, <1>5, <1>6

\* The first place of several.
LEMMA MinIsFirst ==
  ASSUME NEW I \in SUBSET Nat, I # {}
  PROVE  Min(I) \in I /\ \A j \in I : Min(I) <= j
<1>1. PICK i \in I : \A j \in I : ~ (<<j, i>> \in OpToRel(<, Nat))
  BY NatLessThanWellFounded, WFMin
<1>2. ASSUME NEW j \in I PROVE ~ (j < i)
  <2>1. ASSUME j < i PROVE <<j, i>> \in OpToRel(<, Nat)
    BY <2>1 DEF OpToRel
  <2> QED BY <1>1, <2>1, Zenon
<1>3. \A j \in I : i <= j
  <2>1. \A j \in I : ~ (j < i)
    BY <1>2
  <2> QED BY <2>1
<1> QED BY <1>3 DEF Min

=============================================================================
