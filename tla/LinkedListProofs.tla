-------------------------- MODULE LinkedListProofs --------------------------
(***************************************************************************)
(* Theorems about the linked lists, for any number of lists and items.     *)
(***************************************************************************)
EXTENDS LinkedList, ListLemmas

\* The item at a place of a list, or the null pointer beyond its ends.
At(t, i) == IF i \in 1..Len(t) THEN t[i] ELSE Null

Pointer == Item \cup {Null}

-----------------------------------------------------------------------------
(***************************************************************************)
(* Walk is a recursive function; this is what it computes when the links   *)
(* form a chain.                                                           *)
(***************************************************************************)
\* A list without repetition is no longer than there are items.
LEMMA ListsFit ==
  ASSUME NEW t \in Seq(Item), IsInjective(t)
  PROVE  Cardinality(Item) \in Nat /\ Len(t) \in Nat /\ Len(t) <= Cardinality(Item)
<1>1. Len(t) \in Nat /\ t \in [1..Len(t) -> Item]
  BY LenProperties
<1>2. t \in Injection(1..Len(t), Item)
  BY <1>1 DEF Injection, IsInjective
<1>3. Cardinality(1..Len(t)) = Len(t)
  BY <1>1, FS_Interval
<1>4. Cardinality(1..Len(t)) <= Cardinality(Item)
  BY <1>2, ListAssumption, FS_Injection
<1> QED BY <1>1, <1>3, <1>4, ListAssumption, FS_CardinalityType

\* What is met in n steps along a chain that holds t and ends in null.
Met(t, n) ==
    SubSeq(Append(t, Null), 1, IF n < Len(t) THEN n + 1 ELSE Len(t) + 1)

\* Its length and items.
LEMMA MetItems ==
  ASSUME NEW t \in Seq(Item), NEW n \in Nat
  PROVE  /\ Met(t, n) \in Seq(Pointer)
         /\ Len(Met(t, n)) = IF n < Len(t) THEN n + 1 ELSE Len(t) + 1
         /\ \A i \in 1..Len(Met(t, n)) : Met(t, n)[i] = At(t, i)
<1> DEFINE path == Append(t, Null)
           m == IF n < Len(t) THEN n + 1 ELSE Len(t) + 1
<1>1. /\ Len(t) \in Nat /\ path \in Seq(Pointer) /\ Len(path) = Len(t) + 1
      /\ \A i \in 1..Len(t) + 1 : path[i] = At(t, i)
  BY DEF At, Pointer
<1>2. m \in 1..Len(t) + 1
  BY <1>1
<1>3. \A i \in 1..m : path[i] \in Pointer
  BY <1>1, <1>2, ElementOfSeq
<1> HIDE DEF path, m
<1>4. /\ SubSeq(path, 1, m) \in Seq(Pointer)
      /\ Len(SubSeq(path, 1, m)) = m
      /\ \A i \in 1..m : SubSeq(path, 1, m)[i] = path[i]
  BY <1>2, <1>3, SubSeqProperties
<1>5. Met(t, n) = SubSeq(path, 1, m)
  BY DEF Met, path, m
<1>6. \A i \in 1..m : path[i] = At(t, i)
  BY <1>1, <1>2
<1> QED BY <1>4, <1>5, <1>6 DEF m

\* One step of Walk.
Onward(link, s) == IF Last(s) = Null THEN s ELSE Append(s, link[Last(s)])

\* One step more meets one item more, until null is met.
LEMMA MetStep ==
  ASSUME NEW link \in [Item -> Pointer], NEW t \in Seq(Item),
         \A i \in 1..Len(t) : link[t[i]] = At(t, i + 1), NEW n \in Nat
  PROVE  Onward(link, Met(t, n)) = Met(t, n + 1)
<1> DEFINE a == Met(t, n)
           b == Met(t, n + 1)
<1>0. Len(t) \in Nat /\ \A i \in 1..Len(t) : t[i] \in Item
  BY LenProperties, ElementOfSeq
<1>1. /\ a \in Seq(Pointer) /\ b \in Seq(Pointer)
      /\ Len(a) = IF n < Len(t) THEN n + 1 ELSE Len(t) + 1
      /\ Len(b) = IF n + 1 < Len(t) THEN n + 2 ELSE Len(t) + 1
      /\ \A i \in 1..Len(a) : a[i] = At(t, i)
      /\ \A i \in 1..Len(b) : b[i] = At(t, i)
  BY MetItems, n + 1 \in Nat, <1>0
<1>2. Last(a) = At(t, Len(a))
  BY <1>0, <1>1 DEF Last
<1> HIDE DEF a, b
<1>3. CASE n < Len(t)
  <2>1. /\ Len(a) = n + 1 /\ n + 1 \in 1..Len(t) /\ Last(a) = t[n + 1]
        /\ t[n + 1] \in Item /\ Last(a) # Null
    BY <1>0, <1>1, <1>2, <1>3, ListAssumption DEF At
  <2>2. link[Last(a)] = At(t, n + 2) /\ At(t, n + 2) \in Pointer
    <3>1. n + 1 + 1 = n + 2
      OBVIOUS
    <3> QED BY <1>0, <2>1, <3>1 DEF At, Pointer
  <2>3. Len(b) = n + 2
    BY <1>0, <1>1, <1>3
  <2> DEFINE c == Append(a, At(t, n + 2))
  <2>4. /\ c \in Seq(Pointer) /\ Len(c) = n + 2
        /\ \A i \in 1..n + 2 : c[i] = At(t, i)
    BY <1>1, <2>1, <2>2
  <2> HIDE DEF c
  <2>5. c = b
    BY <1>1, <2>3, <2>4, SeqEqual
  <2>6. Onward(link, a) = c
    BY <2>1, <2>2 DEF Onward, c
  <2> QED BY <2>5, <2>6 DEF a, b
<1>4. CASE ~ (n < Len(t))
  <2>1. Len(a) = Len(t) + 1 /\ Len(b) = Len(t) + 1 /\ Last(a) = Null
    BY <1>0, <1>1, <1>2, <1>4 DEF At
  <2>2. a = b
    BY <1>1, <2>1, SeqEqual
  <2>3. Onward(link, a) = a
    BY <2>1 DEF Onward
  <2> QED BY <2>2, <2>3 DEF a, b
<1> QED BY <1>3, <1>4

\* Walk along a chain yields the chain.
LEMMA WalkOfChain ==
  ASSUME NEW link \in [Item -> Pointer], NEW t \in Seq(Item), IsInjective(t),
         \A i \in 1..Len(t) : link[t[i]] = At(t, i + 1)
  PROVE  Walk(link, At(t, 1)) = t
<1> DEFINE N == Cardinality(Item) + 1
           x == At(t, 1)
           Eq(w) == w = [n \in 0..N |->
                           IF n = 0 THEN <<x>>
                           ELSE LET s == w[n - 1]
                                IN  IF Last(s) = Null THEN s
                                    ELSE Append(s, link[Last(s)])]
           met == [n \in 0..N |-> Met(t, n)]
           walk == CHOOSE w : Eq(w)
<1>0. N \in Nat /\ Len(t) \in Nat /\ Len(t) < N
  BY ListsFit
<1>1. Met(t, 0) = <<x>>
  <2>1. /\ Met(t, 0) \in Seq(Pointer) /\ Len(Met(t, 0)) = 1
        /\ Met(t, 0)[1] = x
    <3> DEFINE a == Met(t, 0)
    <3>1. /\ a \in Seq(Pointer)
          /\ Len(a) = IF 0 < Len(t) THEN 0 + 1 ELSE Len(t) + 1
          /\ \A i \in 1..Len(a) : a[i] = At(t, i)
      BY MetItems
    <3> HIDE DEF a
    <3>2. Len(a) = 1
      BY <1>0, <3>1
    <3> QED BY <3>1, <3>2 DEF a
  <2> HIDE DEF x
  <2> QED BY <2>1
<1>2. Eq(met)
  <2>1. ASSUME NEW n \in 0..N, n # 0
        PROVE  met[n] = Onward(link, met[n - 1])
    <3>1. n - 1 \in Nat /\ n - 1 \in 0..N /\ (n - 1) + 1 = n
      BY <1>0, <2>1
    <3> QED BY <3>1, MetStep
  <2>2. \A n \in 0..N : met[n] = IF n = 0 THEN <<x>> ELSE Onward(link, met[n - 1])
    BY <1>1, <2>1
  <2> QED BY <2>2 DEF Onward
<1>3. Eq(walk)
  <2>1. \E w : Eq(w)
    BY <1>2
  <2> HIDE DEF Eq
  <2> QED BY <2>1
<1> HIDE DEF walk
<1>4. \A n \in 0..N : walk[n] = IF n = 0 THEN <<x>> ELSE Onward(link, walk[n - 1])
  BY <1>3 DEF Onward
<1> HIDE DEF Eq
<1>5. \A n \in 0..N : walk[n] = Met(t, n)
  <2> DEFINE B == {n \in 0..N : walk[n] # Met(t, n)}
  <2>1. SUFFICES ASSUME B # {} PROVE FALSE
    OBVIOUS
  <2>2. B \in SUBSET Nat
    BY <1>0
  <2>3. PICK n \in B : \A j \in B : n <= j
    BY <2>1, <2>2, MinIsFirst
  <2>4. n # 0
    BY <1>0, <1>1, <1>4, <2>3
  <2>5. n - 1 \in 0..N /\ n - 1 \notin B /\ n - 1 \in Nat /\ (n - 1) + 1 = n
    BY <1>0, <2>3, <2>4
  <2>6. walk[n] = Onward(link, Met(t, n - 1))
    BY <1>4, <2>3, <2>4, <2>5
  <2>7. walk[n] = Met(t, n)
    BY <2>5, <2>6, MetStep
  <2> QED BY <2>3, <2>7
<1>6. walk[N] = Met(t, N)
  BY <1>0, <1>5
<1>7. Front(Met(t, N)) = t
  <2> DEFINE m == Met(t, N)
  <2>1. /\ m \in Seq(Pointer) /\ Len(m) = Len(t) + 1
        /\ \A i \in 1..Len(t) : m[i] = t[i]
    BY <1>0, MetItems DEF At
  <2> HIDE DEF m
  <2>2. \A i \in 1..Len(t) : m[i] \in Item
    BY <2>1, ElementOfSeq
  <2> DEFINE f == SubSeq(m, 1, Len(t))
  <2>3. f \in Seq(Item) /\ Len(f) = Len(t) /\ \A i \in 1..Len(t) : f[i] = m[i]
    BY <1>0, <2>2, SubSeqProperties
  <2>4. f = t
    <3> HIDE DEF f
    <3> QED BY <2>1, <2>3, SeqEqual
  <2>5. Front(m) = f
    BY <1>0, <2>1 DEF Front
  <2> QED BY <2>4, <2>5 DEF m
<1>8. Walk(link, x) = Front(walk[N])
  BY DEF Walk, walk, Eq
<1> QED BY <1>6, <1>7, <1>8

-----------------------------------------------------------------------------
(***************************************************************************)
(* The sequences that the links of the lists stand for.  No variable of    *)
(* the code holds them: the invariant says that they exist.                *)
(***************************************************************************)
\* The list l holds t.
Chain(l, t) ==
    /\ t \in Seq(Item) /\ IsInjective(t)
    /\ first[l] = At(t, 1) /\ last[l] = At(t, Len(t))
    /\ size[l] = Len(t)
    /\ \A i \in 1..Len(t) : next[t[i]] = At(t, i + 1) /\ prev[t[i]] = At(t, i - 1)

Fields ==
    /\ first \in [List -> Pointer] /\ last \in [List -> Pointer]
    /\ size \in [List -> Nat]
    /\ next \in [Item -> Pointer] /\ prev \in [Item -> Pointer]

\* An item of no list.
Loose(s, item) == \A l \in List : item \notin Range(s[l])

Chains(s) ==
    /\ s \in [List -> Seq(Item)]
    /\ \A l \in List : Chain(l, s[l])
    /\ \A l, m \in List : l # m => Range(s[l]) \cap Range(s[m]) = {}
    /\ \A item \in Item : Loose(s, item) => next[item] = Null /\ prev[item] = Null

ListInv == Fields /\ Chains(Contents)

\* What the lists hold is what Walk finds.
LEMMA ContentsAreChains ==
  ASSUME Fields, NEW s, Chains(s)
  PROVE  Contents = s
<1>1. ASSUME NEW l \in List PROVE Walk(next, first[l]) = s[l]
  <2>1. s[l] \in Seq(Item) /\ Chain(l, s[l])
    BY DEF Chains
  <2>2. Walk(next, At(s[l], 1)) = s[l]
    BY <2>1, WalkOfChain DEF Chain, Fields
  <2> QED BY <2>1, <2>2 DEF Chain
<1> QED BY <1>1 DEF Contents, Chains

\* The lists are empty at the start.
LEMMA InitChains == ListInit => ListInv /\ Contents = [l \in List |-> <<>>]
<1> SUFFICES ASSUME ListInit
             PROVE  ListInv /\ Contents = [l \in List |-> <<>>]
  OBVIOUS
<1> DEFINE s == [l \in List |-> <<>>]
<1>1. Fields
  BY DEF ListInit, Fields, Pointer
<1>2. /\ <<>> \in Seq(Item) /\ IsInjective(<<>>) /\ Len(<<>>) = 0
      /\ Range(<<>>) = {}
  BY DEF IsInjective, Range
<1>3. \A l \in List : Chain(l, s[l])
  BY <1>2 DEF ListInit, Chain, At
<1>4. Chains(s)
  BY <1>2, <1>3 DEF ListInit, Chains
<1> QED BY <1>1, <1>4, ContentsAreChains DEF ListInv

(***************************************************************************)
(* A call changes one list: the links of every other item stay.            *)
(***************************************************************************)
LEMMA OtherListsKept ==
  ASSUME Fields, Fields', NEW s, Chains(s), NEW l \in List, NEW t, Chain(l, t)',
         \A m \in List \ {l} : /\ first'[m] = first[m] /\ last'[m] = last[m]
                               /\ size'[m] = size[m],
         \A m \in List \ {l} : Range(t) \cap Range(s[m]) = {},
         \A item \in Item \ (Range(s[l]) \cup Range(t)) :
             next'[item] = next[item] /\ prev'[item] = prev[item],
         \A item \in Range(s[l]) \ Range(t) : next'[item] = Null /\ prev'[item] = Null
  PROVE  /\ ListInv'
         /\ Contents' = [Contents EXCEPT ![l] = t]
<1> DEFINE r == [s EXCEPT ![l] = t]
<1>0. s \in [List -> Seq(Item)] /\ t \in Seq(Item)
  BY DEF Chains, Chain
<1>1. r \in [List -> Seq(Item)] /\ r[l] = t /\ \A m \in List \ {l} : r[m] = s[m]
  BY <1>0
<1>2. ASSUME NEW m \in List, m # l PROVE Chain(m, s[m])'
  <2>1. Chain(m, s[m]) /\ s[m] \in Seq(Item)
    BY <1>0 DEF Chains
  <2>2. Range(s[m]) \cap Range(s[l]) = {}
    BY <1>2 DEF Chains
  <2>3. ASSUME NEW i \in 1..Len(s[m])
        PROVE  /\ next'[s[m][i]] = next[s[m][i]]
               /\ prev'[s[m][i]] = prev[s[m][i]]
    <3>1. s[m][i] \in Range(s[m]) /\ s[m][i] \in Item
      BY <2>1, RangeIsElements, ElementOfSeq
    <3> QED BY <1>2, <2>2, <3>1
  <2> QED BY <1>2, <2>1, <2>3 DEF Chain, At
<1>3. \A m \in List : Chain(m, r[m])'
  BY <1>1, <1>2
<1>4. \A m, n \in List : m # n => Range(r[m]) \cap Range(r[n]) = {}
  BY <1>1 DEF Chains
<1>5. ASSUME NEW item \in Item, Loose(r, item)
      PROVE  next'[item] = Null /\ prev'[item] = Null
  <2>1. item \notin Range(t) /\ \A m \in List \ {l} : item \notin Range(s[m])
    BY <1>1, <1>5 DEF Loose
  <2>2. CASE item \in Range(s[l])
    BY <2>1, <2>2
  <2>3. CASE item \notin Range(s[l])
    BY <2>1, <2>3 DEF Chains, Loose
  <2> QED BY <2>2, <2>3
<1> HIDE DEF r
<1>6. Chains(r)'
  BY <1>1, <1>3, <1>4, <1>5 DEF Chains, Loose
<1>7. Contents' = r
  <2>1. ASSUME NEW m \in List PROVE Walk(next', first'[m]) = r[m]
    <3>1. r[m] \in Seq(Item) /\ Chain(m, r[m])'
      BY <1>6 DEF Chains
    <3>2. Walk(next', At(r[m], 1)) = r[m]
      BY <3>1, WalkOfChain DEF Chain, Fields
    <3> QED BY <3>1, <3>2 DEF Chain
  <2> QED BY <1>6, <2>1 DEF Contents, Chains
<1>8. Contents = s
  BY ContentsAreChains
<1> QED BY <1>6, <1>7, <1>8 DEF ListInv, r

-----------------------------------------------------------------------------
\* What Set does to a field.
LEMMA SetField ==
  ASSUME NEW D, NEW f \in [D -> Pointer], NEW x, NEW y \in Pointer
  PROVE  /\ Set(f, x, y) \in [D -> Pointer]
         /\ \A z \in D : Set(f, x, y)[z] = IF z = x THEN y ELSE f[z]
  BY DEF Set

\* The places of a list beyond its ends, and within.
LEMMA AtPlaces ==
  ASSUME NEW t \in Seq(Item)
  PROVE  /\ Len(t) \in Nat
         /\ \A i \in Int : At(t, i) \in Pointer
         /\ \A i \in Int : At(t, i) = Null <=> i \notin 1..Len(t)
         /\ \A i \in 1..Len(t) : At(t, i) = t[i] /\ t[i] \in Item /\ t[i] \in Range(t)
<1>1. Len(t) \in Nat /\ \A i \in 1..Len(t) : t[i] \in Item /\ t[i] \in Range(t)
  BY LenProperties, ElementOfSeq, RangeIsElements
<1> QED BY <1>1, ListAssumption DEF At, Pointer

\* A list into which an item is put holds nothing twice, and its places.
LEMMA InsertedPlaces ==
  ASSUME NEW t \in Seq(Item), IsInjective(t), NEW k \in 0..Len(t),
         NEW item \in Item \ Range(t)
  PROVE  LET u == Inserted(t, k, item)
         IN  /\ u \in Seq(Item) /\ IsInjective(u) /\ Len(u) = Len(t) + 1
             /\ Range(u) = Range(t) \cup {item}
             /\ \A i \in Int : At(u, i) = IF i <= k THEN At(t, i)
                                        ELSE IF i = k + 1 THEN item
                                        ELSE At(t, i - 1)
<1> DEFINE u == Inserted(t, k, item)
<1>0. Len(t) \in Nat /\ k \in Nat /\ k <= Len(t)
  BY LenProperties
<1>1. /\ u \in Seq(Item) /\ Len(u) = Len(t) + 1
      /\ \A i \in 1..Len(t) + 1 :
            u[i] = IF i <= k THEN t[i] ELSE IF i = k + 1 THEN item ELSE t[i - 1]
  BY InsertPlaces
<1> HIDE DEF u
<1>2. /\ \A e : e \in Range(t) <=> \E i \in 1..Len(t) : t[i] = e
      /\ \A i, j \in 1..Len(t) : t[i] = t[j] => i = j
      /\ \A e : e \in Range(u) <=> \E i \in 1..Len(u) : u[i] = e
      /\ IsInjective(u) <=> \A i, j \in 1..Len(u) : u[i] = u[j] => i = j
  BY <1>1, RangeIsElements
<1>3. ASSUME NEW i \in 1..Len(u), NEW j \in 1..Len(u), u[i] = u[j] PROVE i = j
  <2> DEFINE Old(n) == IF n <= k THEN n ELSE n - 1
  <2>1. ASSUME NEW n \in 1..Len(u), n # k + 1
        PROVE  Old(n) \in 1..Len(t) /\ u[n] = t[Old(n)] /\ u[n] # item
    <3>1. Old(n) \in 1..Len(t) /\ u[n] = t[Old(n)]
      BY <1>0, <1>1, <2>1
    <3> QED BY <1>2, <3>1
  <2>2. k + 1 \in 1..Len(u) /\ u[k + 1] = item
    BY <1>0, <1>1
  <2>3. CASE i = k + 1 \/ j = k + 1
    BY <1>3, <2>1, <2>2, <2>3
  <2>4. CASE i # k + 1 /\ j # k + 1
    <3>1. Old(i) = Old(j)
      BY <1>2, <1>3, <2>1, <2>4
    <3> QED BY <1>0, <2>4, <3>1
  <2> QED BY <2>3, <2>4
<1>4. ASSUME NEW e \in Range(u) PROVE e \in Range(t) \cup {item}
  <2>1. PICK i \in 1..Len(u) : u[i] = e
    BY <1>2
  <2>2. \/ e = item
        \/ i \in 1..Len(t) /\ t[i] = e
        \/ i - 1 \in 1..Len(t) /\ t[i - 1] = e
    BY <1>0, <1>1, <2>1
  <2> QED BY <1>2, <2>2
<1>5. item \in Range(u)
  <2>1. k + 1 \in 1..Len(u) /\ u[k + 1] = item
    BY <1>0, <1>1
  <2> QED BY <1>2, <2>1
<1>6. ASSUME NEW e \in Range(t) PROVE e \in Range(u)
  <2>1. PICK i \in 1..Len(t) : t[i] = e
    BY <1>2
  <2>2. CASE i <= k
    <3>1. i \in 1..Len(u) /\ u[i] = e
      BY <1>0, <1>1, <2>1, <2>2
    <3> QED BY <1>2, <3>1
  <2>3. CASE i > k
    <3>1. i + 1 \in 1..Len(u) /\ u[i + 1] = t[(i + 1) - 1] /\ (i + 1) - 1 = i
      BY <1>0, <1>1, <2>3
    <3> QED BY <1>2, <2>1, <3>1
  <2> QED BY <1>0, <2>2, <2>3
<1>7. Range(u) = Range(t) \cup {item}
  BY <1>4, <1>5, <1>6
<1>8. \A i \in Int : At(u, i) = IF i <= k THEN At(t, i)
                             ELSE IF i = k + 1 THEN item ELSE At(t, i - 1)
  <2>1. \A i \in Int : i \in 1..Len(u) =>
           u[i] = IF i <= k THEN t[i] ELSE IF i = k + 1 THEN item ELSE t[i - 1]
    BY <1>1
  <2> QED BY <1>0, <1>1, <2>1 DEF At
<1> QED BY <1>1, <1>2, <1>3, <1>7, <1>8 DEF u

\* List_insert puts the item behind the first k.
LEMMA InsertStep ==
  ASSUME Fields, NEW s, Chains(s), NEW l \in List, NEW item \in Item, Loose(s, item),
         NEW k \in 0..Len(s[l]), ListInsert(l, At(s[l], k), item)
  PROVE  /\ ListInv'
         /\ Contents' = [s EXCEPT ![l] = Inserted(s[l], k, item)]
<1> PICK t : t = s[l]
  OBVIOUS
<1> PICK u : u = Inserted(t, k, item)
  OBVIOUS
<1> PICK before : before = At(t, k)
  OBVIOUS
<1> PICK after : after = At(t, k + 1)
  OBVIOUS
<1>0. /\ Chain(l, t) /\ t \in Seq(Item) /\ IsInjective(t)
      /\ item \notin Range(t) /\ next[item] = Null /\ prev[item] = Null
      /\ item # Null /\ Null \in Pointer /\ item \in Pointer
  BY ListAssumption DEF Chains, Chain, Loose, Pointer
<1>1. /\ u \in Seq(Item) /\ IsInjective(u) /\ Len(u) = Len(t) + 1
      /\ Range(u) = Range(t) \cup {item}
      /\ \A i \in Int : At(u, i) = IF i <= k THEN At(t, i)
                                 ELSE IF i = k + 1 THEN item ELSE At(t, i - 1)
  BY <1>0, InsertedPlaces
<1>2. /\ Len(t) \in Nat /\ k \in Nat /\ k <= Len(t)
      /\ \A i \in Int : At(t, i) \in Pointer
      /\ \A i \in Int : At(t, i) = Null <=> i \notin 1..Len(t)
      /\ \A i \in 1..Len(t) : At(t, i) = t[i] /\ t[i] \in Item /\ t[i] \in Range(t)
      /\ \A i, j \in 1..Len(t) : t[i] = t[j] => i = j
  BY <1>0, AtPlaces, RangeIsElements
<1>3. /\ \A i \in 1..Len(t) : next[t[i]] = At(t, i + 1) /\ prev[t[i]] = At(t, i - 1)
      /\ first[l] = At(t, 1) /\ last[l] = At(t, Len(t)) /\ size[l] = Len(t)
  BY <1>0 DEF Chain
<1>4. (IF before = Null THEN first[l] ELSE next[before]) = after
  BY <1>2, <1>3
<1>5. /\ Link(l, before, item, after) /\ MoveEnds(l, before, item, after)
      /\ size' = [size EXCEPT ![l] = @ + 1]
  BY <1>0, <1>4 DEF ListInsert, Linked
<1>6. before \in Pointer /\ after \in Pointer /\ before # item /\ after # item
  <2>1. \A i \in Int : At(t, i) # item
    BY <1>0, <1>2
  <2> QED BY <1>2, <2>1
<1>7. /\ next' \in [Item -> Pointer]
      /\ \A z \in Item : next'[z] = IF z = item THEN after
                                  ELSE IF z = before THEN item ELSE next[z]
  <2>1. /\ Set(next, before, item) \in [Item -> Pointer]
        /\ \A z \in Item : Set(next, before, item)[z] = IF z = before THEN item ELSE next[z]
    <3>1. next \in [Item -> Pointer]
      BY DEF Fields
    <3> QED BY <1>0, <3>1, SetField
  <2>2. next' = Set(Set(next, before, item), item, after)
    BY <1>5 DEF Link
  <2> QED BY <1>6, <2>1, <2>2, SetField
<1>8. /\ prev' \in [Item -> Pointer]
      /\ \A z \in Item : prev'[z] = IF z = item THEN before
                                  ELSE IF z = after THEN item ELSE prev[z]
  <2>1. /\ Set(prev, after, item) \in [Item -> Pointer]
        /\ \A z \in Item : Set(prev, after, item)[z] = IF z = after THEN item ELSE prev[z]
    <3>1. prev \in [Item -> Pointer]
      BY DEF Fields
    <3> QED BY <1>0, <3>1, SetField
  <2>2. prev' = Set(Set(prev, after, item), item, before)
    BY <1>5 DEF Link
  <2> QED BY <1>6, <2>1, <2>2, SetField
<1>9. /\ first' \in [List -> Pointer] /\ last' \in [List -> Pointer]
      /\ size' \in [List -> Nat]
      /\ \A m \in List \ {l} : /\ first'[m] = first[m] /\ last'[m] = last[m]
                              /\ size'[m] = size[m]
      /\ first'[l] = IF before = Null THEN item ELSE first[l]
      /\ last'[l] = IF after = Null THEN item ELSE last[l]
      /\ size'[l] = size[l] + 1
  <2>1. /\ first' \in [List -> Pointer]
        /\ \A m \in List \ {l} : first'[m] = first[m]
        /\ first'[l] = IF before = Null THEN item ELSE first[l]
    <3>1. first' = IF before = Null THEN Set(first, l, item) ELSE first
      BY <1>5 DEF MoveEnds
    <3>2. /\ Set(first, l, item) \in [List -> Pointer]
          /\ \A m \in List : Set(first, l, item)[m] = IF m = l THEN item ELSE first[m]
      <4>1. first \in [List -> Pointer]
        BY DEF Fields
      <4> QED BY <1>0, <4>1, SetField
    <3> QED BY <3>1, <3>2 DEF Fields
  <2>2. /\ last' \in [List -> Pointer]
        /\ \A m \in List \ {l} : last'[m] = last[m]
        /\ last'[l] = IF after = Null THEN item ELSE last[l]
    <3>1. last' = IF after = Null THEN Set(last, l, item) ELSE last
      BY <1>5 DEF MoveEnds
    <3>2. /\ Set(last, l, item) \in [List -> Pointer]
          /\ \A m \in List : Set(last, l, item)[m] = IF m = l THEN item ELSE last[m]
      <4>1. last \in [List -> Pointer]
        BY DEF Fields
      <4> QED BY <1>0, <4>1, SetField
    <3> QED BY <3>1, <3>2 DEF Fields
  <2>3. /\ size' \in [List -> Nat] /\ size'[l] = size[l] + 1
        /\ \A m \in List \ {l} : size'[m] = size[m]
    BY <1>5 DEF Fields
  <2> QED BY <2>1, <2>2, <2>3
<1>10. ASSUME NEW i \in 1..Len(u)
       PROVE  next'[u[i]] = At(u, i + 1) /\ prev'[u[i]] = At(u, i - 1)
  <2>1. u[i] = At(u, i) /\ u[i] \in Item
    BY <1>1, AtPlaces
  <2>2. /\ i + 1 \in Int /\ i - 1 \in Int /\ i \in Int /\ (i + 1) - 1 = i
    OBVIOUS
  <2>3. CASE i = k + 1
    <3>1. u[i] = item /\ At(u, i + 1) = At(t, k + 1) /\ At(u, i - 1) = At(t, k)
      BY <1>1, <1>2, <2>1, <2>2, <2>3
    <3> QED BY <1>7, <1>8, <2>1, <3>1
  <2>4. CASE i <= k
    <3>1. i \in 1..Len(t) /\ u[i] = t[i] /\ u[i] # item /\ At(u, i - 1) = At(t, i - 1)
      BY <1>0, <1>1, <1>2, <2>1, <2>2, <2>4
    <3>2. next[u[i]] = At(t, i + 1) /\ prev[u[i]] = At(t, i - 1)
      BY <1>3, <3>1
    <3>3. u[i] # after
      BY <1>2, <2>1, <2>4, <3>1, ListAssumption
    <3>4. prev'[u[i]] = At(u, i - 1)
      BY <1>8, <2>1, <3>1, <3>2, <3>3
    <3>5. CASE i = k
      <4>1. u[i] = before /\ At(u, i + 1) = item
        BY <1>1, <1>2, <2>2, <3>1, <3>5
      <4> QED BY <1>7, <2>1, <3>1, <3>4, <4>1
    <3>6. CASE i # k
      <4>1. At(u, i + 1) = At(t, i + 1)
        BY <1>1, <1>2, <2>2, <2>4, <3>6
      <4>2. u[i] # before
        <5>1. u[i] = t[i] /\ t[i] # Null /\ (k \in 1..Len(t) => t[k] # t[i])
          BY <1>2, <3>1, <3>6, ListAssumption
        <5>2. before = IF k \in 1..Len(t) THEN t[k] ELSE Null
          BY DEF At
        <5> QED BY <5>1, <5>2
      <4> QED BY <1>7, <2>1, <3>1, <3>2, <3>4, <4>1, <4>2
    <3> QED BY <3>5, <3>6
  <2>5. CASE i > k + 1
    <3> PICK j : j = i - 1
      OBVIOUS
    <3>1. /\ j \in 1..Len(t) /\ u[i] = t[j] /\ u[i] # item
          /\ At(u, i + 1) = At(t, j + 1)
      BY <1>0, <1>1, <1>2, <2>1, <2>2, <2>5
    <3>2. next[u[i]] = At(t, j + 1) /\ prev[u[i]] = At(t, j - 1)
      BY <1>3, <3>1
    <3>3. u[i] # before
      BY <1>2, <2>1, <2>5, <3>1, ListAssumption
    <3>4. next'[u[i]] = At(u, i + 1)
      BY <1>7, <2>1, <3>1, <3>2, <3>3
    <3>5. CASE j = k + 1
      <4>1. u[i] = after /\ At(u, i - 1) = item
        BY <1>1, <1>2, <2>2, <3>1, <3>5
      <4> QED BY <1>8, <2>1, <3>1, <3>4, <4>1
    <3>6. CASE j # k + 1
      <4>1. At(u, i - 1) = At(t, j - 1)
        BY <1>1, <1>2, <2>2, <2>5, <3>6
      <4>2. u[i] # after
        BY <1>2, <2>5, <3>1, <3>6, ListAssumption
      <4> QED BY <1>8, <2>1, <3>1, <3>2, <3>4, <4>1, <4>2
    <3> QED BY <3>5, <3>6
  <2> QED BY <1>2, <2>3, <2>4, <2>5
<1>11. first'[l] = At(u, 1) /\ last'[l] = At(u, Len(u)) /\ size'[l] = Len(u)
  <2>1. before = Null <=> k = 0
    BY <1>2
  <2>2. after = Null <=> k = Len(t)
    BY <1>2
  <2>3. first'[l] = At(u, 1)
    BY <1>1, <1>2, <1>3, <1>9, <2>1
  <2>4. last'[l] = At(u, Len(u))
    BY <1>1, <1>2, <1>3, <1>9, <2>2
  <2> QED BY <1>1, <1>3, <1>9, <2>3, <2>4
<1>12. Chain(l, u)'
  BY <1>1, <1>10, <1>11 DEF Chain
<1>13. Fields'
  BY <1>7, <1>8, <1>9 DEF Fields
<1>14. \A m \in List \ {l} : Range(u) \cap Range(s[m]) = {}
  BY <1>0, <1>1 DEF Chains, Loose
<1>15. ASSUME NEW z \in Item \ (Range(s[l]) \cup Range(u))
       PROVE  next'[z] = next[z] /\ prev'[z] = prev[z]
  <2>1. z # item /\ z # before /\ z # after
    BY <1>1, <1>2, ListAssumption
  <2> QED BY <1>7, <1>8, <2>1
<1>16. \A z \in Range(s[l]) \ Range(u) : next'[z] = Null /\ prev'[z] = Null
  BY <1>1
<1>17. ListInv' /\ Contents' = [Contents EXCEPT ![l] = u]
  BY <1>9, <1>12, <1>13, <1>14, <1>15, <1>16, OtherListsKept
<1> QED BY <1>17, ContentsAreChains

\* A list from which an item is taken holds the others, and its places.
LEMMA RemovedPlaces ==
  ASSUME NEW t \in Seq(Item), IsInjective(t), NEW k \in 1..Len(t)
  PROVE  LET u == RemoveAt(t, k)
         IN  /\ u \in Seq(Item) /\ IsInjective(u) /\ Len(u) = Len(t) - 1
             /\ Range(u) = Range(t) \ {t[k]}
             /\ \A i \in Int : At(u, i) = IF i < k THEN At(t, i) ELSE At(t, i + 1)
<1> DEFINE u == RemoveAt(t, k)
           Old(n) == IF n < k THEN n ELSE n + 1
<1>0. Len(t) \in Nat /\ k \in Nat /\ 1 <= k /\ k <= Len(t)
  BY LenProperties
<1>1. /\ u \in Seq(Item) /\ Len(u) = Len(t) - 1
      /\ \A i \in 1..Len(t) - 1 : u[i] = IF i <= k - 1 THEN t[i] ELSE t[i + 1]
  BY RemoveAtPlaces
<1> HIDE DEF u
<1>2. /\ \A e : e \in Range(t) <=> \E i \in 1..Len(t) : t[i] = e
      /\ \A i, j \in 1..Len(t) : t[i] = t[j] => i = j
      /\ \A e : e \in Range(u) <=> \E i \in 1..Len(u) : u[i] = e
      /\ IsInjective(u) <=> \A i, j \in 1..Len(u) : u[i] = u[j] => i = j
  BY <1>1, RangeIsElements
<1>3. ASSUME NEW n \in 1..Len(u)
      PROVE  Old(n) \in 1..Len(t) /\ Old(n) # k /\ u[n] = t[Old(n)]
  BY <1>0, <1>1
<1>4. ASSUME NEW i \in 1..Len(u), NEW j \in 1..Len(u), u[i] = u[j] PROVE i = j
  <2>1. Old(i) = Old(j)
    BY <1>2, <1>3, <1>4
  <2> QED BY <1>0, <2>1
<1>5. ASSUME NEW e \in Range(u) PROVE e \in Range(t) /\ e # t[k]
  <2>1. PICK n \in 1..Len(u) : u[n] = e
    BY <1>2
  <2> QED BY <1>2, <1>3, <2>1
<1>6. ASSUME NEW e \in Range(t), e # t[k] PROVE e \in Range(u)
  <2>1. PICK i \in 1..Len(t) : t[i] = e
    BY <1>2
  <2> PICK n : n = IF i < k THEN i ELSE i - 1
    OBVIOUS
  <2>2. n \in 1..Len(u) /\ Old(n) = i
    BY <1>0, <1>1, <1>6, <2>1
  <2> QED BY <1>2, <1>3, <2>1, <2>2
<1>7. Range(u) = Range(t) \ {t[k]}
  BY <1>5, <1>6
<1>8. \A i \in Int : At(u, i) = IF i < k THEN At(t, i) ELSE At(t, i + 1)
  <2>1. \A i \in Int : i \in 1..Len(u) => u[i] = IF i < k THEN t[i] ELSE t[i + 1]
    BY <1>0, <1>1
  <2> QED BY <1>0, <1>1, <2>1 DEF At
<1> QED BY <1>1, <1>2, <1>4, <1>7, <1>8 DEF u

\* List_detach takes out the k-th item.
LEMMA DetachStep ==
  ASSUME Fields, NEW s, Chains(s), NEW l \in List, NEW k \in 1..Len(s[l]),
         ListDetach(l, s[l][k])
  PROVE  /\ ListInv'
         /\ Contents' = [s EXCEPT ![l] = RemoveAt(s[l], k)]
<1> PICK t : t = s[l]
  OBVIOUS
<1> PICK u : u = RemoveAt(t, k)
  OBVIOUS
<1> PICK item : item = t[k]
  OBVIOUS
<1> PICK before : before = At(t, k - 1)
  OBVIOUS
<1> PICK after : after = At(t, k + 1)
  OBVIOUS
<1>0. Chain(l, t) /\ t \in Seq(Item) /\ IsInjective(t) /\ Null \in Pointer
  BY DEF Chains, Chain, Pointer
<1>1. /\ u \in Seq(Item) /\ IsInjective(u) /\ Len(u) = Len(t) - 1
      /\ Range(u) = Range(t) \ {item}
      /\ \A i \in Int : At(u, i) = IF i < k THEN At(t, i) ELSE At(t, i + 1)
  BY <1>0, RemovedPlaces
<1>2. /\ Len(t) \in Nat /\ k \in Nat /\ 1 <= k /\ k <= Len(t)
      /\ \A i \in Int : At(t, i) \in Pointer
      /\ \A i \in Int : At(t, i) = Null <=> i \notin 1..Len(t)
      /\ \A i \in 1..Len(t) : At(t, i) = t[i] /\ t[i] \in Item /\ t[i] \in Range(t)
      /\ \A i, j \in 1..Len(t) : t[i] = t[j] => i = j
  BY <1>0, AtPlaces, RangeIsElements
<1>3. /\ \A i \in 1..Len(t) : next[t[i]] = At(t, i + 1) /\ prev[t[i]] = At(t, i - 1)
      /\ first[l] = At(t, 1) /\ last[l] = At(t, Len(t)) /\ size[l] = Len(t)
  BY <1>0 DEF Chain
<1>4. /\ next[item] = after /\ prev[item] = before
      /\ item \in Item /\ item \in Range(t) /\ item # Null
      /\ before \in Pointer /\ after \in Pointer /\ before # item /\ after # item
  <2>1. next[item] = after /\ prev[item] = before
    BY <1>2, <1>3
  <2>2. item \in Item /\ item \in Range(t) /\ item # Null
    BY <1>2, ListAssumption
  <2>3. ASSUME NEW i \in Int, i # k PROVE At(t, i) # item
    BY <1>2, <2>2, <2>3
  <2> QED BY <1>2, <2>1, <2>2, <2>3
<1>5. /\ next' \in [Item -> Pointer]
      /\ \A z \in Item : next'[z] = IF z = item THEN Null
                                  ELSE IF z = before THEN after ELSE next[z]
  <2>1. /\ Set(next, before, after) \in [Item -> Pointer]
        /\ \A z \in Item : Set(next, before, after)[z] = IF z = before THEN after ELSE next[z]
    <3>1. next \in [Item -> Pointer]
      BY DEF Fields
    <3> QED BY <1>4, <3>1, SetField
  <2>2. next' = Set(Set(next, before, after), item, Null)
    BY <1>4 DEF ListDetach, Unlink
  <2> QED BY <1>0, <2>1, <2>2, SetField
<1>6. /\ prev' \in [Item -> Pointer]
      /\ \A z \in Item : prev'[z] = IF z = item THEN Null
                                  ELSE IF z = after THEN before ELSE prev[z]
  <2>1. /\ Set(prev, after, before) \in [Item -> Pointer]
        /\ \A z \in Item : Set(prev, after, before)[z] = IF z = after THEN before ELSE prev[z]
    <3>1. prev \in [Item -> Pointer]
      BY DEF Fields
    <3> QED BY <1>4, <3>1, SetField
  <2>2. prev' = Set(Set(prev, after, before), item, Null)
    BY <1>4 DEF ListDetach, Unlink
  <2> QED BY <1>0, <2>1, <2>2, SetField
<1>7. /\ first' \in [List -> Pointer] /\ last' \in [List -> Pointer]
      /\ \A m \in List \ {l} : first'[m] = first[m] /\ last'[m] = last[m]
      /\ first'[l] = IF item = first[l] THEN after ELSE first[l]
      /\ last'[l] = IF item = last[l] THEN before ELSE last[l]
  <2>1. /\ first' \in [List -> Pointer]
        /\ \A m \in List \ {l} : first'[m] = first[m]
        /\ first'[l] = IF item = first[l] THEN after ELSE first[l]
    <3>1. first' = IF item = first[l] THEN Set(first, l, after) ELSE first
      BY <1>4 DEF ListDetach
    <3>2. /\ Set(first, l, after) \in [List -> Pointer]
          /\ \A m \in List : Set(first, l, after)[m] = IF m = l THEN after ELSE first[m]
      <4>1. first \in [List -> Pointer]
        BY DEF Fields
      <4> QED BY <1>4, <4>1, SetField
    <3> QED BY <3>1, <3>2 DEF Fields
  <2>2. /\ last' \in [List -> Pointer]
        /\ \A m \in List \ {l} : last'[m] = last[m]
        /\ last'[l] = IF item = last[l] THEN before ELSE last[l]
    <3>1. last' = IF item = last[l] THEN Set(last, l, before) ELSE last
      BY <1>4 DEF ListDetach
    <3>2. /\ Set(last, l, before) \in [List -> Pointer]
          /\ \A m \in List : Set(last, l, before)[m] = IF m = l THEN before ELSE last[m]
      <4>1. last \in [List -> Pointer]
        BY DEF Fields
      <4> QED BY <1>4, <4>1, SetField
    <3> QED BY <3>1, <3>2 DEF Fields
  <2> QED BY <2>1, <2>2
<1>8. /\ size' \in [List -> Nat] /\ size'[l] = size[l] - 1
      /\ \A m \in List \ {l} : size'[m] = size[m]
  BY <1>2, <1>3 DEF ListDetach, Fields
<1>9. ASSUME NEW i \in 1..Len(u)
      PROVE  next'[u[i]] = At(u, i + 1) /\ prev'[u[i]] = At(u, i - 1)
  <2>1. u[i] = At(u, i) /\ u[i] \in Item /\ u[i] \in Range(u) /\ u[i] # item
    BY <1>1, AtPlaces
  <2>2. i + 1 \in Int /\ i - 1 \in Int /\ i \in Int /\ (i - 1) + 1 = i
    OBVIOUS
  <2>3. CASE i < k
    <3>1. /\ i \in 1..Len(t) /\ u[i] = t[i] /\ At(u, i - 1) = At(t, i - 1)
      <4>1. i \in 1..Len(t) /\ i - 1 < k
        BY <1>1, <1>2, <2>3
      <4> QED BY <1>1, <1>2, <2>1, <2>2, <2>3, <4>1
    <3>2. next[u[i]] = At(t, i + 1) /\ prev[u[i]] = At(t, i - 1)
      BY <1>3, <3>1
    <3>3. u[i] # after
      BY <1>2, <2>1, <2>3, <3>1, ListAssumption
    <3>4. prev'[u[i]] = At(u, i - 1)
      BY <1>6, <2>1, <3>1, <3>2, <3>3
    <3>5. CASE i = k - 1
      <4>1. u[i] = before /\ At(u, i + 1) = after
        BY <1>1, <1>2, <2>2, <3>1, <3>5
      <4> QED BY <1>5, <2>1, <3>4, <4>1
    <3>6. CASE i # k - 1
      <4>1. At(u, i + 1) = At(t, i + 1)
        BY <1>1, <1>2, <2>2, <2>3, <3>6
      <4>2. u[i] # before
        <5>1. /\ u[i] = t[i] /\ t[i] # Null
              /\ k - 1 \in 1..Len(t) => t[k - 1] # t[i]
          BY <1>2, <3>1, <3>6, ListAssumption
        <5>2. before = IF k - 1 \in 1..Len(t) THEN t[k - 1] ELSE Null
          BY DEF At
        <5> QED BY <5>1, <5>2
      <4> QED BY <1>5, <2>1, <3>2, <3>4, <4>1, <4>2
    <3> QED BY <3>5, <3>6
  <2>4. CASE i >= k
    <3> PICK j : j = i + 1
      OBVIOUS
    <3>1. j \in 1..Len(t) /\ u[i] = t[j] /\ At(u, i + 1) = At(t, j + 1)
      <4>1. j \in 1..Len(t) /\ j \in Int /\ ~ (j < k) /\ ~ (i < k)
        <5>1. Len(u) = Len(t) - 1
          BY <1>1
        <5>2. Len(t) \in Nat /\ k \in Nat /\ 1 <= k
          BY <1>2
        <5> QED BY <2>4, <5>1, <5>2
      <4>2. At(u, i) = At(t, j) /\ At(u, i + 1) = At(t, j + 1)
        <5>1. i + 1 \in Int /\ i \in Int /\ j = i + 1
          BY <2>2
        <5>2. /\ At(u, i) = IF i < k THEN At(t, i) ELSE At(t, i + 1)
              /\ At(u, j) = IF j < k THEN At(t, j) ELSE At(t, j + 1)
          BY <1>1, <4>1, <5>1
        <5> QED BY <4>1, <5>1, <5>2
      <4> QED BY <1>2, <2>1, <4>1, <4>2
    <3>2. next[u[i]] = At(t, j + 1) /\ prev[u[i]] = At(t, j - 1)
      BY <1>3, <3>1
    <3>3. u[i] # before
      <4>1. j # k - 1 /\ k - 1 \in Int
        BY <1>2, <2>4
      <4>2. u[i] = t[j] /\ t[j] # Null /\ (k - 1 \in 1..Len(t) => t[k - 1] # t[j])
        <5>1. t[j] \in Item /\ Null \notin Item
          BY <1>2, <3>1, ListAssumption
        <5>2. k - 1 \in 1..Len(t) /\ t[k - 1] = t[j] => k - 1 = j
          BY <1>2, <3>1
        <5> QED BY <3>1, <4>1, <5>1, <5>2
      <4>3. before = IF k - 1 \in 1..Len(t) THEN t[k - 1] ELSE Null
        BY DEF At
      <4> QED BY <4>2, <4>3
    <3>4. next'[u[i]] = At(u, i + 1)
      BY <1>5, <2>1, <3>1, <3>2, <3>3
    <3>5. CASE i = k
      <4>1. u[i] = after /\ At(u, i - 1) = before
        <5>1. k - 1 \in Int /\ k - 1 < k /\ j = k + 1
          BY <1>2, <3>5
        <5>2. At(u, k - 1) = At(t, k - 1)
          BY <1>1, <5>1
        <5>3. At(t, k + 1) = t[k + 1]
          BY <1>2, <3>1, <5>1
        <5> QED BY <3>1, <3>5, <5>1, <5>2, <5>3
      <4> QED BY <1>6, <2>1, <3>4, <4>1
    <3>6. CASE i # k
      <4>1. At(u, i - 1) = At(t, j - 1)
        BY <1>1, <1>2, <2>2, <2>4, <3>6
      <4>2. u[i] # after
        BY <1>2, <2>4, <3>1, <3>6, ListAssumption
      <4> QED BY <1>6, <2>1, <3>2, <3>4, <4>1, <4>2
    <3> QED BY <3>5, <3>6
  <2> QED BY <1>2, <2>3, <2>4
<1>10. first'[l] = At(u, 1) /\ last'[l] = At(u, Len(u)) /\ size'[l] = Len(u)
  <2>1. item = first[l] <=> k = 1
    BY <1>2, <1>3
  <2>2. item = last[l] <=> k = Len(t)
    BY <1>2, <1>3
  <2>3. first'[l] = At(u, 1)
    BY <1>1, <1>2, <1>3, <1>7, <2>1
  <2>4. last'[l] = At(u, Len(u))
    <3>1. CASE k = Len(t)
      <4>1. At(u, k - 1) = At(t, k - 1)
        BY <1>1, <1>2
      <4> QED BY <1>1, <1>7, <2>2, <3>1, <4>1
    <3>2. CASE k # Len(t)
      <4>1. Len(u) \in Int /\ ~ (Len(u) < k) /\ Len(u) + 1 = Len(t)
        BY <1>1, <1>2, <3>2
      <4> QED BY <1>1, <1>3, <1>7, <2>2, <3>2, <4>1
    <3> QED BY <3>1, <3>2
  <2> QED BY <1>1, <1>3, <1>8, <2>3, <2>4
<1>11. Chain(l, u)'
  BY <1>1, <1>9, <1>10 DEF Chain
<1>12. Fields'
  BY <1>5, <1>6, <1>7, <1>8 DEF Fields
<1>13. \A m \in List \ {l} : Range(u) \cap Range(s[m]) = {}
  BY <1>1 DEF Chains
<1>14. ASSUME NEW z \in Item \ (Range(s[l]) \cup Range(u))
       PROVE  next'[z] = next[z] /\ prev'[z] = prev[z]
  <2>1. z # item /\ z # before /\ z # after
    BY <1>2, <1>4, ListAssumption
  <2> QED BY <1>5, <1>6, <2>1
<1>15. \A z \in Range(s[l]) \ Range(u) : next'[z] = Null /\ prev'[z] = Null
  BY <1>1, <1>4, <1>5, <1>6
<1>16. ListInv' /\ Contents' = [Contents EXCEPT ![l] = u]
  BY <1>7, <1>8, <1>11, <1>12, <1>13, <1>14, <1>15, OtherListsKept
<1> QED BY <1>16, ContentsAreChains

-----------------------------------------------------------------------------
\* An item is found on a list at one of its places.
LEMMA FoundAt ==
  ASSUME Fields, NEW s, Chains(s), NEW l \in List, NEW item
  PROVE  ListFind(l, item) <=> \E k \in 1..Len(s[l]) : s[l][k] = item
<1>1. Contents = s /\ s[l] \in Seq(Item)
  BY ContentsAreChains DEF Chains
<1> QED BY <1>1, ToSetIsRange, RangeIsElements DEF ListFind

\* An insertion that List_insert refuses changes nothing, and the item is on
\* a list; any other puts an item of no list right behind before.
LEMMA InsertImplements ==
  ASSUME ListInv, NEW l \in List, NEW item \in Item,
         NEW before \in ToSet(Contents[l]) \cup {Null},
         Insertable(item), Insert(l, before, item)
  PROVE  ListInv' /\ (Lists!Insert(l, before, item) \/ Lists!Refuse(l, before, item))
<1> PICK s : s = Contents
  OBVIOUS
<1>0. Fields /\ Chains(s) /\ s[l] \in Seq(Item) /\ ListInsert(l, before, item)
  BY DEF ListInv, Chains, Insert
<1>1. CASE Linked(item)
  <2>1. UNCHANGED listVars /\ call' = <<"insert", l, before, item, Null>>
    BY <1>0, <1>1 DEF ListInsert, Insert
  <2>2. Contents' = Contents
    BY <2>1 DEF Contents, listVars
  <2>3. ListInv'
    BY <2>1, <2>2 DEF ListInv, Fields, Chains, Chain, listVars
  <2>4. item \in Lists!OnAList
    <3>1. \A m \in List : s[m] \in Seq(Item)
      BY <1>0 DEF Chains
    <3>2. ~ Loose(s, item)
      BY <1>0, <1>1 DEF Chains, Linked
    <3>3. PICK m \in List : \E i \in 1..Len(s[m]) : s[m][i] = item
      BY <3>1, <3>2, RangeIsElements DEF Loose
    <3> QED BY <3>3 DEF Lists!OnAList
  <2> QED BY <2>1, <2>2, <2>3, <2>4 DEF Lists!Refuse
<1>2. CASE ~ Linked(item)
  <2>1. \A m \in List : ~ ListFind(m, item)
    BY <1>2 DEF Insertable
  <2>2. Loose(s, item) /\ item \notin Lists!OnAList
    <3>1. ASSUME NEW m \in List PROVE ~ \E i \in 1..Len(s[m]) : s[m][i] = item
      BY <1>0, <2>1, FoundAt
    <3>2. \A m \in List : s[m] \in Seq(Item)
      BY <1>0 DEF Chains
    <3> QED BY <3>1, <3>2, RangeIsElements DEF Loose, Lists!OnAList
  <2>3. PICK k \in 0..Len(s[l]) : before = At(s[l], k)
    <3>1. CASE before = Null
      BY <1>0, <3>1, LenProperties DEF At
    <3>2. CASE before # Null
      <4>1. \E k \in 1..Len(s[l]) : s[l][k] = before
        BY <1>0, <3>2, ToSetIsRange, RangeIsElements
      <4> QED BY <1>0, <4>1, LenProperties DEF At
    <3> QED BY <3>1, <3>2
  <2>4. ListInv' /\ Contents' = [Contents EXCEPT ![l] = Inserted(Contents[l], k, item)]
    BY <1>0, <2>2, <2>3, InsertStep
  <2>5. before = IF k = 0 THEN Null ELSE Contents[l][k]
    <3>1. Len(s[l]) \in Nat
      BY <1>0, LenProperties
    <3> QED BY <2>3, <3>1 DEF At
  <2>6. call' = <<"insert", l, before, item, item>>
    BY <1>2 DEF Insert
  <2>7. Lists!Insert(l, before, item)
    BY <2>2, <2>4, <2>5, <2>6 DEF Lists!Insert, Inserted
  <2> QED BY <2>4, <2>7
<1> QED BY <1>1, <1>2

\* A detach takes out the item that it is given, wherever it is.
LEMMA DetachImplements ==
  ASSUME ListInv, NEW l \in List, NEW item, ListFind(l, item), ListDetach(l, item)
  PROVE  /\ ListInv'
         /\ \E k \in 1..Len(Contents[l]) : Contents[l][k] = item /\ Lists!Remove(l, k)
<1> PICK s : s = Contents
  OBVIOUS
<1>1. Fields /\ Chains(s)
  BY DEF ListInv
<1>2. PICK k \in 1..Len(s[l]) : s[l][k] = item
  BY <1>1, FoundAt
<1>3. ListInv' /\ Contents' = [Contents EXCEPT ![l] = RemoveAt(Contents[l], k)]
  BY <1>1, <1>2, DetachStep
<1>4. Lists!Remove(l, k)
  BY <1>3 DEF Lists!Remove, RemoveAt
<1> QED BY <1>2, <1>3, <1>4

\* List_pop takes the first item, and none of an empty list.
LEMMA PopImplements ==
  ASSUME ListInv, NEW l \in List, Pop(l)
  PROVE  ListInv' /\ (Lists!Pop(l) \/ Lists!PopEmpty(l))
<1> PICK t : t = Contents[l]
  OBVIOUS
<1>0. /\ Fields /\ t \in Seq(Item) /\ Len(t) \in Nat /\ first[l] = At(t, 1)
      /\ \A i \in 1..Len(t) : t[i] \in Item
      /\ \A i, j \in 1..Len(t) : t[i] = t[j] => i = j
  BY RangeIsElements, LenProperties, ElementOfSeq DEF ListInv, Chains, Chain
<1>1. ListPop(l) /\ call' = <<"pop", l, first[l]>>
  BY DEF Pop
<1>2. CASE first[l] = Null
  <2>1. UNCHANGED listVars
    BY <1>1, <1>2 DEF ListPop
  <2>2. Contents' = Contents
    BY <2>1 DEF Contents, listVars
  <2>3. ListInv'
    BY <2>1, <2>2 DEF ListInv, Fields, Chains, Chain, listVars
  <2>4. Contents[l] = <<>>
    <3>1. Len(t) = 0
      BY <1>0, <1>2, ListAssumption DEF At
    <3> QED BY <1>0, <3>1
  <2> QED BY <1>1, <1>2, <2>2, <2>3, <2>4 DEF Lists!PopEmpty
<1>3. CASE first[l] # Null
  <2>1. 1 \in 1..Len(t) /\ first[l] = t[1] /\ Contents[l] # <<>>
    BY <1>0, <1>3 DEF At
  <2>2. ListFind(l, first[l]) /\ ListDetach(l, first[l])
    <3>1. ListInv => Fields /\ Chains(Contents)
      BY DEF ListInv
    <3> QED BY <1>1, <1>3, <2>1, <3>1, FoundAt DEF ListPop
  <2>3. PICK k \in 1..Len(t) : t[k] = first[l] /\ ListInv' /\ Lists!Remove(l, k)
    BY <2>2, DetachImplements
  <2>4. k = 1
    BY <1>0, <2>1, <2>3
  <2> QED BY <1>1, <2>1, <2>3, <2>4 DEF Lists!Pop
<1> QED BY <1>2, <1>3

\* Every call keeps the chains, and does to the sequences what it promises.
LEMMA ListStep ==
  ListInv /\ [ListNext]_<<listVars, call>>
      => ListInv' /\ [Lists!Next]_<<Contents, call>>
<1> SUFFICES ASSUME ListInv, [ListNext]_<<listVars, call>>
             PROVE  ListInv' /\ [Lists!Next]_<<Contents, call>>
  OBVIOUS
<1>1. ASSUME NEW l \in List, NEW item \in Item,
             NEW before \in ToSet(Contents[l]) \cup {Null},
             Insertable(item), Insert(l, before, item)
      PROVE  ListInv' /\ Lists!Next
  <2>1. before \in Item \cup {Null}
    <3>1. Contents[l] \in Seq(Item)
      BY DEF ListInv, Chains
    <3>2. ToSet(Contents[l]) \subseteq Item
      BY <3>1, ToSetIsRange, RangeIsElements, ElementOfSeq
    <3> QED BY <3>2
  <2> QED BY <1>1, <2>1, InsertImplements DEF Lists!Next
<1>2. ASSUME NEW l \in List, NEW item \in Item, ListFind(l, item), Detach(l, item)
      PROVE  ListInv' /\ Lists!Next
  <2>1. Lists!Detach(l, item) /\ ListInv'
    BY <1>2, DetachImplements DEF Detach, Lists!Detach
  <2> QED BY <2>1 DEF Lists!Next
<1>3. ASSUME NEW l \in List, Pop(l)
      PROVE  ListInv' /\ Lists!Next
  BY <1>3, PopImplements DEF Lists!Next
<1>4. CASE UNCHANGED <<listVars, call>>
  <2>1. Contents' = Contents
    BY <1>4 DEF Contents, listVars
  <2> QED BY <1>4, <2>1 DEF ListInv, Fields, Chains, Chain, listVars
<1> QED BY <1>1, <1>2, <1>3, <1>4 DEF ListNext

\* The lists are chains, however the calls follow each other.
THEOREM ListInvariant == ListSpec => []ListInv
<1>1. ListInv /\ [ListNext]_<<listVars, call>> => ListInv'
  BY ListStep
<1> QED BY <1>1, InitChains, PTL DEF ListSpec

\* The chain of prev is the chain of next backwards, size is its length, and
\* an item on no list has no links.
LEMMA ChainsAgreeHere == ListInv => ChainsAgree
<1> SUFFICES ASSUME ListInv PROVE ChainsAgree
  OBVIOUS
<1> PICK s : s = Contents
  OBVIOUS
<1>0. Fields /\ Chains(s)
  BY DEF ListInv
<1>1. ASSUME NEW l \in List
      PROVE  Walk(prev, last[l]) = Reverse(Contents[l]) /\ size[l] = Len(Contents[l])
  <2> PICK t : t = s[l]
    OBVIOUS
  <2>1. /\ t \in Seq(Item) /\ last[l] = At(t, Len(t)) /\ size[l] = Len(t)
        /\ IsInjective(t) /\ \A i \in 1..Len(t) : prev[t[i]] = At(t, i - 1)
    BY <1>0 DEF Chains, Chain
  <2>2. /\ Len(t) \in Nat /\ \A i \in 1..Len(t) : t[i] \in Item
        /\ \A i, j \in 1..Len(t) : t[i] = t[j] => i = j
    BY <2>1, RangeIsElements, LenProperties, ElementOfSeq
  <2> PICK r : r = Reverse(t)
    OBVIOUS
  <2>3. /\ r \in Seq(Item) /\ Len(r) = Len(t)
        /\ \A i \in 1..Len(t) : r[i] = t[Len(t) - i + 1]
    <3>1. \A i \in 1..Len(t) : Len(t) - i + 1 \in 1..Len(t)
      BY <2>2
    <3> QED BY <2>2, <3>1 DEF Reverse
  <2>4. IsInjective(r)
    <3>1. ASSUME NEW i \in 1..Len(r), NEW j \in 1..Len(r), r[i] = r[j] PROVE i = j
      <4>1. /\ Len(t) - i + 1 \in 1..Len(t) /\ Len(t) - j + 1 \in 1..Len(t)
            /\ t[Len(t) - i + 1] = t[Len(t) - j + 1]
        BY <2>2, <2>3, <3>1
      <4>2. Len(t) - i + 1 = Len(t) - j + 1
        BY <2>2, <4>1
      <4> QED BY <2>2, <4>2
    <3> QED BY <2>3, <3>1, RangeIsElements
  <2>5. ASSUME NEW i \in 1..Len(r) PROVE prev[r[i]] = At(r, i + 1)
    <3> PICK j : j = Len(t) - i + 1
      OBVIOUS
    <3>1. j \in 1..Len(t) /\ r[i] = t[j] /\ prev[r[i]] = At(t, j - 1)
      <4>1. i \in 1..Len(t) /\ j \in 1..Len(t)
        BY <2>2, <2>3
      <4> QED BY <2>1, <2>3, <4>1
    <3>2. CASE i + 1 \in 1..Len(t)
      <4>1. r[i + 1] = t[j - 1] /\ j - 1 \in 1..Len(t)
        BY <2>2, <2>3, <3>2
      <4> QED BY <2>3, <3>1, <3>2, <4>1 DEF At
    <3>3. CASE i + 1 \notin 1..Len(t)
      <4>1. j - 1 \notin 1..Len(t)
        BY <2>2, <2>3, <3>3
      <4> QED BY <2>3, <3>1, <3>3, <4>1 DEF At
    <3> QED BY <3>2, <3>3
  <2>6. last[l] = At(r, 1)
    BY <2>1, <2>2, <2>3 DEF At
  <2>7. Walk(prev, At(r, 1)) = r
    BY <1>0, <2>3, <2>4, <2>5, WalkOfChain DEF Fields
  <2> QED BY <2>1, <2>6, <2>7
<1>2. ASSUME NEW item \in Item, \A l \in List : ~ ListFind(l, item)
      PROVE  next[item] = Null /\ prev[item] = Null
  <2>1. \A l \in List : s[l] \in Seq(Item) /\ ~ \E k \in 1..Len(s[l]) : s[l][k] = item
    BY <1>0, <1>2, FoundAt DEF Chains
  <2>2. Loose(s, item)
    BY <2>1, RangeIsElements DEF Loose
  <2> QED BY <1>0, <2>2 DEF Chains
<1> QED BY <1>1, <1>2 DEF ChainsAgree

\* The two directions of every list agree, always.
THEOREM ChainsAgreeAlways == ListSpec => []ChainsAgree
BY ListInvariant, ChainsAgreeHere, PTL

\* An item has a link exactly when it shares its list with another one.
LEMMA NeighboursTellHere == ListInv => NeighboursTell
<1> SUFFICES ASSUME ListInv, NEW l \in List, NEW item \in ToSet(Contents[l])
             PROVE  (next[item] # Null \/ prev[item] # Null) <=> Len(Contents[l]) > 1
  BY DEF NeighboursTell, Linked
<1> PICK t : t = Contents[l]
  OBVIOUS
<1>1. /\ t \in Seq(Item)
      /\ \A i \in 1..Len(t) : next[t[i]] = At(t, i + 1) /\ prev[t[i]] = At(t, i - 1)
  BY DEF ListInv, Chains, Chain
<1>2. PICK k \in 1..Len(t) : t[k] = item
  BY <1>1, ToSetIsRange, RangeIsElements
<1>3. /\ Len(t) \in Nat /\ k + 1 \in Int /\ k - 1 \in Int
      /\ next[item] = Null <=> k + 1 \notin 1..Len(t)
      /\ prev[item] = Null <=> k - 1 \notin 1..Len(t)
  <2>1. Len(t) \in Nat /\ k \in Int /\ k + 1 \in Int /\ k - 1 \in Int
    BY <1>1, AtPlaces
  <2>2. next[item] = At(t, k + 1) /\ prev[item] = At(t, k - 1)
    BY <1>1, <1>2
  <2>3. \A i \in Int : At(t, i) = Null <=> i \notin 1..Len(t)
    BY <1>1, AtPlaces
  <2> QED BY <2>1, <2>2, <2>3
<1> QED BY <1>3

\* The guard of List_insert sees the neighbours of an item, and nothing else.
THEOREM NeighboursAlwaysTell == ListSpec => []NeighboursTell
BY ListInvariant, NeighboursTellHere, PTL

\* Every call of List_insert, List_detach and List_pop does to the sequences
\* of ItemLists what it is called for, at the place it is called with, and
\* returns what it did it to.
THEOREM ListsImplementItemLists == ListSpec => ImplementsItemLists
<1>1. ListInit => Lists!Init
  BY InitChains DEF Lists!Init, ListInit
<1>2. ListInv /\ [ListNext]_<<listVars, call>> => [Lists!Next]_<<Contents, call>>
  BY ListStep
<1> QED BY <1>1, <1>2, ListInvariant, PTL DEF ListSpec, ImplementsItemLists, Lists!Spec

=============================================================================
