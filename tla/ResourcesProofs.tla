-------------------------- MODULE ResourcesProofs --------------------------
(***************************************************************************)
(* Theorems about resources, descriptors and queues, for any numbers of    *)
(* processes, resources, queues, descriptors and queue users: descriptors  *)
(* pin their resource, the second half of dmq_open finds what the first    *)
(* left, and queue users, as long as they can be followed, belong to an    *)
(* open descriptor and come back to their pool.                            *)
(***************************************************************************)
EXTENDS Resources, ListLemmas

\* The free list of a smaller pool.
LEMMA ListStart ==
  ASSUME NEW S, NEW s \in Seq(S), IsInjective(s), NEW n \in 1..Len(s)
  PROVE  SubSeq(s, 1, n) \in Seq(S) /\ IsInjective(SubSeq(s, 1, n))
<1> DEFINE t == SubSeq(s, 1, n)
<1>1. /\ t \in Seq(S) /\ Len(t) = n
      /\ \A i \in 1..n : t[i] = s[i]
  BY SubSeqProperties
<1>2. \A i, j \in 1..n : s[i] = s[j] => i = j
  BY RangeIsElements
<1> HIDE DEF t
<1>3. IsInjective(t)
  BY <1>1, <1>2, RangeIsElements
<1> QED BY <1>1, <1>3 DEF t

-----------------------------------------------------------------------------
(***************************************************************************)
(* The parts of the inductive invariant.                                   *)
(***************************************************************************)
Shape ==
    /\ resources \subseteq ResBlock
    /\ DOMAIN id = ResBlock
    /\ type \in [ResBlock -> {0, PlainType, QueueType}]
    /\ value \in [ResBlock -> QueueBlock \cup {NoBlock}]
    /\ holders \in [ResBlock -> SUBSET Handle]
    /\ resFree \in Seq(ResBlock) /\ queueFree \in Seq(QueueBlock)
    /\ users \in [QueueBlock -> [Section -> SUBSET Handle]]
    /\ DOMAIN descriptors = Proc /\ DOMAIN pc = Proc
    /\ lastFd \in [Proc -> 0..MaxFd + 1]
    /\ \A p \in Proc : /\ DOMAIN descriptors[p] \subseteq 0..lastFd[p] - 1
                       /\ descriptors[p] \in [DOMAIN descriptors[p] -> ResBlock]

\* The two directions of the relation between descriptors and resources.
HoldersAgree ==
    \A b \in ResBlock, p \in Proc, f \in Fd :
        <<p, f>> \in holders[b] <=> IsOpen(p, f) /\ descriptors[p][f] = b

\* A descriptor points to a resource on the list.
Pinned == \A b \in ResBlock : holders[b] # {} => b \in resources

\* ResourceList_byId has at most one resource to find.
OneById == \A b, c \in resources : id[b] = id[c] => b = c

\* Between the system calls of dmq_open.
Opening ==
    \A p \in Proc : pc[p].at = "openQueue" =>
        /\ pc[p].fd \in Fd /\ IsOpen(p, pc[p].fd)
        /\ id[descriptors[p][pc[p].fd]] = pc[p].id
        /\ type[descriptors[p][pc[p].fd]] = QueueType

\* Before the user mode part of dmq_close: the queue it has read is still that
\* of the descriptor.
Detaching ==
    \A p \in Proc : pc[p].at = "detach" =>
        /\ pc[p].fd \in Fd /\ IsOpen(p, pc[p].fd)
        /\ pc[p].queue \in QueueBlock
        /\ value[descriptors[p][pc[p].fd]] = pc[p].queue

\* Between the user mode part of dmq_close and its system call.
Closing ==
    \A p \in Proc : pc[p].at = "close" =>
        /\ pc[p].fd \in Fd /\ IsOpen(p, pc[p].fd)
        /\ \A q \in QueueBlock, s \in Section : <<p, pc[p].fd>> \notin users[q][s]

\* A queue user has its descriptor, of a resource that is a queue: only such
\* a descriptor is closed by dmq_close.
UsersOpen ==
    \A q \in QueueBlock, s \in Section, p \in Proc, f \in Fd :
        <<p, f>> \in users[q][s] =>
            /\ IsOpen(p, f)
            /\ value[descriptors[p][f]] = q
            /\ type[descriptors[p][f]] = QueueType

ResInv ==
    /\ Shape /\ HoldersAgree /\ Pinned /\ OneById /\ ResourcesKept
    /\ Opening /\ Detaching /\ Closing /\ UsersOpen

-----------------------------------------------------------------------------
\* The users are what a step makes of them, or lost sight of.
LEMMA FollowedUsers ==
  ASSUME NEW p, NEW u \in [QueueBlock -> [Section -> SUBSET Handle]],
         NEW out, NEW lost, Follow(p, u, out, lost)
  PROVE  /\ users' \in [QueueBlock -> [Section -> SUBSET Handle]]
         /\ \A c \in QueueBlock, s \in Section : users'[c][s] \subseteq u[c][s]
         /\ usersOut' \subseteq out
         /\ \/ users' = u /\ usersOut' = out
            \/ usersOut' = {} /\ \A c \in QueueBlock, s \in Section : users'[c][s] = {}
<1>1. CASE astray'
  <2>1. users' = [c \in QueueBlock |-> NoUsers] /\ usersOut' = {}
    BY <1>1 DEF Follow
  <2>2. /\ NoUsers \in [Section -> SUBSET Handle]
        /\ \A s \in Section : NoUsers[s] = {}
    BY DEF NoUsers
  <2> QED BY <2>1, <2>2
<1>2. CASE ~ astray'
  BY <1>2 DEF Follow
<1> QED BY <1>1, <1>2

-----------------------------------------------------------------------------
\* Every open descriptor is one of Fd, of a resource on the list.
LEMMA OpenDescriptor ==
  ASSUME Shape, HoldersAgree, Pinned, NEW p \in Proc, NEW f, IsOpen(p, f)
  PROVE  /\ f \in Fd /\ f < lastFd[p]
         /\ descriptors[p][f] \in resources
         /\ <<p, f>> \in holders[descriptors[p][f]]
<1>1. f \in Fd /\ f < lastFd[p] /\ descriptors[p][f] \in ResBlock
  BY ResourceAssumption DEF Shape, IsOpen, Fd
<1>2. <<p, f>> \in holders[descriptors[p][f]]
  BY <1>1 DEF HoldersAgree
<1> QED BY <1>1, <1>2 DEF Pinned

\* What internal_openResource does to the descriptors.
LEMMA AddDescriptorEffect ==
  ASSUME ResInv, NEW p \in Proc, NEW b \in ResBlock, lastFd[p] <= MaxFd,
         AddDescriptor(p, b)
  PROVE  /\ lastFd[p] \in Fd /\ ~ IsOpen(p, lastFd[p])
         /\ \A r \in Proc, f \in Fd :
               IsOpen(r, f)' <=> IsOpen(r, f) \/ (r = p /\ f = lastFd[p])
         /\ \A r \in Proc, f \in Fd :
               IsOpen(r, f) => descriptors'[r][f] = descriptors[r][f]
         /\ descriptors'[p][lastFd[p]] = b
         /\ holders' = [holders EXCEPT ![b] = @ \cup {<<p, lastFd[p]>>}]
         /\ holders' \in [ResBlock -> SUBSET Handle]
         /\ DOMAIN descriptors' = Proc
         /\ lastFd' \in [Proc -> 0..MaxFd + 1]
         /\ \A r \in Proc : /\ DOMAIN descriptors'[r] \subseteq 0..lastFd'[r] - 1
                            /\ descriptors'[r] \in [DOMAIN descriptors'[r] -> ResBlock]
         /\ HoldersAgree'
<1> DEFINE n == lastFd[p]
<1>0. Shape /\ HoldersAgree
  BY DEF ResInv
<1>1. /\ descriptors' = [descriptors EXCEPT ![p] =
             [f \in DOMAIN @ \cup {n} |-> IF f = n THEN b ELSE @[f]]]
      /\ lastFd' = [lastFd EXCEPT ![p] = @ + 1]
      /\ holders' = [holders EXCEPT ![b] = @ \cup {<<p, n>>}]
  BY DEF AddDescriptor, NewFd
<1>2. n \in Fd /\ n \in Nat /\ n \notin DOMAIN descriptors[p]
  <2>1. n \in 0..MaxFd + 1 /\ DOMAIN descriptors[p] \subseteq 0..n - 1
    BY <1>0 DEF Shape
  <2> QED BY <2>1, ResourceAssumption DEF Fd
<1>3. /\ DOMAIN descriptors'[p] = DOMAIN descriptors[p] \cup {n}
      /\ \A f \in DOMAIN descriptors[p] : descriptors'[p][f] = descriptors[p][f]
      /\ descriptors'[p][n] = b
  BY <1>0, <1>1, <1>2 DEF Shape
<1>4. descriptors'[p] \in [DOMAIN descriptors[p] \cup {n} -> ResBlock]
  <2>1. descriptors'[p] = [f \in DOMAIN descriptors[p] \cup {n} |->
            IF f = n THEN b ELSE descriptors[p][f]]
    BY <1>0, <1>1 DEF Shape
  <2> QED BY <1>0, <2>1 DEF Shape
<1>5. /\ DOMAIN descriptors' = Proc
      /\ \A r \in Proc : r # p => descriptors'[r] = descriptors[r]
  BY <1>0, <1>1 DEF Shape
<1>6. /\ lastFd' \in [Proc -> 0..MaxFd + 1]
      /\ lastFd'[p] = n + 1
      /\ \A r \in Proc : r # p => lastFd'[r] = lastFd[r]
  BY <1>0, <1>1, <1>2, ResourceAssumption DEF Shape, Fd
<1>7. <<p, n>> \in Handle
  BY <1>2 DEF Handle
<1>8. holders' \in [ResBlock -> SUBSET Handle]
  BY <1>0, <1>1, <1>7 DEF Shape
<1>9. \A r \in Proc : /\ DOMAIN descriptors'[r] \subseteq 0..lastFd'[r] - 1
                      /\ descriptors'[r] \in [DOMAIN descriptors'[r] -> ResBlock]
  <2> SUFFICES ASSUME NEW r \in Proc
               PROVE  /\ DOMAIN descriptors'[r] \subseteq 0..lastFd'[r] - 1
                      /\ descriptors'[r] \in [DOMAIN descriptors'[r] -> ResBlock]
    OBVIOUS
  <2>1. CASE r # p
    BY <1>0, <1>5, <1>6, <2>1 DEF Shape
  <2>2. CASE r = p
    <3>1. DOMAIN descriptors[p] \subseteq 0..n - 1
      BY <1>0 DEF Shape
    <3> QED BY <1>2, <1>3, <1>4, <1>6, <2>2, <3>1
  <2> QED BY <2>1, <2>2
<1>10. \A r \in Proc, f \in Fd :
          IsOpen(r, f)' <=> IsOpen(r, f) \/ (r = p /\ f = n)
  BY <1>3, <1>5 DEF IsOpen
<1>11. \A r \in Proc, f \in Fd :
          IsOpen(r, f) => descriptors'[r][f] = descriptors[r][f]
  BY <1>3, <1>5 DEF IsOpen
<1>12. HoldersAgree'
  <2> SUFFICES ASSUME NEW c \in ResBlock, NEW r \in Proc, NEW f \in Fd
               PROVE  <<r, f>> \in holders'[c] <=> IsOpen(r, f)' /\ descriptors'[r][f] = c
    BY DEF HoldersAgree
  <2>1. <<r, f>> \in holders[c] <=> IsOpen(r, f) /\ descriptors[r][f] = c
    BY <1>0 DEF HoldersAgree
  <2>2. <<r, f>> \in holders'[c] <=> <<r, f>> \in holders[c] \/ (c = b /\ r = p /\ f = n)
    BY <1>0, <1>1 DEF Shape
  <2>3. ~ IsOpen(p, n)
    BY <1>2 DEF IsOpen
  <2> QED BY <1>3, <1>10, <1>11, <2>1, <2>2, <2>3
<1> QED BY <1>1, <1>2, <1>3, <1>5, <1>6, <1>8, <1>9, <1>10, <1>11, <1>12 DEF IsOpen

\* What internal_closeResource does to the descriptors.
LEMMA RemoveDescriptorEffect ==
  ASSUME ResInv, NEW p \in Proc, NEW n \in Fd, IsOpen(p, n), RemoveDescriptor(p, n)
  PROVE  /\ \A r \in Proc, f \in Fd :
               IsOpen(r, f)' <=> IsOpen(r, f) /\ ~ (r = p /\ f = n)
         /\ \A r \in Proc, f \in Fd :
               IsOpen(r, f)' => descriptors'[r][f] = descriptors[r][f]
         /\ holders' \in [ResBlock -> SUBSET Handle]
         /\ \A c \in ResBlock : holders'[c] \subseteq holders[c]
         /\ DOMAIN descriptors' = Proc
         /\ lastFd' \in [Proc -> 0..MaxFd + 1]
         /\ \A r \in Proc : /\ DOMAIN descriptors'[r] \subseteq 0..lastFd'[r] - 1
                            /\ descriptors'[r] \in [DOMAIN descriptors'[r] -> ResBlock]
         /\ HoldersAgree'
<1> DEFINE b == descriptors[p][n]
<1>0. Shape /\ HoldersAgree /\ b \in ResBlock
  BY DEF ResInv, Shape, IsOpen
<1>1. /\ descriptors' = [descriptors EXCEPT ![p] = [f \in DOMAIN @ \ {n} |-> @[f]]]
      /\ holders' = [holders EXCEPT ![b] = @ \ {<<p, n>>}]
      /\ lastFd' = lastFd
  BY DEF RemoveDescriptor
<1>2. /\ DOMAIN descriptors' = Proc
      /\ \A r \in Proc : r # p => descriptors'[r] = descriptors[r]
      /\ descriptors'[p] = [f \in DOMAIN descriptors[p] \ {n} |-> descriptors[p][f]]
  BY <1>0, <1>1 DEF Shape
<1>3. \A r \in Proc, f \in Fd : IsOpen(r, f)' <=> IsOpen(r, f) /\ ~ (r = p /\ f = n)
  BY <1>2 DEF IsOpen
<1>4. \A r \in Proc, f \in Fd :
          IsOpen(r, f)' => descriptors'[r][f] = descriptors[r][f]
  BY <1>2 DEF IsOpen
<1>5. \A r \in Proc : /\ DOMAIN descriptors'[r] \subseteq 0..lastFd'[r] - 1
                      /\ descriptors'[r] \in [DOMAIN descriptors'[r] -> ResBlock]
  <2> SUFFICES ASSUME NEW r \in Proc
               PROVE  /\ DOMAIN descriptors'[r] \subseteq 0..lastFd'[r] - 1
                      /\ descriptors'[r] \in [DOMAIN descriptors'[r] -> ResBlock]
    OBVIOUS
  <2>1. CASE r # p
    BY <1>0, <1>1, <1>2, <2>1 DEF Shape
  <2>2. CASE r = p
    BY <1>0, <1>1, <1>2, <2>2 DEF Shape
  <2> QED BY <2>1, <2>2
<1>6. /\ holders' \in [ResBlock -> SUBSET Handle]
      /\ \A c \in ResBlock : holders'[c] \subseteq holders[c]
  BY <1>0, <1>1 DEF Shape
<1>7. HoldersAgree'
  <2> SUFFICES ASSUME NEW c \in ResBlock, NEW r \in Proc, NEW f \in Fd
               PROVE  <<r, f>> \in holders'[c] <=> IsOpen(r, f)' /\ descriptors'[r][f] = c
    BY DEF HoldersAgree
  <2>1. <<r, f>> \in holders[c] <=> IsOpen(r, f) /\ descriptors[r][f] = c
    BY <1>0 DEF HoldersAgree
  <2>2. <<r, f>> \in holders'[c] <=> <<r, f>> \in holders[c] /\ ~ (c = b /\ r = p /\ f = n)
    BY <1>0, <1>1 DEF Shape
  <2> QED BY <1>3, <1>4, <2>1, <2>2
<1>8. lastFd' \in [Proc -> 0..MaxFd + 1]
  BY <1>0, <1>1 DEF Shape
<1> QED BY <1>2, <1>3, <1>4, <1>5, <1>6, <1>7, <1>8

-----------------------------------------------------------------------------
\* A new resource, on the list with an id that no other has.
LEMMA AddResourceEffect ==
  ASSUME ResInv, NEW i, NEW t \in {PlainType, QueueType}, AddResource(i, t)
  PROVE  /\ Head(resFree) \in ResBlock \ resources
         /\ holders[Head(resFree)] = {}
         /\ resources' = resources \cup {Head(resFree)}
         /\ DOMAIN id' = ResBlock /\ type' \in [ResBlock -> {0, PlainType, QueueType}]
         /\ value' = value
         /\ \A c \in resources : id'[c] = id[c] /\ type'[c] = type[c]
         /\ id'[Head(resFree)] = i /\ type'[Head(resFree)] = t
         /\ resFree' \in Seq(ResBlock) /\ IsInjective(resFree')
         /\ resources' \cup ToSet(resFree') = ResBlock
         /\ resources' \cap ToSet(resFree') = {}
         /\ OneById'
<1> DEFINE new == Head(resFree)
<1>0. Shape /\ Pinned /\ OneById /\ ResourcesKept
  BY DEF ResInv
<1>1. /\ ById(i) = {} /\ resFree # <<>>
      /\ resources' = resources \cup {new}
      /\ id' = [id EXCEPT ![new] = i]
      /\ type' = [type EXCEPT ![new] = t]
      /\ resFree' = Tail(resFree)
      /\ value' = value
  BY DEF AddResource
<1>2. /\ resFree \in Seq(ResBlock) /\ IsInjective(resFree)
      /\ resources \cup Range(resFree) = ResBlock
      /\ resources \cap Range(resFree) = {}
  BY <1>0, ToSetIsRange DEF Shape, ResourcesKept
<1>3. /\ new \in Range(resFree)
      /\ Tail(resFree) \in Seq(ResBlock)
      /\ Range(Tail(resFree)) = Range(resFree) \ {new}
      /\ IsInjective(Tail(resFree))
  BY <1>1, <1>2, DetachHead
<1>4. new \in ResBlock \ resources /\ holders[new] = {}
  BY <1>0, <1>2, <1>3 DEF Pinned
<1>5. /\ DOMAIN id' = ResBlock /\ type' \in [ResBlock -> {0, PlainType, QueueType}]
      /\ \A c \in resources : id'[c] = id[c] /\ type'[c] = type[c]
      /\ id'[new] = i /\ type'[new] = t
  BY <1>0, <1>1, <1>4 DEF Shape
<1>6. OneById'
  <2>1. \A c \in resources : id[c] # i
    BY <1>1 DEF ById
  <2> QED BY <1>0, <1>1, <1>5, <2>1 DEF OneById
<1>7. ToSet(resFree') = Range(resFree) \ {new}
  BY <1>1, <1>3, ToSetIsRange
<1> QED BY <1>1, <1>2, <1>3, <1>4, <1>5, <1>6, <1>7

\* A descriptor that is open stays so, with its resource.
OpenStays(r, f) ==
    /\ IsOpen(r, f)' /\ descriptors'[r][f] = descriptors[r][f]
    /\ id'[descriptors[r][f]] = id[descriptors[r][f]]
    /\ type'[descriptors[r][f]] = type[descriptors[r][f]]
    /\ value'[descriptors[r][f]] = value[descriptors[r][f]]

\* internal_openResource, by itself and in dmq_open.
LEMMA OpenResourceEffect ==
  ASSUME ResInv, NEW p \in Proc, NEW i, NEW t \in {PlainType, QueueType},
         NEW create \in BOOLEAN, NEW exclusive \in BOOLEAN,
         OpenResource(p, i, t, create, exclusive),
         UNCHANGED <<queueFree, users>>, DOMAIN pc' = Proc
  PROVE  /\ Shape' /\ HoldersAgree' /\ Pinned' /\ OneById' /\ ResourcesKept'
         /\ \A r \in Proc, f \in Fd : IsOpen(r, f) => OpenStays(r, f)
         /\ lastFd[p] \in Fd /\ lastFd[p] \in DOMAIN descriptors'[p]
         /\ id'[descriptors'[p][lastFd[p]]] = i
         /\ type'[descriptors'[p][lastFd[p]]] = t
<1>0. /\ Shape /\ HoldersAgree /\ Pinned /\ OneById /\ ResourcesKept
      /\ lastFd[p] <= MaxFd
  BY DEF ResInv, OpenResource
<1>1. CASE OpenExisting(p, i, t, exclusive)
  <2>1. PICK b \in ById(i) : /\ type[b] = t
                             /\ AddDescriptor(p, b)
                             /\ UNCHANGED <<resources, id, type, value, resFree>>
    BY <1>1 DEF OpenExisting
  <2>2. b \in resources /\ b \in ResBlock /\ id[b] = i
    BY <1>0, <2>1 DEF ById, Shape
  <2>3. /\ lastFd[p] \in Fd /\ lastFd[p] \in DOMAIN descriptors'[p]
        /\ \A r \in Proc, f \in Fd :
              IsOpen(r, f) => IsOpen(r, f)' /\ descriptors'[r][f] = descriptors[r][f]
        /\ descriptors'[p][lastFd[p]] = b
        /\ holders' = [holders EXCEPT ![b] = @ \cup {<<p, lastFd[p]>>}]
        /\ holders' \in [ResBlock -> SUBSET Handle]
        /\ DOMAIN descriptors' = Proc
        /\ lastFd' \in [Proc -> 0..MaxFd + 1]
        /\ \A r \in Proc : /\ DOMAIN descriptors'[r] \subseteq 0..lastFd'[r] - 1
                           /\ descriptors'[r] \in [DOMAIN descriptors'[r] -> ResBlock]
        /\ HoldersAgree'
    BY <1>0, <2>1, <2>2, AddDescriptorEffect DEF IsOpen
  <2>4. Shape'
    BY <1>0, <2>1, <2>3 DEF Shape
  <2>5. Pinned'
    BY <1>0, <2>1, <2>2, <2>3 DEF Pinned, Shape
  <2>6. OneById' /\ ResourcesKept'
    BY <1>0, <2>1 DEF OneById, ResourcesKept
  <2>7. \A r \in Proc, f \in Fd : IsOpen(r, f) => OpenStays(r, f)
    BY <2>1, <2>3 DEF OpenStays
  <2> QED BY <2>1, <2>2, <2>3, <2>4, <2>5, <2>6, <2>7
<1>2. CASE OpenNew(p, i, t)
  <2> DEFINE new == Head(resFree)
  <2>1. AddResource(i, t) /\ AddDescriptor(p, new)
    BY <1>2 DEF OpenNew
  <2>2. /\ new \in ResBlock \ resources
        /\ resources' = resources \cup {new}
        /\ DOMAIN id' = ResBlock /\ type' \in [ResBlock -> {0, PlainType, QueueType}]
        /\ value' = value
        /\ \A c \in resources : id'[c] = id[c] /\ type'[c] = type[c]
        /\ id'[new] = i /\ type'[new] = t
        /\ resFree' \in Seq(ResBlock) /\ IsInjective(resFree')
        /\ resources' \cup ToSet(resFree') = ResBlock
        /\ resources' \cap ToSet(resFree') = {}
        /\ OneById'
    BY <2>1, AddResourceEffect
  <2>3. /\ lastFd[p] \in Fd /\ lastFd[p] \in DOMAIN descriptors'[p]
        /\ \A r \in Proc, f \in Fd :
              IsOpen(r, f) => IsOpen(r, f)' /\ descriptors'[r][f] = descriptors[r][f]
        /\ descriptors'[p][lastFd[p]] = new
        /\ holders' = [holders EXCEPT ![new] = @ \cup {<<p, lastFd[p]>>}]
        /\ holders' \in [ResBlock -> SUBSET Handle]
        /\ DOMAIN descriptors' = Proc
        /\ lastFd' \in [Proc -> 0..MaxFd + 1]
        /\ \A r \in Proc : /\ DOMAIN descriptors'[r] \subseteq 0..lastFd'[r] - 1
                           /\ descriptors'[r] \in [DOMAIN descriptors'[r] -> ResBlock]
        /\ HoldersAgree'
    BY <1>0, <2>1, <2>2, AddDescriptorEffect DEF IsOpen
  <2>4. Shape'
    BY <1>0, <2>2, <2>3 DEF Shape
  <2>5. Pinned'
    BY <1>0, <2>2, <2>3 DEF Pinned, Shape
  <2>6. ResourcesKept'
    BY <1>0, <2>2 DEF ResourcesKept
  <2>7. \A r \in Proc, f \in Fd : IsOpen(r, f) => OpenStays(r, f)
    <3> SUFFICES ASSUME NEW r \in Proc, NEW f \in Fd, IsOpen(r, f) PROVE OpenStays(r, f)
      OBVIOUS
    <3>1. descriptors[r][f] \in resources
      BY <1>0, OpenDescriptor
    <3> QED BY <2>2, <2>3, <3>1 DEF OpenStays
  <2> QED BY <2>2, <2>3, <2>4, <2>5, <2>6, <2>7
<1> QED BY <1>1, <1>2 DEF OpenResource

\* What holds of the calls under way still does when open descriptors stay
\* and the queues are left alone.
LEMMA OpenStaysKeeps ==
  ASSUME ResInv, users' = users,
         \A r \in Proc, f \in Fd : IsOpen(r, f) => OpenStays(r, f)
  PROVE  /\ UsersOpen'
         /\ \A r \in Proc : pc'[r] = pc[r] /\ pc[r].at = "openQueue" =>
               /\ pc[r].fd \in Fd /\ pc[r].fd \in DOMAIN descriptors'[r]
               /\ id'[descriptors'[r][pc[r].fd]] = pc[r].id
               /\ type'[descriptors'[r][pc[r].fd]] = QueueType
         /\ \A r \in Proc : pc'[r] = pc[r] /\ pc[r].at = "detach" =>
               /\ pc[r].fd \in Fd /\ pc[r].fd \in DOMAIN descriptors'[r]
               /\ pc[r].queue \in QueueBlock
               /\ value'[descriptors'[r][pc[r].fd]] = pc[r].queue
         /\ \A r \in Proc : pc'[r] = pc[r] /\ pc[r].at = "close" =>
               /\ pc[r].fd \in Fd /\ pc[r].fd \in DOMAIN descriptors'[r]
               /\ \A q \in QueueBlock, s \in Section :
                     <<r, pc[r].fd>> \notin users'[q][s]
<1>1. UsersOpen /\ Opening /\ Detaching /\ Closing
  BY DEF ResInv
<1>2. UsersOpen'
  BY <1>1 DEF UsersOpen, OpenStays
<1>3. ASSUME NEW r \in Proc, pc[r].at = "openQueue"
      PROVE  /\ pc[r].fd \in Fd /\ pc[r].fd \in DOMAIN descriptors'[r]
             /\ id'[descriptors'[r][pc[r].fd]] = pc[r].id
             /\ type'[descriptors'[r][pc[r].fd]] = QueueType
  BY <1>1, <1>3 DEF Opening, OpenStays, IsOpen
<1>4. ASSUME NEW r \in Proc, pc[r].at = "close"
      PROVE  /\ pc[r].fd \in Fd /\ pc[r].fd \in DOMAIN descriptors'[r]
             /\ \A q \in QueueBlock, s \in Section :
                   <<r, pc[r].fd>> \notin users'[q][s]
  BY <1>1, <1>4 DEF Closing, OpenStays, IsOpen
<1>5. ASSUME NEW r \in Proc, pc[r].at = "detach"
      PROVE  /\ pc[r].fd \in Fd /\ pc[r].fd \in DOMAIN descriptors'[r]
             /\ pc[r].queue \in QueueBlock
             /\ value'[descriptors'[r][pc[r].fd]] = pc[r].queue
  BY <1>1, <1>5 DEF Detaching, OpenStays, IsOpen
<1> QED BY <1>2, <1>3, <1>4, <1>5

\* disastrOS_openResource keeps the invariant.
LEMMA OpenPlainStep ==
  ASSUME ResInv, NEW p \in Proc, NEW i, NEW create \in BOOLEAN,
         NEW exclusive \in BOOLEAN, OpenPlain(p, i, create, exclusive)
  PROVE  ResInv'
<1>1. /\ OpenResource(p, i, PlainType, create, exclusive)
      /\ UNCHANGED <<queueFree, users, pc>>
  BY DEF OpenPlain, queueVars, userVars
<1>2. DOMAIN pc' = Proc
  BY <1>1 DEF ResInv, Shape
<1>3. /\ Shape' /\ HoldersAgree' /\ Pinned' /\ OneById' /\ ResourcesKept'
      /\ \A r \in Proc, f \in Fd : IsOpen(r, f) => OpenStays(r, f)
  BY <1>1, <1>2, OpenResourceEffect
<1>4. UsersOpen' /\ Opening' /\ Detaching' /\ Closing'
  BY <1>1, <1>3, OpenStaysKeeps DEF Opening, Detaching, Closing, IsOpen
<1> QED BY <1>3, <1>4 DEF ResInv

\* The first system call of dmq_open keeps the invariant.
LEMMA DmqOpenStep ==
  ASSUME ResInv, NEW p \in Proc, NEW i, NEW create \in BOOLEAN,
         NEW exclusive \in BOOLEAN, NEW mode, DmqOpen(p, i, create, exclusive, mode)
  PROVE  ResInv'
<1> DEFINE label == [at |-> "openQueue", id |-> i, fd |-> lastFd[p], mode |-> mode]
<1>1. /\ OpenResource(p, i, QueueType, create, exclusive)
      /\ pc' = [pc EXCEPT ![p] = label]
      /\ UNCHANGED <<queueFree, users>>
  BY DEF DmqOpen, queueVars, userVars, Goto, NewFd
<1>2. /\ DOMAIN pc' = Proc /\ pc'[p] = label
      /\ \A r \in Proc : r # p => pc'[r] = pc[r]
  BY <1>1 DEF ResInv, Shape
<1> HIDE DEF label
<1>3. /\ Shape' /\ HoldersAgree' /\ Pinned' /\ OneById' /\ ResourcesKept'
      /\ \A r \in Proc, f \in Fd : IsOpen(r, f) => OpenStays(r, f)
      /\ lastFd[p] \in Fd /\ lastFd[p] \in DOMAIN descriptors'[p]
      /\ id'[descriptors'[p][lastFd[p]]] = i
      /\ type'[descriptors'[p][lastFd[p]]] = QueueType
  BY <1>1, <1>2, OpenResourceEffect
<1>4. UsersOpen'
  BY <1>1, <1>3, OpenStaysKeeps
<1>5. Opening'
  <2> SUFFICES ASSUME NEW r \in Proc, pc'[r].at = "openQueue"
               PROVE  /\ pc'[r].fd \in Fd /\ pc'[r].fd \in DOMAIN descriptors'[r]
                      /\ id'[descriptors'[r][pc'[r].fd]] = pc'[r].id
                      /\ type'[descriptors'[r][pc'[r].fd]] = QueueType
    BY DEF Opening, IsOpen
  <2>1. CASE r = p
    BY <1>2, <1>3, <2>1 DEF label
  <2>2. CASE r # p
    BY <1>1, <1>2, <1>3, <2>2, OpenStaysKeeps
  <2> QED BY <2>1, <2>2
<1>6. Closing'
  <2> SUFFICES ASSUME NEW r \in Proc, pc'[r].at = "close"
               PROVE  /\ pc'[r].fd \in Fd /\ pc'[r].fd \in DOMAIN descriptors'[r]
                      /\ \A q \in QueueBlock, s \in Section :
                            <<r, pc'[r].fd>> \notin users'[q][s]
    BY DEF Closing, IsOpen
  <2>1. r # p
    BY <1>2 DEF label
  <2> QED BY <1>1, <1>2, <1>3, <2>1, OpenStaysKeeps
<1>7. Detaching'
  <2> SUFFICES ASSUME NEW r \in Proc, pc'[r].at = "detach"
               PROVE  /\ pc'[r].fd \in Fd /\ pc'[r].fd \in DOMAIN descriptors'[r]
                      /\ pc'[r].queue \in QueueBlock
                      /\ value'[descriptors'[r][pc'[r].fd]] = pc'[r].queue
    BY DEF Detaching, IsOpen
  <2>1. r # p
    BY <1>2 DEF label
  <2> QED BY <1>1, <1>2, <1>3, <2>1, OpenStaysKeeps
<1> QED BY <1>3, <1>4, <1>5, <1>6, <1>7 DEF ResInv

\* So does an open that fails after it made a resource.
LEMMA OpenNewFailsStep ==
  ASSUME ResInv, NEW p \in Proc, NEW i, OpenNewFails(p, i)
  PROVE  ResInv'
<1>1. PICK t \in {PlainType, QueueType} : AddResource(i, t)
  BY DEF OpenNewFails
<1>2. UNCHANGED <<holders, queueFree, users, descriptors, lastFd, pc>>
  BY DEF OpenNewFails, queueVars, userVars, procVars
<1> DEFINE new == Head(resFree)
<1>3. /\ new \in ResBlock \ resources
      /\ resources' = resources \cup {new}
      /\ DOMAIN id' = ResBlock /\ type' \in [ResBlock -> {0, PlainType, QueueType}]
      /\ value' = value
      /\ \A c \in resources : id'[c] = id[c] /\ type'[c] = type[c]
      /\ resFree' \in Seq(ResBlock) /\ IsInjective(resFree')
      /\ resources' \cup ToSet(resFree') = ResBlock
      /\ resources' \cap ToSet(resFree') = {}
      /\ OneById'
  BY <1>1, AddResourceEffect
<1>4. Shape /\ HoldersAgree /\ Pinned /\ ResourcesKept
  BY DEF ResInv
<1>5. Shape' /\ Pinned' /\ ResourcesKept'
  BY <1>2, <1>3, <1>4 DEF Shape, Pinned, ResourcesKept
<1>6. HoldersAgree'
  BY <1>2, <1>4 DEF HoldersAgree, IsOpen
<1>7. \A r \in Proc, f \in Fd : IsOpen(r, f) => OpenStays(r, f)
  <2> SUFFICES ASSUME NEW r \in Proc, NEW f \in Fd, IsOpen(r, f) PROVE OpenStays(r, f)
    OBVIOUS
  <2>1. descriptors[r][f] \in resources
    BY <1>4, OpenDescriptor
  <2> QED BY <1>2, <1>3, <2>1 DEF OpenStays, IsOpen
<1>8. UsersOpen' /\ Opening' /\ Detaching' /\ Closing'
  BY <1>2, <1>7, OpenStaysKeeps DEF Opening, Detaching, Closing, IsOpen
<1> QED BY <1>3, <1>5, <1>6, <1>8 DEF ResInv

-----------------------------------------------------------------------------
\* The resource that the second system call of dmq_open finds.
LEMMA FoundIsOpened ==
  ASSUME ResInv, NEW p \in Proc, pc[p].at = "openQueue", NEW b \in ById(pc[p].id)
  PROVE  /\ pc[p].fd \in Fd /\ IsOpen(p, pc[p].fd)
         /\ b \in resources /\ b \in ResBlock
         /\ b = descriptors[p][pc[p].fd]
         /\ type[b] = QueueType
<1>1. /\ pc[p].fd \in Fd /\ IsOpen(p, pc[p].fd)
      /\ id[descriptors[p][pc[p].fd]] = pc[p].id
      /\ type[descriptors[p][pc[p].fd]] = QueueType
  BY DEF ResInv, Opening
<1>2. descriptors[p][pc[p].fd] \in resources
  BY <1>1, OpenDescriptor DEF ResInv
<1>3. b = descriptors[p][pc[p].fd]
  BY <1>1, <1>2 DEF ResInv, OneById, ById
<1> QED BY <1>1, <1>2, <1>3 DEF ResInv, Shape

\* What the new users, or those that leave, do to the lists.
HaveJoined(u, q, got, h) ==
    \A c \in QueueBlock, s \in Section : \A x :
        x \in u[c][s] <=> x \in users[c][s] \/ (c = q /\ s \in got /\ x = h)

HaveLeft(u, q, h) ==
    \A c \in QueueBlock, s \in Section : \A x :
        x \in u[c][s] <=> x \in users[c][s] /\ ~ (c = q /\ x = h)

\* The lists with the new users h in those of got.
Joined(q, got, h) ==
    [users EXCEPT ![q] = [s \in Section |-> IF s \in got THEN @[s] \cup {h} ELSE @[s]]]

\* These are lists of users again, with h where it has joined.
LEMMA JoinedUsers ==
  ASSUME users \in [QueueBlock -> [Section -> SUBSET Handle]],
         NEW q \in QueueBlock, NEW got, NEW h \in Handle
  PROVE  /\ Joined(q, got, h) \in [QueueBlock -> [Section -> SUBSET Handle]]
         /\ HaveJoined(Joined(q, got, h), q, got, h)
<1> DEFINE v == [s \in Section |-> IF s \in got THEN users[q][s] \cup {h} ELSE users[q][s]]
<1>1. Joined(q, got, h) = [users EXCEPT ![q] = v]
  BY DEF Joined
<1>2. v \in [Section -> SUBSET Handle]
  OBVIOUS
<1>3. \A s \in Section : \A x :
          x \in v[s] <=> x \in users[q][s] \/ (s \in got /\ x = h)
  OBVIOUS
<1> HIDE DEF v
<1> QED BY <1>1, <1>2, <1>3 DEF HaveJoined

\* Queue_add_pid gives new users to the descriptor just opened, of a queue
\* that is the value of its resource afterwards.
LEMMA AddPidStep ==
  ASSUME ResInv, NEW p \in Proc, pc[p].at = "openQueue", NEW b \in ById(pc[p].id),
         NEW q \in QueueBlock, NEW n, NEW lost,
         AddPid(p, q, n, lost), Goto(p, User),
         value' \in [ResBlock -> QueueBlock \cup {NoBlock}],
         value'[b] = q, \A c \in ResBlock \ {b} : value'[c] = value[c],
         value'[b] = value[b] \/ value[b] = NoBlock,
         queueFree' \in Seq(QueueBlock), IsInjective(queueFree'),
         UNCHANGED <<resources, id, type, holders, resFree, procVars>>
  PROVE  ResInv'
<1> DEFINE h == <<p, pc[p].fd>>
<1>0. Shape /\ HoldersAgree /\ Pinned /\ OneById /\ ResourcesKept
      /\ UsersOpen /\ Opening /\ Detaching /\ Closing
  BY DEF ResInv
<1>1. /\ pc[p].fd \in Fd /\ IsOpen(p, pc[p].fd)
      /\ b = descriptors[p][pc[p].fd] /\ b \in ResBlock /\ type[b] = QueueType
  BY FoundIsOpened
<1>2. /\ DOMAIN pc' = Proc /\ pc'[p].at = "user"
      /\ \A r \in Proc : r # p => pc'[r] = pc[r]
  BY <1>0 DEF Shape, Goto, User
<1>3. PICK got, out : Follow(p, Joined(q, got, h), out, lost)
  BY DEF AddPid, Joined
<1>4. h \in Handle
  BY <1>1 DEF Handle
<1> HIDE DEF h
<1> PICK u : u = Joined(q, got, h)
  OBVIOUS
<1>5. u \in [QueueBlock -> [Section -> SUBSET Handle]] /\ HaveJoined(u, q, got, h)
  <2>1. users \in [QueueBlock -> [Section -> SUBSET Handle]]
    BY <1>0 DEF Shape
  <2> QED BY <1>4, <2>1, JoinedUsers
<1>6. Follow(p, u, out, lost)
  BY <1>3
<1>7. /\ users' \in [QueueBlock -> [Section -> SUBSET Handle]]
      /\ \A c \in QueueBlock, s \in Section : users'[c][s] \subseteq u[c][s]
  BY <1>5, <1>6, FollowedUsers
<1>8. ASSUME NEW c \in QueueBlock, NEW s \in Section, NEW x \in users'[c][s]
      PROVE  x \in users[c][s] \/ (c = q /\ x = h)
  BY <1>5, <1>7, <1>8 DEF HaveJoined
<1> USE DEF h
<1>9. Shape'
  BY <1>0, <1>2, <1>7 DEF Shape, procVars
<1>10. HoldersAgree' /\ Pinned' /\ OneById' /\ ResourcesKept'
  BY <1>0 DEF HoldersAgree, Pinned, OneById, ResourcesKept, IsOpen, procVars
<1>11. Opening'
  BY <1>0, <1>2 DEF Opening, IsOpen, procVars
<1>14. Detaching'
  <2> SUFFICES ASSUME NEW r \in Proc, pc'[r].at = "detach"
               PROVE  /\ pc'[r].fd \in Fd /\ pc'[r].fd \in DOMAIN descriptors[r]
                      /\ pc'[r].queue \in QueueBlock
                      /\ value'[descriptors[r][pc'[r].fd]] = pc'[r].queue
    BY DEF Detaching, IsOpen, procVars
  <2>1. pc'[r] = pc[r]
    BY <1>2
  <2>2. /\ pc[r].fd \in Fd /\ IsOpen(r, pc[r].fd) /\ pc[r].queue \in QueueBlock
        /\ value[descriptors[r][pc[r].fd]] = pc[r].queue
    BY <1>0, <2>1 DEF Detaching
  <2>3. descriptors[r][pc[r].fd] \in ResBlock
    BY <1>0, <2>2 DEF Shape, IsOpen
  <2>4. pc[r].queue # NoBlock
    BY <2>2, ResourceAssumption
  <2> QED BY <2>1, <2>2, <2>3, <2>4 DEF IsOpen
<1>12. Closing'
  <2> SUFFICES ASSUME NEW r \in Proc, pc'[r].at = "close"
               PROVE  /\ pc'[r].fd \in Fd /\ pc'[r].fd \in DOMAIN descriptors'[r]
                      /\ \A c \in QueueBlock, s \in Section :
                            <<r, pc'[r].fd>> \notin users'[c][s]
    BY DEF Closing, IsOpen
  <2>1. r # p /\ pc'[r] = pc[r]
    BY <1>2
  <2>2. <<r, pc[r].fd>> # h
    BY <2>1
  <2> QED BY <1>0, <1>8, <2>1, <2>2 DEF Closing, IsOpen, procVars
<1>13. UsersOpen'
  <2> SUFFICES ASSUME NEW c \in QueueBlock, NEW s \in Section, NEW r \in Proc,
                      NEW f \in Fd, <<r, f>> \in users'[c][s]
               PROVE  /\ f \in DOMAIN descriptors[r]
                      /\ value'[descriptors[r][f]] = c
                      /\ type[descriptors[r][f]] = QueueType
    BY DEF UsersOpen, IsOpen, procVars
  <2>1. CASE <<r, f>> \in users[c][s]
    <3>1. /\ IsOpen(r, f) /\ value[descriptors[r][f]] = c
          /\ type[descriptors[r][f]] = QueueType
      BY <1>0, <2>1 DEF UsersOpen
    <3>2. descriptors[r][f] \in ResBlock
      BY <1>0, <3>1 DEF Shape, IsOpen
    <3>3. c # NoBlock
      BY ResourceAssumption
    <3> QED BY <3>1, <3>2, <3>3 DEF IsOpen
  <2>2. CASE c = q /\ <<r, f>> = h
    <3>1. r = p /\ f = pc[p].fd
      BY <2>2
    <3> QED BY <1>1, <2>2, <3>1 DEF IsOpen
  <2> QED BY <1>8, <2>1, <2>2
<1> QED BY <1>9, <1>10, <1>11, <1>12, <1>13, <1>14 DEF ResInv

\* Joining a queue that exists keeps the invariant.
LEMMA JoinQueueStep ==
  ASSUME ResInv, NEW p \in Proc, pc[p].at = "openQueue", NEW b \in ById(pc[p].id),
         JoinQueue(p, b), Goto(p, User)
  PROVE  ResInv'
<1>1. b \in ResBlock
  BY FoundIsOpened
<1>2. value[b] \in QueueBlock
  BY <1>1 DEF JoinQueue, ResInv, Shape
<1>3. /\ AddPid(p, value[b], openings[value[b]], FALSE)
      /\ UNCHANGED <<resources, id, type, value, holders, resFree, procVars, queueFree>>
  BY DEF JoinQueue, resVars
<1>4. /\ value \in [ResBlock -> QueueBlock \cup {NoBlock}]
      /\ queueFree \in Seq(QueueBlock) /\ IsInjective(queueFree)
  BY DEF ResInv, Shape, ResourcesKept
<1> QED BY <1>2, <1>3, <1>4, AddPidStep

\* Creating the queue of a new resource keeps the invariant.
LEMMA CreateQueueStep ==
  ASSUME ResInv, NEW p \in Proc, pc[p].at = "openQueue", NEW b \in ById(pc[p].id),
         CreateQueue(p, b), Goto(p, User)
  PROVE  ResInv'
<1> DEFINE q == Head(queueFree)
<1>1. /\ value[b] = NoBlock /\ queueFree # <<>>
      /\ value' = [value EXCEPT ![b] = q]
      /\ AddPid(p, q, 0, users[q] # NoUsers)
      /\ queueFree' = Tail(queueFree)
      /\ UNCHANGED <<resources, id, type, holders, resFree, procVars>>
  BY DEF CreateQueue
<1>2. b \in ResBlock
  BY FoundIsOpened
<1>3. /\ value \in [ResBlock -> QueueBlock \cup {NoBlock}]
      /\ queueFree \in Seq(QueueBlock) /\ IsInjective(queueFree)
  BY DEF ResInv, Shape, ResourcesKept
<1>4. /\ q \in QueueBlock
      /\ queueFree' \in Seq(QueueBlock) /\ IsInjective(queueFree')
  BY <1>1, <1>3, DetachHead, RangeIsElements
<1>5. /\ value' \in [ResBlock -> QueueBlock \cup {NoBlock}]
      /\ value'[b] = q /\ \A c \in ResBlock \ {b} : value'[c] = value[c]
  BY <1>1, <1>2, <1>3, <1>4
<1> HIDE DEF q
<1> QED BY <1>1, <1>4, <1>5, AddPidStep

-----------------------------------------------------------------------------
\* Closing a descriptor without users: the other descriptors stay, and so do
\* the calls under way of other processes.
LEMMA RemoveDescriptorStep ==
  ASSUME ResInv, NEW p \in Proc, NEW n \in Fd, IsOpen(p, n),
         RemoveDescriptor(p, n),
         \A q \in QueueBlock, s \in Section : <<p, n>> \notin users[q][s],
         resources' \in SUBSET resources,
         \A b \in resources : holders'[b] # {} => b \in resources',
         resFree' \in Seq(ResBlock), ResourcesKept',
         UNCHANGED <<id, type, value, queueFree, users>>,
         DOMAIN pc' = Proc, \A r \in Proc : r # p => pc'[r] = pc[r],
         pc'[p].at \notin {"openQueue", "detach", "close"}
  PROVE  ResInv'
<1>0. Shape /\ HoldersAgree /\ Pinned /\ OneById /\ UsersOpen /\ Opening /\ Closing
  BY DEF ResInv
<1>9. Detaching
  BY DEF ResInv
<1>1. /\ \A r \in Proc, f \in Fd :
            IsOpen(r, f)' <=> IsOpen(r, f) /\ ~ (r = p /\ f = n)
      /\ \A r \in Proc, f \in Fd :
            IsOpen(r, f)' => descriptors'[r][f] = descriptors[r][f]
      /\ holders' \in [ResBlock -> SUBSET Handle]
      /\ \A c \in ResBlock : holders'[c] \subseteq holders[c]
      /\ DOMAIN descriptors' = Proc
      /\ lastFd' \in [Proc -> 0..MaxFd + 1]
      /\ \A r \in Proc : /\ DOMAIN descriptors'[r] \subseteq 0..lastFd'[r] - 1
                         /\ descriptors'[r] \in [DOMAIN descriptors'[r] -> ResBlock]
      /\ HoldersAgree'
  BY RemoveDescriptorEffect
<1>2. Shape'
  BY <1>0, <1>1 DEF Shape
<1>3. Pinned'
  BY <1>0, <1>1 DEF Pinned, Shape
<1>4. OneById'
  BY <1>0 DEF OneById
<1>5. UsersOpen'
  <2> SUFFICES ASSUME NEW q \in QueueBlock, NEW s \in Section, NEW r \in Proc,
                      NEW f \in Fd, <<r, f>> \in users[q][s]
               PROVE  /\ f \in DOMAIN descriptors'[r]
                      /\ value[descriptors'[r][f]] = q
                      /\ type[descriptors'[r][f]] = QueueType
    BY DEF UsersOpen, IsOpen
  <2>1. /\ IsOpen(r, f) /\ value[descriptors[r][f]] = q
        /\ type[descriptors[r][f]] = QueueType
    BY <1>0 DEF UsersOpen
  <2>2. ~ (r = p /\ f = n)
    OBVIOUS
  <2>3. f \in DOMAIN descriptors'[r] /\ descriptors'[r][f] = descriptors[r][f]
    BY <1>1, <2>1, <2>2 DEF IsOpen
  <2> QED BY <2>1, <2>3
<1>6. \A r \in Proc, f \in Fd : r # p /\ f \in DOMAIN descriptors[r] =>
          /\ f \in DOMAIN descriptors'[r]
          /\ descriptors'[r][f] = descriptors[r][f]
  BY <1>1 DEF IsOpen
<1>7. Opening'
  BY <1>0, <1>6 DEF Opening, IsOpen
<1>8. Closing'
  BY <1>0, <1>6 DEF Closing, IsOpen
<1>10. Detaching'
  BY <1>6, <1>9 DEF Detaching, IsOpen
<1> QED BY <1>1, <1>2, <1>3, <1>4, <1>5, <1>7, <1>8, <1>10 DEF ResInv

\* Undoing the first half of dmq_open keeps the invariant.
LEMMA UndoOpenStep ==
  ASSUME ResInv, NEW p \in Proc, pc[p].at = "openQueue", NEW b \in ById(pc[p].id),
         UndoOpen(p, b), Goto(p, User)
  PROVE  ResInv'
<1> DEFINE n == pc[p].fd
<1>0. Shape /\ UsersOpen /\ ResourcesKept
  BY DEF ResInv
<1>1. /\ n \in Fd /\ IsOpen(p, n) /\ b = descriptors[p][n]
      /\ b \in resources /\ b \in ResBlock
  BY FoundIsOpened
<1>2. /\ value[b] = NoBlock
      /\ RemoveDescriptor(p, n)
      /\ UNCHANGED <<id, type, value, queueFree, users>>
      /\ IF holders'[b] = {}
         THEN resources' = resources \ {b} /\ resFree' = <<b>> \o resFree
         ELSE UNCHANGED <<resources, resFree>>
  BY DEF UndoOpen, queueVars, userVars
<1>3. \A q \in QueueBlock, s \in Section : <<p, n>> \notin users[q][s]
  BY <1>0, <1>1, <1>2, ResourceAssumption DEF UsersOpen
<1>4. /\ DOMAIN pc' = Proc /\ pc'[p].at = "user"
      /\ \A r \in Proc : r # p => pc'[r] = pc[r]
  BY <1>0 DEF Shape, Goto, User
<1>5. /\ resFree \in Seq(ResBlock) /\ IsInjective(resFree)
      /\ resources \cup Range(resFree) = ResBlock
      /\ resources \cap Range(resFree) = {}
      /\ IsInjective(queueFree)
  BY <1>0, ToSetIsRange DEF Shape, ResourcesKept
<1>6. /\ resources' \in SUBSET resources
      /\ \A c \in resources : holders'[c] # {} => c \in resources'
  BY <1>2
<1>7. resFree' \in Seq(ResBlock) /\ ResourcesKept'
  <2>1. CASE holders'[b] = {}
    <3>1. /\ <<b>> \o resFree \in Seq(ResBlock)
          /\ Range(<<b>> \o resFree) = {b} \cup Range(resFree)
          /\ IsInjective(<<b>> \o resFree)
      BY <1>1, <1>5, InsertFirst
    <3>2. ToSet(resFree') = {b} \cup Range(resFree)
      BY <1>2, <2>1, <3>1, ToSetIsRange
    <3> QED BY <1>1, <1>2, <1>5, <2>1, <3>1, <3>2 DEF ResourcesKept
  <2>2. CASE holders'[b] # {}
    BY <1>0, <1>2, <1>5, <2>2 DEF ResourcesKept
  <2> QED BY <2>1, <2>2
<1> HIDE DEF n
<1> QED BY <1>1, <1>2, <1>3, <1>4, <1>6, <1>7, RemoveDescriptorStep

\* The second system call of dmq_open keeps the invariant.
LEMMA OpenQueueStep ==
  ASSUME ResInv, NEW p \in Proc, OpenQueue(p)
  PROVE  ResInv'
<1>1. /\ pc[p].at = "openQueue" /\ Goto(p, User)
      /\ \E b \in ById(pc[p].id) : JoinQueue(p, b) \/ CreateQueue(p, b) \/ UndoOpen(p, b)
  BY DEF OpenQueue
<1> QED BY <1>1, JoinQueueStep, CreateQueueStep, UndoOpenStep

-----------------------------------------------------------------------------
\* Reading the descriptor in dmq_close keeps the invariant.
LEMMA DmqCloseStep ==
  ASSUME ResInv, NEW p \in Proc, NEW n \in Fd, DmqClose(p, n)
  PROVE  ResInv'
<1> DEFINE q == value[descriptors[p][n]]
           label == [at |-> "detach", fd |-> n, queue |-> q]
<1>0. Shape /\ HoldersAgree /\ Pinned /\ OneById /\ ResourcesKept
      /\ UsersOpen /\ Opening /\ Detaching /\ Closing
  BY DEF ResInv
<1>1. /\ IsOpen(p, n) /\ q # NoBlock
      /\ pc' = [pc EXCEPT ![p] = label]
      /\ UNCHANGED <<resources, id, type, value, holders, resFree, descriptors,
                     lastFd, queueFree, users>>
  BY DEF DmqClose, resVars, queueVars, userVars, procVars, Goto
<1>2. q \in QueueBlock
  BY <1>0, <1>1 DEF Shape, IsOpen
<1>3. /\ DOMAIN pc' = Proc /\ pc'[p] = label
      /\ \A r \in Proc : r # p => pc'[r] = pc[r]
  BY <1>0, <1>1 DEF Shape
<1>4. Shape'
  BY <1>0, <1>1, <1>3 DEF Shape
<1>5. HoldersAgree' /\ Pinned' /\ OneById' /\ ResourcesKept' /\ UsersOpen'
  BY <1>0, <1>1 DEF HoldersAgree, Pinned, OneById, ResourcesKept, UsersOpen, IsOpen
<1>6. Opening' /\ Closing'
  BY <1>0, <1>1, <1>3 DEF Opening, Closing, IsOpen
<1>7. Detaching'
  <2> SUFFICES ASSUME NEW r \in Proc, pc'[r].at = "detach"
               PROVE  /\ pc'[r].fd \in Fd /\ pc'[r].fd \in DOMAIN descriptors[r]
                      /\ pc'[r].queue \in QueueBlock
                      /\ value[descriptors[r][pc'[r].fd]] = pc'[r].queue
    BY <1>1 DEF Detaching, IsOpen
  <2>1. CASE r = p
    BY <1>1, <1>2, <1>3, <2>1 DEF IsOpen
  <2>2. CASE r # p
    BY <1>0, <1>3, <2>2 DEF Detaching, IsOpen
  <2> QED BY <2>1, <2>2
<1> QED BY <1>4, <1>5, <1>6, <1>7 DEF ResInv

\* The lists without the users h of a descriptor.
Removed(q, h) == [users EXCEPT ![q] = RemoveUsers(@, h)]

\* These are lists of users again, with h gone from those of q.
LEMMA RemovedUsers ==
  ASSUME users \in [QueueBlock -> [Section -> SUBSET Handle]],
         NEW q \in QueueBlock, NEW h
  PROVE  /\ Removed(q, h) \in [QueueBlock -> [Section -> SUBSET Handle]]
         /\ HaveLeft(Removed(q, h), q, h)
<1>1. users[q] \in [Section -> SUBSET Handle]
  OBVIOUS
<1>2. /\ RemoveUsers(users[q], h) \in [Section -> SUBSET Handle]
      /\ \A s \in Section : RemoveUsers(users[q], h)[s] = users[q][s] \ {h}
  BY <1>1 DEF RemoveUsers
<1> QED BY <1>2 DEF Removed, HaveLeft

\* The user mode part of dmq_close keeps the invariant.
LEMMA DetachUsersStep ==
  ASSUME ResInv, NEW p \in Proc, DetachUsers(p)
  PROVE  ResInv'
<1> DEFINE n == pc[p].fd
           q == pc[p].queue
           label == [at |-> "close", fd |-> n, queue |-> q]
<1>0. Shape /\ HoldersAgree /\ Pinned /\ OneById /\ ResourcesKept
      /\ UsersOpen /\ Opening /\ Detaching /\ Closing
  BY DEF ResInv
<1>1. /\ Follow(p, Removed(q, <<p, n>>), usersOut \ (Section \X {<<p, n>>}), FALSE)
      /\ pc' = [pc EXCEPT ![p] = label]
      /\ UNCHANGED <<resources, id, type, value, holders, resFree, descriptors,
                     lastFd, queueFree>>
  BY DEF DetachUsers, Removed, resVars, procVars, Goto
<1>2. /\ n \in Fd /\ IsOpen(p, n) /\ q \in QueueBlock
      /\ value[descriptors[p][n]] = q
  BY <1>0 DEF DetachUsers, Detaching
<1>3. /\ DOMAIN pc' = Proc /\ pc'[p] = label
      /\ \A r \in Proc : r # p => pc'[r] = pc[r]
  BY <1>0, <1>1 DEF Shape
<1>4. /\ users' \in [QueueBlock -> [Section -> SUBSET Handle]]
      /\ \A c \in QueueBlock, s \in Section : users'[c][s] \subseteq users[c][s]
      /\ \A s \in Section : <<p, n>> \notin users'[q][s]
  <2> HIDE DEF n, q
  <2> PICK k \in QueueBlock : k = q
    BY <1>2
  <2> PICK h : h = <<p, n>>
    OBVIOUS
  <2> PICK u : u = Removed(k, h)
    OBVIOUS
  <2>1. u \in [QueueBlock -> [Section -> SUBSET Handle]] /\ HaveLeft(u, k, h)
    <3>1. users \in [QueueBlock -> [Section -> SUBSET Handle]]
      BY <1>0 DEF Shape
    <3> QED BY <3>1, RemovedUsers
  <2>2. /\ users' \in [QueueBlock -> [Section -> SUBSET Handle]]
        /\ \A c \in QueueBlock, s \in Section : users'[c][s] \subseteq u[c][s]
    BY <1>1, <2>1, FollowedUsers
  <2>3. ASSUME NEW c \in QueueBlock, NEW s \in Section
        PROVE  users'[c][s] \subseteq users[c][s]
    <3>1. u[c][s] \subseteq users[c][s] /\ users'[c][s] \subseteq u[c][s]
      BY <2>1, <2>2 DEF HaveLeft
    <3> QED BY <3>1
  <2>4. ASSUME NEW s \in Section PROVE <<p, n>> \notin users'[q][s]
    <3>1. h \notin u[q][s] /\ users'[q][s] \subseteq u[q][s]
      BY <2>1, <2>2 DEF HaveLeft
    <3> QED BY <3>1
  <2> QED BY <2>2, <2>3, <2>4
<1> HIDE DEF q, n
<1>5. ASSUME NEW c \in QueueBlock, NEW s \in Section, <<p, n>> \in users'[c][s]
      PROVE  FALSE
  <2>1. <<p, n>> \in users[c][s]
    BY <1>4, <1>5
  <2>2. value[descriptors[p][n]] = c
    BY <1>0, <1>2, <2>1 DEF UsersOpen
  <2> QED BY <1>2, <1>4, <1>5, <2>2
<1>6. Shape'
  BY <1>0, <1>1, <1>3, <1>4 DEF Shape
<1>7. HoldersAgree' /\ Pinned' /\ OneById' /\ ResourcesKept'
  BY <1>0, <1>1 DEF HoldersAgree, Pinned, OneById, ResourcesKept, IsOpen
<1>8. Opening' /\ Detaching'
  BY <1>0, <1>1, <1>3 DEF Opening, Detaching, IsOpen
<1>9. Closing'
  <2> SUFFICES ASSUME NEW r \in Proc, pc'[r].at = "close"
               PROVE  /\ pc'[r].fd \in Fd /\ pc'[r].fd \in DOMAIN descriptors[r]
                      /\ \A c \in QueueBlock, s \in Section :
                            <<r, pc'[r].fd>> \notin users'[c][s]
    BY <1>1 DEF Closing, IsOpen
  <2>1. CASE r = p
    BY <1>2, <1>3, <1>5, <2>1 DEF IsOpen
  <2>2. CASE r # p
    BY <1>0, <1>3, <1>4, <2>2 DEF Closing, IsOpen
  <2> QED BY <2>1, <2>2
<1>10. UsersOpen'
  BY <1>0, <1>1, <1>4 DEF UsersOpen, IsOpen
<1> QED BY <1>6, <1>7, <1>8, <1>9, <1>10 DEF ResInv

\* The two closes: the descriptor has no users, because dmq_close removed
\* them, or because its resource is no queue.
LEMMA CloseStep ==
  ASSUME ResInv, NEW p \in Proc, NEW n \in Fd, IsOpen(p, n), CloseResource(p, n),
         \A q \in QueueBlock, s \in Section : <<p, n>> \notin users[q][s],
         DOMAIN pc' = Proc, \A r \in Proc : r # p => pc'[r] = pc[r],
         pc'[p].at \notin {"openQueue", "detach", "close"}
  PROVE  ResInv'
<1>1. /\ RemoveDescriptor(p, n)
      /\ UNCHANGED <<resources, id, type, value, resFree, queueFree, users>>
  BY DEF CloseResource, queueVars, userVars
<1>2. resFree' \in Seq(ResBlock) /\ ResourcesKept'
  BY <1>1 DEF ResInv, Shape, ResourcesKept
<1> QED BY <1>1, <1>2, RemoveDescriptorStep

\* disastrOS_closeResource keeps the invariant.
LEMMA ClosePlainStep ==
  ASSUME ResInv, NEW p \in Proc, NEW n \in Fd, ClosePlain(p, n)
  PROVE  ResInv'
<1>1. /\ pc[p] = User /\ pc' = pc
      /\ IsOpen(p, n) /\ type[descriptors[p][n]] = PlainType
      /\ CloseResource(p, n)
  BY DEF ClosePlain
<1>2. \A q \in QueueBlock, s \in Section : <<p, n>> \notin users[q][s]
  BY <1>1 DEF ResInv, UsersOpen, PlainType, QueueType
<1>3. DOMAIN pc' = Proc /\ pc'[p].at = "user"
  BY <1>1 DEF ResInv, Shape, User
<1> QED BY <1>1, <1>2, <1>3, CloseStep

\* The system call of dmq_close keeps the invariant.
LEMMA CloseQueueStep ==
  ASSUME ResInv, NEW p \in Proc, CloseQueue(p)
  PROVE  ResInv'
<1>1. /\ pc[p].at = "close"
      /\ CloseResource(p, pc[p].fd)
      /\ pc' = [pc EXCEPT ![p] = [at |-> "closed", queue |-> pc[p].queue]]
  BY DEF CloseQueue, Goto
<1>2. /\ pc[p].fd \in Fd /\ IsOpen(p, pc[p].fd)
      /\ \A q \in QueueBlock, s \in Section : <<p, pc[p].fd>> \notin users[q][s]
  BY <1>1 DEF ResInv, Closing
<1>3. /\ DOMAIN pc' = Proc /\ pc'[p].at = "closed"
      /\ \A r \in Proc : r # p => pc'[r] = pc[r]
  BY <1>1 DEF ResInv, Shape
<1> QED BY <1>1, <1>2, <1>3, CloseStep

\* What dmq_close does after its system call keeps the invariant.
LEMMA CountClosingStep ==
  ASSUME ResInv, NEW p \in Proc, CountClosing(p)
  PROVE  ResInv'
<1>0. Shape /\ HoldersAgree /\ Pinned /\ OneById /\ ResourcesKept
      /\ UsersOpen /\ Opening /\ Detaching /\ Closing
  BY DEF ResInv
<1>1. /\ pc' = [pc EXCEPT ![p] = User]
      /\ UNCHANGED <<resources, id, type, value, holders, resFree, descriptors,
                     lastFd, queueFree, users>>
  BY DEF CountClosing, resVars, procVars, userVars, Goto
<1>2. /\ DOMAIN pc' = Proc /\ pc'[p].at = "user"
      /\ \A r \in Proc : r # p => pc'[r] = pc[r]
  BY <1>0, <1>1 DEF Shape, User
<1>3. Shape'
  BY <1>0, <1>1, <1>2 DEF Shape
<1>4. HoldersAgree' /\ Pinned' /\ OneById' /\ ResourcesKept' /\ UsersOpen'
  BY <1>0, <1>1 DEF HoldersAgree, Pinned, OneById, ResourcesKept, UsersOpen, IsOpen
<1>5. Opening' /\ Detaching' /\ Closing'
  BY <1>0, <1>1, <1>2 DEF Opening, Detaching, Closing, IsOpen
<1> QED BY <1>3, <1>4, <1>5 DEF ResInv

-----------------------------------------------------------------------------
\* disastrOS_destroyResource keeps the invariant.
LEMMA DestroyResourceStep ==
  ASSUME ResInv, NEW p \in Proc, NEW i, DestroyResource(p, i)
  PROVE  ResInv'
<1>0. Shape /\ HoldersAgree /\ Pinned /\ OneById /\ ResourcesKept
      /\ UsersOpen /\ Opening /\ Detaching /\ Closing
  BY DEF ResInv
<1>1. PICK b \in ById(i) :
        /\ ~ InUse(b)
        /\ resources' = resources \ {b}
        /\ resFree' = <<b>> \o resFree
        /\ IF type[b] = QueueType /\ value[b] # NoBlock
           THEN QueueFree(p, value[b]) ELSE UNCHANGED <<queueFree, users>>
  BY DEF DestroyResource, userVars
<1>2. UNCHANGED <<id, type, value, holders, descriptors, lastFd, pc>>
  BY DEF DestroyResource, procVars
<1>3. b \in resources /\ b \in ResBlock /\ holders[b] = {}
  BY <1>0, <1>1 DEF ById, InUse, Shape
<1>4. /\ resFree \in Seq(ResBlock) /\ IsInjective(resFree)
      /\ resources \cup Range(resFree) = ResBlock
      /\ resources \cap Range(resFree) = {}
      /\ queueFree \in Seq(QueueBlock) /\ IsInjective(queueFree)
  BY <1>0, ToSetIsRange DEF Shape, ResourcesKept
<1>5. /\ resFree' \in Seq(ResBlock)
      /\ Range(resFree') = {b} \cup Range(resFree)
      /\ IsInjective(resFree')
  BY <1>1, <1>3, <1>4, InsertFirst
<1>6. /\ queueFree' \in Seq(QueueBlock) /\ IsInjective(queueFree')
      /\ users' \in [QueueBlock -> [Section -> SUBSET Handle]]
      /\ \A c \in QueueBlock, s \in Section : users'[c][s] \subseteq users[c][s]
  <2>1. CASE type[b] = QueueType /\ value[b] # NoBlock
    <3> DEFINE q == value[b]
    <3>1. /\ q \in QueueBlock
          /\ Follow(p, users, usersOut, users[q] # NoUsers)
          /\ queueFree' = IF q \in ToSet(queueFree) THEN queueFree
                          ELSE <<q>> \o queueFree
      BY <1>0, <1>1, <1>3, <2>1 DEF QueueFree, Shape
    <3> HIDE DEF q
    <3>2. /\ users' \in [QueueBlock -> [Section -> SUBSET Handle]]
          /\ \A c \in QueueBlock, s \in Section : users'[c][s] \subseteq users[c][s]
      BY <1>0, <3>1, FollowedUsers DEF Shape
    <3>3. queueFree' \in Seq(QueueBlock) /\ IsInjective(queueFree')
      <4>1. CASE q \in ToSet(queueFree)
        BY <1>4, <3>1, <4>1
      <4>2. CASE q \notin ToSet(queueFree)
        <5>1. q \notin Range(queueFree)
          BY <4>2, ToSetIsRange
        <5> QED BY <1>4, <3>1, <4>2, <5>1, InsertFirst
      <4> QED BY <4>1, <4>2
    <3> QED BY <3>2, <3>3
  <2>2. CASE ~ (type[b] = QueueType /\ value[b] # NoBlock)
    BY <1>0, <1>1, <1>4, <2>2 DEF Shape
  <2> QED BY <2>1, <2>2
<1>7. Shape'
  BY <1>0, <1>1, <1>2, <1>5, <1>6 DEF Shape
<1>8. HoldersAgree' /\ Pinned' /\ OneById'
  BY <1>0, <1>1, <1>2, <1>3 DEF HoldersAgree, Pinned, OneById, IsOpen
<1>9. ResourcesKept'
  <2>1. ToSet(resFree') = {b} \cup Range(resFree)
    BY <1>5, ToSetIsRange
  <2> QED BY <1>1, <1>3, <1>4, <1>5, <1>6, <2>1 DEF ResourcesKept
<1>10. Opening' /\ Detaching' /\ Closing'
  BY <1>0, <1>2, <1>6 DEF Opening, Detaching, Closing, IsOpen
<1>11. UsersOpen'
  BY <1>0, <1>2, <1>6 DEF UsersOpen, IsOpen
<1> QED BY <1>7, <1>8, <1>9, <1>10, <1>11 DEF ResInv

\* The lists without the users of the queue descriptors of p.
LeftUsers(p) ==
    [q \in QueueBlock |->
        [s \in Section |->
            {h \in users[q][s] :
                ~ \E f \in DOMAIN descriptors[p] :
                     h = <<p, f>> /\ value[descriptors[p][f]] = q
                                  /\ type[descriptors[p][f]] = QueueType}]]

\* They are lists of users again.
LEMMA LeftUsersType ==
  ASSUME NEW p, users \in [QueueBlock -> [Section -> SUBSET Handle]]
  PROVE  LeftUsers(p) \in [QueueBlock -> [Section -> SUBSET Handle]]
<1>1. \A c \in QueueBlock, s \in Section : users[c][s] \subseteq Handle
  OBVIOUS
<1> QED BY <1>1 DEF LeftUsers

\* The descriptors of a process go away together, with their places in the
\* lists of the resources and of the queues.
LEMMA ExitAwaitedStep ==
  ASSUME ResInv, NEW p \in Proc, ExitAwaited(p),
         DOMAIN pc' = Proc, \A r \in Proc : r # p => pc'[r] = pc[r],
         pc'[p].at = "dead"
  PROVE  ResInv'
<1>0. Shape /\ HoldersAgree /\ Pinned /\ OneById /\ ResourcesKept
      /\ UsersOpen /\ Opening /\ Detaching /\ Closing
  BY DEF ResInv
<1>1. /\ descriptors' = [descriptors EXCEPT ![p] = <<>>]
      /\ holders' = [b \in ResBlock |-> {h \in holders[b] : h[1] # p}]
      /\ UNCHANGED <<resources, id, type, value, resFree, queueFree, lastFd>>
  BY DEF ExitAwaited
<1>2. /\ users' \in [QueueBlock -> [Section -> SUBSET Handle]]
      /\ \A c \in QueueBlock, s \in Section : users'[c][s] \subseteq LeftUsers(p)[c][s]
  <2>1. Follow(p, LeftUsers(p), usersOut, FALSE)
    BY DEF ExitAwaited, LeftUsers
  <2>2. LeftUsers(p) \in [QueueBlock -> [Section -> SUBSET Handle]]
    BY <1>0, LeftUsersType DEF Shape
  <2> QED BY <2>1, <2>2, FollowedUsers
<1>3. \A c \in QueueBlock, s \in Section : users'[c][s] \subseteq users[c][s]
  BY <1>2 DEF LeftUsers
<1>4. \A q \in QueueBlock, s \in Section, f \in Fd : <<p, f>> \notin users'[q][s]
  <2> SUFFICES ASSUME NEW q \in QueueBlock, NEW s \in Section, NEW f \in Fd,
                      <<p, f>> \in users'[q][s]
               PROVE  FALSE
    OBVIOUS
  <2>1. /\ <<p, f>> \in users[q][s]
        /\ ~ (f \in DOMAIN descriptors[p] /\ value[descriptors[p][f]] = q
                                          /\ type[descriptors[p][f]] = QueueType)
    BY <1>2 DEF LeftUsers
  <2> QED BY <1>0, <2>1 DEF UsersOpen, IsOpen
<1>5. /\ DOMAIN descriptors' = Proc /\ DOMAIN descriptors'[p] = {}
      /\ \A r \in Proc : r # p => descriptors'[r] = descriptors[r]
  BY <1>0, <1>1 DEF Shape
<1>6. /\ holders' \in [ResBlock -> SUBSET Handle]
      /\ \A b \in ResBlock : holders'[b] \subseteq holders[b]
      /\ \A b \in ResBlock, r \in Proc, f \in Fd :
            <<r, f>> \in holders'[b] <=> <<r, f>> \in holders[b] /\ r # p
  BY <1>0, <1>1 DEF Shape
<1>7. Shape'
  <2>1. \A r \in Proc : /\ DOMAIN descriptors'[r] \subseteq 0..lastFd'[r] - 1
                        /\ descriptors'[r] \in [DOMAIN descriptors'[r] -> ResBlock]
    <3> SUFFICES ASSUME NEW r \in Proc
                 PROVE  /\ DOMAIN descriptors'[r] \subseteq 0..lastFd'[r] - 1
                        /\ descriptors'[r] \in [DOMAIN descriptors'[r] -> ResBlock]
      OBVIOUS
    <3>1. CASE r # p
      BY <1>0, <1>1, <1>5, <3>1 DEF Shape
    <3>2. CASE r = p
      <4>1. descriptors'[p] = <<>>
        BY <1>0, <1>1 DEF Shape
      <4>2. <<>> \in [{} -> ResBlock] /\ DOMAIN <<>> = {}
        OBVIOUS
      <4> QED BY <3>2, <4>1, <4>2
    <3> QED BY <3>1, <3>2
  <2> QED BY <1>0, <1>1, <1>2, <1>5, <1>6, <2>1 DEF Shape
<1>8. HoldersAgree'
  <2> SUFFICES ASSUME NEW b \in ResBlock, NEW r \in Proc, NEW f \in Fd
               PROVE  <<r, f>> \in holders'[b] <=>
                          f \in DOMAIN descriptors'[r] /\ descriptors'[r][f] = b
    BY DEF HoldersAgree, IsOpen
  <2>1. <<r, f>> \in holders[b] <=> f \in DOMAIN descriptors[r] /\ descriptors[r][f] = b
    BY <1>0 DEF HoldersAgree, IsOpen
  <2> QED BY <1>5, <1>6, <2>1
<1>9. Pinned' /\ OneById' /\ ResourcesKept'
  BY <1>0, <1>1, <1>6 DEF Pinned, OneById, ResourcesKept
<1>10. Opening' /\ Detaching'
  BY <1>0, <1>1, <1>5 DEF Opening, Detaching, IsOpen
<1>11. Closing'
  BY <1>0, <1>3, <1>5 DEF Closing, IsOpen
<1>12. UsersOpen'
  <2> SUFFICES ASSUME NEW q \in QueueBlock, NEW s \in Section, NEW r \in Proc,
                      NEW f \in Fd, <<r, f>> \in users'[q][s]
               PROVE  /\ f \in DOMAIN descriptors'[r]
                      /\ value[descriptors'[r][f]] = q
                      /\ type[descriptors'[r][f]] = QueueType
    BY <1>1 DEF UsersOpen, IsOpen
  <2>1. r # p
    BY <1>4
  <2>2. /\ IsOpen(r, f) /\ value[descriptors[r][f]] = q
        /\ type[descriptors[r][f]] = QueueType
    BY <1>0, <1>3 DEF UsersOpen
  <2> QED BY <1>5, <2>1, <2>2 DEF IsOpen
<1> QED BY <1>7, <1>8, <1>9, <1>10, <1>11, <1>12 DEF ResInv

\* internal_exit keeps the invariant.
LEMMA ExitStep ==
  ASSUME ResInv, NEW p \in Proc, Exit(p)
  PROVE  ResInv'
<1>0. Shape /\ HoldersAgree /\ Pinned /\ OneById /\ ResourcesKept
      /\ UsersOpen /\ Opening /\ Detaching /\ Closing
  BY DEF ResInv
<1>1. /\ DOMAIN pc' = Proc /\ pc'[p].at = "dead"
      /\ \A r \in Proc : r # p => pc'[r] = pc[r]
  BY <1>0 DEF Shape, Exit, Goto
<1>2. CASE ExitAwaited(p)
  BY <1>1, <1>2, ExitAwaitedStep
<1>3. CASE ExitAlone(p)
  <2>1. UNCHANGED <<resources, id, type, value, holders, resFree, descriptors,
                    lastFd, queueFree, users>>
    BY <1>3 DEF ExitAlone, resVars, queueVars, userVars, procVars
  <2>2. Shape'
    BY <1>0, <1>1, <2>1 DEF Shape
  <2>3. HoldersAgree' /\ Pinned' /\ OneById' /\ ResourcesKept' /\ UsersOpen'
    BY <1>0, <2>1 DEF HoldersAgree, Pinned, OneById, ResourcesKept, UsersOpen, IsOpen
  <2>4. Opening' /\ Detaching' /\ Closing'
    BY <1>0, <1>1, <2>1 DEF Opening, Detaching, Closing, IsOpen
  <2> QED BY <2>2, <2>3, <2>4 DEF ResInv
<1> QED BY <1>2, <1>3 DEF Exit

-----------------------------------------------------------------------------
\* Nothing is open at first, and the pools are full.
LEMMA ResInitInv == ResInit => ResInv
<1> SUFFICES ASSUME ResInit PROVE ResInv
  OBVIOUS
<1>1. PICK n \in 1..Cardinality(QueueBlock) :
          queueFree = SubSeq(SetToSeq(QueueBlock), 1, n)
  BY DEF ResInit
<1>2. /\ SetToSeq(ResBlock) \in Seq(ResBlock) /\ IsInjective(SetToSeq(ResBlock))
      /\ Range(SetToSeq(ResBlock)) = ResBlock
  BY ResourceAssumption, ListOfSet
<1>3. /\ SetToSeq(QueueBlock) \in Seq(QueueBlock)
      /\ Len(SetToSeq(QueueBlock)) = Cardinality(QueueBlock)
      /\ IsInjective(SetToSeq(QueueBlock))
  BY ResourceAssumption, ListOfSet
<1>4. queueFree \in Seq(QueueBlock) /\ IsInjective(queueFree)
  BY <1>1, <1>3, ListStart
<1>5. resFree = SetToSeq(ResBlock) /\ resources = {}
  BY DEF ResInit
<1>6. Shape
  <2>1. <<>> \in [{} -> ResBlock] /\ DOMAIN <<>> = {}
    OBVIOUS
  <2>2. \A p \in Proc : descriptors[p] = <<>> /\ lastFd[p] = 0
    BY DEF ResInit
  <2>3. NoUsers \in [Section -> SUBSET Handle]
    BY DEF NoUsers
  <2>4. /\ users \in [QueueBlock -> [Section -> SUBSET Handle]]
        /\ holders \in [ResBlock -> SUBSET Handle]
        /\ value \in [ResBlock -> QueueBlock \cup {NoBlock}]
        /\ type \in [ResBlock -> {0, PlainType, QueueType}]
        /\ DOMAIN id = ResBlock /\ DOMAIN descriptors = Proc /\ DOMAIN pc = Proc
        /\ resources \subseteq ResBlock
    BY <2>3 DEF ResInit
  <2>5. lastFd \in [Proc -> 0..MaxFd + 1]
    BY ResourceAssumption DEF ResInit
  <2>6. resFree \in Seq(ResBlock)
    BY <1>2, <1>5
  <2> QED BY <1>4, <2>1, <2>2, <2>4, <2>5, <2>6 DEF Shape
<1>7. HoldersAgree /\ Pinned /\ OneById
  BY DEF ResInit, HoldersAgree, Pinned, OneById, IsOpen
<1>8. ResourcesKept
  BY <1>2, <1>4, <1>5, ToSetIsRange DEF ResourcesKept
<1>9. Opening /\ Detaching /\ Closing
  BY DEF ResInit, Opening, Detaching, Closing
<1>10. UsersOpen
  BY DEF ResInit, UsersOpen, NoUsers
<1> QED BY <1>6, <1>7, <1>8, <1>9, <1>10 DEF ResInv

\* Every step of the resources keeps the invariant.
LEMMA ResStepInv == ResInv /\ [ResNext]_vars => ResInv'
<1> SUFFICES ASSUME ResInv, [ResNext]_vars PROVE ResInv'
  OBVIOUS
<1>1. CASE UNCHANGED vars
  <2>1. UNCHANGED <<resources, id, type, value, holders, resFree, descriptors,
                    lastFd, queueFree, users, pc>>
    BY <1>1 DEF vars, resVars, queueVars, userVars, procVars
  <2> QED BY <2>1 DEF ResInv, Shape, HoldersAgree, Pinned, OneById, ResourcesKept,
                      Opening, Detaching, Closing, UsersOpen, IsOpen
<1>2. ASSUME NEW p \in Proc, ResStep(p) PROVE ResInv'
  <2>1. CASE \E i \in Id, create, exclusive \in BOOLEAN :
                \/ OpenPlain(p, i, create, exclusive)
                \/ \E mode \in Modes : DmqOpen(p, i, create, exclusive, mode)
    BY <2>1, OpenPlainStep, DmqOpenStep
  <2>2. CASE \E i \in Id : OpenNewFails(p, i) \/ DestroyResource(p, i)
    BY <2>2, OpenNewFailsStep, DestroyResourceStep
  <2>3. CASE OpenQueue(p)
    BY <2>3, OpenQueueStep
  <2>4. CASE \E fd \in Fd : DmqClose(p, fd) \/ ClosePlain(p, fd)
    BY <2>4, DmqCloseStep, ClosePlainStep
  <2>5. CASE DetachUsers(p) \/ CloseQueue(p) \/ CountClosing(p) \/ Exit(p)
    BY <2>5, DetachUsersStep, CloseQueueStep, CountClosingStep, ExitStep
  <2> QED BY <1>2, <2>1, <2>2, <2>3, <2>4, <2>5 DEF ResStep
<1> QED BY <1>1, <1>2 DEF ResNext

(***************************************************************************)
(* The strengthened invariant: whatever the processes open, close, unlink  *)
(* and destroy, between their system calls and in any order, descriptors,  *)
(* resources, queue users and the calls under way agree.                   *)
(***************************************************************************)
THEOREM ResourceInvariant == ResSpec => []ResInv
<1> QED BY ResInitInv, ResStepInv, PTL DEF ResSpec

-----------------------------------------------------------------------------
(***************************************************************************)
(* The descriptors of the processes and the lists of the resources agree,  *)
(* and a resource with descriptors is never freed, however the calls of    *)
(* the processes interleave: what internal_destroyResource relies on when  *)
(* it looks at descriptors_ptrs only.                                      *)
(***************************************************************************)
THEOREM DescriptorsPinAlways == ResSpec => []DescriptorsPin
<1>1. ResInv => DescriptorsPin
  <2> SUFFICES ASSUME ResInv, NEW b \in ResBlock
               PROVE  /\ holders[b] = {h \in Handle :
                             IsOpen(h[1], h[2]) /\ descriptors[h[1]][h[2]] = b}
                      /\ holders[b] # {} => b \in resources
    BY DEF DescriptorsPin
  <2>1. holders[b] \subseteq Handle
    BY DEF ResInv, Shape
  <2>2. \A h \in Handle : h \in holders[b] <=>
            IsOpen(h[1], h[2]) /\ descriptors[h[1]][h[2]] = b
    BY DEF ResInv, HoldersAgree, Handle
  <2> QED BY <2>1, <2>2 DEF ResInv, Pinned
<1> QED BY <1>1, ResourceInvariant, PTL

(***************************************************************************)
(* The second system call of dmq_open finds the resource that the first    *)
(* one opened, whatever the other processes do between them.               *)
(***************************************************************************)
THEOREM OpenQueueFindsAlways == ResSpec => []OpenQueueFinds
<1>1. ResInv => OpenQueueFinds
  <2> SUFFICES ASSUME ResInv, NEW p \in Proc, pc[p].at = "openQueue"
               PROVE  /\ IsOpen(p, pc[p].fd)
                      /\ ById(pc[p].id) = {descriptors[p][pc[p].fd]}
                      /\ type[descriptors[p][pc[p].fd]] = QueueType
    BY DEF OpenQueueFinds
  <2>1. /\ pc[p].fd \in Fd /\ IsOpen(p, pc[p].fd)
        /\ id[descriptors[p][pc[p].fd]] = pc[p].id
        /\ type[descriptors[p][pc[p].fd]] = QueueType
    BY DEF ResInv, Opening
  <2>2. descriptors[p][pc[p].fd] \in resources
    BY <2>1, OpenDescriptor DEF ResInv
  <2> QED BY <2>1, <2>2 DEF ResInv, OneById, ById
<1> QED BY <1>1, ResourceInvariant, PTL

(***************************************************************************)
(* Every block of the resource pool is on the list or in the pool, once,   *)
(* and no block is twice in a free list, also when dmq_open has to undo    *)
(* its first half.                                                         *)
(***************************************************************************)
THEOREM ResourcesKeptAlways == ResSpec => []ResourcesKept
<1>1. ResInv => ResourcesKept
  BY DEF ResInv
<1> QED BY <1>1, ResourceInvariant, PTL

-----------------------------------------------------------------------------
(***************************************************************************)
(* The pool of queue users: what Queue_add_pid takes out of it.            *)
(***************************************************************************)
\* A set of lists is no larger than a set of places that has them all.
LEMMA ListsOfPlaces ==
  ASSUME NEW K \in SUBSET (1..3), NEW X, X \subseteq {SectionOrder[k] : k \in K}
  PROVE  /\ IsFiniteSet(K) /\ IsFiniteSet(X)
         /\ Cardinality(X) <= Cardinality(K)
<1> DEFINE Y == {SectionOrder[k] : k \in K}
           f == [k \in K |-> SectionOrder[k]]
<1>1. IsFiniteSet(K)
  <2>1. IsFiniteSet(1..3)
    <3>1. \A a, b \in Int : IsFiniteSet(a..b)
      BY FS_Interval
    <3>2. 1 \in Int /\ 3 \in Int
      OBVIOUS
    <3> QED BY <3>1, <3>2, Zenon
  <2> QED BY <2>1, FS_Subset
<1>2. f \in Surjection(K, Y)
  BY DEF Surjection
<1>3. IsFiniteSet(Y) /\ Cardinality(Y) <= Cardinality(K)
  BY <1>1, <1>2, FS_Surjection
<1>4. IsFiniteSet(X) /\ Cardinality(X) <= Cardinality(Y)
  BY <1>3, FS_Subset
<1> QED BY <1>1, <1>3, <1>4, FS_CardinalityType

\* Queue_add_pid takes no more users than there are.
LEMMA GrantedFits ==
  ASSUME NEW mode, NEW left \in Nat
  PROVE  /\ Granted(mode, left) \subseteq Section /\ IsFiniteSet(Granted(mode, left))
         /\ Cardinality(Granted(mode, left)) <= left
<1> DEFINE got == Granted(mode, left)
           Upto(j) == {k \in 1..j : SectionOrder[k] \in mode}
           room == left
<1>0. room \in Nat
  OBVIOUS
<1>1. /\ got \subseteq mode
      /\ \A s \in got : \E j \in 1..3 : SectionOrder[j] = s /\ Cardinality(Upto(j)) <= room
  BY DEF Granted
<1> HIDE DEF got, room
<1>2. /\ SectionOrder[1] = "readers" /\ SectionOrder[2] = "writers"
      /\ SectionOrder[3] = "non_block"
      /\ \A j \in 1..3 : /\ j = 1 \/ j = 2 \/ j = 3
                         /\ SectionOrder[j] = "writers" => j = 2
                         /\ SectionOrder[j] = "non_block" => j = 3
  <2>1. /\ SectionOrder[1] = "readers" /\ SectionOrder[2] = "writers"
        /\ SectionOrder[3] = "non_block"
    BY DEF SectionOrder
  <2>2. \A j \in 1..3 : j = 1 \/ j = 2 \/ j = 3
    OBVIOUS
  <2> QED BY <2>1, <2>2
<1>3. got \subseteq Section
  BY <1>1, <1>2 DEF Section
<1>4. ASSUME NEW j \in 1..3, Cardinality(Upto(j)) <= room,
             \A s \in got : \E k \in 1..j : SectionOrder[k] = s
      PROVE  IsFiniteSet(got) /\ Cardinality(got) <= room
  <2>1. Upto(j) \in SUBSET (1..3)
    OBVIOUS
  <2>2. got \subseteq {SectionOrder[k] : k \in Upto(j)}
    BY <1>1, <1>4
  <2> HIDE DEF Upto
  <2>3. /\ IsFiniteSet(Upto(j)) /\ IsFiniteSet(got)
        /\ Cardinality(got) <= Cardinality(Upto(j))
    BY <2>1, <2>2, ListsOfPlaces
  <2>4. Cardinality(got) \in Nat /\ Cardinality(Upto(j)) \in Nat
    BY <2>3, FS_CardinalityType
  <2> QED BY <1>0, <1>4, <2>3, <2>4
<1>5. CASE "non_block" \in got
  <2>1. Cardinality(Upto(3)) <= room
    <3>1. PICK j \in 1..3 : SectionOrder[j] = "non_block" /\ Cardinality(Upto(j)) <= room
      BY <1>1, <1>5
    <3>2. j = 3
      BY <1>2, <3>1
    <3> QED BY <3>1, <3>2
  <2>2. \A s \in got : \E k \in 1..3 : SectionOrder[k] = s
    BY <1>1
  <2> QED BY <1>4, <2>1, <2>2, <1>3 DEF got, room
<1>6. CASE "non_block" \notin got /\ "writers" \in got
  <2>1. Cardinality(Upto(2)) <= room
    <3>1. PICK j \in 1..3 : SectionOrder[j] = "writers" /\ Cardinality(Upto(j)) <= room
      BY <1>1, <1>6
    <3>2. j = 2
      BY <1>2, <3>1
    <3> QED BY <3>1, <3>2
  <2>2. \A s \in got : \E k \in 1..2 : SectionOrder[k] = s
    BY <1>2, <1>3, <1>6 DEF Section
  <2> QED BY <1>4, <2>1, <2>2, <1>3 DEF got, room
<1>7. CASE got = {"readers"}
  <2>1. Cardinality(Upto(1)) <= room
    BY <1>1, <1>2, <1>7
  <2>2. \A s \in got : \E k \in 1..1 : SectionOrder[k] = s
    BY <1>2, <1>7
  <2> QED BY <1>4, <2>1, <2>2, <1>3 DEF got, room
<1>8. CASE got = {}
  BY <1>0, <1>3, <1>8, FS_EmptySet DEF got, room
<1> QED BY <1>3, <1>5, <1>6, <1>7, <1>8 DEF Section

\* The fields that the other theorems do not need.
Counts ==
    /\ id \in [ResBlock -> Id] /\ openings \in [QueueBlock -> Int]
    /\ usersOut \subseteq Section \X Handle
    /\ IsFiniteSet(usersOut) /\ Cardinality(usersOut) <= UserPool
    /\ astray \in BOOLEAN

\* Users that go back make room.
LEMMA UsersGoBack ==
  ASSUME Counts, NEW out, out \subseteq usersOut
  PROVE  /\ out \subseteq Section \X Handle
         /\ IsFiniteSet(out) /\ Cardinality(out) <= UserPool
<1>1. IsFiniteSet(out) /\ Cardinality(out) <= Cardinality(usersOut)
  BY FS_Subset DEF Counts
<1>2. Cardinality(out) \in Nat /\ Cardinality(usersOut) \in Nat
  BY <1>1, FS_CardinalityType DEF Counts
<1> QED BY <1>1, <1>2, ResourceAssumption DEF Counts

\* So do users that are lost sight of.
LEMMA FollowedCounts ==
  ASSUME Counts, NEW p, NEW u, NEW out, NEW lost, Follow(p, u, out, lost),
         out \subseteq usersOut, openings' \in [QueueBlock -> Int], UNCHANGED id
  PROVE  Counts'
<1>1. astray' \in BOOLEAN /\ usersOut' \subseteq out
  BY DEF Follow
<1> QED BY <1>1, UsersGoBack DEF Counts

\* New users come out of the pool.
LEMMA AddPidCounts ==
  ASSUME Counts, NEW p, pc[p].fd \in Fd, p \in Proc, NEW q, NEW n \in Int, NEW lost,
         AddPid(p, q, n, lost), UNCHANGED id
  PROVE  Counts'
<1> PICK h \in Handle : h = <<p, pc[p].fd>>
  BY DEF Handle
<1> PICK room : room = UserPool - Cardinality(usersOut)
  OBVIOUS
<1>1. room \in Nat
  BY ResourceAssumption, FS_CardinalityType DEF Counts
<1> PICK left \in UsersLeft(p) :
        /\ Follow(p, Joined(q, Granted(pc[p].mode, left), h),
                  usersOut \cup (Granted(pc[p].mode, left) \X {h}), lost)
        /\ openings' = [openings EXCEPT ![q] =
                           IF Granted(pc[p].mode, left) = pc[p].mode THEN n + 1 ELSE n]
  BY DEF AddPid, Joined
<1> PICK got : got = Granted(pc[p].mode, left)
  OBVIOUS
<1> PICK u : u = Joined(q, got, h)
  OBVIOUS
<1>2. /\ Follow(p, u, usersOut \cup (got \X {h}), lost)
      /\ openings' = [openings EXCEPT ![q] = IF got = pc[p].mode THEN n + 1 ELSE n]
  OBVIOUS
<1> DEFINE new == got \X {h}
<1>3. left \in Nat
  BY <1>1 DEF UsersLeft
<1>4. got \subseteq Section /\ IsFiniteSet(got) /\ Cardinality(got) <= left
  BY <1>3, GrantedFits
<1>5. IsFiniteSet({h}) /\ Cardinality({h}) = 1
  BY FS_Singleton
<1>6. IsFiniteSet(new) /\ Cardinality(new) = Cardinality(got) * 1
  BY <1>4, <1>5, FS_Product
<1>7. new \subseteq Section \X Handle
  BY <1>4
<1>8. Follow(p, u, usersOut \cup new, lost)
  BY <1>2
<1> HIDE DEF new
<1>9. /\ IsFiniteSet(usersOut \cup new)
      /\ Cardinality(usersOut \cup new) =
            Cardinality(usersOut) + Cardinality(new) - Cardinality(usersOut \cap new)
  BY <1>6, FS_Union DEF Counts
<1>10. /\ Cardinality(usersOut) \in Nat /\ Cardinality(got) \in Nat
       /\ Cardinality(usersOut \cap new) \in Nat
  BY <1>4, <1>6, FS_CardinalityType, FS_Subset DEF Counts
<1>11. openings' \in [QueueBlock -> Int]
  <2> PICK m : m = IF got = pc[p].mode THEN n + 1 ELSE n
    OBVIOUS
  <2>1. m \in Int /\ openings' = [openings EXCEPT ![q] = m]
    BY <1>2
  <2> QED BY <2>1 DEF Counts
<1>12. astray' \in BOOLEAN
  BY <1>8 DEF Follow
<1>13. CASE astray' \/ usersOut \cup new = usersOut
  <2>1. usersOut' \subseteq usersOut
    BY <1>8, <1>13 DEF Follow
  <2> QED BY <1>11, <1>12, <2>1, UsersGoBack DEF Counts
<1>14. CASE ~ astray' /\ usersOut \cup new # usersOut
  <2>1. <<u, usersOut \cup new>> # <<users, usersOut>>
    BY <1>14
  <2>2. ~ astray /\ ~ Busy(p) /\ usersOut' = usersOut \cup new
    BY <1>8, <1>14, <2>1 DEF Follow
  <2>3. left = room
    BY <2>2 DEF UsersLeft
  <2>4. Cardinality(usersOut \cup new) <= UserPool
    BY <1>1, <1>4, <1>6, <1>9, <1>10, <2>3, ResourceAssumption
  <2> QED BY <1>7, <1>9, <1>11, <1>12, <2>2, <2>4 DEF Counts
<1> QED BY <1>13, <1>14

\* Every step keeps the fields and the pool of users.
LEMMA CountsStep == ResInv /\ Counts /\ [ResNext]_vars => Counts'
<1> SUFFICES ASSUME ResInv, Counts, [ResNext]_vars PROVE Counts'
  OBVIOUS
<1>1. CASE UNCHANGED vars
  BY <1>1 DEF vars, resVars, queueVars, userVars, Counts
<1>2. ASSUME NEW i \in Id, NEW t, AddResource(i, t), UNCHANGED queueVars PROVE Counts'
  BY <1>2 DEF AddResource, Counts, queueVars, userVars
<1>3. ASSUME NEW p \in Proc, NEW i \in Id, NEW t, NEW create, NEW exclusive,
             OpenResource(p, i, t, create, exclusive), UNCHANGED queueVars
      PROVE  Counts'
  <2>1. CASE OpenExisting(p, i, t, exclusive)
    BY <1>3, <2>1 DEF OpenExisting, Counts, queueVars, userVars
  <2>2. CASE OpenNew(p, i, t)
    BY <1>2, <1>3, <2>2 DEF OpenNew
  <2> QED BY <1>3, <2>1, <2>2 DEF OpenResource
<1>4. ASSUME NEW p \in Proc, OpenQueue(p) PROVE Counts'
  <2>1. PICK b \in ById(pc[p].id) : JoinQueue(p, b) \/ CreateQueue(p, b) \/ UndoOpen(p, b)
    BY <1>4 DEF OpenQueue
  <2>2. pc[p].fd \in Fd
    BY <1>4 DEF OpenQueue, ResInv, Opening
  <2>3. CASE JoinQueue(p, b)
    <3>1. b \in ResBlock
      BY <1>4, FoundIsOpened DEF OpenQueue
    <3>2. openings[value[b]] \in Int
      BY <2>3, <3>1 DEF JoinQueue, ResInv, Shape, Counts
    <3>3. UNCHANGED id
      BY <2>3 DEF JoinQueue, resVars
    <3> QED BY <2>2, <2>3, <3>2, <3>3, AddPidCounts DEF JoinQueue
  <2>4. CASE CreateQueue(p, b)
    BY <2>2, <2>4, AddPidCounts DEF CreateQueue
  <2>5. CASE UndoOpen(p, b)
    BY <2>5 DEF UndoOpen, Counts, queueVars, userVars
  <2> QED BY <2>1, <2>3, <2>4, <2>5
<1>5. ASSUME NEW p \in Proc, NEW fd \in Fd, DmqClose(p, fd) PROVE Counts'
  BY <1>5 DEF DmqClose, Counts, resVars, queueVars, userVars
<1>11. ASSUME NEW p \in Proc, DetachUsers(p) PROVE Counts'
  <2>1. openings' \in [QueueBlock -> Int] /\ UNCHANGED id
    BY <1>11 DEF DetachUsers, Counts, resVars
  <2> QED BY <1>11, <2>1, FollowedCounts DEF DetachUsers
<1>6. ASSUME NEW p \in Proc, NEW i \in Id, DestroyResource(p, i) PROVE Counts'
  <2>1. openings' \in [QueueBlock -> Int] /\ UNCHANGED id
    BY <1>6 DEF DestroyResource, Counts
  <2>2. ASSUME NEW q, QueueFree(p, q) PROVE Counts'
    BY <2>1, <2>2, FollowedCounts DEF QueueFree
  <2>3. CASE UNCHANGED userVars
    BY <2>1, <2>3 DEF Counts, userVars
  <2> QED BY <1>6, <2>2, <2>3 DEF DestroyResource
<1>7. ASSUME NEW p \in Proc, CountClosing(p) PROVE Counts'
  <2>1. openings' = [openings EXCEPT ![pc[p].queue] = @ - 1]
    BY <1>7 DEF CountClosing
  <2>2. openings' \in [QueueBlock -> Int]
    <3>1. CASE pc[p].queue \in QueueBlock
      BY <2>1, <3>1 DEF Counts
    <3>2. CASE pc[p].queue \notin QueueBlock
      BY <2>1, <3>2 DEF Counts
    <3> QED BY <3>1, <3>2
  <2> QED BY <1>7, <2>2 DEF CountClosing, Counts, resVars, userVars
<1>8. ASSUME NEW p \in Proc,
             CloseQueue(p) \/ ExitAlone(p) \/ \E fd \in Fd : ClosePlain(p, fd)
      PROVE  Counts'
  <2>1. UNCHANGED <<id, openings, usersOut, astray>>
    BY <1>8 DEF CloseQueue, ClosePlain, CloseResource, ExitAlone,
                queueVars, userVars, resVars
  <2> QED BY <2>1 DEF Counts
<1>12. ASSUME NEW p \in Proc, ExitAwaited(p) PROVE Counts'
  <2>1. openings' \in [QueueBlock -> Int] /\ UNCHANGED id
    BY <1>12 DEF ExitAwaited, Counts
  <2>2. PICK u : Follow(p, u, usersOut, FALSE)
    BY <1>12 DEF ExitAwaited
  <2> QED BY <2>1, <2>2, FollowedCounts
<1>9. ASSUME NEW p \in Proc, NEW i \in Id, OpenNewFails(p, i) PROVE Counts'
  BY <1>2, <1>9 DEF OpenNewFails
<1>10. ASSUME NEW p \in Proc, NEW i \in Id, NEW create, NEW exclusive,
              \/ OpenPlain(p, i, create, exclusive)
              \/ \E mode \in Modes : DmqOpen(p, i, create, exclusive, mode)
       PROVE  Counts'
  BY <1>3, <1>10 DEF OpenPlain, DmqOpen
<1> QED BY <1>1, <1>4, <1>5, <1>6, <1>7, <1>8, <1>9, <1>10, <1>11, <1>12
        DEF ResNext, ResStep, Exit

\* So they hold always.
LEMMA CountsAlways == ResSpec => []Counts
<1>1. ResInit => Counts
  <2> SUFFICES ASSUME ResInit PROVE Counts
    OBVIOUS
  <2>1. IsFiniteSet({}) /\ Cardinality({}) = 0
    BY FS_EmptySet
  <2>2. id \in [ResBlock -> Id]
    BY ResourceAssumption DEF ResInit
  <2>3. usersOut = {} /\ openings \in [QueueBlock -> Int]
    BY DEF ResInit
  <2>4. astray \in BOOLEAN
    BY DEF ResInit
  <2>5. /\ usersOut \subseteq Section \X Handle
        /\ IsFiniteSet(usersOut) /\ Cardinality(usersOut) <= UserPool
    BY <2>1, <2>3, ResourceAssumption
  <2> QED BY <2>2, <2>3, <2>4, <2>5 DEF Counts
<1> QED BY <1>1, CountsStep, ResourceInvariant, PTL DEF ResSpec

(***************************************************************************)
(* Every field keeps its type, and the users that Queue_add_pid hands out  *)
(* are never more than the pool has: it may stop in the middle of a mode.  *)
(***************************************************************************)
THEOREM ResTypeOKAlways == ResSpec => []ResTypeOK
<1>1. ResInv /\ Counts => ResTypeOK
  BY DEF ResInv, Shape, Counts, ResTypeOK
<1> QED BY <1>1, CountsAlways, ResourceInvariant, PTL

-----------------------------------------------------------------------------
(***************************************************************************)
(* Queue users and the pool they come from.                                *)
(***************************************************************************)
\* A user on a list is out, and one that is out is on a list or was left by
\* the exit of its process.
Accounted ==
    \A s \in Section, h \in Handle :
        /\ \A q \in QueueBlock : h \in users[q][s] => <<s, h>> \in usersOut
        /\ <<s, h>> \in usersOut =>
               pc[h[1]].at = "dead" \/ \E q \in QueueBlock : h \in users[q][s]

\* No process that has exited does anything.
Buried == \A h \in Handle : pc[h[1]].at = "dead" => pc'[h[1]].at = "dead"

\* What a step makes of the users is accounted for if they are followed.
LEMMA FollowedAccounted ==
  ASSUME NEW p, NEW u \in [QueueBlock -> [Section -> SUBSET Handle]], NEW out,
         NEW lost, Follow(p, u, out, lost),
         \A s \in Section, h \in Handle :
            /\ \A q \in QueueBlock : h \in u[q][s] => <<s, h>> \in out
            /\ <<s, h>> \in out =>
                   pc'[h[1]].at = "dead" \/ \E q \in QueueBlock : h \in u[q][s]
  PROVE  Accounted'
<1>1. \/ users' = u /\ usersOut' = out
      \/ usersOut' = {} /\ \A c \in QueueBlock, s \in Section : users'[c][s] = {}
  BY FollowedUsers
<1> QED BY <1>1 DEF Accounted

\* A process that has exited does nothing, and no other is moved.
LEMMA DeadStays ==
  ASSUME ResInv, NEW p \in Proc, ResStep(p), NEW r \in Proc, pc[r].at = "dead"
  PROVE  pc'[r].at = "dead"
<1>0. DOMAIN pc = Proc
  BY DEF ResInv, Shape
<1>1. pc[p].at # "dead" /\ (pc' = pc \/ \E label : pc' = [pc EXCEPT ![p] = label])
  <2>1. User.at # "dead"
    BY DEF User
  <2>2. CASE \E i \in Id, create, exclusive \in BOOLEAN :
                \/ OpenPlain(p, i, create, exclusive)
                \/ \E mode \in Modes : DmqOpen(p, i, create, exclusive, mode)
    BY <2>1, <2>2 DEF OpenPlain, DmqOpen, Goto
  <2>3. CASE \E i \in Id : OpenNewFails(p, i) \/ DestroyResource(p, i)
    BY <2>1, <2>3 DEF OpenNewFails, DestroyResource
  <2>4. CASE \E fd \in Fd : DmqClose(p, fd) \/ ClosePlain(p, fd)
    BY <2>1, <2>4 DEF DmqClose, ClosePlain, Goto
  <2>5. CASE OpenQueue(p) \/ DetachUsers(p)
    BY <2>5 DEF OpenQueue, DetachUsers, Goto
  <2>6. CASE CloseQueue(p) \/ CountClosing(p) \/ Exit(p)
    BY <2>1, <2>6 DEF CloseQueue, CountClosing, Exit, Goto
  <2> QED BY <2>2, <2>3, <2>4, <2>5, <2>6 DEF ResStep
<1>2. p # r
  BY <1>1
<1> QED BY <1>0, <1>1, <1>2

\* The same for the pool, and that h is on the lists of q only.
AreOut(out, got, h) ==
    \A s \in Section, x \in Handle :
        <<s, x>> \in out <=> <<s, x>> \in usersOut \/ (s \in got /\ x = h)

AreBack(out, h) ==
    \A s \in Section, x \in Handle :
        <<s, x>> \in out <=> <<s, x>> \in usersOut /\ x # h

OnlyOn(q, h) == \A c \in QueueBlock, s \in Section : h \in users[c][s] => c = q

\* New users on the lists of one queue that are taken out of the pool.
LEMMA JoinedAccounted ==
  ASSUME Accounted, Buried, NEW p, NEW q \in QueueBlock, NEW h \in Handle, NEW got,
         NEW u \in [QueueBlock -> [Section -> SUBSET Handle]], NEW out, NEW lost,
         Follow(p, u, out, lost), HaveJoined(u, q, got, h), AreOut(out, got, h)
  PROVE  Accounted'
<1>1. ASSUME NEW s \in Section, NEW g \in Handle, NEW c \in QueueBlock, g \in u[c][s]
      PROVE  <<s, g>> \in out
  BY <1>1 DEF Accounted, HaveJoined, AreOut
<1>2. ASSUME NEW s \in Section, NEW g \in Handle, <<s, g>> \in out
      PROVE  pc'[g[1]].at = "dead" \/ \E c \in QueueBlock : g \in u[c][s]
  <2>1. CASE <<s, g>> \in usersOut
    <3>1. pc'[g[1]].at = "dead" \/ \E c \in QueueBlock : g \in users[c][s]
      BY <2>1 DEF Accounted, Buried
    <3> QED BY <3>1 DEF HaveJoined
  <2>2. CASE s \in got /\ g = h
    BY <2>2 DEF HaveJoined
  <2> QED BY <1>2, <2>1, <2>2 DEF AreOut
<1> QED BY <1>1, <1>2, FollowedAccounted

\* Queue_add_pid takes the users out that it puts on the lists.
LEMMA AddPidAccounted ==
  ASSUME ResInv, Accounted, NEW p \in Proc, pc[p].fd \in Fd, NEW q \in QueueBlock,
         NEW n, NEW lost, AddPid(p, q, n, lost), Buried
  PROVE  Accounted'
<1> PICK h \in Handle : h = <<p, pc[p].fd>>
  BY DEF Handle
<1>1. PICK got : Follow(p, Joined(q, got, h), usersOut \cup (got \X {h}), lost)
  BY DEF AddPid, Joined
<1>2. users \in [QueueBlock -> [Section -> SUBSET Handle]]
  BY DEF ResInv, Shape
<1> PICK u : u = Joined(q, got, h)
  OBVIOUS
<1> PICK out : out = usersOut \cup (got \X {h})
  OBVIOUS
<1>3. u \in [QueueBlock -> [Section -> SUBSET Handle]] /\ HaveJoined(u, q, got, h)
  BY <1>2, JoinedUsers
<1>4. AreOut(out, got, h)
  BY DEF AreOut
<1>5. Follow(p, u, out, lost)
  BY <1>1
<1> QED BY <1>3, <1>4, <1>5, JoinedAccounted

\* Users taken off the only lists they are on, and put back into the pool.
LEMMA RemovedAccounted ==
  ASSUME Accounted, Buried, NEW p, NEW q \in QueueBlock, NEW h \in Handle,
         NEW u \in [QueueBlock -> [Section -> SUBSET Handle]], NEW out,
         Follow(p, u, out, FALSE), HaveLeft(u, q, h), OnlyOn(q, h),
         AreBack(out, h)
  PROVE  Accounted'
<1>1. ASSUME NEW s \in Section, NEW g \in Handle, NEW c \in QueueBlock, g \in u[c][s]
      PROVE  <<s, g>> \in out
  <2>1. g \in users[c][s] /\ g # h
    BY <1>1 DEF HaveLeft, OnlyOn
  <2> QED BY <2>1 DEF Accounted, AreBack
<1>2. ASSUME NEW s \in Section, NEW g \in Handle, <<s, g>> \in out
      PROVE  pc'[g[1]].at = "dead" \/ \E c \in QueueBlock : g \in u[c][s]
  <2>1. <<s, g>> \in usersOut /\ g # h
    BY <1>2 DEF AreBack
  <2>2. pc'[g[1]].at = "dead" \/ \E c \in QueueBlock : g \in users[c][s]
    BY <2>1 DEF Accounted, Buried
  <2> QED BY <2>1, <2>2 DEF HaveLeft
<1> QED BY <1>1, <1>2, FollowedAccounted

\* dmq_close gives back the users that it takes off the lists: they are on no
\* other.
LEMMA DetachAccounted ==
  ASSUME ResInv, Accounted, NEW p \in Proc, DetachUsers(p), Buried
  PROVE  Accounted'
<1>0. /\ pc[p].fd \in Fd /\ IsOpen(p, pc[p].fd) /\ pc[p].queue \in QueueBlock
      /\ value[descriptors[p][pc[p].fd]] = pc[p].queue
  BY DEF ResInv, Detaching, DetachUsers
<1> PICK h \in Handle : h = <<p, pc[p].fd>>
  BY <1>0 DEF Handle
<1> PICK q \in QueueBlock : q = pc[p].queue
  BY <1>0
<1> PICK u : u = Removed(q, h)
  OBVIOUS
<1> PICK out : out = usersOut \ (Section \X {h})
  OBVIOUS
<1>1. Follow(p, u, out, FALSE)
  BY DEF DetachUsers, Removed
<1>2. users \in [QueueBlock -> [Section -> SUBSET Handle]]
  BY DEF ResInv, Shape
<1>3. OnlyOn(q, h)
  BY <1>0 DEF ResInv, UsersOpen, OnlyOn
<1>4. u \in [QueueBlock -> [Section -> SUBSET Handle]] /\ HaveLeft(u, q, h)
  BY <1>2, RemovedUsers
<1>5. AreBack(out, h)
  BY DEF AreBack
<1> QED BY <1>1, <1>3, <1>4, <1>5, RemovedAccounted

\* exit leaves users of its own process out of the pool, and no other.
LEMMA ExitAccounted ==
  ASSUME ResInv, Accounted, NEW p \in Proc, ExitAwaited(p), pc'[p].at = "dead",
         Buried
  PROVE  Accounted'
<1>1. users \in [QueueBlock -> [Section -> SUBSET Handle]]
  BY DEF ResInv, Shape
<1> PICK u : u = LeftUsers(p)
  OBVIOUS
<1>2. /\ Follow(p, u, usersOut, FALSE)
      /\ u \in [QueueBlock -> [Section -> SUBSET Handle]]
  BY <1>1, LeftUsersType DEF ExitAwaited, LeftUsers
<1>3. ASSUME NEW c \in QueueBlock, NEW s \in Section, NEW g \in Handle
      PROVE  /\ g \in u[c][s] => g \in users[c][s]
             /\ g \in users[c][s] => g \in u[c][s] \/ g[1] = p
  BY DEF LeftUsers
<1>4. ASSUME NEW s \in Section, NEW g \in Handle, <<s, g>> \in usersOut
      PROVE  pc'[g[1]].at = "dead" \/ \E c \in QueueBlock : g \in u[c][s]
  <2>1. pc'[g[1]].at = "dead" \/ \E c \in QueueBlock : g \in users[c][s]
    BY <1>4 DEF Accounted, Buried
  <2> QED BY <1>3, <2>1
<1>5. ASSUME NEW s \in Section, NEW g \in Handle, NEW c \in QueueBlock, g \in u[c][s]
      PROVE  <<s, g>> \in usersOut
  BY <1>3, <1>5 DEF Accounted
<1> QED BY <1>2, <1>4, <1>5, FollowedAccounted

\* Every step accounts for the users.
LEMMA AccountedStep == ResInv /\ Accounted /\ [ResNext]_vars => Accounted'
<1> SUFFICES ASSUME ResInv, Accounted, [ResNext]_vars PROVE Accounted'
  OBVIOUS
<1>1. CASE UNCHANGED vars
  BY <1>1 DEF vars, queueVars, userVars, Accounted
<1>2. ASSUME NEW p \in Proc, ResStep(p) PROVE Accounted'
  <2>1. Buried
    BY <1>2, DeadStays DEF Buried, Handle
  <2>2. ASSUME UNCHANGED userVars PROVE Accounted'
    BY <2>1, <2>2 DEF userVars, Accounted, Buried
  <2>3. CASE \E i \in Id, create, exclusive \in BOOLEAN :
                \/ OpenPlain(p, i, create, exclusive)
                \/ \E mode \in Modes : DmqOpen(p, i, create, exclusive, mode)
    BY <2>2, <2>3 DEF OpenPlain, DmqOpen, queueVars
  <2>4. CASE \E i \in Id : OpenNewFails(p, i)
    BY <2>2, <2>4 DEF OpenNewFails, queueVars
  <2>5. CASE \E i \in Id : DestroyResource(p, i)
    <3>1. ASSUME NEW q, QueueFree(p, q) PROVE Accounted'
      <4>1. /\ Follow(p, users, usersOut, users[q] # NoUsers)
            /\ users \in [QueueBlock -> [Section -> SUBSET Handle]]
        BY <3>1 DEF QueueFree, ResInv, Shape
      <4>2. \A s \in Section, h \in Handle :
               /\ \A c \in QueueBlock : h \in users[c][s] => <<s, h>> \in usersOut
               /\ <<s, h>> \in usersOut =>
                      pc'[h[1]].at = "dead" \/ \E c \in QueueBlock : h \in users[c][s]
        BY <2>1 DEF Accounted, Buried
      <4> QED BY <4>1, <4>2, FollowedAccounted
    <3> QED BY <2>2, <2>5, <3>1 DEF DestroyResource
  <2>6. CASE OpenQueue(p)
    <3>1. PICK b \in ById(pc[p].id) : JoinQueue(p, b) \/ CreateQueue(p, b) \/ UndoOpen(p, b)
      BY <2>6 DEF OpenQueue
    <3>2. pc[p].fd \in Fd /\ b \in ResBlock
      BY <2>6, FoundIsOpened DEF OpenQueue
    <3>3. CASE JoinQueue(p, b)
      <4>1. value[b] \in QueueBlock
        BY <3>2, <3>3 DEF JoinQueue, ResInv, Shape
      <4> QED BY <2>1, <3>2, <3>3, <4>1, AddPidAccounted DEF JoinQueue
    <3>4. CASE CreateQueue(p, b)
      <4>1. Head(queueFree) \in QueueBlock
        BY <3>4 DEF CreateQueue, ResInv, Shape
      <4> QED BY <2>1, <3>2, <3>4, <4>1, AddPidAccounted DEF CreateQueue
    <3>5. CASE UndoOpen(p, b)
      BY <2>2, <3>5 DEF UndoOpen, queueVars
    <3> QED BY <3>1, <3>3, <3>4, <3>5
  <2>7. CASE \E fd \in Fd : DmqClose(p, fd) \/ ClosePlain(p, fd)
    BY <2>2, <2>7 DEF DmqClose, ClosePlain, CloseResource, queueVars
  <2>8. CASE DetachUsers(p)
    BY <2>1, <2>8, DetachAccounted
  <2>9. CASE CloseQueue(p) \/ CountClosing(p)
    BY <2>2, <2>9 DEF CloseQueue, CountClosing, CloseResource, queueVars
  <2>10. CASE Exit(p)
    <3>1. pc'[p].at = "dead"
      BY <2>10 DEF Exit, Goto, ResInv, Shape
    <3> QED BY <2>1, <2>2, <2>10, <3>1, ExitAccounted DEF Exit, ExitAlone, queueVars
  <2> QED BY <1>2, <2>3, <2>4, <2>5, <2>6, <2>7, <2>8, <2>9, <2>10 DEF ResStep
<1> QED BY <1>1, <1>2 DEF ResNext

(***************************************************************************)
(* As long as nothing happens to the lists of users inside dmq_close and   *)
(* no queue with users is freed, a QueueUser on a list is one of an open   *)
(* descriptor of the queue, and out of the pool; and dmq_open, dmq_close   *)
(* and dmq_unlink leave none out of the pool that is on no list.           *)
(***************************************************************************)
THEOREM UsersHaveDescriptorsAlways == ResSpec => []UsersHaveDescriptors
<1>1. ResInit => Accounted
  BY DEF ResInit, Accounted, NoUsers
<1>2. ResInv /\ Counts /\ Accounted => UsersHaveDescriptors
  <2> SUFFICES ASSUME ResInv, Counts, Accounted
               PROVE  UsersHaveDescriptors
    OBVIOUS
  <2>1. ASSUME NEW q \in QueueBlock, NEW s \in Section, NEW h \in users[q][s]
        PROVE  /\ IsOpen(h[1], h[2]) /\ value[descriptors[h[1]][h[2]]] = q
               /\ <<s, h>> \in usersOut
    <3>1. h \in Handle
      BY DEF ResInv, Shape
    <3> QED BY <3>1 DEF ResInv, UsersOpen, Handle, Accounted
  <2>2. ASSUME NEW u \in usersOut, \A q \in QueueBlock : u[2] \notin users[q][u[1]]
        PROVE  pc[u[2][1]].at = "dead"
    <3>1. u[1] \in Section /\ u[2] \in Handle /\ u = <<u[1], u[2]>>
      BY DEF Counts
    <3>2. <<u[1], u[2]>> \in usersOut
      BY <3>1
    <3> QED BY <2>2, <3>1, <3>2 DEF Accounted
  <2> QED BY <2>1, <2>2 DEF UsersHaveDescriptors
<1> QED BY <1>1, <1>2, AccountedStep, CountsAlways, ResourceInvariant, PTL DEF ResSpec

-----------------------------------------------------------------------------
(***************************************************************************)
(* Blocks, fds and the calls in two halves implement OpenResources.        *)
(***************************************************************************)
\* A descriptor is a process and an fd.
LEMMA HandleParts ==
  /\ \A h \in Handle : h[1] \in Proc /\ h[2] \in Fd /\ h = <<h[1], h[2]>>
  /\ \A p \in Proc, f \in Fd : <<p, f>> \in Handle
BY DEF Handle

\* The kind of an id is that of the one resource that has it.
LEMMA KindRead ==
  ASSUME NEW R, NEW f, NEW g, \A b, c \in R : f[b] = f[c] => b = c,
         NEW K, K = [i \in {f[b] : b \in R} |-> g[CHOOSE b \in R : f[b] = i]]
  PROVE  /\ \A i : i \in DOMAIN K <=> \E b \in R : f[b] = i
         /\ \A b \in R : K[f[b]] = g[b]
<1>1. ASSUME NEW b \in R PROVE (CHOOSE c \in R : f[c] = f[b]) = b
  OBVIOUS
<1> QED BY <1>1

\* A resource that is added takes its id, and the kinds of the others stay.
LEMMA CreateNamed ==
  ASSUME ResInv, NEW i, NEW t \in {PlainType, QueueType}, AddResource(i, t)
  PROVE  Names!Create(i, t)
<1> PICK new : new = Head(resFree)
  OBVIOUS
<1>1. /\ new \notin resources /\ resources' = resources \cup {new}
      /\ \A c \in resources : id'[c] = id[c] /\ type'[c] = type[c]
      /\ id'[new] = i /\ type'[new] = t
      /\ \A b, c \in resources' : id'[b] = id'[c] => b = c
      /\ \A b, c \in resources : id[b] = id[c] => b = c
  BY AddResourceEffect DEF ResInv, OneById
<1> PICK K : K = KindOf
  OBVIOUS
<1> PICK L : L = KindOf'
  OBVIOUS
<1>2. /\ \A j : j \in DOMAIN K <=> \E b \in resources : id[b] = j
      /\ \A b \in resources : K[id[b]] = type[b]
  BY <1>1, KindRead DEF KindOf
<1>3. /\ \A j : j \in DOMAIN L <=> \E b \in resources' : id'[b] = j
      /\ \A b \in resources' : L[id'[b]] = type'[b]
  BY <1>1, KindRead DEF KindOf
<1>4. i \notin DOMAIN K
  BY <1>2 DEF AddResource, ById
<1>5. DOMAIN L = DOMAIN K \cup {i}
  BY <1>1, <1>2, <1>3
<1>6. \A j \in DOMAIN L : L[j] = IF j = i THEN t ELSE K[j]
  <2>1. L[i] = t
    BY <1>1, <1>3
  <2>2. ASSUME NEW j \in DOMAIN L, j # i PROVE L[j] = K[j]
    <3>1. PICK b \in resources : id[b] = j
      BY <1>2, <1>5, <2>2
    <3> QED BY <1>1, <1>2, <1>3, <3>1
  <2> QED BY <2>1, <2>2
<1>7. L = [j \in DOMAIN K \cup {i} |-> IF j = i THEN t ELSE K[j]]
  <2>1. L = [j \in DOMAIN L |-> L[j]]
    BY DEF KindOf
  <2> QED BY <1>5, <1>6, <2>1
<1> QED BY <1>4, <1>7 DEF Names!Create

\* A resource that leaves the list gives its id back.
LEMMA DropNamed ==
  ASSUME ResInv, NEW b \in resources, resources' = resources \ {b},
         UNCHANGED <<id, type>>
  PROVE  Names!Drop(id[b])
<1> PICK K : K = KindOf
  OBVIOUS
<1> PICK L : L = KindOf'
  OBVIOUS
<1>1. \A c, d \in resources : id[c] = id[d] => c = d
  BY DEF ResInv, OneById
<1>2. /\ \A j : j \in DOMAIN K <=> \E c \in resources : id[c] = j
      /\ \A c \in resources : K[id[c]] = type[c]
  BY <1>1, KindRead DEF KindOf
<1>3. /\ \A j : j \in DOMAIN L <=> \E c \in resources' : id'[c] = j
      /\ \A c \in resources' : L[id'[c]] = type'[c]
  BY <1>1, KindRead DEF KindOf
<1>4. DOMAIN L = DOMAIN K \ {id[b]}
  BY <1>1, <1>2, <1>3
<1>5. ASSUME NEW j \in DOMAIN L PROVE L[j] = K[j]
  <2>1. PICK c \in resources' : id[c] = j
    BY <1>3, <1>5
  <2> QED BY <1>2, <1>3, <2>1
<1>6. L = [j \in DOMAIN L |-> L[j]]
  BY DEF KindOf
<1> QED BY <1>4, <1>5, <1>6 DEF Names!Drop

\* A new descriptor was never given out, and stands for the id of its resource.
LEMMA GiveNamed ==
  ASSUME ResInv, NEW p \in Proc, NEW b \in ResBlock, lastFd[p] <= MaxFd,
         AddDescriptor(p, b), \A c \in resources : id'[c] = id[c]
  PROVE  /\ <<p, lastFd[p]>> \in (Proc \X Fd) \ Given
         /\ Names!Give(<<p, lastFd[p]>>, id'[b])
<1> PICK n : n = lastFd[p]
  OBVIOUS
<1> PICK h : h = <<p, n>>
  OBVIOUS
<1>1. /\ n \in Fd /\ n \in Int /\ ~ IsOpen(p, n) /\ h \in Handle
      /\ \A r \in Proc, f \in Fd : IsOpen(r, f)' <=> IsOpen(r, f) \/ (r = p /\ f = n)
      /\ \A r \in Proc, f \in Fd : IsOpen(r, f) => descriptors'[r][f] = descriptors[r][f]
      /\ descriptors'[p][n] = b
  BY AddDescriptorEffect, HandleParts DEF Fd
<1>2. /\ lastFd \in [Proc -> 0..MaxFd + 1]
      /\ lastFd' = [lastFd EXCEPT ![p] = @ + 1]
  BY DEF ResInv, Shape, AddDescriptor
<1>3. h \notin Given
  BY <1>1 DEF Given
<1>4. Given' = Given \cup {h}
  <2>1. ASSUME NEW g \in Handle PROVE g[2] < lastFd'[g[1]] <=> g[2] < lastFd[g[1]] \/ g = h
    <3>1. g[1] \in Proc /\ g[2] \in Int /\ g = <<g[1], g[2]>> /\ lastFd[g[1]] \in Int
      BY <1>2, HandleParts DEF Fd
    <3>2. CASE g[1] = p
      BY <1>1, <1>2, <3>1, <3>2
    <3>3. CASE g[1] # p
      BY <1>2, <3>1, <3>3
    <3> QED BY <3>2, <3>3
  <2> QED BY <1>1, <2>1 DEF Given
<1>5. OpenHandles' = OpenHandles \cup {h}
  <2>1. ASSUME NEW g \in Handle
        PROVE  IsOpen(g[1], g[2])' <=> IsOpen(g[1], g[2]) \/ g = h
    <3>1. g[1] \in Proc /\ g[2] \in Fd /\ g = <<g[1], g[2]>>
      BY HandleParts
    <3>2. g = h <=> g[1] = p /\ g[2] = n
      BY <3>1
    <3> QED BY <1>1, <3>1, <3>2
  <2> QED BY <1>1, <2>1 DEF OpenHandles
<1>6. ASSUME NEW g \in OpenHandles
      PROVE  g # h /\ id'[descriptors'[g[1]][g[2]]] = id[descriptors[g[1]][g[2]]]
  <2>1. g[1] \in Proc /\ g[2] \in Fd /\ IsOpen(g[1], g[2])
    BY HandleParts DEF OpenHandles
  <2>2. descriptors[g[1]][g[2]] \in resources
    BY <2>1, OpenDescriptor DEF ResInv
  <2>3. descriptors'[g[1]][g[2]] = descriptors[g[1]][g[2]]
    BY <1>1, <2>1
  <2>4. g # h
    BY <1>1, <2>1
  <2> QED BY <2>2, <2>3, <2>4
<1>7. id'[descriptors'[h[1]][h[2]]] = id'[b]
  BY <1>1
<1>8. IdOf' = [g \in DOMAIN IdOf \cup {h} |-> IF g = h THEN id'[b] ELSE IdOf[g]]
  BY <1>5, <1>6, <1>7 DEF IdOf
<1> QED BY <1>1, <1>3, <1>4, <1>8, HandleParts DEF Names!Give, Handle

\* Descriptors that are closed stand for nothing; the others stay.
LEMMA TakenBack ==
  ASSUME NEW H, OpenHandles' = OpenHandles \ H, UNCHANGED <<id, lastFd>>,
         \A h \in OpenHandles \ H : descriptors'[h[1]][h[2]] = descriptors[h[1]][h[2]]
  PROVE  Names!TakeBack(H)
<1>1. Given' = Given
  BY DEF Given
<1>2. IdOf' = [h \in DOMAIN IdOf \ H |-> IdOf[h]]
  BY DEF IdOf
<1> QED BY <1>1, <1>2 DEF Names!TakeBack

\* A descriptor that is closed stands for nothing; the others stay.
LEMMA CloseNamed ==
  ASSUME ResInv, NEW p \in Proc, NEW n \in Fd, IsOpen(p, n), RemoveDescriptor(p, n),
         UNCHANGED id
  PROVE  <<p, n>> \in DOMAIN IdOf /\ Names!TakeBack({<<p, n>>})
<1> PICK h : h = <<p, n>>
  OBVIOUS
<1>1. /\ \A r \in Proc, f \in Fd : IsOpen(r, f)' <=> IsOpen(r, f) /\ ~ (r = p /\ f = n)
      /\ \A r \in Proc, f \in Fd : IsOpen(r, f)' => descriptors'[r][f] = descriptors[r][f]
      /\ UNCHANGED lastFd
  BY RemoveDescriptorEffect DEF RemoveDescriptor
<1>2. OpenHandles' = OpenHandles \ {h}
  <2>1. ASSUME NEW g \in Handle
        PROVE  IsOpen(g[1], g[2])' <=> IsOpen(g[1], g[2]) /\ g # h
    BY <1>1, HandleParts
  <2> QED BY <2>1 DEF OpenHandles
<1>3. \A g \in OpenHandles \ {h} : descriptors'[g[1]][g[2]] = descriptors[g[1]][g[2]]
  <2>1. \A g \in OpenHandles \ {h} : g[1] \in Proc /\ g[2] \in Fd /\ IsOpen(g[1], g[2])'
    BY <1>2, HandleParts DEF OpenHandles
  <2> QED BY <1>1, <2>1
<1>4. h \in DOMAIN IdOf
  <2>1. h \in Handle /\ h[1] = p /\ h[2] = n
    BY HandleParts
  <2>2. IsOpen(h[1], h[2])
    BY <2>1
  <2>3. h \in OpenHandles
    BY <2>1, <2>2 DEF OpenHandles
  <2> QED BY <2>3 DEF IdOf
<1> QED BY <1>1, <1>2, <1>3, <1>4, TakenBack

\* What internal_openResource does.
LEMMA OpenNamed ==
  ASSUME ResInv, NEW p \in Proc, NEW i \in Id, NEW t \in {PlainType, QueueType},
         NEW create, NEW exclusive, OpenResource(p, i, t, create, exclusive)
  PROVE  Names!Next
<1> PICK h : h = <<p, lastFd[p]>>
  OBVIOUS
<1>1. lastFd[p] <= MaxFd
  BY DEF OpenResource
<1>2. CASE OpenExisting(p, i, t, exclusive)
  <2>1. PICK b \in ById(i) : AddDescriptor(p, b) /\ UNCHANGED <<resources, id, type>>
    BY <1>2 DEF OpenExisting
  <2>2. b \in resources /\ b \in ResBlock /\ id[b] = i
    BY DEF ById, ResInv, Shape
  <2>3. h \in (Proc \X Fd) \ Given /\ Names!Give(h, id'[b])
    BY <1>1, <2>1, <2>2, GiveNamed
  <2>4. KindOf' = KindOf /\ i \in DOMAIN KindOf
    BY <2>1, <2>2 DEF KindOf
  <2>5. Names!Open(h, i)
    BY <2>1, <2>2, <2>3, <2>4 DEF Names!Open
  <2> QED BY <2>3, <2>5 DEF Names!Next
<1>3. CASE OpenNew(p, i, t)
  <2> PICK b : b = Head(resFree)
    OBVIOUS
  <2>1. AddResource(i, t) /\ AddDescriptor(p, b)
    BY <1>3 DEF OpenNew
  <2>2. b \in ResBlock /\ id'[b] = i /\ \A c \in resources : id'[c] = id[c]
    BY <2>1, AddResourceEffect
  <2>3. h \in (Proc \X Fd) \ Given /\ Names!Give(h, i)
    BY <1>1, <2>1, <2>2, GiveNamed
  <2>4. Names!OpenNew(h, i, t)
    BY <2>1, <2>3, CreateNamed DEF Names!OpenNew
  <2> QED BY <2>3, <2>4 DEF Names!Next
<1> QED BY <1>2, <1>3 DEF OpenResource

\* The names do not see what happens to queues and their users.
LEMMA NamesUnchanged ==
  ASSUME UNCHANGED <<resources, id, type, descriptors, lastFd>>
  PROVE  UNCHANGED Names!vars
<1>1. OpenHandles' = OpenHandles
  BY DEF OpenHandles, IsOpen
<1>2. KindOf' = KindOf /\ IdOf' = IdOf /\ Given' = Given
  BY <1>1 DEF KindOf, IdOf, Given
<1> QED BY <1>2 DEF Names!vars

\* dmq_open undone closes the descriptor, with the resource if it was the last.
LEMMA UndoNamed ==
  ASSUME ResInv, NEW p \in Proc, pc[p].at = "openQueue", NEW b \in ById(pc[p].id),
         UndoOpen(p, b)
  PROVE  Names!Next
<1> PICK n : n = pc[p].fd
  OBVIOUS
<1> PICK h : h = <<p, n>>
  OBVIOUS
<1>1. /\ n \in Fd /\ IsOpen(p, n) /\ b \in resources /\ b \in ResBlock
      /\ b = descriptors[p][n]
  BY FoundIsOpened
<1>2. RemoveDescriptor(p, n) /\ UNCHANGED <<id, type>>
  BY DEF UndoOpen
<1>3. h \in DOMAIN IdOf /\ Names!TakeBack({h})
  BY <1>1, <1>2, CloseNamed
<1>4. CASE holders'[b] = {}
  <2>1. resources' = resources \ {b}
    BY <1>4 DEF UndoOpen
  <2>2. IdOf[h] = id[b]
    BY <1>1, <1>3 DEF IdOf
  <2>3. ASSUME NEW g \in DOMAIN IdOf, IdOf[g] = id[b] PROVE g = h
    <3>1. /\ g[1] \in Proc /\ g[2] \in Fd /\ IsOpen(g[1], g[2])
          /\ g = <<g[1], g[2]>> /\ id[descriptors[g[1]][g[2]]] = id[b]
      BY <2>3, HandleParts DEF IdOf, OpenHandles
    <3>2. /\ descriptors[g[1]][g[2]] \in resources
          /\ <<g[1], g[2]>> \in holders[descriptors[g[1]][g[2]]]
      BY <3>1, OpenDescriptor DEF ResInv
    <3>3. g \in holders[b]
      BY <1>1, <3>1, <3>2 DEF ResInv, OneById
    <3>4. holders'[b] = holders[b] \ {h}
      BY <1>1, <1>2 DEF RemoveDescriptor, ResInv, Shape
    <3> QED BY <1>4, <3>3, <3>4
  <2>4. Names!Drop(IdOf[h])
    BY <1>1, <1>2, <2>1, <2>2, DropNamed
  <2>5. Names!Withdraw(h)
    BY <1>3, <2>2, <2>3, <2>4 DEF Names!Withdraw
  <2> QED BY <1>3, <2>5 DEF Names!Next
<1>5. CASE holders'[b] # {}
  <2>1. KindOf' = KindOf
    <3>1. UNCHANGED <<resources, id, type>>
      BY <1>2, <1>5 DEF UndoOpen
    <3> QED BY <3>1 DEF KindOf
  <2> QED BY <1>3, <2>1 DEF Names!Close, Names!Next
<1> QED BY <1>4, <1>5

\* A resource is destroyed when no descriptor stands for its id.
LEMMA DestroyNamed ==
  ASSUME ResInv, NEW p \in Proc, NEW i \in Id, DestroyResource(p, i)
  PROVE  Names!Next
<1>1. PICK b \in ById(i) : holders[b] = {} /\ resources' = resources \ {b}
  BY DEF DestroyResource, InUse
<1>2. b \in resources /\ id[b] = i /\ UNCHANGED <<id, type, descriptors, lastFd>>
  BY DEF ById, DestroyResource, procVars
<1>3. i \in DOMAIN KindOf
  BY <1>2 DEF KindOf
<1>4. ASSUME NEW g \in DOMAIN IdOf PROVE IdOf[g] # i
  <2>1. g[1] \in Proc /\ g[2] \in Fd /\ IsOpen(g[1], g[2])
    BY HandleParts DEF IdOf, OpenHandles
  <2>2. /\ descriptors[g[1]][g[2]] \in resources
        /\ <<g[1], g[2]>> \in holders[descriptors[g[1]][g[2]]]
    BY <2>1, OpenDescriptor DEF ResInv
  <2>3. IdOf[g] = id[descriptors[g[1]][g[2]]]
    BY DEF IdOf
  <2> QED BY <1>1, <1>2, <2>2, <2>3 DEF ResInv, OneById
<1>5. Names!Drop(i)
  BY <1>1, <1>2, DropNamed
<1>6. IdOf' = IdOf /\ Given' = Given
  BY <1>2 DEF IdOf, Given, OpenHandles, IsOpen
<1>7. Names!Destroy(i)
  BY <1>3, <1>4, <1>5, <1>6 DEF Names!Destroy
<1> QED BY <1>7 DEF Names!Next

\* exit closes the descriptors of the process.
LEMMA LeaveNamed ==
  ASSUME ResInv, NEW p \in Proc, ExitAwaited(p)
  PROVE  Names!Next
<1>1. /\ descriptors' = [descriptors EXCEPT ![p] = <<>>]
      /\ UNCHANGED <<resources, id, type, lastFd>> /\ DOMAIN descriptors = Proc
  BY DEF ExitAwaited, ResInv, Shape
<1>2. ASSUME NEW g \in Handle
      PROVE  IsOpen(g[1], g[2])' <=> IsOpen(g[1], g[2]) /\ g \notin {p} \X Fd
  <2>1. g[1] \in Proc /\ g[2] \in Fd /\ g = <<g[1], g[2]>>
    BY HandleParts
  <2>2. CASE g[1] = p
    <3>1. descriptors'[p] = <<>> /\ DOMAIN <<>> = {}
      BY <1>1
    <3> QED BY <2>1, <2>2, <3>1 DEF IsOpen
  <2>3. CASE g[1] # p
    BY <1>1, <2>1, <2>3 DEF IsOpen
  <2> QED BY <2>2, <2>3
<1>3. OpenHandles' = OpenHandles \ ({p} \X Fd)
  BY <1>2 DEF OpenHandles
<1>4. ASSUME NEW g \in OpenHandles \ ({p} \X Fd)
      PROVE  descriptors'[g[1]][g[2]] = descriptors[g[1]][g[2]]
  <2>1. g[1] \in Proc /\ g[1] # p
    BY HandleParts DEF OpenHandles
  <2> QED BY <1>1, <2>1
<1>5. Names!TakeBack({p} \X Fd)
  BY <1>1, <1>3, <1>4, TakenBack
<1>6. KindOf' = KindOf
  BY <1>1 DEF KindOf
<1> QED BY <1>5, <1>6 DEF Names!Leave, Names!Next

\* Every step is one of the names, or they do not see it.
LEMMA StepNamed == ResInv /\ [ResNext]_vars => [Names!Next]_(Names!vars)
<1> SUFFICES ASSUME ResInv, [ResNext]_vars PROVE [Names!Next]_(Names!vars)
  OBVIOUS
<1>1. CASE UNCHANGED vars
  BY <1>1, NamesUnchanged DEF vars, resVars, procVars
<1>2. ASSUME NEW p \in Proc, NEW i \in Id, NEW create, NEW exclusive,
             \/ OpenPlain(p, i, create, exclusive)
             \/ \E mode \in Modes : DmqOpen(p, i, create, exclusive, mode)
      PROVE  Names!Next
  BY <1>2, OpenNamed DEF OpenPlain, DmqOpen
<1>3. ASSUME NEW p \in Proc, NEW i \in Id, OpenNewFails(p, i) PROVE Names!Next
  <2>1. PICK t \in {PlainType, QueueType} : AddResource(i, t)
    BY <1>3 DEF OpenNewFails
  <2>2. Names!Create(i, t)
    BY <2>1, CreateNamed
  <2>3. \A c \in resources : id'[c] = id[c]
    BY <2>1, AddResourceEffect
  <2>4. UNCHANGED <<descriptors, lastFd>>
    BY <1>3 DEF OpenNewFails, procVars
  <2>5. OpenHandles' = OpenHandles /\ Given' = Given
    BY <2>4 DEF OpenHandles, IsOpen, Given
  <2>6. IdOf' = IdOf
    <3>1. ASSUME NEW g \in OpenHandles
          PROVE  id'[descriptors'[g[1]][g[2]]] = id[descriptors[g[1]][g[2]]]
      <4>1. g[1] \in Proc /\ IsOpen(g[1], g[2])
        BY HandleParts DEF OpenHandles
      <4> QED BY <2>3, <2>4, <4>1, OpenDescriptor DEF ResInv
    <3> QED BY <2>5, <3>1 DEF IdOf
  <2> QED BY <2>2, <2>5, <2>6 DEF Names!CreateOnly, Names!Next
<1>4. ASSUME NEW p \in Proc, OpenQueue(p) PROVE [Names!Next]_(Names!vars)
  <2>1. /\ pc[p].at = "openQueue"
        /\ \E b \in ById(pc[p].id) : JoinQueue(p, b) \/ CreateQueue(p, b) \/ UndoOpen(p, b)
    BY <1>4 DEF OpenQueue
  <2>2. ASSUME NEW b \in ById(pc[p].id), JoinQueue(p, b) \/ CreateQueue(p, b)
        PROVE  UNCHANGED Names!vars
    BY <2>2, NamesUnchanged DEF JoinQueue, CreateQueue, resVars, procVars
  <2> QED BY <2>1, <2>2, UndoNamed
<1>5. ASSUME NEW p \in Proc, NEW fd \in Fd, DmqClose(p, fd)
      PROVE  UNCHANGED Names!vars
  BY <1>5, NamesUnchanged DEF DmqClose, resVars, procVars
<1>11. ASSUME NEW p \in Proc, DetachUsers(p) PROVE UNCHANGED Names!vars
  BY <1>11, NamesUnchanged DEF DetachUsers, resVars, procVars
<1>6. ASSUME NEW p \in Proc, NEW n \in Fd, IsOpen(p, n), CloseResource(p, n)
      PROVE  Names!Next
  <2>1. RemoveDescriptor(p, n) /\ UNCHANGED <<resources, id, type>>
    BY <1>6 DEF CloseResource
  <2>2. <<p, n>> \in DOMAIN IdOf /\ Names!TakeBack({<<p, n>>})
    BY <1>6, <2>1, CloseNamed
  <2>3. KindOf' = KindOf
    BY <2>1 DEF KindOf
  <2> QED BY <2>2, <2>3 DEF Names!Close, Names!Next
<1>7. ASSUME NEW p \in Proc, CloseQueue(p) PROVE Names!Next
  <2>1. pc[p].fd \in Fd /\ IsOpen(p, pc[p].fd) /\ CloseResource(p, pc[p].fd)
    BY <1>7 DEF CloseQueue, ResInv, Closing
  <2> QED BY <1>6, <2>1
<1>8. ASSUME NEW p \in Proc, NEW fd \in Fd, ClosePlain(p, fd) PROVE Names!Next
  BY <1>6, <1>8 DEF ClosePlain
<1>9. ASSUME NEW p \in Proc, CountClosing(p) PROVE UNCHANGED Names!vars
  BY <1>9, NamesUnchanged DEF CountClosing, resVars, procVars
<1>10. ASSUME NEW p \in Proc, Exit(p) PROVE [Names!Next]_(Names!vars)
  BY <1>10, LeaveNamed, NamesUnchanged DEF Exit, ExitAlone, resVars, procVars
<1> QED BY <1>1, <1>2, <1>3, <1>4, <1>5, <1>7, <1>8, <1>9, <1>10, <1>11, DestroyNamed
        DEF ResNext, ResStep

(***************************************************************************)
(* No descriptor ever stands for another resource than the one it was      *)
(* opened for, and no fd is given out twice, whatever blocks and queues    *)
(* are used again between the calls.                                       *)
(***************************************************************************)
THEOREM ResourcesImplementOpenResources == ResSpec => ImplementsOpenResources
<1>1. ResInit => Names!Init
  <2> SUFFICES ASSUME ResInit PROVE Names!Init
    OBVIOUS
  <2>1. \A p \in Proc : descriptors[p] = <<>> /\ lastFd[p] = 0
    BY DEF ResInit
  <2>2. \A h \in Handle : h[1] \in Proc /\ ~ (h[2] < 0)
    BY HandleParts, ResourceAssumption DEF Fd
  <2>3. OpenHandles = {} /\ Given = {}
    BY <2>1, <2>2 DEF OpenHandles, IsOpen, Given
  <2>4. KindOf = [i \in {} |-> 0]
    BY DEF ResInit, KindOf
  <2>5. IdOf = [h \in {} |-> 0]
    BY <2>3 DEF IdOf
  <2> QED BY <2>3, <2>4, <2>5 DEF Names!Init
<1>2. ResInv /\ [ResNext]_vars => [Names!Next]_(Names!vars)
  BY StepNamed
<1> QED BY <1>1, <1>2, ResourceInvariant, PTL
        DEF ResSpec, ImplementsOpenResources, Names!Spec

=============================================================================
