----------------------------- MODULE Resources -----------------------------
(***************************************************************************)
(* Resources, descriptors and queues: who has what open.  dmq_open and     *)
(* dmq_close are several system calls, between which every other process   *)
(* may open, close or unlink, and pc says what a process does next.        *)
(*                                                                         *)
(* A resource or a queue is named by its block of the pool, which keeps    *)
(* its fields when it is freed; a pool hands out the block that was freed  *)
(* last.  A descriptor is <<process, fd>>, and so are its entry in the     *)
(* list of a resource and its QueueUsers, which the code finds by the      *)
(* pointers in the descriptor.  Messages are the subject of Messaging.     *)
(*                                                                         *)
(* Of the pools of descriptors and queue users only the blocks that are    *)
(* out are modelled: what fails when there is none left, and what never    *)
(* comes back.                                                             *)
(*                                                                         *)
(* The lists and the pool of the QueueUsers are followed as long as they   *)
(* are what the calls make of them one after the other.  Two things end    *)
(* that, and astray says that one of them happened: a call that changes    *)
(* them while another process is inside the user mode part of dmq_close,   *)
(* which works on both without SIGALRM blocked (QueueClosing has those     *)
(* steps), and the freeing, or the giving out again, of a queue that still *)
(* has users: it is the queue of two resources then (QueueInitialized),    *)
(* and the pointers of the other resource's descriptors dangle.  From then *)
(* on the lists are empty here and mean nothing, and how many users        *)
(* dmq_open gets is anybody's guess.                                       *)
(***************************************************************************)
EXTENDS Integers, Sequences, FiniteSets, SequencesExt

CONSTANTS Proc, Id,
          ResBlock,     \* the blocks of the resource pool
          QueueBlock,   \* the blocks of the queue pool
          NoBlock,      \* the null pointer
          Modes,        \* the lists that dmq_open may be asked to join
          DescriptorPool, UserPool, \* the sizes of these pools
          MaxFd         \* bound on the descriptors a process opens

ASSUME ResourceAssumption ==
    /\ IsFiniteSet(ResBlock) /\ IsFiniteSet(QueueBlock)
    /\ NoBlock \notin ResBlock \cup QueueBlock
    /\ Modes \subseteq SUBSET {"readers", "writers", "non_block"}
    /\ DescriptorPool \in Nat /\ UserPool \in Nat
    /\ MaxFd \in Nat /\ Id # {}

VARIABLES resources,               \* resources_list
          id, type, value,         \* fields of a resource
          holders,                 \* descriptors_ptrs of a resource
          resFree, queueFree,      \* the free lists of the two pools
          users, openings,         \* the three lists of a queue, its openings
          usersOut,                \* the queue users that are allocated
          astray,                  \* history: the users were lost sight of
          descriptors,             \* resource of each open fd of a process
          lastFd,                  \* last_fd of a process
          pc

resVars == <<resources, id, type, value, holders, resFree>>
userVars == <<users, usersOut, astray>>
queueVars == <<queueFree, openings, userVars>>
procVars == <<descriptors, lastFd>>
vars == <<resVars, queueVars, procVars, pc>>

Fd == 0..MaxFd
Handle == Proc \X Fd
Section == {"readers", "writers", "non_block"}
SectionOrder == <<"readers", "writers", "non_block">>
NoUsers == [s \in Section |-> {}]

PlainType == 1
QueueType == 2

\* The queue pool is of any size up to that of QueueBlock.
ResInit ==
    /\ resources = {}
    /\ id = [b \in ResBlock |-> CHOOSE i \in Id : TRUE]
    /\ type = [b \in ResBlock |-> 0]
    /\ value = [b \in ResBlock |-> NoBlock]
    /\ holders = [b \in ResBlock |-> {}]
    /\ resFree = SetToSeq(ResBlock)
    /\ \E n \in 1..Cardinality(QueueBlock) :
          queueFree = SubSeq(SetToSeq(QueueBlock), 1, n)
    /\ users = [q \in QueueBlock |-> NoUsers]
    /\ openings = [q \in QueueBlock |-> 0]
    /\ usersOut = {}
    /\ astray = FALSE
    /\ descriptors = [p \in Proc |-> <<>>]
    /\ lastFd = [p \in Proc |-> 0]
    /\ pc = [p \in Proc |-> [at |-> "user"]]

Goto(p, label) == pc' = [pc EXCEPT ![p] = label]
User == [at |-> "user"]

\* ResourceList_byId, as the set of the one resource found, or of none.
ById(i) == {b \in resources : id[b] = i}

\* DescriptorList_byFd.
IsOpen(p, fd) == fd \in DOMAIN descriptors[p]

OpenHandles == {h \in Handle : IsOpen(h[1], h[2])}

-----------------------------------------------------------------------------
\* Mutant: last_fd is incremented first.
FdAfter(p) == lastFd[p] + 1

\* Mutant: the lowest fd that is free.
LowestFd(p) ==
    CHOOSE f \in Fd : ~ IsOpen(p, f) /\ \A g \in 0..f - 1 : IsOpen(p, g)

\* The fd of the next descriptor.
NewFd(p) == lastFd[p]

\* Descriptor_alloc finds no block.
OutOfDescriptors == Cardinality(OpenHandles) >= DescriptorPool

\* A new descriptor of p for the resource b, in the lists of both.
AddDescriptor(p, b) ==
    /\ ~ OutOfDescriptors
    /\ descriptors' = [descriptors EXCEPT ![p] =
           [f \in DOMAIN @ \cup {NewFd(p)} |-> IF f = NewFd(p) THEN b ELSE @[f]]]
    /\ lastFd' = [lastFd EXCEPT ![p] = @ + 1]
    /\ holders' = [holders EXCEPT ![b] = @ \cup {<<p, NewFd(p)>>}]

\* internal_openResource of a resource that exists.
OpenExisting(p, i, t, exclusive) ==
    \E b \in ById(i) :
        /\ type[b] = t
        /\ ~ (exclusive /\ holders[b] # {})
        /\ AddDescriptor(p, b)
        /\ UNCHANGED <<resources, id, type, value, resFree>>

\* Mutant: the resource is put on the list without a look for its id.
AddResourceUnseen(i, t) ==
    /\ resFree # <<>>
    /\ resources' = resources \cup {Head(resFree)}
    /\ id' = [id EXCEPT ![Head(resFree)] = i]
    /\ type' = [type EXCEPT ![Head(resFree)] = t]
    /\ resFree' = Tail(resFree)
    /\ UNCHANGED value

\* DSOS_CREATE of an id that is not on the list.  Resource_alloc leaves value
\* as the last owner of the block left it.
AddResource(i, t) ==
    /\ ById(i) = {} /\ resFree # <<>>
    /\ resources' = resources \cup {Head(resFree)}
    /\ id' = [id EXCEPT ![Head(resFree)] = i]
    /\ type' = [type EXCEPT ![Head(resFree)] = t]
    /\ resFree' = Tail(resFree)
    /\ UNCHANGED value

\* internal_openResource of a resource that does not exist, with DSOS_CREATE.
OpenNew(p, i, t) == AddResource(i, t) /\ AddDescriptor(p, Head(resFree))

\* The same when it fails with DSOS_ERESOURCENOFD: the resource stays.
OpenNewFails(p, i) ==
    /\ pc[p] = User /\ OutOfDescriptors
    /\ \E t \in {PlainType, QueueType} : AddResource(i, t)
    /\ UNCHANGED <<holders, queueVars, procVars, pc>>

OpenResource(p, i, t, create, exclusive) ==
    /\ lastFd[p] <= MaxFd
    /\ \/ ~ (create /\ exclusive) /\ OpenExisting(p, i, t, exclusive)
       \/ create /\ OpenNew(p, i, t)

\* disastrOS_openResource of something that is no queue.
OpenPlain(p, i, create, exclusive) ==
    /\ pc[p] = User
    /\ OpenResource(p, i, PlainType, create, exclusive)
    /\ UNCHANGED <<queueVars, pc>>

\* dmq_open up to its first system call.
DmqOpen(p, i, create, exclusive, mode) ==
    /\ pc[p] = User
    /\ exclusive => create
    /\ OpenResource(p, i, QueueType, create, exclusive)
    /\ Goto(p, [at |-> "openQueue", id |-> i, fd |-> NewFd(p), mode |-> mode])
    /\ UNCHANGED queueVars

\* Another process is inside the user mode part of dmq_close.
Busy(p) == \E r \in Proc \ {p} : pc[r].at = "detach"

\* A step of p makes the users u, those that are out out, and lost if some
\* descriptor loses its own.
Follow(p, u, out, lost) ==
    /\ astray' = (astray \/ lost \/ (Busy(p) /\ <<u, out>> # <<users, usersOut>>))
    /\ users' = IF astray' THEN [q \in QueueBlock |-> NoUsers] ELSE u
    /\ usersOut' = IF astray' THEN {} ELSE out

\* The users in the pool, of which no call wants more than three.
UsersLeft(p) ==
    IF astray \/ Busy(p) THEN 0..3 ELSE {UserPool - Cardinality(usersOut)}

\* The lists of mode that Queue_add_pid gets to when that many are left.
Granted(mode, left) ==
    {SectionOrder[i] : i \in {j \in 1..3 :
        Cardinality({k \in 1..j : SectionOrder[k] \in mode}) <= left}} \cap mode

\* Queue_add_pid: a new user in each list, and n + 1 openings unless it had
\* to give up.
AddPid(p, q, n, lost) ==
    \E left \in UsersLeft(p) :
        LET got == Granted(pc[p].mode, left)
            h   == <<p, pc[p].fd>>
        IN  /\ Follow(p,
                  [users EXCEPT ![q] =
                      [s \in Section |-> IF s \in got THEN @[s] \cup {h} ELSE @[s]]],
                  usersOut \cup (got \X {h}), lost)
            /\ openings' = [openings EXCEPT ![q] = IF got = pc[p].mode THEN n + 1 ELSE n]

\* internal_openQueue of a resource that has a value.
JoinQueue(p, b) ==
    /\ value[b] # NoBlock
    /\ AddPid(p, value[b], openings[value[b]], FALSE)
    /\ UNCHANGED <<resVars, procVars, queueFree>>

\* internal_openQueue of a resource without value: Queue_alloc, which makes
\* the lists of the block empty.
CreateQueue(p, b) ==
    /\ value[b] = NoBlock /\ queueFree # <<>>
    /\ value' = [value EXCEPT ![b] = Head(queueFree)]
    /\ AddPid(p, Head(queueFree), 0, users[Head(queueFree)] # NoUsers)
    /\ queueFree' = Tail(queueFree)
    /\ UNCHANGED <<resources, id, type, holders, resFree, procVars>>

\* The descriptor fd of p leaves the lists of the process and the resource.
RemoveDescriptor(p, fd) ==
    /\ descriptors' = [descriptors EXCEPT ![p] =
           [f \in DOMAIN @ \ {fd} |-> @[f]]]
    /\ holders' = [holders EXCEPT ![descriptors[p][fd]] = @ \ {<<p, fd>>}]
    /\ UNCHANGED lastFd

\* internal_openQueue with the queue pool exhausted: the descriptor is closed
\* again, and the resource destroyed unless another process opened it.
UndoOpen(p, b) ==
    /\ value[b] = NoBlock /\ queueFree = <<>>
    /\ RemoveDescriptor(p, pc[p].fd)
    /\ IF holders'[b] = {}
       THEN resources' = resources \ {b} /\ resFree' = <<b>> \o resFree
       ELSE UNCHANGED <<resources, resFree>>
    /\ UNCHANGED <<id, type, value, queueVars>>

\* The second system call of dmq_open, internal_openQueue.
OpenQueue(p) ==
    /\ pc[p].at = "openQueue"
    /\ \E b \in ById(pc[p].id) : JoinQueue(p, b) \/ CreateQueue(p, b) \/ UndoOpen(p, b)
    /\ Goto(p, User)

-----------------------------------------------------------------------------
\* Mutant: the readers list only.
RemoveReaders(u, h) == [u EXCEPT !["readers"] = @ \ {h}]

\* The QueueUsers of a descriptor leave the three lists.
RemoveUsers(u, h) == [s \in Section |-> u[s] \ {h}]

\* dmq_close reads the queue and the pointers of the descriptor,
DmqClose(p, fd) ==
    /\ pc[p] = User
    /\ IsOpen(p, fd) /\ type[descriptors[p][fd]] = QueueType
    /\ value[descriptors[p][fd]] # NoBlock
    /\ Goto(p, [at |-> "detach", fd |-> fd, queue |-> value[descriptors[p][fd]]])
    /\ UNCHANGED <<resVars, queueVars, procVars>>

\* and takes the users off their lists, and back to their pool, in user mode.
DetachUsers(p) ==
    /\ pc[p].at = "detach"
    /\ LET h == <<p, pc[p].fd>>
       IN  Follow(p, [users EXCEPT ![pc[p].queue] = RemoveUsers(@, h)],
                  usersOut \ (Section \X {h}), FALSE)
    /\ Goto(p, [at |-> "close", fd |-> pc[p].fd, queue |-> pc[p].queue])
    /\ UNCHANGED <<resVars, procVars, queueFree, openings>>

\* internal_closeResource.
CloseResource(p, fd) ==
    /\ RemoveDescriptor(p, fd)
    /\ UNCHANGED <<resources, id, type, value, resFree, queueVars>>

\* disastrOS_closeResource of something that is no queue.
ClosePlain(p, fd) ==
    /\ pc[p] = User
    /\ IsOpen(p, fd) /\ type[descriptors[p][fd]] = PlainType
    /\ CloseResource(p, fd)
    /\ UNCHANGED pc

\* The system call of dmq_close.
CloseQueue(p) ==
    /\ pc[p].at = "close"
    /\ CloseResource(p, pc[p].fd)
    /\ Goto(p, [at |-> "closed", queue |-> pc[p].queue])

\* The end of dmq_close, with the pointer it has kept.
CountClosing(p) ==
    /\ pc[p].at = "closed"
    /\ openings' = [openings EXCEPT ![pc[p].queue] = @ - 1]
    /\ Goto(p, User)
    /\ UNCHANGED <<resVars, procVars, queueFree, userVars>>

-----------------------------------------------------------------------------
\* Mutant: a resource in use is destroyed as well.
AnyUse(b) == FALSE

\* internal_destroyResource refuses a resource with descriptors.
InUse(b) == holders[b] # {}

\* Mutant: the pool takes back a block it already has.
QueueFreeTwice(p, q) ==
    /\ Follow(p, users, usersOut, users[q] # NoUsers)
    /\ queueFree' = <<q>> \o queueFree

\* Queue_free.  The users it finds are those of other descriptors, as the
\* resource has none; and the allocator refuses a block that is free.
QueueFree(p, q) ==
    /\ Follow(p, users, usersOut, users[q] # NoUsers)
    /\ queueFree' = IF q \in ToSet(queueFree) THEN queueFree
                    ELSE <<q>> \o queueFree

\* dmq_unlink, which is internal_destroyResource; value stays.
DestroyResource(p, i) ==
    /\ pc[p] = User
    /\ \E b \in ById(i) :
          /\ ~ InUse(b)
          /\ resources' = resources \ {b}
          /\ resFree' = <<b>> \o resFree
          /\ IF type[b] = QueueType /\ value[b] # NoBlock
             THEN QueueFree(p, value[b]) ELSE UNCHANGED <<queueFree, userVars>>
    /\ UNCHANGED <<id, type, value, holders, openings, procVars, pc>>

\* The part of internal_exit about descriptors, when the parent waits; the
\* queue users it detaches do not go back to their pool.
ExitAwaited(p) ==
    /\ descriptors' = [descriptors EXCEPT ![p] = <<>>]
    /\ holders' = [b \in ResBlock |-> {h \in holders[b] : h[1] # p}]
    /\ Follow(p, [q \in QueueBlock |->
                    [s \in Section |->
                       {h \in users[q][s] :
                          ~ \E f \in DOMAIN descriptors[p] :
                               h = <<p, f>> /\ value[descriptors[p][f]] = q
                                            /\ type[descriptors[p][f]] = QueueType}]],
              usersOut, FALSE)
    /\ UNCHANGED <<resources, id, type, value, resFree, queueFree, openings, lastFd>>

\* And when it does not: the zombie keeps its descriptors.
ExitAlone(p) == UNCHANGED <<resVars, queueVars, procVars>>

Exit(p) ==
    /\ pc[p] = User
    /\ ExitAwaited(p) \/ ExitAlone(p)
    /\ Goto(p, [at |-> "dead"])

-----------------------------------------------------------------------------
ResStep(p) ==
    \/ \E i \in Id, create, exclusive \in BOOLEAN :
          \/ OpenPlain(p, i, create, exclusive)
          \/ \E mode \in Modes : DmqOpen(p, i, create, exclusive, mode)
    \/ \E i \in Id : OpenNewFails(p, i) \/ DestroyResource(p, i)
    \/ OpenQueue(p)
    \/ \E fd \in Fd : DmqClose(p, fd) \/ ClosePlain(p, fd)
    \/ DetachUsers(p)
    \/ CloseQueue(p)
    \/ CountClosing(p)
    \/ Exit(p)

ResNext == \E p \in Proc : ResStep(p)

ResSpec == ResInit /\ [][ResNext]_vars

-----------------------------------------------------------------------------
ResTypeOK ==
    /\ resources \subseteq ResBlock
    /\ id \in [ResBlock -> Id]
    /\ type \in [ResBlock -> {0, PlainType, QueueType}]
    /\ value \in [ResBlock -> QueueBlock \cup {NoBlock}]
    /\ holders \in [ResBlock -> SUBSET Handle]
    /\ resFree \in Seq(ResBlock) /\ queueFree \in Seq(QueueBlock)
    /\ users \in [QueueBlock -> [Section -> SUBSET Handle]]
    /\ openings \in [QueueBlock -> Int]
    /\ usersOut \subseteq Section \X Handle
    /\ Cardinality(usersOut) <= UserPool
    /\ astray \in BOOLEAN
    /\ \A p \in Proc : DOMAIN descriptors[p] \subseteq 0..lastFd[p] - 1
    /\ lastFd \in [Proc -> 0..MaxFd + 1]

(***************************************************************************)
(* The descriptors of the processes and the descriptor lists of the        *)
(* resources are the same relation, and pin the resource: a resource that  *)
(* someone has open is not destroyed, so that no fd points to a block that *)
(* was freed or belongs to another resource.                               *)
(***************************************************************************)
DescriptorsPin ==
    /\ \A b \in ResBlock : holders[b] =
          {h \in Handle : IsOpen(h[1], h[2]) /\ descriptors[h[1]][h[2]] = b}
    /\ \A b \in ResBlock : holders[b] # {} => b \in resources

(***************************************************************************)
(* Between the two system calls of dmq_open the resource stays what it     *)
(* was: internal_openQueue, which finds it by its id, does not check that  *)
(* it exists and is the one of the descriptor.                             *)
(***************************************************************************)
OpenQueueFinds ==
    \A p \in Proc : pc[p].at = "openQueue" =>
        /\ IsOpen(p, pc[p].fd)
        /\ ById(pc[p].id) = {descriptors[p][pc[p].fd]}
        /\ type[descriptors[p][pc[p].fd]] = QueueType

(***************************************************************************)
(* As long as the users can be followed (astray), a QueueUser in a list of *)
(* a queue belongs to an open descriptor of that queue, so that            *)
(* internal_wakeUpQueue acts on no other; it is out of the pool; and one   *)
(* that is out and on no list is what the exit of its process left: not    *)
(* dmq_close, nor a dmq_open that fails half way, nor dmq_unlink leaves    *)
(* one.  The descriptors of a zombie, which stay open although "we release *)
(* all resources of a process upon termination", keep theirs.              *)
(***************************************************************************)
UsersHaveDescriptors ==
    ~ astray =>
        /\ \A q \in QueueBlock, s \in Section : \A h \in users[q][s] :
              /\ IsOpen(h[1], h[2])
              /\ value[descriptors[h[1]][h[2]]] = q
              /\ <<s, h>> \in usersOut
        /\ \A u \in usersOut :
              (\A q \in QueueBlock : u[2] \notin users[q][u[1]])
                  => pc[u[2][1]].at = "dead"

(***************************************************************************)
(* A resource is on the list or in the pool, once.                         *)
(***************************************************************************)
ResourcesKept ==
    /\ resources \cup ToSet(resFree) = ResBlock
    /\ resources \cap ToSet(resFree) = {}
    /\ IsInjective(resFree) /\ IsInjective(queueFree)

(***************************************************************************)
(* The value of a queue resource is null or a queue in use: "if res->value *)
(* is null, it means that the queue hasn't been initialized yet"           *)
(* (internal_openQueue).                                                   *)
(***************************************************************************)
QueueInitialized ==
    \A b \in resources : type[b] = QueueType =>
        value[b] \notin ToSet(queueFree)

(***************************************************************************)
(* Blocks that are used again, fds and the calls in two halves implement   *)
(* resources with names: no descriptor ever stands for another resource    *)
(* than the one it was opened for.                                         *)
(***************************************************************************)
KindOf == [i \in {id[b] : b \in resources} |->
              type[CHOOSE b \in resources : id[b] = i]]

IdOf == [h \in OpenHandles |-> id[descriptors[h[1]][h[2]]]]

Given == {h \in Handle : h[2] < lastFd[h[1]]}

Names == INSTANCE OpenResources
    WITH Kind <- {PlainType, QueueType},
         kind <- KindOf, opened <- IdOf, given <- Given

ImplementsOpenResources == Names!Spec

=============================================================================
