------------------------------ MODULE SemServer ------------------------------
(***************************************************************************)
(* The semaphore server inside the Minix file system: src/fs/semaphore.c   *)
(* over src/fs/hash.c and src/fs/list.c, with the calls do_fork, do_exec   *)
(* and do_exit of src/fs/misc.c make into it.                              *)
(*                                                                         *)
(* FS is one process that takes a request, handles it and replies, so each *)
(* handler is one action.  What interleaves are the requests of the client *)
(* processes and the forks, execs, exits and kills that MM reports.        *)
(*                                                                         *)
(* The fields of sem_cdt are one variable each, a function of the slot.    *)
(* proc_list is only ever searched, inserted into and deleted from, so it  *)
(* is the number of times each process occurs in it; blocked_list is the   *)
(* sequence list.c keeps, which inserts at the head.  All lists draw their *)
(* nodes from one pool of MAX_NODES, and no caller checks ListInsert.      *)
(***************************************************************************)
EXTENDS Integers, Sequences, FiniteSets, FiniteSetsExt, HashTable

CONSTANTS
    Procs,          \* process slots; `who', parent and child are members
    INITIAL_SEM,    \* slots of sem_array (10)
    SEM_VALUE_MAX,  \* largest initial value (35000)
    MAX_NODES,      \* list nodes shared by every list (20)
    KillsSleepers,  \* may a signal kill a process asleep in sem_wait?
    MaxRef,         \* bound: largest ref_count explored
    MaxCount,       \* bound: largest sem_count sem_post is explored up to
    MaxDebt         \* bound: deepest negative sem_count explored

ASSUME SemServerAssumption ==
    /\ INITIAL_SEM \in Nat \ {0}
    /\ INITIAL_SEM <= MAX_HASH_ELEM
    /\ SEM_VALUE_MAX \in Nat
    /\ MAX_NODES \in Nat
    /\ KillsSleepers \in BOOLEAN
    /\ MaxRef \in Nat /\ MaxCount \in Nat /\ MaxDebt \in Nat

VARIABLES
    sem_count,      \* [Slots -> Int]
    ref_count,      \* [Slots -> Nat], 0 marks a free slot
    proc_list,      \* [Slots -> [Procs -> Nat]]
    blocked_list,   \* [Slots -> Seq(Procs)], head is the last inserted
    unlinked,       \* [Slots -> BOOLEAN]
    sem_name_map,   \* the name table
    errno,          \* FS's global errno, shared by all requests
    alive,          \* processes that exist
    waiting,        \* the slot whose sem_wait a process sleeps in, or NULL
    fs_stuck,       \* FS is blocked for ever inside send()
    opened_as       \* history: the name a linked slot was created under

sems  == <<sem_count, ref_count, proc_list, blocked_list, unlinked>>
names == <<sem_name_map, opened_as>>
procs == <<alive, waiting, fs_stuck>>
vars  == <<sems, names, procs, errno>>

Slots == 0 .. (INITIAL_SEM - 1)
Live  == {i \in Slots : ref_count[i] # 0}
Free  == {i \in Slots : ref_count[i] = 0}

\* What a client may pass: any handle, in or out of range, any combination of
\* O_CREAT and O_EXCL, and initial values up to one past the limit.
Handles       == -1 .. INITIAL_SEM
InitialValues == 0 .. (SEM_VALUE_MAX + 1)
OFlags        == [O_CREAT : BOOLEAN, O_EXCL : BOOLEAN]

\* What errno may hold; EBADF is set by the select of the emulator (LinuxServer).
Errors == {"0", "EACCES", "EAGAIN", "EBADF", "EBUSY", "EEXIST", "EINVAL",
           "ENOENT", "ENOSPC"}

-----------------------------------------------------------------------------
(* Lists *)

NoMembers == [q \in Procs |-> 0]

Belongs_Always(p, i) == proc_list[i][p] >= 0  \* mutant: result not tested

\* ListElementBelongs on a proc_list.
Belongs(p, i) == proc_list[i][p] > 0

\* The test every handle-taking call starts with.
ValidHandle(p, handle) == handle \in Slots /\ Belongs(p, handle)

\* Nodes the lists hold; ListInsert finds one while some are left.
NodesUsed ==
    MapThenSumSet(LAMBDA i : Len(blocked_list[i])
                      + MapThenSumSet(LAMBDA q : proc_list[i][q], Procs),
                  Slots)
NodesLeft == MAX_NODES - NodesUsed

\* The two lists as ListInsert leaves them: unchanged when the pool is empty.
InsertMember(l, p)  == IF NodesLeft > 0 THEN [l EXCEPT ![p] = @ + 1] ELSE l
InsertBlocked(l, p) == IF NodesLeft > 0 THEN <<p>> \o l ELSE l

-----------------------------------------------------------------------------
(* Processes and the kernel's message passing (external) *)

\* A process that is able to make a call, and an FS that is able to take it.
Calls(p) == p \in alive /\ waiting[p] = NULL /\ ~fs_stuck

\* send() to q succeeds when q is waiting for FS's reply, and fails, which
\* reply() ignores, when q is dead or is itself trying to send to FS.
Delivered(q) ==
    /\ waiting' = [waiting EXCEPT ![q] = NULL]
    /\ UNCHANGED fs_stuck

\* q exists but awaits no reply of FS: FS stays blocked in send().
SendBlocks(q) == q \in alive /\ waiting[q] = NULL

-----------------------------------------------------------------------------
(* sem_create and its two callers *)

\* The slot is reserved and filled in; lists 2i and 2i+1 always serve slot i.
sem_create(p, i, value, is_unlinked) ==
    /\ IsFirst(i, Free)
    /\ value <= SEM_VALUE_MAX
    /\ sem_count' = [sem_count EXCEPT ![i] = value]
    /\ ref_count' = [ref_count EXCEPT ![i] = 1]
    /\ unlinked' = [unlinked EXCEPT ![i] = is_unlinked]
    /\ proc_list' = [proc_list EXCEPT ![i] = InsertMember(NoMembers, p)]
    /\ blocked_list' = [blocked_list EXCEPT ![i] = <<>>]

\* No slot, or a value past the limit, which has by then been stored.
sem_create_fails(value) ==
    /\ UNCHANGED <<ref_count, proc_list, blocked_list, unlinked>>
    /\ \/ /\ Free = {}
          /\ errno' = "ENOSPC"
          /\ UNCHANGED sem_count
       \/ /\ value > SEM_VALUE_MAX
          /\ \E i \in Slots : /\ IsFirst(i, Free)
                              /\ sem_count' = [sem_count EXCEPT ![i] = value]
          /\ errno' = "EINVAL"

sem_open_existing_KeepErrno(p, i) ==  \* mutant: errno is not cleared first
    /\ ref_count[i] < MaxRef
    /\ ref_count' = [ref_count EXCEPT ![i] = @ + 1]
    /\ proc_list' = [proc_list EXCEPT ![i] = InsertMember(@, p)]
    /\ UNCHANGED <<errno, sem_count, blocked_list, unlinked, names>>

\* sem_open on a name that is taken.
sem_open_existing(p, i) ==
    /\ ref_count[i] < MaxRef
    /\ ref_count' = [ref_count EXCEPT ![i] = @ + 1]
    /\ proc_list' = [proc_list EXCEPT ![i] = InsertMember(@, p)]
    /\ errno' = "0"
    /\ UNCHANGED <<sem_count, blocked_list, unlinked, names>>

sem_open_new(p, n, value) ==
    \/ \E i \in Slots :
         /\ sem_create(p, i, value, FALSE)
         /\ HashTableInsert(sem_name_map, n, i, sem_name_map')
         /\ opened_as' = [opened_as EXCEPT ![i] = n]
         /\ errno' = "0"
    \/ sem_create_fails(value) /\ UNCHANGED names

\* The last disjunct is the combination no branch of the code handles:
\* SEM_FAILED is returned with errno 0.
sem_open(p, n, oflag, value) ==
    /\ Calls(p)
    /\ UNCHANGED procs
    /\ \/ \E i \in Slots :
            /\ HashTableFinds(sem_name_map, n, i)
            /\ ~oflag.O_EXCL
            /\ sem_open_existing(p, i)
       \/ /\ HashTableMisses(sem_name_map, n)
          /\ oflag.O_CREAT /\ ~oflag.O_EXCL
          /\ sem_open_new(p, n, value)
       \/ /\ HashTableMisses(sem_name_map, n)
          /\ ~oflag.O_CREAT
          /\ errno' = "ENOENT"
          /\ UNCHANGED <<sems, names>>
       \/ /\ ~HashTableMisses(sem_name_map, n)
          /\ oflag.O_CREAT /\ oflag.O_EXCL
          /\ errno' = "EEXIST"
          /\ UNCHANGED <<sems, names>>
       \/ /\ oflag.O_EXCL
          /\ oflag.O_CREAT <=> HashTableMisses(sem_name_map, n)
          /\ errno' = "0"
          /\ UNCHANGED <<sems, names>>

\* sem_init does not clear errno first, and sem_create creates only when it is
\* clear: an error of any earlier request makes it fail.
sem_init(p, value) ==
    /\ Calls(p)
    /\ UNCHANGED procs
    /\ \/ /\ errno = "0"
          /\ \E i \in Slots : /\ sem_create(p, i, value, TRUE)
                              /\ opened_as' = [opened_as EXCEPT ![i] = EmptyKey]
          /\ UNCHANGED <<sem_name_map, errno>>
       \/ /\ errno = "0" \/ Free = {}
          /\ sem_create_fails(value)
          /\ UNCHANGED names
       \/ /\ errno # "0" /\ Free # {}
          /\ UNCHANGED <<sems, names, errno>>

-----------------------------------------------------------------------------
(* Operations on a handle *)

Refused_Silent(p, handle) ==    \* mutant: errno not set
    ~ValidHandle(p, handle) /\ UNCHANGED <<errno, sems>>

\* The answer to a handle the caller may not use.
Refused(p, handle) ==
    /\ ~ValidHandle(p, handle)
    /\ errno' = "EINVAL"
    /\ UNCHANGED sems

Busy_Never(i) == FALSE  \* mutant: no EBUSY test

\* Somebody is queued: sem_destroy refuses.
Busy(i) == blocked_list[i] # <<>>

\* The code does not look whether a name still leads to the semaphore, and frees
\* its slot and lists all the same.
sem_destroy(p, handle) ==
    /\ Calls(p)
    /\ UNCHANGED <<names, procs>>
    /\ \/ Refused(p, handle)
       \/ /\ ValidHandle(p, handle)
          /\ Busy(handle)
          /\ errno' = "EBUSY"
          /\ UNCHANGED sems
       \/ /\ ValidHandle(p, handle)
          /\ ~Busy(handle)
          /\ proc_list' = [proc_list EXCEPT ![handle] = NoMembers]
          /\ blocked_list' = [blocked_list EXCEPT ![handle] = <<>>]
          /\ ref_count' = [ref_count EXCEPT ![handle] = 0]
          /\ UNCHANGED <<sem_count, unlinked, errno>>

\* man/sem_destroy.3 allows callers to destroy what sem_init made and nothing
\* else.  Asked of them here is less: that no name leads to it any more.  (A name
\* that leads to a free slot brings its freed lists back into use, and NewList
\* gives those to other slots: lists that slots share are not modelled.)
MayDestroy(p, handle) == ValidHandle(p, handle) => unlinked[handle]

sem_unlink(p, n) ==
    /\ Calls(p)
    /\ UNCHANGED <<procs, sem_count, ref_count, proc_list, blocked_list>>
    /\ \/ /\ HashTableMisses(sem_name_map, n)
          /\ errno' = "ENOENT"
          /\ UNCHANGED <<unlinked, names>>
       \/ \E i \in Slots :
            /\ HashTableFinds(sem_name_map, n, i)
            /\ ~Belongs(p, i)
            /\ errno' = "EACCES"
            /\ UNCHANGED <<unlinked, names>>
       \/ \E i \in Slots :
            /\ HashTableFinds(sem_name_map, n, i)
            /\ Belongs(p, i)
            /\ unlinked' = [unlinked EXCEPT ![i] = TRUE]
            /\ sem_name_map' = HashTableRemove(sem_name_map, n)
            /\ opened_as' = [opened_as EXCEPT ![i] = EmptyKey]
            /\ UNCHANGED errno

\* sem_close applied to every slot of S, as sem_close_all does in a loop: one
\* occurrence of p goes, and an unlinked semaphore goes with its last member.
WithoutOne(i, p) == [proc_list[i] EXCEPT ![p] = @ - 1]

LastClose_Linked(i, p) == WithoutOne(i, p) = NoMembers  \* mutant: any semaphore
LastClose_Early(i, p) ==    \* mutant: tested before the process is removed
    unlinked[i] /\ proc_list[i] = NoMembers

LastClose_NotLast(i, p) == unlinked[i]  \* mutant: other members not looked for

LastClose(i, p) == unlinked[i] /\ WithoutOne(i, p) = NoMembers

CloseSlots_KeepQueue(p, S) ==  \* mutant: FreeList(blocked_list) missing
    /\ proc_list' = [i \in Slots |-> IF i \in S THEN WithoutOne(i, p)
                                     ELSE proc_list[i]]
    /\ ref_count' = [i \in Slots |-> IF i \in S /\ LastClose(i, p)
                                     THEN 0 ELSE ref_count[i]]
    /\ UNCHANGED <<sem_count, blocked_list, unlinked, names>>

CloseSlots(p, S) ==
    /\ proc_list' = [i \in Slots |-> IF i \in S THEN WithoutOne(i, p)
                                     ELSE proc_list[i]]
    /\ blocked_list' = [i \in Slots |-> IF i \in S /\ LastClose(i, p)
                                        THEN <<>> ELSE blocked_list[i]]
    /\ ref_count' = [i \in Slots |-> IF i \in S /\ LastClose(i, p)
                                     THEN 0 ELSE ref_count[i]]
    /\ UNCHANGED <<sem_count, unlinked, names>>

sem_close(p, handle) ==
    /\ Calls(p)
    /\ UNCHANGED procs
    /\ \/ Refused(p, handle) /\ UNCHANGED names
       \/ /\ ValidHandle(p, handle)
          /\ CloseSlots(p, {handle})
          /\ UNCHANGED errno

Taken_Late(i) == sem_count[i] < 0    \* mutants: off by one either way
Taken_Early(i) == sem_count[i] <= 1

\* "El semaforo esta tomado": sem_wait sleeps and sem_trywait fails.
Taken(i) == sem_count[i] <= 0

\* A caller that finds the count at 0 or below is not replied to: it sleeps.
sem_wait(p, handle) ==
    /\ Calls(p)
    /\ UNCHANGED <<names, alive, fs_stuck>>
    /\ \/ Refused(p, handle) /\ UNCHANGED waiting
       \/ /\ ValidHandle(p, handle)
          /\ sem_count[handle] > -MaxDebt
          /\ sem_count' = [sem_count EXCEPT ![handle] = @ - 1]
          /\ errno' = "0"
          /\ UNCHANGED <<ref_count, proc_list, unlinked>>
          /\ IF Taken(handle)
             THEN /\ blocked_list' = [blocked_list EXCEPT
                                        ![handle] = InsertBlocked(@, p)]
                  /\ waiting' = [waiting EXCEPT ![p] = handle]
             ELSE UNCHANGED <<blocked_list, waiting>>

sem_trywait(p, handle) ==
    /\ Calls(p)
    /\ UNCHANGED <<names, procs>>
    /\ \/ Refused(p, handle)
       \/ /\ ValidHandle(p, handle)
          /\ Taken(handle)
          /\ errno' = "EAGAIN"
          /\ UNCHANGED sems
       \/ /\ ValidHandle(p, handle)
          /\ ~Taken(handle)
          /\ sem_count' = [sem_count EXCEPT ![handle] = @ - 1]
          /\ errno' = "0"
          /\ UNCHANGED <<ref_count, proc_list, blocked_list, unlinked>>

WakeCandidates_NoRewind(i) ==   \* mutant: ListToBegin missing before the read
    IF blocked_list[i] = <<>> THEN Procs
    ELSE {blocked_list[i][Len(blocked_list[i])]}

\* Whom sem_post wakes: the head of the queue.  An empty queue leaves `proc'
\* uninitialised, and any process slot may be named.
WakeCandidates(i) ==
    IF blocked_list[i] = <<>> THEN Procs ELSE {Head(blocked_list[i])}

\* With a negative count somebody is woken.  When FS blocks in send() the count
\* has not been incremented yet.
sem_post(p, handle) ==
    /\ Calls(p)
    /\ UNCHANGED <<names, alive>>
    /\ \/ Refused(p, handle) /\ UNCHANGED procs
       \/ /\ ValidHandle(p, handle)
          /\ sem_count[handle] >= 0
          /\ sem_count[handle] < MaxCount
          /\ sem_count' = [sem_count EXCEPT ![handle] = @ + 1]
          /\ errno' = "0"
          /\ UNCHANGED <<ref_count, proc_list, blocked_list, unlinked, procs>>
       \/ /\ ValidHandle(p, handle)
          /\ sem_count[handle] < 0
          /\ blocked_list' = [blocked_list EXCEPT
                                ![handle] = IF @ = <<>> THEN @ ELSE Tail(@)]
          /\ errno' = "0"
          /\ UNCHANGED <<ref_count, proc_list, unlinked>>
          /\ \E q \in WakeCandidates(handle) :
               \/ /\ Delivered(q)
                  /\ sem_count' = [sem_count EXCEPT ![handle] = @ + 1]
               \/ /\ SendBlocks(q)
                  /\ fs_stuck' = TRUE
                  /\ UNCHANGED <<sem_count, waiting>>

\* Only a refusal changes anything: errno.
sem_getvalue(p, handle) ==
    /\ Calls(p)
    /\ UNCHANGED <<names, procs>>
    /\ \/ Refused(p, handle)
       \/ ValidHandle(p, handle) /\ UNCHANGED <<sems, errno>>

-----------------------------------------------------------------------------
(* What MM tells FS about processes *)

Held(p) == {i \in Slots : Belongs(p, i)}

\* sem_open_all: the child joins its parent's semaphores in slot order, as far
\* as the nodes go; ref_count counts it either way.
do_fork(parent, child) ==
    /\ Calls(parent)
    /\ child \in Procs \ alive
    /\ \A i \in Held(parent) : ref_count[i] < MaxRef
    /\ ref_count' = [i \in Slots |-> IF i \in Held(parent)
                                     THEN ref_count[i] + 1 ELSE ref_count[i]]
    /\ proc_list' = [i \in Slots |->
            IF /\ i \in Held(parent)
               /\ Cardinality({j \in Held(parent) : j <= i}) <= NodesLeft
            THEN [proc_list[i] EXCEPT ![child] = @ + 1]
            ELSE proc_list[i]]
    /\ alive' = alive \cup {child}
    /\ UNCHANGED <<sem_count, blocked_list, unlinked, names, waiting, fs_stuck,
                   errno>>

\* sem_close_all calls sem_close on every slot; those the process does not
\* belong to set errno.
sem_close_all(p) ==
    /\ CloseSlots(p, Held(p))
    /\ errno' = IF Held(p) = Slots THEN errno ELSE "EINVAL"

do_exec(p) ==
    /\ Calls(p)
    /\ sem_close_all(p)
    /\ UNCHANGED procs

\* A process leaves by calling exit or, asleep in sem_wait, by being killed.
\* No blocked_list is touched.
do_exit(p) ==
    /\ ~fs_stuck
    /\ p \in alive
    /\ waiting[p] = NULL \/ KillsSleepers
    /\ sem_close_all(p)
    /\ alive' = alive \ {p}
    /\ waiting' = [waiting EXCEPT ![p] = NULL]
    /\ UNCHANGED fs_stuck

-----------------------------------------------------------------------------

init_sem_server ==
    /\ sem_count = [i \in Slots |-> 0]
    /\ ref_count = [i \in Slots |-> 0]
    /\ proc_list = [i \in Slots |-> NoMembers]
    /\ blocked_list = [i \in Slots |-> <<>>]
    /\ unlinked = [i \in Slots |-> FALSE]
    /\ sem_name_map = NewHashTable
    /\ errno = "0"

Init ==
    /\ init_sem_server
    /\ alive = Procs
    /\ waiting = [p \in Procs |-> NULL]
    /\ fs_stuck = FALSE
    /\ opened_as = [i \in Slots |-> EmptyKey]

NamedCall(p) ==
    \E n \in Keys :
        \/ sem_unlink(p, n)
        \/ \E oflag \in OFlags :
             \E v \in IF oflag.O_CREAT THEN InitialValues ELSE {0} :
                sem_open(p, n, oflag, v)

HandleCall(p) ==
    \E h \in Handles :
        \/ MayDestroy(p, h) /\ sem_destroy(p, h)
        \/ sem_close(p, h)
        \/ sem_wait(p, h)
        \/ sem_trywait(p, h)
        \/ sem_post(p, h)
        \/ sem_getvalue(p, h)

Next ==
    \E p \in Procs :
        \/ NamedCall(p)
        \/ HandleCall(p)
        \/ \E v \in InitialValues : sem_init(p, v)
        \/ \E child \in Procs : do_fork(p, child)
        \/ do_exec(p)
        \/ do_exit(p)

Spec == Init /\ [][Next]_vars

-----------------------------------------------------------------------------
(* Properties *)

\* The shape of the server's state (sem_cdt, the name table, errno).
TypeOK ==
    /\ sem_count \in [Slots -> Int]
    /\ ref_count \in [Slots -> Nat]
    /\ proc_list \in [Slots -> [Procs -> Nat]]
    /\ blocked_list \in [Slots -> Seq(Procs)]
    /\ unlinked \in [Slots -> BOOLEAN]
    /\ sem_name_map \in HashTableType(Slots)
    /\ errno \in Errors
    /\ alive \subseteq Procs
    /\ waiting \in [Procs -> Slots \cup {NULL}]
    /\ fs_stuck \in BOOLEAN
    /\ opened_as \in [Slots -> Keys \cup {EmptyKey}]

\* A slot given back by the last sem_close or by sem_destroy keeps nobody in
\* its lists.  The lists are reached afterwards too (sem_close_all searches
\* every slot), so a leftover member could use the next semaphore in the slot.
FreeSlotsAreEmpty ==
    \A i \in Free : proc_list[i] = NoMembers /\ blocked_list[i] = <<>>

\* How far a count is below zero.
Debt(i) == IF sem_count[i] < 0 THEN -sem_count[i] ELSE 0

\* No more processes are queued on a semaphore than its count is below zero, so
\* that no post takes the branch that wakes nobody while somebody is queued.
\* Holds although sleepers are killed and insertions fail for lack of nodes.
BlockedWithinDebt ==
    \A i \in Slots : Len(blocked_list[i]) <= Debt(i)

\* The name table and the slots agree: every row names a semaphore in use and
\* not unlinked, no two rows the same one, and every such semaphore has a row.
\* sem_open and sem_unlink index sem_array with what they find, unchecked, and
\* sem_open ignores a full table.
RowsNameLinkedSlots ==
    \A r \in UsedRows(sem_name_map) :
        /\ sem_name_map.entry_array[r] \in Live
        /\ ~unlinked[sem_name_map.entry_array[r]]
RowsAreDistinct ==
    \A r, s \in UsedRows(sem_name_map) :
        sem_name_map.entry_array[r] = sem_name_map.entry_array[s] => r = s
LinkedSlotsHaveRows ==
    \A i \in Live : ~unlinked[i] =>
        \E r \in UsedRows(sem_name_map) : sem_name_map.entry_array[r] = i
NameTableMirrorsSlots ==
    RowsNameLinkedSlots /\ RowsAreDistinct /\ LinkedSlotsHaveRows

\* A name never leads to a semaphore created under another name, whatever rows
\* insertions have overwritten, and never to two.
LookupIsSound ==
    \A r \in UsedRows(sem_name_map) :
        sem_name_map.str_hash[r] # EmptyKey =>
            /\ opened_as[sem_name_map.entry_array[r]] = sem_name_map.str_hash[r]
            /\ Matching(sem_name_map, sem_name_map.str_hash[r]) = {r}

\* The pool of list nodes is not exhausted: no ListInsert of the next request,
\* but for those of a fork, fails.
NodesLast == NodesLeft > 0

\* As long as nodes last, between requests the count of a semaphore in use says
\* exactly how long its queue is, even when sleepers have been killed.
BlockedIsDebt ==
    ~fs_stuck => \A i \in Live : Len(blocked_list[i]) = Debt(i)

\* As long as nodes last, no process is left asleep on a semaphore that was
\* closed for good or destroyed: it exists and still belongs to it.
SleepersKeepTheirSemaphore ==
    \A p \in Procs : waiting[p] # NULL =>
        p \in alive /\ waiting[p] \in Live /\ Belongs(p, waiting[p])

\* As long as nodes last, an unlinked semaphore does not outlive its last
\* member: the slot is given back.
UnlinkedHaveMembers ==
    \A i \in Live : unlinked[i] => proc_list[i] # NoMembers

\* The processes asleep in sem_wait on slot i.
Sleepers(i) == {p \in Procs : waiting[p] = i}

\* Each list of sleepers holds each process that sleeps on that semaphore, once,
\* and no other ("Lista de los procesos que estan bloqueados sobre este
\* semaforo", semaphore.c:23).
BlockedListHoldsSleepers ==
    \A i \in Live :
        /\ Range(blocked_list[i]) = Sleepers(i)
        /\ IsInjective(blocked_list[i])

\* FS never blocks for ever on a reply.
FsNeverStuck == ~fs_stuck

\* Each slot implements the abstract semaphore while its ref_count is not 0:
\* its number is the count with the processes asleep in sem_wait added back.
\* A post that wakes nobody while somebody sleeps, a process that wakes without
\* a post on its semaphore, or a creation that takes a slot in use, would make
\* the number jump or go negative.
Abstract(i) == INSTANCE Semaphore WITH
                   live    <- ref_count[i] # 0,
                   value   <- sem_count[i] + Cardinality(Sleepers(i)),
                   waiters <- Sleepers(i)
SlotsAreSemaphores ==
    /\ \A i \in Slots : Abstract(i)!Init
    /\ [][\A i \in Slots : Abstract(i)!Next \/ UNCHANGED Abstract(i)!vars]_vars
=============================================================================
