-------------------------- MODULE SemSleepers_proofs --------------------------
(***************************************************************************)
(* What sleepers and counts may rely on while list nodes last, for every   *)
(* number of processes, slots, names and nodes: first with killed          *)
(* sleepers, then, with none, that each slot is an abstract semaphore.     *)
(*                                                                         *)
(* A step of the server has one of few effects on the semaphores and the   *)
(* processes.  They are named first, with what the invariants of the name  *)
(* table and the queues add to their guards, and every step is shown to    *)
(* have one of them; the invariants are then proved effect by effect.      *)
(***************************************************************************)
EXTENDS SemServer_proofs

\* A request that is refused, or only reads.
NoEffect == UNCHANGED <<sems, procs>>

\* sem_unlink of a semaphore somebody belongs to.
Unlinks(p, i) ==
    /\ i \in Live /\ Belongs(p, i)
    /\ unlinked' = [unlinked EXCEPT ![i] = TRUE]
    /\ UNCHANGED <<sem_count, ref_count, proc_list, blocked_list, procs>>

\* sem_open of a name in use.
Joins(p, i) ==
    /\ i \in Live
    /\ ref_count' = [ref_count EXCEPT ![i] = @ + 1]
    /\ proc_list' = [proc_list EXCEPT ![i] = InsertMember(@, p)]
    /\ UNCHANGED <<sem_count, blocked_list, unlinked, procs>>

\* sem_open of a new name, and sem_init.
Creates(p, i, v, u) ==
    /\ i \in Free
    /\ sem_create(p, i, v, u)
    /\ UNCHANGED procs

\* A value past the limit is stored before it is refused.
Stores(i, v) ==
    /\ i \in Free
    /\ sem_count' = [sem_count EXCEPT ![i] = v]
    /\ UNCHANGED <<ref_count, proc_list, blocked_list, unlinked, procs>>

Destroys(i) ==
    /\ i \in Live
    /\ blocked_list[i] = <<>>
    /\ proc_list' = [proc_list EXCEPT ![i] = NoMembers]
    /\ blocked_list' = [blocked_list EXCEPT ![i] = <<>>]
    /\ ref_count' = [ref_count EXCEPT ![i] = 0]
    /\ UNCHANGED <<sem_count, unlinked, procs>>

\* sem_close, and the closing of everything by an exec.
Closes(p, S) ==
    /\ waiting[p] = NULL
    /\ CloseSlots(p, S)
    /\ UNCHANGED procs

\* A process ends, or is killed asleep.
Exits(p) ==
    /\ waiting[p] = NULL \/ KillsSleepers
    /\ CloseSlots(p, Held(p))
    /\ alive' = alive \ {p}
    /\ waiting' = [waiting EXCEPT ![p] = NULL]
    /\ UNCHANGED fs_stuck

\* sem_wait on a semaphore that is taken.
Sleeps(p, i) ==
    /\ p \in alive /\ waiting[p] = NULL /\ Belongs(p, i)
    /\ i \in Live
    /\ sem_count[i] <= 0
    /\ sem_count' = [sem_count EXCEPT ![i] = @ - 1]
    /\ blocked_list' = [blocked_list EXCEPT ![i] = InsertBlocked(@, p)]
    /\ waiting' = [waiting EXCEPT ![p] = i]
    /\ UNCHANGED <<ref_count, proc_list, unlinked, alive, fs_stuck>>

\* sem_wait and sem_trywait on one that is not, and sem_post with nobody to wake.
Counts(i, d) ==
    /\ i \in Live
    /\ \/ d = -1 /\ sem_count[i] > 0
       \/ d = 1 /\ sem_count[i] >= 0
    /\ sem_count' = [sem_count EXCEPT ![i] = @ + d]
    /\ UNCHANGED <<ref_count, proc_list, blocked_list, unlinked, procs>>

\* sem_post with somebody to wake: the reply goes out, or FS blocks in send.
Pops(i, q) ==
    /\ i \in Live
    /\ sem_count[i] < 0
    /\ q \in WakeCandidates(i)
    /\ blocked_list' = [blocked_list EXCEPT ![i] = IF @ = <<>> THEN @ ELSE Tail(@)]
    /\ UNCHANGED <<ref_count, proc_list, unlinked, alive>>
Wakes(i, q) ==
    /\ Pops(i, q)
    /\ Delivered(q)
    /\ sem_count' = [sem_count EXCEPT ![i] = @ + 1]
Blocks(i, q) ==
    /\ Pops(i, q)
    /\ SendBlocks(q)
    /\ fs_stuck' = TRUE
    /\ UNCHANGED <<sem_count, waiting>>

-----------------------------------------------------------------------------

\* A name leads to a semaphore in use.
LEMMA FoundIsLive ==
    ASSUME NameInv, NEW n \in Keys, NEW i \in Slots,
           HashTableFinds(sem_name_map, n, i)
    PROVE  i \in Live
BY DEF HashTableFinds, IsFirst, Matching, NameInv, NameTableMirrorsSlots,
       RowsNameLinkedSlots

\* So does a handle its user belongs to.
LEMMA MemberIsLive ==
    ASSUME QueueInv, NEW p \in Procs, NEW i \in Slots, Belongs(p, i)
    PROVE  i \in Live
BY DEF QueueInv, TypeOK, FreeSlotsAreEmpty, Free, Live, Belongs, NoMembers

LEMMA CreateFailsEffect ==
    ASSUME NEW v \in Nat, sem_create_fails(v), UNCHANGED procs
    PROVE  NoEffect \/ \E i \in Slots : Stores(i, v)
BY DEF sem_create_fails, NoEffect, Stores, IsFirst, sems

LEMMA NamedCallEffect ==
    ASSUME NameInv, NEW p \in Procs, NamedCall(p)
    PROVE  \/ NoEffect
           \/ \E i \in Slots : Unlinks(p, i) \/ Joins(p, i)
           \/ \E i \in Slots, v \in Nat : Creates(p, i, v, FALSE) \/ Stores(i, v)
<1>1. PICK n \in Keys :
        \/ sem_unlink(p, n)
        \/ \E oflag \in OFlags, v \in Nat : sem_open(p, n, oflag, v)
  BY SemServerAssumption DEF NamedCall, InitialValues
<1>2. CASE sem_unlink(p, n)
  BY <1>2, FoundIsLive DEF sem_unlink, NoEffect, Unlinks, sems
<1>3. ASSUME NEW oflag \in OFlags, NEW v \in Nat, sem_open(p, n, oflag, v)
      PROVE  \/ NoEffect
             \/ \E i \in Slots : Joins(p, i)
             \/ \E i \in Slots : Creates(p, i, v, FALSE) \/ Stores(i, v)
  <2>1. ASSUME NEW i \in Slots, HashTableFinds(sem_name_map, n, i),
               sem_open_existing(p, i)
        PROVE  Joins(p, i)
    BY <1>3, <2>1, FoundIsLive DEF sem_open, sem_open_existing, Joins
  <2>2. ASSUME NEW i \in Slots, sem_create(p, i, v, FALSE)
        PROVE  Creates(p, i, v, FALSE)
    BY <1>3, <2>2 DEF sem_open, Creates, sem_create, IsFirst
  <2>3. CASE sem_create_fails(v)
    BY <1>3, <2>3, CreateFailsEffect DEF sem_open
  <2>4. CASE UNCHANGED sems
    BY <1>3, <2>4 DEF sem_open, NoEffect
  <2> QED BY <1>3, <2>1, <2>2, <2>3, <2>4 DEF sem_open, sem_open_new
<1> QED BY <1>1, <1>2, <1>3

LEMMA InitCallEffect ==
    ASSUME NEW p \in Procs, NEW v \in InitialValues, sem_init(p, v)
    PROVE  \/ NoEffect
           \/ \E i \in Slots, w \in Nat : Creates(p, i, w, TRUE) \/ Stores(i, w)
<1>1. v \in Nat
  BY SemServerAssumption DEF InitialValues
<1>2. ASSUME NEW i \in Slots, sem_create(p, i, v, TRUE)
      PROVE  Creates(p, i, v, TRUE)
  BY <1>2 DEF sem_init, Creates, sem_create, IsFirst
<1>3. CASE sem_create_fails(v)
  BY <1>1, <1>3, CreateFailsEffect DEF sem_init
<1>4. CASE UNCHANGED sems
  BY <1>4 DEF sem_init, NoEffect
<1> QED BY <1>1, <1>2, <1>3, <1>4 DEF sem_init

LEMMA HandleCallEffect ==
    ASSUME QueueInv, NEW p \in Procs, HandleCall(p)
    PROVE  \/ NoEffect
           \/ \E i \in Held(p) :
                \/ Destroys(i) \/ Closes(p, {i}) \/ Sleeps(p, i)
                \/ Counts(i, -1) \/ Counts(i, 1)
                \/ \E q \in Procs : Wakes(i, q) \/ Blocks(i, q)
<1>1. PICK h \in Handles :
        \/ sem_destroy(p, h) \/ sem_close(p, h) \/ sem_wait(p, h)
        \/ sem_trywait(p, h) \/ sem_post(p, h) \/ sem_getvalue(p, h)
  BY DEF HandleCall
<1>2. CASE NoEffect
  BY <1>2
<1>3. CASE ValidHandle(p, h) /\ ~NoEffect
  <2>1. h \in Slots /\ Belongs(p, h) /\ h \in Held(p) /\ h \in Live
    BY <1>3, MemberIsLive DEF ValidHandle, Held
  <2>2. sem_count[h] \in Int /\ blocked_list[h] \in Seq(Procs)
    BY <2>1 DEF QueueInv, TypeOK
  <2>3. ~Refused(p, h)
    BY <1>3 DEF Refused
  <2>4. CASE sem_destroy(p, h)
    BY <1>3, <2>1, <2>3, <2>4 DEF sem_destroy, NoEffect, Busy, Destroys
  <2>5. CASE sem_close(p, h)
    BY <2>1, <2>3, <2>5 DEF sem_close, Closes, Calls
  <2>6. CASE sem_wait(p, h)
    <3>1. CASE sem_count[h] <= 0
      BY <2>1, <2>3, <2>6, <3>1 DEF sem_wait, Taken, Sleeps, Calls
    <3>2. CASE sem_count[h] > 0
      <4>1. Counts(h, -1)
        BY <2>1, <2>2, <2>3, <2>6, <3>2 DEF sem_wait, Taken, Counts, procs
      <4> QED BY <2>1, <4>1
    <3>3. sem_count[h] <= 0 \/ sem_count[h] > 0
      BY <2>2
    <3> QED BY <3>1, <3>2, <3>3, Zenon
  <2>7. CASE sem_trywait(p, h)
    <3>1. Counts(h, -1)
      BY <1>3, <2>1, <2>2, <2>3, <2>7
      DEF sem_trywait, Taken, Counts, NoEffect
    <3> QED BY <2>1, <3>1
  <2>8. CASE sem_post(p, h)
    <3>1. CASE sem_count[h] >= 0
      <4>1. Counts(h, 1)
        BY <2>1, <2>2, <2>3, <2>8, <3>1 DEF sem_post, Counts
      <4> QED BY <2>1, <4>1
    <3>2. CASE sem_count[h] < 0
      <4>1. WakeCandidates(h) \subseteq Procs
        BY <2>2 DEF WakeCandidates
      <4>2. \E q \in WakeCandidates(h) : Wakes(h, q) \/ Blocks(h, q)
        BY <2>1, <2>2, <2>3, <2>8, <3>2 DEF sem_post, Wakes, Blocks, Pops
      <4> QED BY <2>1, <4>1, <4>2
    <3>3. sem_count[h] >= 0 \/ sem_count[h] < 0
      BY <2>2
    <3> QED BY <3>1, <3>2, <3>3, Zenon
  <2>9. CASE sem_getvalue(p, h)
    BY <1>3, <2>3, <2>9 DEF sem_getvalue, NoEffect
  <2> QED BY <1>1, <2>4, <2>5, <2>6, <2>7, <2>8, <2>9
<1> QED BY <1>1, <1>2, <1>3
    DEF sem_destroy, sem_close, sem_wait, sem_trywait, sem_post, sem_getvalue,
        Refused, NoEffect, procs

LEMMA ProcessCallEffect ==
    ASSUME NEW p \in Procs, do_exec(p) \/ do_exit(p)
    PROVE  Closes(p, Held(p)) \/ Exits(p)
BY DEF do_exec, do_exit, sem_close_all, Closes, Exits, Calls

\* Every step of the server has one of the effects.
LEMMA StepEffects ==
    ASSUME NameInv, [Next]_vars
    PROVE  \/ NoEffect
           \/ \E p \in Procs, i \in Slots :
                \/ Unlinks(p, i) \/ Joins(p, i) \/ Destroys(i)
                \/ Sleeps(p, i) \/ Counts(i, -1) \/ Counts(i, 1)
                \/ Wakes(i, p) \/ Blocks(i, p)
           \/ \E p \in Procs, i \in Slots, v \in Nat, u \in BOOLEAN :
                Creates(p, i, v, u) \/ Stores(i, v)
           \/ \E p \in Procs : Exits(p)
           \/ \E p \in Procs, S \in SUBSET Slots :
                S \subseteq Held(p) /\ Closes(p, S)
           \/ \E p, child \in Procs : do_fork(p, child)
<1>1. CASE UNCHANGED vars
  BY <1>1 DEF vars, NoEffect
<1>2. CASE \E p \in Procs : NamedCall(p)
  BY <1>2, NamedCallEffect
<1>3. CASE \E p \in Procs : HandleCall(p)
  <2>1. PICK p \in Procs : HandleCall(p)
    BY <1>3
  <2>2. Held(p) \subseteq Slots
    BY DEF Held
  <2>3. \A i \in Held(p) : {i} \in SUBSET Slots /\ {i} \subseteq Held(p)
    BY <2>2
  <2> QED BY <2>1, <2>2, <2>3, HandleCallEffect DEF NameInv
<1>4. CASE \E p \in Procs : \E v \in InitialValues : sem_init(p, v)
  BY <1>4, InitCallEffect
<1>5. CASE \E p \in Procs : do_exec(p) \/ do_exit(p)
  <2>1. \A p \in Procs : Held(p) \in SUBSET Slots
    BY DEF Held
  <2> QED BY <1>5, <2>1, ProcessCallEffect
<1>6. CASE \E p, child \in Procs : do_fork(p, child)
  BY <1>6
<1> QED BY <1>1, <1>2, <1>3, <1>4, <1>5, <1>6 DEF Next

-----------------------------------------------------------------------------
(***************************************************************************)
(* Queues as sequences: sem_wait puts a process in front, sem_post takes   *)
(* the first one out.                                                      *)
(***************************************************************************)

LEMMA PushFront ==
    ASSUME NEW l \in Seq(Procs), NEW p \in Procs
    PROVE  /\ <<p>> \o l \in Seq(Procs)
           /\ Len(<<p>> \o l) = Len(l) + 1
           /\ Range(<<p>> \o l) = Range(l) \cup {p}
<1>1. /\ <<p>> \o l \in Seq(Procs)
      /\ Len(<<p>> \o l) = Len(l) + 1
  OBVIOUS
<1>2. /\ (<<p>> \o l)[1] = p
      /\ \A k \in 1 .. Len(l) : (<<p>> \o l)[k + 1] = l[k]
  OBVIOUS
<1>3. \A k \in 1 .. (Len(l) + 1) : k = 1 \/ (k - 1 \in 1 .. Len(l) /\ (k - 1) + 1 = k)
  OBVIOUS
<1>4. DOMAIN (<<p>> \o l) = 1 .. (Len(l) + 1) /\ DOMAIN l = 1 .. Len(l)
  OBVIOUS
<1>5. \A k \in 1 .. Len(l) : k + 1 \in 1 .. (Len(l) + 1)
  OBVIOUS
<1>6. 1 \in 1 .. (Len(l) + 1)
  OBVIOUS
<1>7. ASSUME NEW x \in Range(<<p>> \o l) PROVE x \in Range(l) \cup {p}
  <2>1. PICK k \in 1 .. (Len(l) + 1) : x = (<<p>> \o l)[k]
    BY <1>4 DEF Range
  <2>2. CASE k = 1
    BY <1>2, <2>1, <2>2
  <2>3. CASE k - 1 \in 1 .. Len(l) /\ (k - 1) + 1 = k
    BY <1>2, <1>4, <2>1, <2>3 DEF Range
  <2> QED BY <1>3, <2>2, <2>3
<1>8. ASSUME NEW x \in Range(l) PROVE x \in Range(<<p>> \o l)
  BY <1>2, <1>4, <1>5 DEF Range
<1>9. p \in Range(<<p>> \o l)
  BY <1>2, <1>4, <1>6 DEF Range
<1> QED BY <1>1, <1>7, <1>8, <1>9

LEMMA PopFront ==
    ASSUME NEW l \in Seq(Procs), l # <<>>
    PROVE  /\ Head(l) \in Procs
           /\ Tail(l) \in Seq(Procs)
           /\ Len(Tail(l)) = Len(l) - 1
           /\ Range(l) = Range(Tail(l)) \cup {Head(l)}
<1>1. /\ Head(l) \in Procs /\ Head(l) = l[1]
      /\ Tail(l) \in Seq(Procs)
      /\ Len(Tail(l)) = Len(l) - 1
      /\ Len(l) \in Nat /\ Len(l) >= 1
  OBVIOUS
<1>2. \A k \in 1 .. (Len(l) - 1) : Tail(l)[k] = l[k + 1]
  OBVIOUS
<1>3. DOMAIN Tail(l) = 1 .. (Len(l) - 1) /\ DOMAIN l = 1 .. Len(l)
  OBVIOUS
<1>4. ASSUME NEW x \in Range(l) PROVE x \in Range(Tail(l)) \cup {Head(l)}
  <2>1. PICK k \in 1 .. Len(l) : x = l[k]
    BY <1>3 DEF Range
  <2>2. CASE k = 1
    BY <1>1, <2>1, <2>2
  <2>3. CASE k # 1
    <3>1. k - 1 \in 1 .. (Len(l) - 1) /\ (k - 1) + 1 = k
      BY <1>1, <2>3
    <3> QED BY <1>2, <1>3, <2>1, <3>1 DEF Range
  <2> QED BY <2>2, <2>3
<1>5. ASSUME NEW x \in Range(Tail(l)) PROVE x \in Range(l)
  <2>1. \A k \in 1 .. (Len(l) - 1) : k + 1 \in 1 .. Len(l)
    BY <1>1
  <2> QED BY <1>2, <1>3, <2>1 DEF Range
<1>6. Head(l) \in Range(l)
  <2>1. 1 \in 1 .. Len(l)
    BY <1>1
  <2> QED BY <1>1, <1>3, <2>1 DEF Range
<1> QED BY <1>1, <1>4, <1>5, <1>6

-----------------------------------------------------------------------------
(***************************************************************************)
(* The inductive invariant.  SleepersKeepTheirSemaphore needs that every   *)
(* sleeper is queued where it sleeps: that is what makes sem_destroy       *)
(* refuse.  (The queue may hold others: processes that were killed.)       *)
(***************************************************************************)
SleepersAreQueued ==
    \A p \in Procs : waiting[p] # NULL =>
        p \in Range(blocked_list[waiting[p]])

SleepParts ==
    /\ SleepersKeepTheirSemaphore
    /\ SleepersAreQueued
    /\ BlockedIsDebt
    /\ UnlinkedHaveMembers
SleepInv == NameInv /\ SleepParts

\* What the invariant says of one slot and one sleeper.
LEMMA SlotFacts ==
    ASSUME SleepInv
    PROVE  /\ \A i \in Slots : /\ sem_count[i] \in Int
                               /\ ref_count[i] \in Nat
                               /\ proc_list[i] \in [Procs -> Nat]
                               /\ blocked_list[i] \in Seq(Procs)
                               /\ Debt(i) \in Nat
           /\ \A p \in Procs : waiting[p] # NULL =>
                /\ p \in alive
                /\ waiting[p] \in Slots /\ ref_count[waiting[p]] # 0
                /\ proc_list[waiting[p]][p] > 0
                /\ p \in Range(blocked_list[waiting[p]])
           /\ ~fs_stuck => \A i \in Slots : ref_count[i] # 0 =>
                Len(blocked_list[i]) = Debt(i)
           /\ \A i \in Slots : ref_count[i] # 0 /\ unlinked[i] =>
                proc_list[i] # NoMembers
BY DEF SleepInv, SleepParts, NameInv, QueueInv, TypeOK, Debt,
       SleepersKeepTheirSemaphore, SleepersAreQueued, BlockedIsDebt,
       UnlinkedHaveMembers, Live, Belongs

\* The same facts, in the next state, are what is to be shown.
LEMMA SlotGoals ==
    ASSUME \A p \in Procs : waiting'[p] # NULL =>
                /\ p \in alive'
                /\ waiting'[p] \in Slots /\ ref_count'[waiting'[p]] # 0
                /\ proc_list'[waiting'[p]][p] > 0
                /\ p \in Range(blocked_list'[waiting'[p]]),
           ~fs_stuck' => \A i \in Slots : ref_count'[i] # 0 =>
                Len(blocked_list'[i]) = Debt(i)',
           \A i \in Slots : ref_count'[i] # 0 /\ unlinked'[i] =>
                proc_list'[i] # NoMembers
    PROVE  SleepParts'
BY DEF SleepParts, SleepersKeepTheirSemaphore, SleepersAreQueued, BlockedIsDebt,
       UnlinkedHaveMembers, Live, Belongs

LEMMA SleepNoEffect ==
    ASSUME SleepInv, NoEffect
    PROVE  SleepParts'
BY DEF NoEffect, SleepInv, SleepParts, SleepersKeepTheirSemaphore,
       SleepersAreQueued, BlockedIsDebt, UnlinkedHaveMembers, Live, Belongs,
       Debt, sems, procs

LEMMA SleepUnlinks ==
    ASSUME SleepInv, NEW p \in Procs, NEW i \in Slots, Unlinks(p, i)
    PROVE  SleepParts'
<1>1. proc_list[i] # NoMembers
  BY DEF Unlinks, Belongs, NoMembers
<1>2. unlinked \in [Slots -> BOOLEAN]
  BY DEF SleepInv, NameInv, QueueInv, TypeOK
<1> QED BY <1>1, <1>2, SlotFacts, SlotGoals DEF Unlinks, Debt, procs

\* A list that ListInsert has added a member to is not empty.
LEMMA MemberInserted ==
    ASSUME NodesLast, NEW l \in [Procs -> Nat], NEW p \in Procs
    PROVE  /\ InsertMember(l, p) # NoMembers
           /\ \A q \in Procs : InsertMember(l, p)[q] >= l[q]
BY DEF NodesLast, InsertMember, NoMembers

LEMMA SleepJoins ==
    ASSUME SleepInv, NodesLast, NEW p \in Procs, NEW i \in Slots, Joins(p, i)
    PROVE  SleepParts'
<1>1. /\ proc_list \in [Slots -> [Procs -> Nat]]
      /\ ref_count \in [Slots -> Nat]
  BY DEF SleepInv, NameInv, QueueInv, TypeOK
<1>2. /\ \A j \in Slots : ref_count'[j] # 0 => ref_count[j] # 0
      /\ \A j \in Slots : ref_count[j] # 0 => ref_count'[j] # 0
  BY <1>1 DEF Joins, Live
<1>3. /\ proc_list'[i] = InsertMember(proc_list[i], p)
      /\ \A j \in Slots \ {i} : proc_list'[j] = proc_list[j]
  BY <1>1 DEF Joins
<1>4. /\ \A j \in Slots, q \in Procs : proc_list[j][q] > 0 => proc_list'[j][q] > 0
      /\ proc_list'[i] # NoMembers
  <2>1. \A q \in Procs : /\ InsertMember(proc_list[i], p)[q] >= proc_list[i][q]
                         /\ InsertMember(proc_list[i], p)[q] \in Nat
                         /\ proc_list[i][q] \in Nat
    BY <1>1, MemberInserted, InsertMemberType
  <2>2. InsertMember(proc_list[i], p) # NoMembers
    BY <1>1, MemberInserted
  <2>3. \A q \in Procs : proc_list[i][q] > 0 => proc_list'[i][q] > 0
    BY <1>3, <2>1
  <2> QED BY <1>3, <2>2, <2>3
<1> QED BY <1>2, <1>3, <1>4, SlotFacts, SlotGoals DEF Joins, Debt, procs

LEMMA SleepCreates ==
    ASSUME SleepInv, NodesLast, NEW p \in Procs, NEW i \in Slots, NEW v \in Nat,
           NEW u \in BOOLEAN, Creates(p, i, v, u)
    PROVE  SleepParts'
<1>1. /\ ref_count[i] = 0
      /\ \A j \in Slots \ {i} : /\ sem_count'[j] = sem_count[j]
                                /\ ref_count'[j] = ref_count[j]
                                /\ proc_list'[j] = proc_list[j]
                                /\ blocked_list'[j] = blocked_list[j]
                                /\ unlinked'[j] = unlinked[j]
      /\ sem_count'[i] = v /\ blocked_list'[i] = <<>>
      /\ proc_list'[i] = InsertMember(NoMembers, p)
      /\ UNCHANGED procs
  BY DEF Creates, sem_create, Free, SleepInv, NameInv, QueueInv, TypeOK
<1>2. proc_list'[i] # NoMembers
  BY <1>1, NoMembersType, MemberInserted
<1>3. Len(blocked_list'[i]) = Debt(i)'
  BY <1>1 DEF Debt
<1>4. \A q \in Procs : waiting[q] # NULL => waiting[q] \in Slots \ {i}
  BY <1>1, SlotFacts
<1>5. \A j \in Slots \ {i} : Debt(j)' = Debt(j)
  BY <1>1 DEF Debt
<1> QED BY <1>1, <1>2, <1>3, <1>4, <1>5, SlotFacts, SlotGoals DEF procs

LEMMA SleepStores ==
    ASSUME SleepInv, NEW i \in Slots, NEW v \in Nat, Stores(i, v)
    PROVE  SleepParts'
<1>1. /\ ref_count[i] = 0
      /\ \A j \in Slots \ {i} : sem_count'[j] = sem_count[j]
  BY DEF Stores, Free, SleepInv, NameInv, QueueInv, TypeOK
<1> QED BY <1>1, SlotFacts, SlotGoals DEF Stores, Debt, procs

LEMMA SleepDestroys ==
    ASSUME SleepInv, NEW i \in Slots, Destroys(i)
    PROVE  SleepParts'
<1>1. /\ blocked_list[i] = <<>>
      /\ \A j \in Slots \ {i} : /\ ref_count'[j] = ref_count[j]
                                /\ proc_list'[j] = proc_list[j]
                                /\ blocked_list'[j] = blocked_list[j]
      /\ ref_count'[i] = 0
      /\ UNCHANGED <<sem_count, unlinked, procs>>
  BY DEF Destroys, SleepInv, NameInv, QueueInv, TypeOK
<1>2. \A q \in Procs : waiting[q] # NULL => waiting[q] \in Slots \ {i}
  BY <1>1, SlotFacts DEF Range
<1> QED BY <1>1, <1>2, SlotFacts, SlotGoals DEF Debt, procs

\* The last member of an unlinked semaphore is not asleep on it unless it is
\* the one that goes, and nobody else's membership is touched.
LEMMA CloseKeepsSleepers ==
    ASSUME SleepInv, NEW p \in Procs, NEW S \in SUBSET Held(p), CloseSlots(p, S)
    PROVE  /\ \A q \in Procs \ {p} : waiting[q] # NULL =>
                /\ ref_count'[waiting[q]] # 0
                /\ proc_list'[waiting[q]][q] > 0
                /\ q \in Range(blocked_list'[waiting[q]])
           /\ ~fs_stuck => \A i \in Slots : ref_count'[i] # 0 =>
                Len(blocked_list'[i]) = Debt(i)'
           /\ \A i \in Slots : ref_count'[i] # 0 /\ unlinked'[i] =>
                proc_list'[i] # NoMembers
<1>1. ASSUME NEW q \in Procs \ {p}, waiting[q] # NULL
      PROVE  /\ ref_count'[waiting[q]] # 0
             /\ proc_list'[waiting[q]][q] > 0
             /\ q \in Range(blocked_list'[waiting[q]])
  <2> DEFINE i == waiting[q]
  <2>1. /\ i \in Slots /\ ref_count[i] # 0 /\ proc_list[i][q] > 0
        /\ q \in Range(blocked_list[i]) /\ proc_list[i] \in [Procs -> Nat]
    BY <1>1, SlotFacts
  <2>2. WithoutOne(i, p)[q] = proc_list[i][q]
    BY <1>1, <2>1 DEF WithoutOne
  <2>3. ~LastClose(i, p)
    BY <2>1, <2>2 DEF LastClose, NoMembers
  <2> HIDE DEF i
  <2>4. /\ ref_count'[i] # 0 /\ proc_list'[i][q] > 0
        /\ q \in Range(blocked_list'[i])
    BY <2>1, <2>2, <2>3 DEF CloseSlots
  <2> QED BY <2>4 DEF i
<1>2. ASSUME NEW i \in Slots, ref_count'[i] # 0
      PROVE  /\ ref_count[i] # 0
             /\ blocked_list'[i] = blocked_list[i]
             /\ unlinked'[i] = unlinked[i] /\ Debt(i)' = Debt(i)
             /\ unlinked[i] => proc_list'[i] # NoMembers
  <2>1. /\ ref_count[i] # 0 /\ ~(i \in S /\ LastClose(i, p))
        /\ blocked_list'[i] = blocked_list[i]
        /\ unlinked'[i] = unlinked[i] /\ sem_count'[i] = sem_count[i]
    BY <1>2 DEF CloseSlots
  <2>2. ASSUME unlinked[i] PROVE proc_list'[i] # NoMembers
    <3>1. CASE i \in S
      BY <1>2, <2>1, <2>2, <3>1 DEF CloseSlots, LastClose
    <3>2. CASE i \notin S
      BY <1>2, <2>1, <2>2, <3>2, SlotFacts DEF CloseSlots
    <3> QED BY <3>1, <3>2
  <2> QED BY <2>1, <2>2 DEF Debt
<1> QED BY <1>1, <1>2, SlotFacts

LEMMA SleepCloses ==
    ASSUME SleepInv, NEW p \in Procs, NEW S \in SUBSET Held(p), Closes(p, S)
    PROVE  SleepParts'
<1>1. CloseSlots(p, S) /\ waiting[p] = NULL /\ UNCHANGED procs
  BY DEF Closes
<1> QED BY <1>1, CloseKeepsSleepers, SlotFacts, SlotGoals DEF procs

LEMMA SleepExits ==
    ASSUME SleepInv, NEW p \in Procs, Exits(p)
    PROVE  SleepParts'
<1>1. /\ CloseSlots(p, Held(p)) /\ Held(p) \in SUBSET Held(p)
      /\ alive' = alive \ {p} /\ UNCHANGED fs_stuck
  BY DEF Exits
<1>2. waiting'[p] = NULL /\ \A q \in Procs \ {p} : waiting'[q] = waiting[q]
  BY DEF Exits, SleepInv, NameInv, QueueInv, TypeOK
<1>3. /\ \A q \in Procs \ {p} : waiting[q] # NULL =>
                /\ ref_count'[waiting[q]] # 0
                /\ proc_list'[waiting[q]][q] > 0
                /\ q \in Range(blocked_list'[waiting[q]])
      /\ ~fs_stuck => \A i \in Slots : ref_count'[i] # 0 =>
                Len(blocked_list'[i]) = Debt(i)'
      /\ \A i \in Slots : ref_count'[i] # 0 /\ unlinked'[i] =>
                proc_list'[i] # NoMembers
  BY <1>1, CloseKeepsSleepers
<1> QED BY <1>1, <1>2, <1>3, SlotFacts, SlotGoals

LEMMA SleepSleeps ==
    ASSUME SleepInv, NodesLast, NEW p \in Procs, NEW i \in Slots, Sleeps(p, i)
    PROVE  SleepParts'
<1>1. /\ p \in alive /\ waiting[p] = NULL /\ proc_list[i][p] > 0
      /\ ref_count[i] # 0 /\ sem_count[i] <= 0
      /\ UNCHANGED <<ref_count, proc_list, unlinked, alive, fs_stuck>>
  BY DEF Sleeps, Belongs, Live
<1>2. /\ sem_count'[i] = sem_count[i] - 1
      /\ blocked_list'[i] = InsertBlocked(blocked_list[i], p)
      /\ \A j \in Slots \ {i} : /\ sem_count'[j] = sem_count[j]
                                /\ blocked_list'[j] = blocked_list[j]
      /\ waiting'[p] = i /\ \A q \in Procs \ {p} : waiting'[q] = waiting[q]
  BY DEF Sleeps, SleepInv, NameInv, QueueInv, TypeOK
<1>3. /\ Len(blocked_list'[i]) = Len(blocked_list[i]) + 1
      /\ Range(blocked_list'[i]) = Range(blocked_list[i]) \cup {p}
  BY <1>2, SlotFacts, PushFront DEF InsertBlocked, NodesLast
<1>4. ~fs_stuck => \A j \in Slots : ref_count[j] # 0 =>
          Len(blocked_list'[j]) = Debt(j)'
  <2>1. \A j \in Slots \ {i} : Debt(j)' = Debt(j)
    BY <1>2 DEF Debt
  <2>2. Debt(i)' = Debt(i) + 1
    BY <1>1, <1>2, SlotFacts DEF Debt
  <2> QED BY <1>2, <1>3, <2>1, <2>2, SlotFacts
<1>5. \A q \in Procs : waiting'[q] # NULL =>
          /\ q \in alive
          /\ waiting'[q] \in Slots /\ ref_count[waiting'[q]] # 0
          /\ proc_list[waiting'[q]][q] > 0
          /\ q \in Range(blocked_list'[waiting'[q]])
  <2>1. ASSUME NEW q \in Procs \ {p}, waiting[q] # NULL
        PROVE  q \in Range(blocked_list'[waiting[q]])
    <3>1. waiting[q] \in Slots /\ q \in Range(blocked_list[waiting[q]])
      BY <2>1, SlotFacts
    <3> QED BY <1>2, <1>3, <3>1
  <2> QED BY <1>1, <1>2, <1>3, <2>1, SlotFacts
<1> QED BY <1>1, <1>4, <1>5, SlotFacts, SlotGoals

LEMMA SleepCounts ==
    ASSUME SleepInv, NEW i \in Slots, NEW d \in {-1, 1}, Counts(i, d)
    PROVE  SleepParts'
<1>1. /\ sem_count'[i] = sem_count[i] + d
      /\ \A j \in Slots \ {i} : sem_count'[j] = sem_count[j]
      /\ UNCHANGED <<ref_count, proc_list, blocked_list, unlinked, procs>>
  BY DEF Counts, SleepInv, NameInv, QueueInv, TypeOK
<1>2. Debt(i)' = 0 /\ Debt(i) = 0
  BY <1>1, SlotFacts DEF Debt, Counts
<1>3. \A j \in Slots : Debt(j)' = Debt(j)
  BY <1>1, <1>2 DEF Debt
<1> QED BY <1>1, <1>3, SlotFacts, SlotGoals DEF procs

\* What sem_post takes from a queue is the process it wakes, so that everybody
\* else stays queued.
LEMMA PopsFirst ==
    ASSUME SleepInv, NEW i \in Slots, NEW q \in Procs, Pops(i, q)
    PROVE  /\ \A r \in Procs \ {q} : waiting[r] # NULL =>
                r \in Range(blocked_list'[waiting[r]])
           /\ \A j \in Slots \ {i} : blocked_list'[j] = blocked_list[j]
           /\ blocked_list[i] # <<>> =>
                Len(blocked_list'[i]) = Len(blocked_list[i]) - 1
<1>1. /\ blocked_list'[i] = IF blocked_list[i] = <<>> THEN blocked_list[i]
                             ELSE Tail(blocked_list[i])
      /\ \A j \in Slots \ {i} : blocked_list'[j] = blocked_list[j]
  <2>1. blocked_list \in [Slots -> Seq(Procs)]
    BY DEF SleepInv, NameInv, QueueInv, TypeOK
  <2>2. blocked_list' = [blocked_list EXCEPT
            ![i] = IF @ = <<>> THEN @ ELSE Tail(@)]
    BY DEF Pops
  <2> QED BY <2>1, <2>2
<1>2. CASE blocked_list[i] = <<>>
  BY <1>1, <1>2, SlotFacts
<1>3. CASE blocked_list[i] # <<>>
  <2>1. /\ blocked_list'[i] = Tail(blocked_list[i]) /\ q = Head(blocked_list[i])
        /\ blocked_list[i] \in Seq(Procs)
    BY <1>1, <1>3, SlotFacts DEF Pops, WakeCandidates
  <2>2. /\ Len(blocked_list'[i]) = Len(blocked_list[i]) - 1
        /\ Range(blocked_list[i]) = Range(blocked_list'[i]) \cup {q}
    BY <1>3, <2>1, PopFront
  <2>3. ASSUME NEW r \in Procs \ {q}, waiting[r] # NULL
        PROVE  r \in Range(blocked_list'[waiting[r]])
    <3>1. waiting[r] \in Slots /\ r \in Range(blocked_list[waiting[r]])
      BY <2>3, SlotFacts
    <3> QED BY <1>1, <2>2, <3>1
  <2> QED BY <1>1, <2>2, <2>3
<1> QED BY <1>2, <1>3

LEMMA SleepWakes ==
    ASSUME SleepInv, NEW i \in Slots, NEW q \in Procs, Wakes(i, q)
    PROVE  SleepParts'
<1>1. /\ ref_count[i] # 0 /\ sem_count[i] < 0 /\ Pops(i, q)
      /\ UNCHANGED <<ref_count, proc_list, unlinked, alive, fs_stuck>>
  BY DEF Wakes, Pops, Delivered, Live
<1>2. /\ sem_count'[i] = sem_count[i] + 1
      /\ \A j \in Slots \ {i} : sem_count'[j] = sem_count[j]
      /\ waiting'[q] = NULL /\ \A r \in Procs \ {q} : waiting'[r] = waiting[r]
  BY DEF Wakes, Delivered, SleepInv, NameInv, QueueInv, TypeOK
<1>3. /\ \A r \in Procs \ {q} : waiting[r] # NULL =>
            r \in Range(blocked_list'[waiting[r]])
      /\ \A j \in Slots \ {i} : blocked_list'[j] = blocked_list[j]
      /\ blocked_list[i] # <<>> =>
            Len(blocked_list'[i]) = Len(blocked_list[i]) - 1
  BY <1>1, PopsFirst
<1>4. ~fs_stuck => \A j \in Slots : ref_count[j] # 0 =>
          Len(blocked_list'[j]) = Debt(j)'
  <2>1. \A j \in Slots \ {i} : Debt(j)' = Debt(j)
    BY <1>2 DEF Debt
  <2>2. Debt(i) > 0 /\ Debt(i)' = Debt(i) - 1
    BY <1>1, <1>2, SlotFacts DEF Debt
  <2>3. ~fs_stuck => blocked_list[i] # <<>>
    BY <1>1, <2>2, SlotFacts
  <2> QED BY <1>1, <1>3, <2>1, <2>2, <2>3, SlotFacts
<1> QED BY <1>1, <1>2, <1>3, <1>4, SlotFacts, SlotGoals

LEMMA SleepBlocks ==
    ASSUME SleepInv, NEW i \in Slots, NEW q \in Procs, Blocks(i, q)
    PROVE  SleepParts'
<1>1. /\ fs_stuck' /\ Pops(i, q) /\ waiting[q] = NULL
      /\ UNCHANGED <<ref_count, proc_list, unlinked, alive, waiting>>
  BY DEF Blocks, Pops, SendBlocks
<1>2. \A r \in Procs \ {q} : waiting[r] # NULL =>
          r \in Range(blocked_list'[waiting[r]])
  BY <1>1, PopsFirst
<1> QED BY <1>1, <1>2, SlotFacts, SlotGoals

LEMMA SleepForks ==
    ASSUME SleepInv, NEW p \in Procs, NEW child \in Procs, do_fork(p, child)
    PROVE  SleepParts'
<1>1. /\ \A j \in Slots : ref_count'[j] # 0 <=> ref_count[j] # 0
      /\ \A j \in Slots, q \in Procs : proc_list[j][q] > 0 => proc_list'[j][q] > 0
  <2>1. ASSUME NEW j \in Slots
        PROVE  ref_count'[j] # 0 <=> ref_count[j] # 0
    <3>1. j \in Held(p) => ref_count[j] # 0
      BY <2>1, MemberIsLive DEF Held, Live, SleepInv, NameInv
    <3> QED BY <2>1, <3>1, SlotFacts DEF do_fork
  <2>2. ASSUME NEW j \in Slots, NEW q \in Procs, proc_list[j][q] > 0
        PROVE  proc_list'[j][q] > 0
    BY <2>2, SlotFacts DEF do_fork
  <2> QED BY <2>1, <2>2
<1>2. \A j \in Slots : proc_list[j] # NoMembers => proc_list'[j] # NoMembers
  <2> SUFFICES ASSUME NEW j \in Slots, proc_list[j] # NoMembers
               PROVE  proc_list'[j] # NoMembers
    OBVIOUS
  <2>1. PICK q \in Procs : proc_list[j][q] # 0
    BY SlotFacts DEF NoMembers
  <2>2. proc_list'[j][q] > 0
    BY <1>1, <2>1, SlotFacts
  <2> QED BY <2>2 DEF NoMembers
<1> QED BY <1>1, <1>2, SlotFacts, SlotGoals DEF do_fork, Debt

LEMMA SleepNext ==
    ASSUME SleepInv, NodesLast, [Next]_vars
    PROVE  SleepParts'
<1>1. NameInv
  BY DEF SleepInv
<1>2. ASSUME NEW p \in Procs, NEW S \in SUBSET Slots, S \subseteq Held(p),
             Closes(p, S)
      PROVE  SleepParts'
  BY <1>2, SleepCloses
<1> QED BY <1>1, <1>2, StepEffects, SleepNoEffect, SleepUnlinks, SleepJoins,
           SleepCreates, SleepStores, SleepDestroys, SleepExits, SleepSleeps,
           SleepCounts, SleepWakes, SleepBlocks, SleepForks

LEMMA SleepInit == Init => SleepParts
<1> SUFFICES ASSUME Init PROVE SleepParts
  OBVIOUS
<1>1. \A p \in Procs : waiting[p] = NULL
  BY DEF Init
<1>2. Live = {}
  BY DEF Init, init_sem_server, Live
<1> QED BY <1>1, <1>2
    DEF SleepParts, SleepersKeepTheirSemaphore, SleepersAreQueued,
        BlockedIsDebt, UnlinkedHaveMembers

LEMMA SleepInvariant == Spec /\ []NodesLast => []SleepInv
<1>1. Init => SleepParts
  BY SleepInit
<1>2. NameInv /\ SleepParts /\ NodesLast /\ [Next]_vars => SleepParts'
  BY SleepNext DEF SleepInv
<1>3. NameInv /\ SleepParts => SleepInv
  BY DEF SleepInv
<1> QED BY <1>1, <1>2, <1>3, NameInvariant, PTL DEF Spec

\* While list nodes last, the count of a semaphore in use says exactly how long
\* its queue is, for every number of processes that wait, post, trywait, exit
\* and are killed asleep: a post never takes the branch of semaphore.c that
\* calls the semaphore corrupt.
THEOREM CountsAreQueueLengths == Spec /\ []NodesLast => []BlockedIsDebt
<1>1. SleepInv => BlockedIsDebt
  BY DEF SleepInv, SleepParts
<1> QED BY <1>1, SleepInvariant, PTL

\* While list nodes last, nobody sleeps on a semaphore that has been destroyed,
\* closed for good or given to other users, whoever is killed meanwhile.
THEOREM NobodySleepsOnFreedSlot ==
    Spec /\ []NodesLast => []SleepersKeepTheirSemaphore
<1>1. SleepInv => SleepersKeepTheirSemaphore
  BY DEF SleepInv, SleepParts
<1> QED BY <1>1, SleepInvariant, PTL

\* While list nodes last, an unlinked semaphore is given back with its last
\* member, by sem_close, exec, exit or kill.
THEOREM UnlinkedAreGivenBack == Spec /\ []NodesLast => []UnlinkedHaveMembers
<1>1. SleepInv => UnlinkedHaveMembers
  BY DEF SleepInv, SleepParts
<1> QED BY <1>1, SleepInvariant, PTL

-----------------------------------------------------------------------------
(***************************************************************************)
(* While, besides, no sleeper is killed, FS never hangs and each slot of   *)
(* the server implements the abstract semaphore.                           *)
(*                                                                         *)
(* The inductive invariant says of every slot that its queue is exactly    *)
(* the processes asleep on it, each once, and that its count is below zero *)
(* by their number.                                                        *)
(***************************************************************************)

SlotIsSound(i) ==
    /\ Range(blocked_list[i]) = Sleepers(i)
    /\ IsInjective(blocked_list[i])
    /\ Len(blocked_list[i]) = Debt(i)

QuietParts == ~fs_stuck /\ \A i \in Slots : SlotIsSound(i)
QuietInv   == SleepInv /\ QuietParts

-----------------------------------------------------------------------------
(***************************************************************************)
(* Queues without repetitions.                                             *)
(***************************************************************************)

LEMMA PushInjective ==
    ASSUME NEW l \in Seq(Procs), NEW p \in Procs, IsInjective(l), p \notin Range(l)
    PROVE  IsInjective(<<p>> \o l)
<1>1. /\ DOMAIN (<<p>> \o l) = 1 .. (Len(l) + 1) /\ DOMAIN l = 1 .. Len(l)
      /\ Len(l) \in Nat
  OBVIOUS
<1>2. /\ (<<p>> \o l)[1] = p
      /\ \A k \in 1 .. Len(l) : (<<p>> \o l)[k + 1] = l[k]
  OBVIOUS
<1>3. ASSUME NEW k \in 1 .. (Len(l) + 1), k # 1
      PROVE  /\ k - 1 \in 1 .. Len(l)
             /\ (<<p>> \o l)[k] = l[k - 1]
             /\ (<<p>> \o l)[k] # p
  <2>1. k - 1 \in 1 .. Len(l) /\ (k - 1) + 1 = k
    BY <1>1, <1>3
  <2>2. (<<p>> \o l)[k] = l[k - 1]
    BY <1>2, <2>1
  <2>3. l[k - 1] \in Range(l)
    BY <1>1, <2>1 DEF Range
  <2> QED BY <2>1, <2>2, <2>3
<1>4. ASSUME NEW a \in 1 .. (Len(l) + 1), NEW b \in 1 .. (Len(l) + 1),
             (<<p>> \o l)[a] = (<<p>> \o l)[b]
      PROVE  a = b
  <2>1. CASE a = 1 \/ b = 1
    BY <1>2, <1>3, <1>4, <2>1
  <2>2. CASE a # 1 /\ b # 1
    <3>1. l[a - 1] = l[b - 1] /\ a - 1 \in DOMAIN l /\ b - 1 \in DOMAIN l
      BY <1>1, <1>3, <1>4, <2>2
    <3>2. a - 1 = b - 1
      BY <3>1 DEF IsInjective
    <3> QED BY <1>1, <3>2
  <2> QED BY <2>1, <2>2
<1> QED BY <1>1, <1>4 DEF IsInjective

LEMMA PopInjective ==
    ASSUME NEW l \in Seq(Procs), l # <<>>, IsInjective(l)
    PROVE  /\ IsInjective(Tail(l))
           /\ Head(l) \notin Range(Tail(l))
<1>1. /\ DOMAIN Tail(l) = 1 .. (Len(l) - 1) /\ DOMAIN l = 1 .. Len(l)
      /\ Len(l) \in Nat /\ Len(l) >= 1 /\ Head(l) = l[1]
  OBVIOUS
<1>2. \A k \in 1 .. (Len(l) - 1) : Tail(l)[k] = l[k + 1]
  OBVIOUS
<1>3. \A k \in 1 .. (Len(l) - 1) : k + 1 \in 1 .. Len(l) /\ k + 1 # 1
  BY <1>1
<1>4. 1 \in 1 .. Len(l)
  BY <1>1
<1>5. ASSUME NEW a \in 1 .. (Len(l) - 1), NEW b \in 1 .. (Len(l) - 1),
             Tail(l)[a] = Tail(l)[b]
      PROVE  a = b
  <2>1. a + 1 = b + 1
    BY <1>1, <1>2, <1>3, <1>5 DEF IsInjective
  <2> QED BY <1>1, <2>1
<1>6. ASSUME NEW k \in 1 .. (Len(l) - 1) PROVE Tail(l)[k] # Head(l)
  BY <1>1, <1>2, <1>3, <1>4, <1>6 DEF IsInjective
<1> QED BY <1>1, <1>5, <1>6 DEF IsInjective, Range

\* The number of processes in a queue without repetitions is its length.
LEMMA QueueCardinality ==
    ASSUME NEW l \in Seq(Procs), IsInjective(l)
    PROVE  IsFiniteSet(Range(l)) /\ Cardinality(Range(l)) = Len(l)
<1>1. Len(l) \in Nat /\ DOMAIN l = 1 .. Len(l) /\ l \in [1 .. Len(l) -> Range(l)]
  BY DEF Range
<1>2. l \in Bijection(1 .. Len(l), Range(l))
  BY <1>1 DEF Bijection, Injection, Surjection, IsInjective, Range
<1>3. ExistsBijection(1 .. Len(l), Range(l))
  BY <1>2 DEF ExistsBijection
<1>4. IsFiniteSet(1 .. Len(l))
  BY <1>1, FS_Interval
<1> QED BY <1>1, <1>3, <1>4, FS_Bijection, FS_CountingElements

-----------------------------------------------------------------------------
(***************************************************************************)
(* What a step does to queues and sleepers.  Apart from falling asleep and *)
(* waking, nothing touches them: what is closed for good or destroyed has  *)
(* no sleepers, and so no queue.                                           *)
(***************************************************************************)

LEMMA QuietFacts ==
    ASSUME QuietInv
    PROVE  /\ ~fs_stuck
           /\ \A i \in Slots : /\ Range(blocked_list[i]) = Sleepers(i)
                               /\ IsInjective(blocked_list[i])
                               /\ Len(blocked_list[i]) = Debt(i)
                               /\ blocked_list[i] \in Seq(Procs)
                               /\ sem_count[i] \in Int
           /\ blocked_list \in [Slots -> Seq(Procs)]
           /\ sem_count \in [Slots -> Int]
           /\ waiting \in [Procs -> Slots \cup {NULL}]
BY DEF QuietInv, QuietParts, SlotIsSound, SleepInv, NameInv, QueueInv, TypeOK

LEMMA FreeIsQuiet ==
    ASSUME QuietInv, NEW i \in Slots, i \in Free
    PROVE  blocked_list[i] = <<>> /\ Sleepers(i) = {}
<1>1. blocked_list[i] = <<>>
  BY DEF QuietInv, SleepInv, NameInv, QueueInv, FreeSlotsAreEmpty
<1> QED BY <1>1, QuietFacts DEF Range

LEMMA FreeIsQuietAfter ==
    ASSUME QuietInv', NEW i \in Slots, ref_count'[i] = 0
    PROVE  Sleepers(i)' = {}
<1>1. blocked_list'[i] = <<>>
  BY DEF QuietInv, SleepInv, NameInv, QueueInv, FreeSlotsAreEmpty, Free
<1>2. Range(blocked_list'[i]) = Sleepers(i)'
  BY DEF QuietInv, QuietParts, SlotIsSound
<1> QED BY <1>1, <1>2 DEF Range

\* An empty range is an empty queue.
LEMMA NobodyQueued ==
    ASSUME NEW l \in Seq(Procs), Range(l) = {}
    PROVE  l = <<>>
<1>1. l # <<>> => 1 \in DOMAIN l
  OBVIOUS
<1> QED BY <1>1 DEF Range

LEMMA CloseTouchesNoQueue ==
    ASSUME QuietInv, NEW p \in Procs, waiting[p] = NULL, NEW S \in SUBSET Held(p),
           CloseSlots(p, S)
    PROVE  UNCHANGED <<sem_count, blocked_list>>
<1>1. ASSUME NEW i \in Slots, LastClose(i, p)
      PROVE  blocked_list[i] = <<>>
  <2>1. ASSUME NEW q \in Procs, waiting[q] = i PROVE FALSE
    <3>1. q # p
      BY <2>1, <1>1, NullIsNoSlot
    <3>2. proc_list[i][q] > 0 /\ proc_list[i] \in [Procs -> Nat]
      BY <1>1, <2>1, NullIsNoSlot, SlotFacts DEF QuietInv
    <3>3. WithoutOne(i, p)[q] = proc_list[i][q]
      BY <2>1, <3>1, <3>2 DEF WithoutOne
    <3> QED BY <1>1, <2>1, <3>2, <3>3 DEF LastClose, NoMembers
  <2>2. Sleepers(i) = {}
    BY <2>1 DEF Sleepers
  <2> QED BY <1>1, <2>2, QuietFacts, NobodyQueued
<1>2. \A i \in Slots : blocked_list'[i] = blocked_list[i]
  BY <1>1 DEF CloseSlots
<1>3. blocked_list' \in [Slots -> Seq(Procs)]
  BY <1>1, QuietFacts DEF CloseSlots
<1>4. blocked_list' = blocked_list
  BY <1>2, <1>3, QuietFacts
<1> QED BY <1>4 DEF CloseSlots

\* The steps after which queues, sleepers and counts are as before, and no free
\* slot is taken.
Untouched ==
    /\ UNCHANGED <<sem_count, blocked_list, waiting, fs_stuck>>
    /\ \A j \in Free : ref_count'[j] = 0

\* A new or refused semaphore puts a number into a free slot.
Renewed(i, v) ==
    /\ i \in Free
    /\ sem_count' = [sem_count EXCEPT ![i] = v]
    /\ \A j \in Slots \ {i} : ref_count'[j] = ref_count[j]
    /\ UNCHANGED <<blocked_list, waiting, fs_stuck>>

LEMMA QuietEffects ==
    ASSUME QuietInv, ~KillsSleepers, [Next]_vars
    PROVE  \/ Untouched
           \/ \E i \in Slots, v \in Nat : Renewed(i, v)
           \/ \E i \in Slots : Counts(i, -1) \/ Counts(i, 1)
           \/ \E p \in Procs, i \in Slots : Sleeps(p, i) \/ Wakes(i, p)
<1>1. NameInv
  BY DEF QuietInv, SleepInv
<1>0. ref_count \in [Slots -> Nat] /\ QueueInv
  BY <1>1 DEF NameInv, QueueInv, TypeOK
<1>2. CASE NoEffect
  BY <1>2 DEF NoEffect, Untouched, sems, procs, Free
<1>3. ASSUME NEW p \in Procs, NEW i \in Slots, Unlinks(p, i) \/ Joins(p, i)
      PROVE  Untouched
  <2>1. i \in Live /\ UNCHANGED <<sem_count, blocked_list, waiting, fs_stuck>>
    BY <1>3 DEF Unlinks, Joins, procs
  <2>2. \A j \in Slots \ {i} : ref_count'[j] = ref_count[j]
    BY <1>0, <1>3 DEF Unlinks, Joins
  <2> QED BY <2>1, <2>2 DEF Untouched, Live, Free
<1>4. ASSUME NEW i \in Slots, Destroys(i)
      PROVE  Untouched
  <2>1. blocked_list' = blocked_list
    BY <1>4, QuietFacts DEF Destroys
  <2>2. \A j \in Free : ref_count'[j] = 0
    BY <1>0, <1>4 DEF Destroys, Free
  <2> QED BY <1>4, <2>1, <2>2 DEF Destroys, Untouched, procs
<1>5. ASSUME NEW p \in Procs, NEW i \in Slots, NEW v \in Nat, NEW u \in BOOLEAN,
             Creates(p, i, v, u)
      PROVE  Renewed(i, v)
  <2>1. blocked_list' = blocked_list
    BY <1>5, QuietFacts, FreeIsQuiet DEF Creates, sem_create
  <2>2. \A j \in Slots \ {i} : ref_count'[j] = ref_count[j]
    BY <1>0, <1>5 DEF Creates, sem_create
  <2> QED BY <1>5, <2>1, <2>2 DEF Creates, sem_create, Renewed, procs
<1>6. ASSUME NEW i \in Slots, NEW v \in Nat, Stores(i, v)
      PROVE  Renewed(i, v)
  BY <1>6 DEF Stores, Renewed, procs
<1>7. ASSUME NEW p \in Procs, Exits(p)
      PROVE  Untouched
  <2>1. waiting[p] = NULL /\ CloseSlots(p, Held(p)) /\ UNCHANGED fs_stuck
    BY <1>7 DEF Exits
  <2>2. waiting' = waiting
    BY <1>7, <2>1, QuietFacts DEF Exits
  <2>3. \A j \in Free : ref_count'[j] = 0
    BY <2>1 DEF CloseSlots, Free
  <2> QED BY <2>1, <2>2, <2>3, CloseTouchesNoQueue DEF Untouched
<1>8. ASSUME NEW p \in Procs, NEW S \in SUBSET Slots, S \subseteq Held(p),
             Closes(p, S)
      PROVE  Untouched
  <2>1. \A j \in Free : ref_count'[j] = 0
    BY <1>8 DEF Closes, CloseSlots, Free
  <2> QED BY <1>8, <2>1, CloseTouchesNoQueue DEF Closes, Untouched, procs
<1>9. ASSUME NEW p \in Procs, NEW child \in Procs, do_fork(p, child)
      PROVE  Untouched
  <2>1. ASSUME NEW j \in Free PROVE ref_count'[j] = 0
    <3>1. j \notin Held(p)
      BY <1>0, <2>1, MemberIsLive DEF Held, Live, Free
    <3> QED BY <1>9, <2>1, <3>1 DEF do_fork, Free
  <2> QED BY <1>9, <2>1 DEF do_fork, Untouched
<1>10. ASSUME NEW i \in Slots, NEW q \in Procs, Blocks(i, q)
       PROVE  FALSE
  <2>1. sem_count[i] < 0 /\ q \in WakeCandidates(i) /\ waiting[q] = NULL
    BY <1>10 DEF Blocks, Pops, SendBlocks
  <2>2. Len(blocked_list[i]) > 0
    BY <2>1, QuietFacts DEF Debt
  <2>3. blocked_list[i] # <<>>
    BY <2>2
  <2>4. q \in Range(blocked_list[i])
    BY <2>1, <2>3, QuietFacts, PopFront DEF WakeCandidates
  <2> QED BY <2>1, <2>4, QuietFacts, NullIsNoSlot DEF Sleepers
<1> QED BY <1>1, <1>2, <1>3, <1>4, <1>5, <1>6, <1>7, <1>8, <1>9, <1>10,
           StepEffects

-----------------------------------------------------------------------------
(***************************************************************************)
(* Falling asleep and waking, slot by slot.                                *)
(***************************************************************************)

LEMMA SleepsFacts ==
    ASSUME QuietInv, NodesLast, NEW p \in Procs, NEW i \in Slots, Sleeps(p, i)
    PROVE  /\ p \notin Sleepers(i)
           /\ Sleepers(i)' = Sleepers(i) \cup {p}
           /\ blocked_list'[i] = <<p>> \o blocked_list[i]
           /\ sem_count[i] <= 0
           /\ sem_count'[i] = sem_count[i] - 1
           /\ \A j \in Slots \ {i} : /\ Sleepers(j)' = Sleepers(j)
                                     /\ blocked_list'[j] = blocked_list[j]
                                     /\ sem_count'[j] = sem_count[j]
<1>1. /\ waiting[p] = NULL
      /\ waiting'[p] = i /\ \A q \in Procs \ {p} : waiting'[q] = waiting[q]
  BY QuietFacts DEF Sleeps
<1>2. p \notin Sleepers(i)
  BY <1>1, NullIsNoSlot DEF Sleepers
<1>3. Sleepers(i)' = Sleepers(i) \cup {p}
  BY <1>1 DEF Sleepers
<1>4. ASSUME NEW j \in Slots \ {i} PROVE Sleepers(j)' = Sleepers(j)
  BY <1>1, <1>4, NullIsNoSlot DEF Sleepers
<1>5. blocked_list'[i] = <<p>> \o blocked_list[i]
  BY QuietFacts DEF Sleeps, InsertBlocked, NodesLast
<1>6. /\ sem_count[i] <= 0 /\ sem_count'[i] = sem_count[i] - 1
      /\ \A j \in Slots \ {i} : /\ blocked_list'[j] = blocked_list[j]
                                /\ sem_count'[j] = sem_count[j]
  BY QuietFacts DEF Sleeps
<1> QED BY <1>2, <1>3, <1>4, <1>5, <1>6

LEMMA WakesFacts ==
    ASSUME QuietInv, NEW q \in Procs, NEW i \in Slots, Wakes(i, q)
    PROVE  /\ blocked_list[i] # <<>>
           /\ q = Head(blocked_list[i])
           /\ q \in Sleepers(i)
           /\ Sleepers(i)' = Sleepers(i) \ {q}
           /\ blocked_list'[i] = Tail(blocked_list[i])
           /\ sem_count[i] < 0
           /\ sem_count'[i] = sem_count[i] + 1
           /\ \A j \in Slots \ {i} : /\ Sleepers(j)' = Sleepers(j)
                                     /\ blocked_list'[j] = blocked_list[j]
                                     /\ sem_count'[j] = sem_count[j]
<1>1. /\ sem_count[i] < 0 /\ sem_count'[i] = sem_count[i] + 1
      /\ \A j \in Slots \ {i} : /\ blocked_list'[j] = blocked_list[j]
                                /\ sem_count'[j] = sem_count[j]
  BY QuietFacts DEF Wakes, Pops
<1>2. blocked_list[i] # <<>>
  <2>1. Len(blocked_list[i]) > 0
    BY <1>1, QuietFacts DEF Debt
  <2> QED BY <2>1
<1>3. q = Head(blocked_list[i]) /\ blocked_list'[i] = Tail(blocked_list[i])
  BY <1>2, QuietFacts DEF Wakes, Pops, WakeCandidates
<1>4. q \in Sleepers(i)
  BY <1>2, <1>3, QuietFacts, PopFront
<1>5. waiting[q] = i
  BY <1>4 DEF Sleepers
<1>6. waiting'[q] = NULL /\ \A r \in Procs \ {q} : waiting'[r] = waiting[r]
  BY QuietFacts DEF Wakes, Delivered
<1>7. Sleepers(i)' = Sleepers(i) \ {q}
  BY <1>6, NullIsNoSlot DEF Sleepers
<1>8. ASSUME NEW j \in Slots \ {i} PROVE Sleepers(j)' = Sleepers(j)
  BY <1>5, <1>6, <1>8, NullIsNoSlot DEF Sleepers
<1> QED BY <1>1, <1>2, <1>3, <1>4, <1>7, <1>8

-----------------------------------------------------------------------------
(***************************************************************************)
(* Every effect keeps every slot sound.                                    *)
(***************************************************************************)

\* A slot that a step does not concern.
LEMMA SameSlot ==
    ASSUME QuietInv, NEW j \in Slots, Sleepers(j)' = Sleepers(j),
           blocked_list'[j] = blocked_list[j], sem_count'[j] = sem_count[j]
    PROVE  SlotIsSound(j)'
BY QuietFacts DEF SlotIsSound, Debt

LEMMA QuietUntouched == ASSUME QuietInv, Untouched PROVE QuietParts'
BY DEF QuietInv, QuietParts, Untouched, SlotIsSound, Sleepers, Debt

\* The slots but for the count of one, which is not negative before or after.
LEMMA QuietCounted ==
    ASSUME QuietInv, NEW i \in Slots, NEW v \in Nat, Debt(i) = 0,
           sem_count' = [sem_count EXCEPT ![i] = v],
           UNCHANGED <<blocked_list, waiting, fs_stuck>>
    PROVE  QuietParts'
<1>1. \A j \in Slots : Sleepers(j)' = Sleepers(j)
  BY DEF Sleepers
<1>2. Debt(i)' = 0
  BY QuietFacts DEF Debt
<1>3. SlotIsSound(i)'
  BY <1>1, <1>2, QuietFacts DEF SlotIsSound
<1>4. ASSUME NEW j \in Slots \ {i} PROVE SlotIsSound(j)'
  BY <1>1, <1>4, QuietFacts, SameSlot
<1> QED BY <1>3, <1>4, QuietFacts DEF QuietParts

LEMMA QuietRenewed ==
    ASSUME QuietInv, NEW i \in Slots, NEW v \in Nat, Renewed(i, v)
    PROVE  QuietParts'
<1>1. Len(blocked_list[i]) = 0
  BY FreeIsQuiet DEF Renewed
<1>2. Debt(i) = 0
  BY <1>1, QuietFacts
<1> QED BY <1>2, QuietCounted DEF Renewed

LEMMA QuietCounts ==
    ASSUME QuietInv, NEW i \in Slots, NEW d \in {-1, 1}, Counts(i, d)
    PROVE  QuietParts'
<1>1. Debt(i) = 0 /\ sem_count[i] + d \in Nat
  BY QuietFacts DEF Counts, Debt
<1>2. sem_count' = [sem_count EXCEPT ![i] = sem_count[i] + d]
  BY DEF Counts
<1>3. UNCHANGED <<blocked_list, waiting, fs_stuck>>
  BY DEF Counts, procs
<1> QED BY <1>1, <1>2, <1>3, QuietCounted

LEMMA QuietSleeps ==
    ASSUME QuietInv, NodesLast, NEW p \in Procs, NEW i \in Slots, Sleeps(p, i)
    PROVE  QuietParts'
<1> DEFINE l == blocked_list[i]
<1>1. /\ l \in Seq(Procs) /\ Range(l) = Sleepers(i) /\ IsInjective(l)
      /\ Len(l) = Debt(i) /\ sem_count[i] \in Int
  BY QuietFacts
<1>2. /\ p \notin Range(l) /\ blocked_list'[i] = <<p>> \o l
      /\ Sleepers(i)' = Range(l) \cup {p}
      /\ sem_count[i] <= 0 /\ sem_count'[i] = sem_count[i] - 1
  BY <1>1, SleepsFacts
<1> HIDE DEF l
<1>3. IsInjective(<<p>> \o l)
  BY <1>1, <1>2, PushInjective
<1>4. Range(<<p>> \o l) = Range(l) \cup {p} /\ Len(<<p>> \o l) = Len(l) + 1
  BY <1>1, PushFront
<1>5. Debt(i)' = Debt(i) + 1
  BY <1>1, <1>2 DEF Debt
<1>6. SlotIsSound(i)'
  BY <1>1, <1>2, <1>3, <1>4, <1>5 DEF SlotIsSound
<1>7. ASSUME NEW j \in Slots \ {i} PROVE SlotIsSound(j)'
  BY <1>7, SleepsFacts, SameSlot
<1>8. ~fs_stuck'
  BY QuietFacts DEF Sleeps
<1> QED BY <1>6, <1>7, <1>8 DEF QuietParts

LEMMA QuietWakes ==
    ASSUME QuietInv, NEW q \in Procs, NEW i \in Slots, Wakes(i, q)
    PROVE  QuietParts'
<1> DEFINE l == blocked_list[i]
<1>1. /\ l \in Seq(Procs) /\ Range(l) = Sleepers(i) /\ IsInjective(l)
      /\ Len(l) = Debt(i) /\ sem_count[i] \in Int
  BY QuietFacts
<1>2. /\ l # <<>> /\ q = Head(l) /\ blocked_list'[i] = Tail(l)
      /\ Sleepers(i)' = Range(l) \ {q}
      /\ sem_count[i] < 0 /\ sem_count'[i] = sem_count[i] + 1
  BY <1>1, WakesFacts
<1> HIDE DEF l
<1>3. IsInjective(Tail(l)) /\ q \notin Range(Tail(l))
  BY <1>1, <1>2, PopInjective
<1>4. Range(l) = Range(Tail(l)) \cup {q} /\ Len(Tail(l)) = Len(l) - 1
  BY <1>1, <1>2, PopFront
<1>5. Debt(i)' = Debt(i) - 1
  BY <1>1, <1>2 DEF Debt
<1>6. Sleepers(i)' = Range(Tail(l))
  BY <1>2, <1>3, <1>4
<1>7. SlotIsSound(i)'
  BY <1>1, <1>2, <1>3, <1>4, <1>5, <1>6 DEF SlotIsSound
<1>8. ASSUME NEW j \in Slots \ {i} PROVE SlotIsSound(j)'
  BY <1>8, WakesFacts, SameSlot
<1>9. ~fs_stuck'
  BY QuietFacts DEF Wakes, Delivered
<1> QED BY <1>7, <1>8, <1>9 DEF QuietParts

LEMMA QuietNext ==
    ASSUME QuietInv, NodesLast, ~KillsSleepers, [Next]_vars
    PROVE  QuietParts'
<1>1. ASSUME NEW i \in Slots, Counts(i, -1) \/ Counts(i, 1)
      PROVE  QuietParts'
  BY <1>1, QuietCounts
<1> QED BY <1>1, QuietEffects, QuietUntouched, QuietRenewed, QuietSleeps,
           QuietWakes

LEMMA QuietInit == Init => QuietParts
<1> SUFFICES ASSUME Init PROVE QuietParts
  OBVIOUS
<1>1. \A i \in Slots : sem_count[i] = 0 /\ blocked_list[i] = <<>>
  BY DEF Init, init_sem_server
<1>2. \A i \in Slots : Sleepers(i) = {}
  BY NullIsNoSlot DEF Init, Sleepers
<1>3. Range(<<>>) = {} /\ IsInjective(<<>>)
  BY DEF Range, IsInjective
<1>4. ASSUME NEW i \in Slots PROVE SlotIsSound(i)
  <2>1. Debt(i) = 0
    BY <1>1 DEF Debt
  <2> QED BY <1>1, <1>2, <1>3, <2>1 DEF SlotIsSound
<1>5. ~fs_stuck
  BY DEF Init
<1> QED BY <1>4, <1>5 DEF QuietParts

LEMMA QuietInvariant ==
    ASSUME ~KillsSleepers
    PROVE  Spec /\ []NodesLast => []QuietInv
<1>1. Init => QuietParts
  BY QuietInit
<1>2. SleepInv /\ QuietParts /\ NodesLast /\ [Next]_vars => QuietParts'
  BY QuietNext DEF QuietInv
<1>3. SleepInv /\ QuietParts => QuietInv
  BY DEF QuietInv
<1> QED BY <1>1, <1>2, <1>3, SleepInvariant, PTL DEF Spec

-----------------------------------------------------------------------------
(***************************************************************************)
(* A slot as a semaphore.  The number is the count where that is positive, *)
(* and zero otherwise.                                                     *)
(***************************************************************************)

LEMMA Number ==
    ASSUME QuietInv, NEW i \in Slots
    PROVE  Cardinality(Sleepers(i)) = Debt(i)
BY QuietFacts, QueueCardinality

LEMMA NumberAfter ==
    ASSUME QuietInv', NEW i \in Slots
    PROVE  Cardinality(Sleepers(i)') = Debt(i)'
<1>1. /\ Range(blocked_list'[i]) = Sleepers(i)'
      /\ IsInjective(blocked_list'[i])
      /\ Len(blocked_list'[i]) = Debt(i)'
      /\ blocked_list'[i] \in Seq(Procs)
  BY DEF QuietInv, QuietParts, SlotIsSound, SleepInv, NameInv, QueueInv, TypeOK
<1> QED BY <1>1, QueueCardinality

LEMMA SameSemaphore ==
    ASSUME NEW j \in Slots, Sleepers(j)' = Sleepers(j),
           sem_count'[j] = sem_count[j], ref_count'[j] = ref_count[j]
    PROVE  UNCHANGED Abstract(j)!vars
BY DEF Abstract!vars

\* A slot that is freed, if anything happens to it, has no sleepers.
LEMMA UntouchedIsRetire ==
    ASSUME QuietInv, QuietInv', Untouched, NEW j \in Slots
    PROVE  Abstract(j)!Next \/ UNCHANGED Abstract(j)!vars
<1>1. Sleepers(j)' = Sleepers(j) /\ sem_count'[j] = sem_count[j]
  BY DEF Untouched, Sleepers
<1>2. ref_count[j] \in Nat /\ ref_count'[j] \in Nat
  BY DEF QuietInv, SleepInv, NameInv, QueueInv, TypeOK
<1>3. CASE ref_count[j] = 0
  <2>1. ref_count'[j] = ref_count[j]
    BY <1>3 DEF Untouched, Free
  <2> QED BY <1>1, <2>1, SameSemaphore
<1>4. CASE ref_count[j] # 0 /\ ref_count'[j] # 0
  BY <1>1, <1>4 DEF Abstract!vars
<1>5. CASE ref_count[j] # 0 /\ ref_count'[j] = 0
  <2>1. Sleepers(j)' = {}
    BY <1>5, FreeIsQuietAfter
  <2>2. Abstract(j)!Retire
    BY <1>1, <1>5, <2>1 DEF Abstract!Retire
  <2> QED BY <2>2 DEF Abstract!Next
<1> QED BY <1>3, <1>4, <1>5

LEMMA RenewedIsCreate ==
    ASSUME QuietInv, NEW i \in Slots, NEW v \in Nat, Renewed(i, v),
           NEW j \in Slots
    PROVE  Abstract(j)!Next \/ UNCHANGED Abstract(j)!vars
<1>1. Sleepers(j)' = Sleepers(j)
  BY DEF Renewed, Sleepers
<1>2. CASE j # i
  BY <1>1, <1>2, SameSemaphore, QuietFacts DEF Renewed
<1>3. CASE j = i
  <2>1. Sleepers(j) = {}
    BY <1>3, FreeIsQuiet DEF Renewed
  <2>2. sem_count'[j] = v /\ Cardinality({}) = 0
    BY <1>3, QuietFacts, FS_EmptySet DEF Renewed
  <2>3. (sem_count[j] + Cardinality(Sleepers(j)))' \in Nat
    BY <1>1, <2>1, <2>2
  <2>4. ref_count[j] = 0
    BY <1>3 DEF Renewed, Free
  <2>5. Abstract(j)!Create
    BY <1>1, <2>1, <2>3, <2>4 DEF Abstract!Create
  <2> QED BY <2>5 DEF Abstract!Next
<1> QED BY <1>2, <1>3

LEMMA CountsIsLockOrUnlock ==
    ASSUME QuietInv, NEW i \in Slots, NEW d \in {-1, 1}, Counts(i, d),
           NEW j \in Slots
    PROVE  Abstract(j)!Next \/ UNCHANGED Abstract(j)!vars
<1>1. Sleepers(j)' = Sleepers(j)
  BY DEF Counts, Sleepers, procs
<1>2. CASE j # i
  BY <1>1, <1>2, SameSemaphore, QuietFacts DEF Counts
<1>3. CASE j = i
  <2>1. /\ sem_count'[j] = sem_count[j] + d /\ sem_count[j] \in Int
        /\ (d = -1 /\ sem_count[j] > 0) \/ (d = 1 /\ sem_count[j] >= 0)
    BY <1>3, QuietFacts DEF Counts
  <2>2. Debt(j) = 0
    BY <2>1 DEF Debt
  <2>3. Len(blocked_list[j]) = 0 /\ Range(blocked_list[j]) = Sleepers(j)
    BY <2>2, QuietFacts
  <2>4. Sleepers(j) = {} /\ Cardinality(Sleepers(j)) = 0
    BY <2>2, <2>3, Number, QuietFacts DEF Range
  <2>7. ref_count[j] # 0 /\ ref_count'[j] = ref_count[j]
    BY <1>3 DEF Counts, Live
  <2>5. CASE d = -1 /\ sem_count[j] > 0
    BY <1>1, <2>1, <2>4, <2>5, <2>7 DEF Abstract!Next, Abstract!Lock
  <2>6. CASE d = 1
    BY <1>1, <2>1, <2>4, <2>6, <2>7 DEF Abstract!Next, Abstract!Unlock
  <2> QED BY <2>1, <2>5, <2>6
<1> QED BY <1>2, <1>3

LEMMA SleepsIsSleep ==
    ASSUME QuietInv, QuietInv', NodesLast, NEW p \in Procs, NEW i \in Slots,
           Sleeps(p, i), NEW j \in Slots
    PROVE  Abstract(j)!Next \/ UNCHANGED Abstract(j)!vars
<1>1. CASE j # i
  BY <1>1, SleepsFacts, SameSemaphore DEF Sleeps
<1>2. CASE j = i
  <2>1. /\ Cardinality(Sleepers(j)) = Debt(j)
        /\ Cardinality(Sleepers(j)') = Debt(j)'
    BY Number, NumberAfter
  <2>2. /\ sem_count[j] \in Int /\ sem_count[j] <= 0
        /\ sem_count'[j] = sem_count[j] - 1
    BY <1>2, QuietFacts, SleepsFacts
  <2>3. /\ sem_count[j] + Cardinality(Sleepers(j)) = 0
        /\ (sem_count[j] + Cardinality(Sleepers(j)))' = 0
    BY <2>1, <2>2 DEF Debt
  <2>4. p \notin Sleepers(j) /\ Sleepers(j)' = Sleepers(j) \cup {p}
    BY <1>2, SleepsFacts
  <2>6. ref_count[j] # 0 /\ ref_count'[j] = ref_count[j]
    BY <1>2 DEF Sleeps, Live
  <2>5. Abstract(j)!Sleep(p)
    BY <2>3, <2>4, <2>6 DEF Abstract!Sleep
  <2> QED BY <2>5 DEF Abstract!Next
<1> QED BY <1>1, <1>2

LEMMA WakesIsWake ==
    ASSUME QuietInv, QuietInv', NEW q \in Procs, NEW i \in Slots, Wakes(i, q),
           NEW j \in Slots
    PROVE  Abstract(j)!Next \/ UNCHANGED Abstract(j)!vars
<1>1. CASE j # i
  BY <1>1, WakesFacts, SameSemaphore DEF Wakes, Pops
<1>2. CASE j = i
  <2>1. /\ Cardinality(Sleepers(j)) = Debt(j)
        /\ Cardinality(Sleepers(j)') = Debt(j)'
    BY Number, NumberAfter
  <2>2. /\ sem_count[j] \in Int /\ sem_count[j] < 0
        /\ sem_count'[j] = sem_count[j] + 1
    BY <1>2, QuietFacts, WakesFacts
  <2>3. (sem_count[j] + Cardinality(Sleepers(j)))'
            = sem_count[j] + Cardinality(Sleepers(j))
    BY <2>1, <2>2 DEF Debt
  <2>4. q \in Sleepers(j) /\ Sleepers(j)' = Sleepers(j) \ {q}
    BY <1>2, WakesFacts
  <2>6. ref_count[j] # 0 /\ ref_count'[j] = ref_count[j]
    BY <1>2 DEF Wakes, Pops, Live
  <2>5. Abstract(j)!Wake(q)
    BY <2>3, <2>4, <2>6 DEF Abstract!Wake
  <2> QED BY <2>5 DEF Abstract!Next
<1> QED BY <1>1, <1>2

LEMMA StepIsSemaphoreStep ==
    ASSUME QuietInv, QuietInv', NodesLast, ~KillsSleepers, [Next]_vars
    PROVE  \A j \in Slots : Abstract(j)!Next \/ UNCHANGED Abstract(j)!vars
<1> SUFFICES ASSUME NEW j \in Slots
             PROVE  Abstract(j)!Next \/ UNCHANGED Abstract(j)!vars
  OBVIOUS
<1>1. CASE Untouched
  BY <1>1, UntouchedIsRetire
<1>2. ASSUME NEW i \in Slots, Counts(i, -1) \/ Counts(i, 1)
      PROVE  Abstract(j)!Next \/ UNCHANGED Abstract(j)!vars
  BY <1>2, CountsIsLockOrUnlock
<1> QED BY <1>1, <1>2, QuietEffects, RenewedIsCreate, SleepsIsSleep, WakesIsWake

LEMMA InitIsSemaphoreInit == Init => \A i \in Slots : Abstract(i)!Init
<1> SUFFICES ASSUME Init, NEW i \in Slots PROVE Abstract(i)!Init
  OBVIOUS
<1>1. Sleepers(i) = {}
  BY NullIsNoSlot DEF Init, Sleepers
<1>2. Cardinality(Sleepers(i)) = 0
  BY <1>1, FS_EmptySet
<1>3. sem_count[i] = 0 /\ ref_count[i] = 0
  BY DEF Init, init_sem_server
<1> QED BY <1>1, <1>2, <1>3 DEF Abstract!Init

-----------------------------------------------------------------------------

\* The queue of every semaphore in use is exactly the processes asleep on it,
\* each once: no post wakes a process that does not sleep there, or passes over
\* the sleepers.  While list nodes last and sleepers are not killed.
THEOREM QueuesHoldTheSleepers ==
    ASSUME ~KillsSleepers
    PROVE  Spec /\ []NodesLast => []BlockedListHoldsSleepers
<1>1. QuietInv => BlockedListHoldsSleepers
  BY DEF QuietInv, QuietParts, SlotIsSound, BlockedListHoldsSleepers, Live
<1> QED BY <1>1, QuietInvariant, PTL

\* sem_post never has FS send to a process that awaits no reply, so FS goes on
\* serving.  While list nodes last and sleepers are not killed.
THEOREM FsGoesOnServing ==
    ASSUME ~KillsSleepers
    PROVE  Spec /\ []NodesLast => []FsNeverStuck
<1>1. QuietInv => FsNeverStuck
  BY DEF QuietInv, QuietParts, FsNeverStuck
<1> QED BY <1>1, QuietInvariant, PTL

\* Every slot implements the counting semaphore of module Semaphore, through
\* every destruction and reuse: sem_open and sem_init are Create, sem_wait is
\* Lock or Sleep, sem_post is Unlock or Wake, the last close, exit or exec and
\* sem_destroy are Retire, and nothing else changes the number or the sleepers.
\* While list nodes last and sleepers are not killed.
THEOREM ServerImplementsSemaphores ==
    ASSUME ~KillsSleepers
    PROVE  Spec /\ []NodesLast => SlotsAreSemaphores
<1>1. Init => \A i \in Slots : Abstract(i)!Init
  BY InitIsSemaphoreInit
<1>2. QuietInv /\ QuietInv' /\ NodesLast /\ [Next]_vars
        => [\A i \in Slots : Abstract(i)!Next \/ UNCHANGED Abstract(i)!vars]_vars
  BY StepIsSemaphoreStep
<1> QED BY <1>1, <1>2, QuietInvariant, PTL DEF Spec, SlotsAreSemaphores
=============================================================================
