--------------------------- MODULE SemServer_proofs ---------------------------
(***************************************************************************)
(* Proofs about SemServer, for every number of processes, slots, names,    *)
(* table rows and list nodes, with or without killed sleepers.             *)
(***************************************************************************)
EXTENDS SemServer, FiniteSetTheorems, TLAPS

(***************************************************************************)
(* What the shared building blocks keep well typed.                        *)
(***************************************************************************)

\* ListInsert on a proc_list returns a proc_list, whether or not a node is left.
LEMMA InsertMemberType ==
    ASSUME NEW l \in [Procs -> Nat], NEW p \in Procs
    PROVE  InsertMember(l, p) \in [Procs -> Nat]
BY DEF InsertMember

\* ListInsert on a blocked_list adds at most one element.
LEMMA InsertBlockedType ==
    ASSUME NEW l \in Seq(Procs), NEW p \in Procs
    PROVE  /\ InsertBlocked(l, p) \in Seq(Procs)
           /\ Len(InsertBlocked(l, p)) <= Len(l) + 1
BY DEF InsertBlocked

LEMMA NoMembersType == NoMembers \in [Procs -> Nat]
BY DEF NoMembers

\* HashTableInsert returns a table.
LEMMA HashTableInsertType ==
    ASSUME NEW h \in HashTableType(Slots), NEW k \in Keys, NEW i \in Slots,
           NEW h2, HashTableInsert(h, k, i, h2)
    PROVE  h2 \in HashTableType(Slots)
BY DEF HashTableInsert, HashTableType, WriteKey

LEMMA HashTableRemoveType ==
    ASSUME NEW h \in HashTableType(Slots), NEW k \in Keys
    PROVE  HashTableRemove(h, k) \in HashTableType(Slots)
BY DEF HashTableRemove, HashTableType

\* sem_close on a set of slots the process belongs to.
LEMMA CloseSlotsType ==
    ASSUME TypeOK, NEW p \in Procs, NEW S \in SUBSET Held(p), CloseSlots(p, S)
    PROVE  /\ proc_list' \in [Slots -> [Procs -> Nat]]
           /\ blocked_list' \in [Slots -> Seq(Procs)]
           /\ ref_count' \in [Slots -> Nat]
<1>1. \A i \in S : i \in Slots /\ proc_list[i] \in [Procs -> Nat]
                   /\ proc_list[i][p] > 0
  BY DEF TypeOK, Held, Belongs
<1>2. \A i \in S : WithoutOne(i, p) \in [Procs -> Nat]
  BY <1>1 DEF WithoutOne
<1>3. proc_list' \in [Slots -> [Procs -> Nat]]
  BY <1>2 DEF CloseSlots, TypeOK
<1>4. /\ blocked_list' \in [Slots -> Seq(Procs)]
      /\ ref_count' \in [Slots -> Nat]
  BY DEF CloseSlots, TypeOK
<1> QED BY <1>3, <1>4

LEMMA CreateType ==
    ASSUME TypeOK, NEW p \in Procs, NEW i \in Slots, NEW v \in Nat,
           NEW u \in BOOLEAN, sem_create(p, i, v, u)
    PROVE  /\ sem_count' \in [Slots -> Int]
           /\ ref_count' \in [Slots -> Nat]
           /\ proc_list' \in [Slots -> [Procs -> Nat]]
           /\ blocked_list' \in [Slots -> Seq(Procs)]
           /\ unlinked' \in [Slots -> BOOLEAN]
<1>1. InsertMember(NoMembers, p) \in [Procs -> Nat]
  BY NoMembersType, InsertMemberType
<1> QED BY <1>1 DEF sem_create, TypeOK

LEMMA CreateFailsType ==
    ASSUME TypeOK, NEW v \in Nat, sem_create_fails(v)
    PROVE  /\ sem_count' \in [Slots -> Int]
           /\ ref_count' \in [Slots -> Nat]
           /\ proc_list' \in [Slots -> [Procs -> Nat]]
           /\ blocked_list' \in [Slots -> Seq(Procs)]
           /\ unlinked' \in [Slots -> BOOLEAN]
           /\ errno' \in Errors
BY DEF sem_create_fails, TypeOK, Errors

-----------------------------------------------------------------------------
(***************************************************************************)
(* Type correctness.                                                       *)
(***************************************************************************)

LEMMA NamedCallType ==
    ASSUME TypeOK, NEW p \in Procs, NamedCall(p)
    PROVE  TypeOK'
<1>1. PICK n \in Keys :
        \/ sem_unlink(p, n)
        \/ \E oflag \in OFlags, v \in Nat : sem_open(p, n, oflag, v)
  BY SemServerAssumption DEF NamedCall, InitialValues
<1>2. CASE sem_unlink(p, n)
  <2>1. HashTableRemove(sem_name_map, n) \in HashTableType(Slots)
    BY HashTableRemoveType DEF TypeOK
  <2> QED BY <1>2, <2>1 DEF sem_unlink, TypeOK, Errors, procs, names
<1>3. ASSUME NEW oflag \in OFlags, NEW v \in Nat, sem_open(p, n, oflag, v)
      PROVE  TypeOK'
  <2>1. CASE \E i \in Slots : sem_open_existing(p, i)
    <3>1. PICK i \in Slots : sem_open_existing(p, i)
      BY <2>1
    <3>2. InsertMember(proc_list[i], p) \in [Procs -> Nat]
      BY InsertMemberType DEF TypeOK
    <3> QED BY <1>3, <3>1, <3>2
            DEF sem_open, sem_open_existing, TypeOK, Errors, procs, names
  <2>2. CASE \E i \in Slots :
                /\ sem_create(p, i, v, FALSE)
                /\ HashTableInsert(sem_name_map, n, i, sem_name_map')
                /\ opened_as' = [opened_as EXCEPT ![i] = n]
                /\ errno' = "0"
    <3>1. PICK i \in Slots :
                /\ sem_create(p, i, v, FALSE)
                /\ HashTableInsert(sem_name_map, n, i, sem_name_map')
                /\ opened_as' = [opened_as EXCEPT ![i] = n]
                /\ errno' = "0"
      BY <2>2
    <3>2. sem_name_map' \in HashTableType(Slots)
      BY <3>1, HashTableInsertType DEF TypeOK
    <3>3. opened_as' \in [Slots -> Keys \cup {EmptyKey}]
      BY <3>1 DEF TypeOK
    <3>4. UNCHANGED procs
      BY <1>3 DEF sem_open
    <3> QED BY <3>1, <3>2, <3>3, <3>4, CreateType DEF TypeOK, Errors, procs
  <2>3. CASE sem_create_fails(v) /\ UNCHANGED names
    BY <1>3, <2>3, CreateFailsType DEF sem_open, TypeOK, procs, names
  <2>4. CASE UNCHANGED <<sems, names>> /\ errno' \in Errors
    BY <1>3, <2>4 DEF sem_open, TypeOK, sems, procs, names
  <2> QED BY <1>3, <2>1, <2>2, <2>3, <2>4 DEF sem_open, sem_open_new, Errors
<1> QED BY <1>1, <1>2, <1>3

LEMMA RefusedType ==
    ASSUME TypeOK, NEW p, NEW h, Refused(p, h), UNCHANGED <<names, procs>>
    PROVE  TypeOK'
BY DEF Refused, TypeOK, Errors, sems, names, procs

LEMMA HandleCallType ==
    ASSUME TypeOK, NEW p \in Procs, HandleCall(p)
    PROVE  TypeOK'
<1>1. PICK h \in Handles :
        \/ sem_destroy(p, h) \/ sem_close(p, h) \/ sem_wait(p, h)
        \/ sem_trywait(p, h) \/ sem_post(p, h) \/ sem_getvalue(p, h)
  BY DEF HandleCall
<1>2. CASE Refused(p, h) /\ UNCHANGED <<names, procs>>
  BY <1>2, RefusedType
<1>3. CASE ValidHandle(p, h) /\ ~Refused(p, h)
  <2>1. h \in Slots /\ h \in Held(p)
    BY <1>3 DEF ValidHandle, Held
  <2>2. CASE sem_destroy(p, h)
    <3>1. UNCHANGED <<names, procs, sem_count, unlinked>>
      BY <1>3, <2>2 DEF sem_destroy, sems
    <3>2. errno' \in Errors
      BY <1>3, <2>2 DEF sem_destroy, TypeOK, Errors
    <3>3. \/ UNCHANGED <<proc_list, blocked_list, ref_count>>
          \/ /\ proc_list' = [proc_list EXCEPT ![h] = NoMembers]
             /\ blocked_list' = [blocked_list EXCEPT ![h] = <<>>]
             /\ ref_count' = [ref_count EXCEPT ![h] = 0]
      BY <1>3, <2>2 DEF sem_destroy, sems
    <3>4. CASE UNCHANGED <<proc_list, blocked_list, ref_count>>
      BY <3>1, <3>2, <3>4 DEF TypeOK, names, procs
    <3>5. CASE /\ proc_list' = [proc_list EXCEPT ![h] = NoMembers]
               /\ blocked_list' = [blocked_list EXCEPT ![h] = <<>>]
               /\ ref_count' = [ref_count EXCEPT ![h] = 0]
      BY <2>1, <3>1, <3>2, <3>5, NoMembersType DEF TypeOK, names, procs
    <3> QED BY <3>3, <3>4, <3>5
  <2>3. CASE sem_close(p, h)
    <3>1. CloseSlots(p, {h}) /\ UNCHANGED <<errno, procs>>
      BY <1>3, <2>3 DEF sem_close
    <3>2. {h} \in SUBSET Held(p)
      BY <2>1
    <3>3. /\ proc_list' \in [Slots -> [Procs -> Nat]]
          /\ blocked_list' \in [Slots -> Seq(Procs)]
          /\ ref_count' \in [Slots -> Nat]
      BY <3>1, <3>2, CloseSlotsType
    <3> QED BY <3>1, <3>3 DEF CloseSlots, TypeOK, names, procs
  <2>4. CASE sem_wait(p, h)
    <3>1. InsertBlocked(blocked_list[h], p) \in Seq(Procs)
      BY <2>1, InsertBlockedType DEF TypeOK
    <3>2. UNCHANGED <<names, alive, fs_stuck, ref_count, proc_list, unlinked>>
          /\ errno' = "0"
      BY <1>3, <2>4 DEF sem_wait
    <3>3. sem_count' \in [Slots -> Int]
      BY <1>3, <2>1, <2>4 DEF sem_wait, TypeOK
    <3>4. blocked_list' \in [Slots -> Seq(Procs)]
      BY <1>3, <2>1, <2>4, <3>1 DEF sem_wait, TypeOK
    <3>5. waiting' \in [Procs -> Slots \cup {NULL}]
      BY <1>3, <2>1, <2>4 DEF sem_wait, TypeOK
    <3> QED BY <3>2, <3>3, <3>4, <3>5 DEF TypeOK, Errors, names
  <2>5. CASE sem_trywait(p, h)
    BY <1>3, <2>1, <2>5 DEF sem_trywait, TypeOK, Errors, sems, names, procs
  <2>6. CASE sem_post(p, h)
    <3>1. blocked_list[h] \in Seq(Procs)
      BY <2>1 DEF TypeOK
    <3>2. (IF blocked_list[h] = <<>> THEN blocked_list[h]
           ELSE Tail(blocked_list[h])) \in Seq(Procs)
      BY <3>1
    <3>3. UNCHANGED <<names, alive, ref_count, proc_list, unlinked>>
          /\ errno' = "0"
      BY <1>3, <2>6 DEF sem_post
    <3>4. sem_count' \in [Slots -> Int]
      BY <1>3, <2>1, <2>6 DEF sem_post, TypeOK
    <3>5. blocked_list' \in [Slots -> Seq(Procs)]
      BY <1>3, <2>1, <2>6, <3>2 DEF sem_post, TypeOK
    <3>6. waiting' \in [Procs -> Slots \cup {NULL}] /\ fs_stuck' \in BOOLEAN
      BY <1>3, <2>6 DEF sem_post, Delivered, TypeOK, procs
    <3> QED BY <3>3, <3>4, <3>5, <3>6 DEF TypeOK, Errors, names
  <2>7. CASE sem_getvalue(p, h)
    BY <1>3, <2>7 DEF sem_getvalue, TypeOK, sems, names, procs
  <2> QED BY <1>1, <2>2, <2>3, <2>4, <2>5, <2>6, <2>7
<1>4. \/ Refused(p, h) /\ UNCHANGED <<names, procs>>
      \/ ValidHandle(p, h) /\ ~Refused(p, h)
  BY <1>1 DEF sem_destroy, sem_close, sem_wait, sem_trywait, sem_post,
              sem_getvalue, Refused, procs
<1> QED BY <1>2, <1>3, <1>4

LEMMA InitCallType ==
    ASSUME TypeOK, NEW p \in Procs, NEW v \in InitialValues, sem_init(p, v)
    PROVE  TypeOK'
<1>0. v \in Nat
  BY SemServerAssumption DEF InitialValues
<1>1. UNCHANGED procs
  BY DEF sem_init
<1>2. CASE \E i \in Slots : /\ sem_create(p, i, v, TRUE)
                            /\ opened_as' = [opened_as EXCEPT ![i] = EmptyKey]
                            /\ UNCHANGED <<sem_name_map, errno>>
  <2>1. PICK i \in Slots : /\ sem_create(p, i, v, TRUE)
                           /\ opened_as' = [opened_as EXCEPT ![i] = EmptyKey]
                           /\ UNCHANGED <<sem_name_map, errno>>
    BY <1>2
  <2>2. opened_as' \in [Slots -> Keys \cup {EmptyKey}]
    BY <2>1 DEF TypeOK
  <2> QED BY <1>0, <1>1, <2>1, <2>2, CreateType DEF TypeOK, procs
<1>3. CASE sem_create_fails(v) /\ UNCHANGED names
  BY <1>0, <1>1, <1>3, CreateFailsType DEF TypeOK, procs, names
<1>4. CASE UNCHANGED <<sems, names, errno>>
  BY <1>1, <1>4 DEF TypeOK, sems, names, procs
<1> QED BY <1>2, <1>3, <1>4 DEF sem_init

LEMMA ProcessCallType ==
    ASSUME TypeOK, NEW p \in Procs,
           \/ \E child \in Procs : do_fork(p, child)
           \/ do_exec(p)
           \/ do_exit(p)
    PROVE  TypeOK'
<1>1. ASSUME NEW child \in Procs, do_fork(p, child)
      PROVE  TypeOK'
  <2>1. proc_list' \in [Slots -> [Procs -> Nat]]
    BY <1>1 DEF do_fork, TypeOK
  <2>2. ref_count' \in [Slots -> Nat]
    BY <1>1 DEF do_fork, TypeOK
  <2> QED BY <1>1, <2>1, <2>2 DEF do_fork, TypeOK, names
<1>2. CASE do_exec(p) \/ do_exit(p)
  <2>1. sem_close_all(p)
    BY <1>2 DEF do_exec, do_exit
  <2>2. /\ proc_list' \in [Slots -> [Procs -> Nat]]
        /\ blocked_list' \in [Slots -> Seq(Procs)]
        /\ ref_count' \in [Slots -> Nat]
    BY <2>1, CloseSlotsType DEF sem_close_all
  <2>3. alive' \subseteq Procs /\ fs_stuck' \in BOOLEAN
        /\ waiting' \in [Procs -> Slots \cup {NULL}]
    BY <1>2 DEF do_exec, do_exit, TypeOK, procs
  <2> QED BY <2>1, <2>2, <2>3
          DEF sem_close_all, CloseSlots, TypeOK, Errors, names
<1> QED BY <1>1, <1>2

LEMMA InitType == Init => TypeOK
<1> SUFFICES ASSUME Init PROVE TypeOK
  OBVIOUS
<1>1. sem_name_map \in HashTableType(Slots)
  BY DEF Init, init_sem_server, NewHashTable, HashTableType
<1>2. /\ proc_list \in [Slots -> [Procs -> Nat]]
      /\ blocked_list \in [Slots -> Seq(Procs)]
  BY NoMembersType DEF Init, init_sem_server
<1>3. /\ sem_count \in [Slots -> Int]
      /\ ref_count \in [Slots -> Nat]
      /\ errno \in Errors
      /\ alive \subseteq Procs
      /\ waiting \in [Procs -> Slots \cup {NULL}]
      /\ opened_as \in [Slots -> Keys \cup {EmptyKey}]
  BY DEF Init, init_sem_server, Errors
<1>4. unlinked \in [Slots -> BOOLEAN] /\ fs_stuck \in BOOLEAN
  BY Zenon DEF Init, init_sem_server
<1> QED BY <1>1, <1>2, <1>3, <1>4 DEF TypeOK

LEMMA NextType == TypeOK /\ [Next]_vars => TypeOK'
<1>1. TypeOK /\ Next => TypeOK'
  BY NamedCallType, HandleCallType, InitCallType, ProcessCallType DEF Next
<1>2. TypeOK /\ UNCHANGED vars => TypeOK'
  BY DEF TypeOK, vars, sems, names, procs
<1> QED BY <1>1, <1>2

\* Every reachable state of the server is well typed: in particular the name
\* table only ever holds indices of sem_array, which sem_open and sem_unlink
\* use unchecked, and a proc_list never loses an entry it does not have.
THEOREM TypeCorrectness == Spec => []TypeOK
<1>1. Init => TypeOK
  BY InitType
<1>2. TypeOK /\ [Next]_vars => TypeOK'
  BY NextType
<1> QED BY <1>1, <1>2, PTL DEF Spec

-----------------------------------------------------------------------------
(***************************************************************************)
(* Queues never outgrow the debt of their semaphore.  BlockedWithinDebt    *)
(* alone is not inductive: sem_create stores a new count in a free slot,   *)
(* possibly a positive one, so the proof needs that a free slot's queue is *)
(* empty, and that only happens because the last close empties it.         *)
(***************************************************************************)
QueueInv == TypeOK /\ FreeSlotsAreEmpty /\ BlockedWithinDebt

\* A step that changes no queue, count or ref_count, and no member list of a
\* free slot, keeps both parts.
LEMMA QueueFrame ==
    ASSUME QueueInv, UNCHANGED <<sem_count, ref_count, proc_list, blocked_list>>
    PROVE  FreeSlotsAreEmpty' /\ BlockedWithinDebt'
BY DEF QueueInv, FreeSlotsAreEmpty, BlockedWithinDebt, Debt, Free

LEMMA CreateQueue ==
    ASSUME QueueInv, NEW p \in Procs, NEW i \in Slots, NEW v \in Nat, NEW u,
           sem_create(p, i, v, u)
    PROVE  FreeSlotsAreEmpty' /\ BlockedWithinDebt'
<1>1. FreeSlotsAreEmpty'
  BY DEF QueueInv, TypeOK, FreeSlotsAreEmpty, Free, sem_create
<1>2. ASSUME NEW j \in Slots PROVE Len(blocked_list'[j]) <= Debt(j)'
  <2>1. CASE j = i
    BY <2>1 DEF QueueInv, TypeOK, sem_create, Debt
  <2>2. CASE j # i
    BY <1>2, <2>2
    DEF QueueInv, TypeOK, BlockedWithinDebt, sem_create, Debt
  <2> QED BY <2>1, <2>2
<1> QED BY <1>1, <1>2 DEF BlockedWithinDebt

LEMMA CreateFailsQueue ==
    ASSUME QueueInv, NEW v \in Nat, sem_create_fails(v)
    PROVE  FreeSlotsAreEmpty' /\ BlockedWithinDebt'
<1>1. FreeSlotsAreEmpty'
  BY DEF QueueInv, FreeSlotsAreEmpty, Free, sem_create_fails
<1>2. CASE UNCHANGED sem_count
  BY <1>2, QueueFrame DEF sem_create_fails
<1>3. CASE \E i \in Slots : /\ IsFirst(i, Free)
                            /\ sem_count' = [sem_count EXCEPT ![i] = v]
  <2>1. PICK i \in Slots : /\ IsFirst(i, Free)
                           /\ sem_count' = [sem_count EXCEPT ![i] = v]
    BY <1>3
  <2>2. blocked_list[i] = <<>>
    BY <2>1 DEF IsFirst, QueueInv, FreeSlotsAreEmpty
  <2>3. ASSUME NEW j \in Slots PROVE Len(blocked_list[j]) <= Debt(j)'
    <3>1. CASE j = i
      BY <2>1, <2>2, <3>1 DEF QueueInv, TypeOK, Debt
    <3>2. CASE j # i
      BY <2>1, <2>3, <3>2 DEF QueueInv, TypeOK, BlockedWithinDebt, Debt
    <3> QED BY <3>1, <3>2
  <2> QED BY <1>1, <2>3 DEF BlockedWithinDebt, sem_create_fails
<1> QED BY <1>2, <1>3 DEF sem_create_fails

LEMMA CloseQueue ==
    ASSUME QueueInv, NEW p \in Procs, NEW S \in SUBSET Held(p), CloseSlots(p, S)
    PROVE  FreeSlotsAreEmpty' /\ BlockedWithinDebt'
<1>1. ASSUME NEW i \in Slots, ref_count'[i] = 0
      PROVE  proc_list'[i] = NoMembers /\ blocked_list'[i] = <<>>
  <2>1. CASE i \in S /\ LastClose(i, p)
    BY <1>1, <2>1 DEF CloseSlots, LastClose
  <2>2. CASE i \in S /\ ~LastClose(i, p)
    <3>1. ref_count[i] = 0
      BY <1>1, <2>2 DEF CloseSlots
    <3>2. proc_list[i] = NoMembers
      BY <1>1, <3>1 DEF QueueInv, FreeSlotsAreEmpty, Free
    <3>3. proc_list[i][p] > 0
      BY <2>2 DEF Held, Belongs
    <3> QED BY <3>2, <3>3 DEF NoMembers
  <2>3. CASE i \notin S
    BY <1>1, <2>3 DEF CloseSlots, QueueInv, FreeSlotsAreEmpty, Free
  <2> QED BY <2>1, <2>2, <2>3
<1>2. ASSUME NEW i \in Slots PROVE Len(blocked_list'[i]) <= Debt(i)'
  <2>1. blocked_list'[i] = <<>> \/ blocked_list'[i] = blocked_list[i]
    BY <1>2 DEF CloseSlots
  <2>2. Debt(i)' = Debt(i) /\ Debt(i) >= 0
    BY <1>2 DEF CloseSlots, Debt, QueueInv, TypeOK
  <2> QED BY <1>2, <2>1, <2>2 DEF QueueInv, BlockedWithinDebt
<1> QED BY <1>1, <1>2 DEF FreeSlotsAreEmpty, BlockedWithinDebt, Free

LEMMA NamedCallQueue ==
    ASSUME QueueInv, NEW p \in Procs, NamedCall(p)
    PROVE  FreeSlotsAreEmpty' /\ BlockedWithinDebt'
<1>1. PICK n \in Keys :
        \/ sem_unlink(p, n)
        \/ \E oflag \in OFlags, v \in Nat : sem_open(p, n, oflag, v)
  BY SemServerAssumption DEF NamedCall, InitialValues
<1>2. CASE sem_unlink(p, n)
  BY <1>2, QueueFrame DEF sem_unlink
<1>3. ASSUME NEW oflag \in OFlags, NEW v \in Nat, sem_open(p, n, oflag, v)
      PROVE  FreeSlotsAreEmpty' /\ BlockedWithinDebt'
  <2>1. ASSUME NEW i \in Slots, sem_open_existing(p, i)
        PROVE  FreeSlotsAreEmpty' /\ BlockedWithinDebt'
    BY <2>1 DEF sem_open_existing, QueueInv, TypeOK, FreeSlotsAreEmpty, Free,
                BlockedWithinDebt, Debt
  <2>2. CASE \E i \in Slots : sem_create(p, i, v, FALSE)
    BY <2>2, CreateQueue
  <2>3. CASE sem_create_fails(v)
    BY <2>3, CreateFailsQueue
  <2>4. CASE UNCHANGED sems
    BY <2>4, QueueFrame DEF sems
  <2> QED BY <1>3, <2>1, <2>2, <2>3, <2>4 DEF sem_open, sem_open_new
<1> QED BY <1>1, <1>2, <1>3

LEMMA HandleCallQueue ==
    ASSUME QueueInv, NEW p \in Procs, HandleCall(p)
    PROVE  FreeSlotsAreEmpty' /\ BlockedWithinDebt'
<1>1. PICK h \in Handles :
        \/ sem_destroy(p, h) \/ sem_close(p, h) \/ sem_wait(p, h)
        \/ sem_trywait(p, h) \/ sem_post(p, h) \/ sem_getvalue(p, h)
  BY DEF HandleCall
<1>2. CASE UNCHANGED sems
  BY <1>2, QueueFrame DEF sems
<1>3. CASE ValidHandle(p, h) /\ ~UNCHANGED sems
  <2>1. h \in Slots /\ proc_list[h][p] > 0 /\ h \in Held(p)
    BY <1>3 DEF ValidHandle, Belongs, Held
  <2>2. h \notin Free
    BY <2>1 DEF QueueInv, FreeSlotsAreEmpty, NoMembers
  <2>3. CASE sem_destroy(p, h)
    <3>1. /\ proc_list' = [proc_list EXCEPT ![h] = NoMembers]
          /\ blocked_list' = [blocked_list EXCEPT ![h] = <<>>]
          /\ ref_count' = [ref_count EXCEPT ![h] = 0]
          /\ UNCHANGED sem_count
      BY <1>3, <2>3 DEF sem_destroy, Refused
    <3>2. \A i \in Slots : Debt(i) >= 0
      BY DEF Debt, QueueInv, TypeOK
    <3>3. FreeSlotsAreEmpty'
      BY <2>1, <3>1 DEF QueueInv, TypeOK, FreeSlotsAreEmpty, Free
    <3>4. BlockedWithinDebt'
      BY <2>1, <3>1, <3>2 DEF QueueInv, TypeOK, BlockedWithinDebt, Debt
    <3> QED BY <3>3, <3>4
  <2>4. CASE sem_close(p, h)
    <3>1. CloseSlots(p, {h})
      BY <1>3, <2>4 DEF sem_close, Refused
    <3>2. {h} \in SUBSET Held(p)
      BY <2>1
    <3> QED BY <3>1, <3>2, CloseQueue
  <2>5. CASE sem_wait(p, h) \/ sem_trywait(p, h) \/ sem_post(p, h)
    <3>1. UNCHANGED <<ref_count, proc_list>>
      BY <1>3, <2>5 DEF sem_wait, sem_trywait, sem_post, Refused
    <3>2. \A i \in Slots \ {h} : /\ blocked_list'[i] = blocked_list[i]
                                 /\ sem_count'[i] = sem_count[i]
      BY <1>3, <2>1, <2>5
      DEF sem_wait, sem_trywait, sem_post, Refused, QueueInv, TypeOK
    <3>3. FreeSlotsAreEmpty'
      BY <2>2, <3>1, <3>2 DEF QueueInv, FreeSlotsAreEmpty, Free
    <3>4. Len(blocked_list[h]) <= Debt(h) /\ blocked_list[h] \in Seq(Procs)
          /\ sem_count[h] \in Int
      BY <2>1 DEF QueueInv, TypeOK, BlockedWithinDebt
    <3>5. CASE sem_wait(p, h)
      <4>1. sem_count'[h] = sem_count[h] - 1
        BY <1>3, <2>1, <3>5 DEF sem_wait, Refused, QueueInv, TypeOK
      <4>2. CASE sem_count[h] <= 0
        <5>1. blocked_list'[h] = InsertBlocked(blocked_list[h], p)
          BY <1>3, <2>1, <3>5, <4>2
          DEF sem_wait, Taken, Refused, QueueInv, TypeOK
        <5>2. Len(blocked_list'[h]) <= Len(blocked_list[h]) + 1
              /\ blocked_list'[h] \in Seq(Procs)
          BY <3>4, <5>1, InsertBlockedType
        <5>3. Len(blocked_list'[h]) <= Debt(h)'
          BY <3>4, <4>1, <4>2, <5>2 DEF Debt
        <5> QED BY <3>2, <3>3, <5>3 DEF QueueInv, BlockedWithinDebt, Debt
      <4>3. CASE sem_count[h] > 0
        <5>1. blocked_list'[h] = blocked_list[h]
          BY <1>3, <3>4, <3>5, <4>3 DEF sem_wait, Taken, Refused
        <5>2. Len(blocked_list'[h]) <= Debt(h)'
          BY <3>4, <4>1, <4>3, <5>1 DEF Debt
        <5> QED BY <3>2, <3>3, <5>2 DEF QueueInv, BlockedWithinDebt, Debt
      <4> QED BY <3>4, <4>2, <4>3
    <3>6. CASE sem_trywait(p, h)
      <4>1. /\ sem_count[h] > 0
            /\ sem_count'[h] = sem_count[h] - 1
            /\ blocked_list'[h] = blocked_list[h]
        BY <1>3, <2>1, <3>4, <3>6
        DEF sem_trywait, Taken, Refused, QueueInv, TypeOK
      <4>2. Len(blocked_list'[h]) <= Debt(h)'
        BY <3>4, <4>1 DEF Debt
      <4> QED BY <3>2, <3>3, <4>2 DEF QueueInv, BlockedWithinDebt, Debt
    <3>7. CASE sem_post(p, h)
      <4>1. CASE sem_count[h] >= 0
        <5>1. /\ sem_count'[h] = sem_count[h] + 1
              /\ blocked_list'[h] = blocked_list[h]
          BY <1>3, <2>1, <3>4, <3>7, <4>1
          DEF sem_post, Refused, QueueInv, TypeOK
        <5>2. Len(blocked_list'[h]) <= Debt(h)'
          BY <3>4, <4>1, <5>1 DEF Debt
        <5> QED BY <3>2, <3>3, <5>2 DEF QueueInv, BlockedWithinDebt, Debt
      <4>2. CASE sem_count[h] < 0
        <5>1. blocked_list'[h] = IF blocked_list[h] = <<>>
                                 THEN blocked_list[h]
                                 ELSE Tail(blocked_list[h])
          <6>1. blocked_list' = [blocked_list EXCEPT
                    ![h] = IF @ = <<>> THEN @ ELSE Tail(@)]
            BY <1>3, <3>4, <3>7, <4>2 DEF sem_post, Refused
          <6>2. blocked_list \in [Slots -> Seq(Procs)]
            BY DEF QueueInv, TypeOK
          <6> QED BY <2>1, <6>1, <6>2
        <5>2. \/ sem_count'[h] = sem_count[h]
              \/ sem_count'[h] = sem_count[h] + 1
          BY <1>3, <2>1, <3>4, <3>7, <4>2
          DEF sem_post, Refused, QueueInv, TypeOK
        <5>3. \/ Len(blocked_list'[h]) = 0
              \/ Len(blocked_list'[h]) = Len(blocked_list[h]) - 1
          BY <3>4, <5>1
        <5>4. Len(blocked_list'[h]) <= Debt(h)'
          BY <3>4, <4>2, <5>2, <5>3 DEF Debt
        <5> QED BY <3>2, <3>3, <5>4 DEF QueueInv, BlockedWithinDebt, Debt
      <4> QED BY <3>4, <4>1, <4>2
    <3> QED BY <2>5, <3>5, <3>6, <3>7
  <2>6. CASE sem_getvalue(p, h)
    BY <1>3, <2>6 DEF sem_getvalue, Refused
  <2> QED BY <1>1, <2>3, <2>4, <2>5, <2>6
<1> QED BY <1>1, <1>2, <1>3
    DEF sem_destroy, sem_close, sem_wait, sem_trywait, sem_post, sem_getvalue,
        Refused

LEMMA ProcessCallQueue ==
    ASSUME QueueInv, NEW p \in Procs,
           \/ \E child \in Procs : do_fork(p, child)
           \/ do_exec(p)
           \/ do_exit(p)
    PROVE  FreeSlotsAreEmpty' /\ BlockedWithinDebt'
<1>1. ASSUME NEW child \in Procs, do_fork(p, child)
      PROVE  FreeSlotsAreEmpty' /\ BlockedWithinDebt'
  <2>1. ASSUME NEW i \in Slots, ref_count'[i] = 0
        PROVE  proc_list'[i] = NoMembers /\ blocked_list'[i] = <<>>
    <3>1. i \notin Held(p) /\ ref_count[i] = 0
      BY <1>1, <2>1 DEF do_fork, QueueInv, TypeOK
    <3> QED BY <1>1, <2>1, <3>1
            DEF do_fork, QueueInv, FreeSlotsAreEmpty, Free
  <2> QED BY <1>1, <2>1
          DEF do_fork, QueueInv, FreeSlotsAreEmpty, Free, BlockedWithinDebt, Debt
<1>2. CASE do_exec(p) \/ do_exit(p)
  BY <1>2, CloseQueue DEF do_exec, do_exit, sem_close_all
<1> QED BY <1>1, <1>2

LEMMA InitCallQueue ==
    ASSUME QueueInv, NEW p \in Procs, NEW v \in InitialValues, sem_init(p, v)
    PROVE  FreeSlotsAreEmpty' /\ BlockedWithinDebt'
<1>1. v \in Nat
  BY SemServerAssumption DEF InitialValues
<1>2. CASE \E i \in Slots : sem_create(p, i, v, TRUE)
  BY <1>1, <1>2, CreateQueue
<1>3. CASE sem_create_fails(v)
  BY <1>1, <1>3, CreateFailsQueue
<1>4. CASE UNCHANGED sems
  BY <1>4, QueueFrame DEF sems
<1> QED BY <1>2, <1>3, <1>4 DEF sem_init

LEMMA QueueInvInit == Init => QueueInv
<1> SUFFICES ASSUME Init PROVE QueueInv
  OBVIOUS
<1>1. \A i \in Slots : /\ blocked_list[i] = <<>> /\ sem_count[i] = 0
                       /\ proc_list[i] = NoMembers
  BY DEF Init, init_sem_server
<1>2. FreeSlotsAreEmpty
  BY <1>1 DEF FreeSlotsAreEmpty, Free
<1>3. BlockedWithinDebt
  BY <1>1 DEF BlockedWithinDebt, Debt
<1> QED BY <1>2, <1>3, InitType DEF QueueInv

LEMMA QueueInvNext == QueueInv /\ [Next]_vars => QueueInv'
<1>1. QueueInv /\ [Next]_vars => TypeOK'
  BY NextType DEF QueueInv
<1>2. QueueInv /\ Next => FreeSlotsAreEmpty' /\ BlockedWithinDebt'
  BY NamedCallQueue, HandleCallQueue, InitCallQueue, ProcessCallQueue DEF Next
<1>3. QueueInv /\ UNCHANGED vars => FreeSlotsAreEmpty' /\ BlockedWithinDebt'
  BY QueueFrame DEF vars, sems
<1> QED BY <1>1, <1>2, <1>3 DEF QueueInv

LEMMA QueueInvInductive == Spec => []QueueInv
BY QueueInvInit, QueueInvNext, PTL DEF Spec

\* No more processes are queued on a semaphore than its count is below zero,
\* although insertions fail silently and killed sleepers stay queued.
THEOREM QueuesWithinDebt == Spec => []BlockedWithinDebt
<1>1. QueueInv => BlockedWithinDebt
  BY DEF QueueInv
<1> QED BY <1>1, QueueInvInductive, PTL

\* A slot that sem_create may hand out again has no member and no queue left
\* from its previous semaphore.
THEOREM FreedSlotsKeepNobody == Spec => []FreeSlotsAreEmpty
<1>1. QueueInv => FreeSlotsAreEmpty
  BY DEF QueueInv
<1> QED BY <1>1, QueueInvInductive, PTL

-----------------------------------------------------------------------------
(***************************************************************************)
(* The name table always mirrors the slots, for every number of processes, *)
(* slots, names, table rows (at least as many as slots) and list nodes.    *)
(*                                                                         *)
(* The three parts of NameTableMirrorsSlots need each other, and two more  *)
(* facts: that a free slot has no members (otherwise a fork could bring a  *)
(* slot to life that no row names), and that a name selects one row only   *)
(* (LookupIsSound; otherwise sem_unlink, which marks the first match and   *)
(* removes all, would orphan a semaphore).                                 *)
(***************************************************************************)

Table == sem_name_map.entry_array
KeyOf == sem_name_map.str_hash

NameInv == QueueInv /\ NameTableMirrorsSlots /\ LookupIsSound
NameParts == NameTableMirrorsSlots /\ LookupIsSound

\* The semaphores a name may lead to.
Linked == {i \in Live : ~unlinked[i]}

LEMMA TableType ==
    ASSUME TypeOK
    PROVE  /\ Table \in [Rows -> Slots \cup {NULL}]
           /\ KeyOf \in [Rows -> Keys \cup {EmptyKey}]
BY DEF TypeOK, HashTableType, Table, KeyOf

LEMMA NullIsNoSlot == NULL \notin Slots
BY DEF NULL, Slots

\* A step that leaves the table and the linked slots alone keeps both parts.
LEMMA NameFrame ==
    ASSUME NameInv, UNCHANGED sem_name_map, Linked' = Linked,
           \A i \in Linked : opened_as'[i] = opened_as[i]
    PROVE  NameParts'
<1>1. UsedRows(sem_name_map)' = UsedRows(sem_name_map)
  BY DEF UsedRows
<1>2. \A r \in UsedRows(sem_name_map) : sem_name_map.entry_array[r] \in Linked
  BY DEF NameInv, NameTableMirrorsSlots, RowsNameLinkedSlots, Linked
<1>3. RowsNameLinkedSlots'
  BY <1>1, <1>2 DEF RowsNameLinkedSlots, Linked
<1>4. RowsAreDistinct'
  BY <1>1 DEF NameInv, NameTableMirrorsSlots, RowsAreDistinct
<1>5. LinkedSlotsHaveRows'
  BY <1>1 DEF NameInv, NameTableMirrorsSlots, LinkedSlotsHaveRows, Linked
<1>6. LookupIsSound'
  BY <1>1, <1>2 DEF NameInv, LookupIsSound, Matching
<1> QED BY <1>3, <1>4, <1>5, <1>6 DEF NameParts, NameTableMirrorsSlots

\* While a slot is free the table has a free row, so that HashTableInsert,
\* whose result sem_open ignores, cannot answer HASH_NO_MEM: the rows in use
\* name different slots, none of them the free one.
LEMMA TableHasRoom ==
    ASSUME NameInv, NEW i \in Free
    PROVE  FreeRows(sem_name_map) # {}
<1> SUFFICES ASSUME FreeRows(sem_name_map) = {} PROVE FALSE
  OBVIOUS
<1>1. i \in Slots /\ i \notin Live
  BY DEF Free, Live
<1>2. \A r \in Rows : r \in UsedRows(sem_name_map)
  BY DEF FreeRows, UsedRows
<1>3. \A r \in Rows : Table[r] \in Slots \ {i}
  BY <1>1, <1>2
  DEF NameInv, NameTableMirrorsSlots, RowsNameLinkedSlots, Live, Table
<1>4. Table \in [Rows -> Slots \ {i}]
  BY <1>3, TableType DEF NameInv, QueueInv
<1>5. IsFiniteSet(Rows) /\ Cardinality(Rows) = MAX_HASH_ELEM
  <2>1. /\ IsFiniteSet(0 .. (MAX_HASH_ELEM - 1))
        /\ Cardinality(0 .. (MAX_HASH_ELEM - 1)) =
             IF 0 > MAX_HASH_ELEM - 1 THEN 0 ELSE (MAX_HASH_ELEM - 1) - 0 + 1
    BY FS_Interval, HashTableAssumption
  <2> QED BY <2>1, HashTableAssumption DEF Rows
<1>6. IsFiniteSet(Slots) /\ Cardinality(Slots) = INITIAL_SEM
  <2>1. /\ IsFiniteSet(0 .. (INITIAL_SEM - 1))
        /\ Cardinality(0 .. (INITIAL_SEM - 1)) =
             IF 0 > INITIAL_SEM - 1 THEN 0 ELSE (INITIAL_SEM - 1) - 0 + 1
    BY FS_Interval, SemServerAssumption
  <2> QED BY <2>1, SemServerAssumption DEF Slots
<1>7. /\ IsFiniteSet(Slots \ {i})
      /\ Cardinality(Slots \ {i}) = INITIAL_SEM - 1
  BY <1>1, <1>6, FS_RemoveElement
<1>8. Cardinality(Slots \ {i}) < Cardinality(Rows)
  BY <1>5, <1>7, SemServerAssumption, HashTableAssumption
<1>9. \E x, y \in Rows : x # y /\ Table[x] = Table[y]
  BY <1>4, <1>5, <1>7, <1>8, FS_PigeonHole
<1> QED BY <1>2, <1>9
        DEF NameInv, NameTableMirrorsSlots, RowsAreDistinct, Table

\* sem_open on a new name: the table gains one row, for the slot created.
LEMMA OpenNewNames ==
    ASSUME NameInv, TypeOK', NEW p \in Procs, NEW n \in Keys, NEW v \in Nat,
           HashTableMisses(sem_name_map, n),
           NEW i \in Slots, sem_create(p, i, v, FALSE),
           HashTableInsert(sem_name_map, n, i, sem_name_map'),
           opened_as' = [opened_as EXCEPT ![i] = n]
    PROVE  NameParts'
<1>1. i \in Free /\ i \notin Live /\ i \notin Linked
  BY DEF sem_create, IsFirst, Free, Live, Linked
<1>2. PICK row \in FreeRows(sem_name_map) :
        sem_name_map' = [entry_array |-> [Table EXCEPT ![row] = i],
                         str_hash    |-> WriteKey(sem_name_map, row, n)]
  BY <1>1, TableHasRoom DEF HashTableInsert, IsFirst, Table
<1>3. row \in Rows /\ row \notin UsedRows(sem_name_map) /\ Table[row] = NULL
  BY DEF FreeRows, UsedRows, Table
<1>4. /\ Table' = [Table EXCEPT ![row] = i]
      /\ KeyOf' = WriteKey(sem_name_map, row, n)
  BY <1>2 DEF Table, KeyOf
<1>5. \A r \in Rows : Table'[r] = IF r = row THEN i ELSE Table[r]
  BY <1>3, <1>4, TableType DEF NameInv, QueueInv
<1>6. \A r \in Rows : /\ r = row => KeyOf'[r] = n
                      /\ r # row => KeyOf'[r] \in {EmptyKey, KeyOf[r]}
  BY <1>4 DEF WriteKey, KeyOf
<1>7. UsedRows(sem_name_map)' = UsedRows(sem_name_map) \cup {row}
  BY <1>3, <1>5, NullIsNoSlot DEF UsedRows, Table
<1>8. /\ Live' = Live \cup {i}
      /\ ~unlinked'[i]
      /\ \A j \in Slots \ {i} : unlinked'[j] = unlinked[j]
      /\ \A j \in Slots \ {i} : opened_as'[j] = opened_as[j]
      /\ opened_as'[i] = n
  <2>1. ref_count' = [ref_count EXCEPT ![i] = 1]
        /\ unlinked' = [unlinked EXCEPT ![i] = FALSE]
    BY DEF sem_create
  <2>2. Live' = Live \cup {i}
    BY <2>1 DEF Live, NameInv, QueueInv, TypeOK
  <2> QED BY <2>1, <2>2 DEF NameInv, QueueInv, TypeOK
<1>9. \A r \in UsedRows(sem_name_map) :
        /\ r \in Rows /\ r # row /\ Table'[r] = Table[r]
        /\ Table[r] \in Live /\ Table[r] \in Slots \ {i} /\ ~unlinked[Table[r]]
  BY <1>1, <1>3, <1>5
  DEF NameInv, NameTableMirrorsSlots, RowsNameLinkedSlots, Live, Table, UsedRows
<1>10. RowsNameLinkedSlots'
  <2>1. \A r \in UsedRows(sem_name_map)' : Table'[r] \in Live' /\ ~unlinked'[Table'[r]]
    BY <1>3, <1>5, <1>7, <1>8, <1>9
  <2> QED BY <2>1 DEF RowsNameLinkedSlots, Table
<1>11. RowsAreDistinct'
  <2>1. \A r, s \in UsedRows(sem_name_map) : Table[r] = Table[s] => r = s
    BY DEF NameInv, NameTableMirrorsSlots, RowsAreDistinct, Table
  <2>2. \A r, s \in UsedRows(sem_name_map)' : Table'[r] = Table'[s] => r = s
    BY <1>3, <1>5, <1>7, <1>9, <2>1
  <2> QED BY <2>2 DEF RowsAreDistinct, Table
<1>12. LinkedSlotsHaveRows'
  <2>1. \A j \in Live : ~unlinked[j] =>
            \E r \in UsedRows(sem_name_map) : Table[r] = j
    BY DEF NameInv, NameTableMirrorsSlots, LinkedSlotsHaveRows, Table
  <2>2. ASSUME NEW j \in Live', ~unlinked'[j]
        PROVE  \E r \in UsedRows(sem_name_map)' : Table'[r] = j
    <3>1. CASE j = i
      BY <1>3, <1>5, <1>7, <3>1
    <3>2. CASE j # i
      <4>1. j \in Live /\ ~unlinked[j]
        BY <1>8, <2>2, <3>2 DEF Live
      <4> QED BY <1>7, <1>9, <2>1, <4>1
    <3> QED BY <3>1, <3>2
  <2> QED BY <2>2 DEF LinkedSlotsHaveRows, Table
<1>13. LookupIsSound'
  <2>1. \A s \in UsedRows(sem_name_map) : KeyOf[s] # n
    BY DEF HashTableMisses, Matching, KeyOf
  <2>2. n # EmptyKey
    BY HashTableAssumption
  <2>3. ASSUME NEW r \in UsedRows(sem_name_map)', KeyOf'[r] # EmptyKey
        PROVE  /\ opened_as'[Table'[r]] = KeyOf'[r]
               /\ \A s \in UsedRows(sem_name_map)' : KeyOf'[s] = KeyOf'[r] => s = r
    <3>1. CASE r = row
      <4>1. KeyOf'[r] = n /\ Table'[r] = i
        BY <1>3, <1>5, <1>6, <3>1
      <4>2. \A s \in UsedRows(sem_name_map) : KeyOf'[s] # n
        BY <1>6, <1>9, <2>1, <2>2
      <4> QED BY <1>7, <1>8, <3>1, <4>1, <4>2
    <3>2. CASE r # row
      <4>1. r \in UsedRows(sem_name_map) /\ KeyOf'[r] = KeyOf[r]
            /\ KeyOf[r] # EmptyKey
        BY <1>6, <1>7, <1>9, <2>3, <3>2
      <4>2. /\ opened_as[Table[r]] = KeyOf[r]
            /\ \A s \in UsedRows(sem_name_map) : KeyOf[s] = KeyOf[r] => s = r
        BY <4>1 DEF NameInv, LookupIsSound, Matching, Table, KeyOf
      <4>3. opened_as'[Table'[r]] = KeyOf'[r]
        BY <1>8, <1>9, <4>1, <4>2
      <4>4. ASSUME NEW s \in UsedRows(sem_name_map)', KeyOf'[s] = KeyOf'[r]
            PROVE  s = r
        <5>1. s # row
          BY <1>3, <1>6, <2>1, <4>1, <4>4
        <5>2. s \in UsedRows(sem_name_map) /\ KeyOf[s] = KeyOf[r]
          BY <1>6, <1>7, <1>9, <4>1, <4>4, <5>1
        <5> QED BY <4>2, <5>2
      <4> QED BY <4>3, <4>4
    <3> QED BY <3>1, <3>2
  <2>4. \A r \in UsedRows(sem_name_map)' : KeyOf'[r] # EmptyKey =>
            Matching(sem_name_map, KeyOf[r])' = {r}
    BY <2>3 DEF Matching, KeyOf
  <2> QED BY <2>3, <2>4 DEF LookupIsSound, Table, KeyOf
<1> QED BY <1>10, <1>11, <1>12, <1>13 DEF NameParts, NameTableMirrorsSlots

\* sem_unlink: the semaphore found leaves the table, and only that one.
LEMMA UnlinkNames ==
    ASSUME NameInv, NEW n \in Keys, NEW i \in Slots,
           HashTableFinds(sem_name_map, n, i),
           unlinked' = [unlinked EXCEPT ![i] = TRUE],
           sem_name_map' = HashTableRemove(sem_name_map, n),
           opened_as' = [opened_as EXCEPT ![i] = EmptyKey],
           UNCHANGED ref_count
    PROVE  NameParts'
<1>1. PICK row \in Rows : row \in Matching(sem_name_map, n) /\ i = Table[row]
  BY DEF HashTableFinds, IsFirst, Table
<1>2. row \in UsedRows(sem_name_map) /\ KeyOf[row] = n /\ n # EmptyKey
  BY <1>1, HashTableAssumption DEF Matching, KeyOf
<1>3. Matching(sem_name_map, n) = {row}
  BY <1>2 DEF NameInv, LookupIsSound, KeyOf
<1>4. \A r \in Rows : /\ Table'[r] = IF r = row THEN NULL ELSE Table[r]
                      /\ KeyOf'[r] = IF r = row THEN EmptyKey ELSE KeyOf[r]
  BY <1>3 DEF HashTableRemove, Table, KeyOf
<1>5. UsedRows(sem_name_map)' = UsedRows(sem_name_map) \ {row}
  BY <1>4 DEF UsedRows, Table
<1>6. /\ Live' = Live
      /\ unlinked'[i]
      /\ \A j \in Slots \ {i} : unlinked'[j] = unlinked[j]
      /\ \A j \in Slots \ {i} : opened_as'[j] = opened_as[j]
  BY DEF Live, NameInv, QueueInv, TypeOK
<1>7. \A r \in UsedRows(sem_name_map)' :
        /\ r \in Rows /\ r \in UsedRows(sem_name_map) /\ Table'[r] = Table[r]
        /\ Table[r] \in Live /\ Table[r] \in Slots \ {i} /\ ~unlinked[Table[r]]
        /\ KeyOf'[r] = KeyOf[r]
  BY <1>1, <1>2, <1>4, <1>5
  DEF NameInv, NameTableMirrorsSlots, RowsNameLinkedSlots, RowsAreDistinct,
      Live, Table, UsedRows
<1>8. RowsNameLinkedSlots'
  <2>1. \A r \in UsedRows(sem_name_map)' : Table'[r] \in Live' /\ ~unlinked'[Table'[r]]
    BY <1>6, <1>7
  <2> QED BY <2>1 DEF RowsNameLinkedSlots, Table
<1>9. RowsAreDistinct'
  <2>1. \A r, s \in UsedRows(sem_name_map) : Table[r] = Table[s] => r = s
    BY DEF NameInv, NameTableMirrorsSlots, RowsAreDistinct, Table
  <2>2. \A r, s \in UsedRows(sem_name_map)' : Table'[r] = Table'[s] => r = s
    BY <1>7, <2>1
  <2> QED BY <2>2 DEF RowsAreDistinct, Table
<1>10. LinkedSlotsHaveRows'
  <2>1. \A j \in Live : ~unlinked[j] =>
            \E r \in UsedRows(sem_name_map) : Table[r] = j
    BY DEF NameInv, NameTableMirrorsSlots, LinkedSlotsHaveRows, Table
  <2>2. ASSUME NEW j \in Live', ~unlinked'[j]
        PROVE  \E r \in UsedRows(sem_name_map)' : Table'[r] = j
    <3>1. j \in Live /\ j # i /\ ~unlinked[j]
      BY <1>6, <2>2 DEF Live
    <3>2. PICK r \in UsedRows(sem_name_map) : Table[r] = j
      BY <2>1, <3>1
    <3>3. r # row
      BY <1>1, <3>1, <3>2
    <3> QED BY <1>5, <1>7, <3>2, <3>3
  <2> QED BY <2>2 DEF LinkedSlotsHaveRows, Table
<1>11. LookupIsSound'
  <2>1. ASSUME NEW r \in UsedRows(sem_name_map)', KeyOf'[r] # EmptyKey
        PROVE  /\ opened_as'[Table'[r]] = KeyOf'[r]
               /\ \A s \in UsedRows(sem_name_map)' : KeyOf'[s] = KeyOf'[r] => s = r
    <3>1. /\ opened_as[Table[r]] = KeyOf[r]
          /\ \A s \in UsedRows(sem_name_map) : KeyOf[s] = KeyOf[r] => s = r
      BY <1>7, <2>1 DEF NameInv, LookupIsSound, Matching, Table, KeyOf
    <3> QED BY <1>6, <1>7, <3>1
  <2>2. \A r \in UsedRows(sem_name_map)' : KeyOf'[r] # EmptyKey =>
            Matching(sem_name_map, KeyOf[r])' = {r}
    BY <2>1 DEF Matching, KeyOf
  <2> QED BY <2>1, <2>2 DEF LookupIsSound, Table, KeyOf
<1> QED BY <1>8, <1>9, <1>10, <1>11 DEF NameParts, NameTableMirrorsSlots

\* Every slot a process belongs to is in use.
LEMMA HeldAreLive ==
    ASSUME NameInv, NEW p \in Procs
    PROVE  Held(p) \subseteq Live
BY DEF Held, Belongs, Live, NameInv, QueueInv, FreeSlotsAreEmpty, Free, NoMembers

LEMMA NamedCallNames ==
    ASSUME NameInv, TypeOK', NEW p \in Procs, NamedCall(p)
    PROVE  NameParts'
<1>1. PICK n \in Keys :
        \/ sem_unlink(p, n)
        \/ \E oflag \in OFlags, v \in Nat : sem_open(p, n, oflag, v)
  BY SemServerAssumption DEF NamedCall, InitialValues
<1>2. CASE UNCHANGED <<ref_count, unlinked, names>>
  BY <1>2, NameFrame DEF Linked, Live, names
<1>3. CASE sem_unlink(p, n) /\ ~UNCHANGED <<unlinked, names>>
  <2>1. PICK i \in Slots :
            /\ HashTableFinds(sem_name_map, n, i)
            /\ unlinked' = [unlinked EXCEPT ![i] = TRUE]
            /\ sem_name_map' = HashTableRemove(sem_name_map, n)
            /\ opened_as' = [opened_as EXCEPT ![i] = EmptyKey]
    BY <1>3 DEF sem_unlink
  <2>2. UNCHANGED ref_count
    BY <1>3 DEF sem_unlink
  <2> QED BY <2>1, <2>2, UnlinkNames
<1>4. ASSUME NEW oflag \in OFlags, NEW v \in Nat, sem_open(p, n, oflag, v)
      PROVE  NameParts'
  <2>1. ASSUME NEW i \in Slots, HashTableFinds(sem_name_map, n, i),
               sem_open_existing(p, i)
        PROVE  NameParts'
    <3>1. i \in Live
      BY <2>1 DEF HashTableFinds, IsFirst, Matching, NameInv,
                  NameTableMirrorsSlots, RowsNameLinkedSlots
    <3>2. Live' = Live
      BY <2>1, <3>1
      DEF sem_open_existing, Live, NameInv, QueueInv, TypeOK
    <3>3. Linked' = Linked /\ UNCHANGED names
      BY <2>1, <3>2 DEF sem_open_existing, Linked
    <3> QED BY <3>3, NameFrame DEF names
  <2>2. CASE /\ HashTableMisses(sem_name_map, n)
             /\ \E i \in Slots :
                  /\ sem_create(p, i, v, FALSE)
                  /\ HashTableInsert(sem_name_map, n, i, sem_name_map')
                  /\ opened_as' = [opened_as EXCEPT ![i] = n]
    BY <2>2, OpenNewNames
  <2>3. CASE sem_create_fails(v) /\ UNCHANGED names
    BY <1>2, <2>3 DEF sem_create_fails
  <2>4. CASE UNCHANGED <<sems, names>>
    BY <1>2, <2>4 DEF sems
  <2> QED BY <1>4, <2>1, <2>2, <2>3, <2>4 DEF sem_open, sem_open_new
<1>5. sem_unlink(p, n) => UNCHANGED ref_count
  BY DEF sem_unlink
<1> QED BY <1>1, <1>2, <1>3, <1>4, <1>5

\* Closing gives back unlinked slots only.
LEMMA CloseNames ==
    ASSUME NameInv, NEW p \in Procs, NEW S, CloseSlots(p, S)
    PROVE  NameParts'
<1>1. Linked' = Linked
  <2>1. \A i \in Slots : ref_count'[i] = ref_count[i]
                         \/ (ref_count'[i] = 0 /\ unlinked[i])
    BY DEF CloseSlots, LastClose
  <2>2. UNCHANGED unlinked
    BY DEF CloseSlots
  <2>3. \A i \in Slots : i \in Linked' <=> i \in Linked
    BY <2>1, <2>2 DEF Linked, Live
  <2> QED BY <2>3 DEF Linked, Live
<1> QED BY <1>1, NameFrame DEF CloseSlots, names

LEMMA HandleCallNames ==
    ASSUME NameInv, NEW p \in Procs, HandleCall(p)
    PROVE  NameParts'
<1>1. PICK h \in Handles :
        \/ MayDestroy(p, h) /\ sem_destroy(p, h)
        \/ sem_close(p, h) \/ sem_wait(p, h)
        \/ sem_trywait(p, h) \/ sem_post(p, h) \/ sem_getvalue(p, h)
  BY DEF HandleCall
<1>2. CASE UNCHANGED <<ref_count, unlinked, names>>
  BY <1>2, NameFrame DEF Linked, Live, names
<1>3. CASE /\ MayDestroy(p, h) /\ sem_destroy(p, h)
           /\ ~UNCHANGED <<ref_count, unlinked, names>>
  <2>1. /\ UNCHANGED <<names, unlinked>>
        /\ h \in Slots /\ unlinked[h]
        /\ ref_count' = [ref_count EXCEPT ![h] = 0]
    BY <1>3 DEF sem_destroy, MayDestroy, ValidHandle, Refused, sems
  <2>2. \A i \in Slots : i \in Linked' <=> i \in Linked
    BY <2>1 DEF Linked, Live, NameInv, QueueInv, TypeOK
  <2>3. Linked' = Linked
    BY <2>2 DEF Linked, Live
  <2> QED BY <2>1, <2>3, NameFrame DEF names
<1>4. CASE sem_close(p, h) /\ ~UNCHANGED <<ref_count, unlinked, names>>
  <2>1. CloseSlots(p, {h})
    BY <1>4 DEF sem_close, Refused, sems
  <2> QED BY <2>1, CloseNames
<1>5. sem_wait(p, h) \/ sem_trywait(p, h) \/ sem_post(p, h) \/ sem_getvalue(p, h)
        => UNCHANGED <<ref_count, unlinked, names>>
  BY DEF sem_wait, sem_trywait, sem_post, sem_getvalue, Refused, sems
<1> QED BY <1>1, <1>2, <1>3, <1>4, <1>5

LEMMA InitCallNames ==
    ASSUME NameInv, NEW p \in Procs, NEW v \in InitialValues, sem_init(p, v)
    PROVE  NameParts'
<1>1. CASE UNCHANGED <<ref_count, unlinked, names>>
  BY <1>1, NameFrame DEF Linked, Live, names
<1>2. CASE \E i \in Slots : /\ sem_create(p, i, v, TRUE)
                            /\ opened_as' = [opened_as EXCEPT ![i] = EmptyKey]
                            /\ UNCHANGED sem_name_map
  <2>1. PICK i \in Slots : /\ sem_create(p, i, v, TRUE)
                           /\ opened_as' = [opened_as EXCEPT ![i] = EmptyKey]
                           /\ UNCHANGED sem_name_map
    BY <1>2
  <2>2. /\ i \notin Linked
        /\ ref_count' = [ref_count EXCEPT ![i] = 1]
        /\ unlinked' = [unlinked EXCEPT ![i] = TRUE]
    BY <2>1 DEF sem_create, IsFirst, Free, Linked, Live
  <2>3. \A j \in Slots : j \in Linked' <=> j \in Linked
    BY <2>2 DEF Linked, Live, NameInv, QueueInv, TypeOK
  <2>4. Linked' = Linked
    BY <2>3 DEF Linked, Live
  <2>5. \A j \in Linked : opened_as'[j] = opened_as[j]
    BY <2>1, <2>2 DEF Linked, Live, NameInv, QueueInv, TypeOK
  <2> QED BY <2>1, <2>4, <2>5, NameFrame
<1> QED BY <1>1, <1>2 DEF sem_init, sem_create_fails, sems

LEMMA ProcessCallNames ==
    ASSUME NameInv, NEW p \in Procs,
           \/ \E child \in Procs : do_fork(p, child)
           \/ do_exec(p)
           \/ do_exit(p)
    PROVE  NameParts'
<1>1. ASSUME NEW child \in Procs, do_fork(p, child)
      PROVE  NameParts'
  <2>1. \A i \in Slots : ref_count'[i] # 0 <=> ref_count[i] # 0
    BY <1>1, HeldAreLive DEF do_fork, Live, NameInv, QueueInv, TypeOK
  <2>2. Linked' = Linked
    BY <1>1, <2>1 DEF do_fork, Linked, Live
  <2> QED BY <1>1, <2>2, NameFrame DEF do_fork, names
<1>2. CASE do_exec(p) \/ do_exit(p)
  BY <1>2, CloseNames DEF do_exec, do_exit, sem_close_all
<1> QED BY <1>1, <1>2

LEMMA NamePartsStep ==
    ASSUME NameInv, TypeOK', [Next]_vars
    PROVE  NameParts'
<1>1. CASE Next
  BY <1>1, NamedCallNames, HandleCallNames, InitCallNames, ProcessCallNames
  DEF Next
<1>2. CASE UNCHANGED vars
  BY <1>2, NameFrame DEF vars, sems, names, Linked, Live
<1> QED BY <1>1, <1>2

LEMMA NamePartsInit == Init => NameParts
<1> SUFFICES ASSUME Init PROVE NameParts
  OBVIOUS
<1>1. UsedRows(sem_name_map) = {}
  BY DEF Init, init_sem_server, NewHashTable, UsedRows
<1>2. Live = {}
  BY DEF Init, init_sem_server, Live
<1> QED BY <1>1, <1>2
        DEF NameParts, NameTableMirrorsSlots, RowsNameLinkedSlots,
            RowsAreDistinct, LinkedSlotsHaveRows, LookupIsSound

LEMMA NameInvInit == Init => NameInv
BY QueueInvInit, NamePartsInit DEF NameInv, NameParts

LEMMA NameInvNext == NameInv /\ [Next]_vars => NameInv'
<1> SUFFICES ASSUME NameInv, [Next]_vars PROVE NameInv'
  OBVIOUS
<1>1. QueueInv'
  BY QueueInvNext DEF NameInv
<1>2. NameParts'
  BY <1>1, NamePartsStep DEF QueueInv
<1> QED BY <1>1, <1>2 DEF NameInv, NameParts

LEMMA NameInvariant == Spec => []NameInv
BY NameInvInit, NameInvNext, PTL DEF Spec

\* The name table and the slots agree in every reachable state: what sem_open
\* and sem_unlink find is a semaphore in use, and no named semaphore is lost
\* because the table was full.
THEOREM NameTableCorrect == Spec => []NameTableMirrorsSlots
<1>1. NameInv => NameTableMirrorsSlots
  BY DEF NameInv
<1> QED BY <1>1, NameInvariant, PTL

\* No name ever leads to a semaphore that was created under another name.
THEOREM LookupsAreSound == Spec => []LookupIsSound
<1>1. NameInv => LookupIsSound
  BY DEF NameInv
<1> QED BY <1>1, NameInvariant, PTL
=============================================================================
