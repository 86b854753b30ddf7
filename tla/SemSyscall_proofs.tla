-------------------------- MODULE SemSyscall_proofs --------------------------
(***************************************************************************)
(* The client library and the dispatcher, for every number of processes,   *)
(* slots, names and list nodes, with or without killed sleepers.           *)
(*                                                                         *)
(* Their steps are steps of the server, with handles it expects, so that   *)
(* whatever is proved of SemServer holds behind the library too.  What the *)
(* caller is told needs more: which errno each function of the server      *)
(* leaves behind, success or failure.                                      *)
(***************************************************************************)
EXTENDS SemSyscall, SemSleepers_proofs

\* A sem_t holds a handle the server gave out, or nothing.
Sems == Slots \cup {NULL}

CallNames == ValueCalls \cup {"none", "sem_open", "sem_post", "sem_getvalue"}
Results   == [call : CallNames, value : Int, error : Errors]

SysTypeOK ==
    /\ reply_param1 \in Sems
    /\ sem_t \in [Procs -> Sems]
    /\ returned \in [Procs -> Results]

\* What a caller may conclude from a value that the code does set.
Agrees(r) ==
    r.call \in ValueCalls =>
        /\ r.value \in {0, -1}
        /\ r.value = -1 <=> r.error # "0"

ResultsAgree == \A p \in Procs : Agrees(returned[p])

-----------------------------------------------------------------------------
(***************************************************************************)
(* Steps of the library are steps of the server.                           *)
(***************************************************************************)

LEMMA SemsAreHandles == Sems \subseteq Handles
BY SemServerAssumption DEF Sems, Slots, Handles, NULL

LEMMA SysNextIsNext ==
    ASSUME SysTypeOK, [SysNext]_sysvars
    PROVE  [Next]_vars
<1>1. CASE UNCHANGED sysvars
  BY <1>1 DEF sysvars
<1>2. ASSUME NEW p \in Procs,
             \/ lib_close(p) \/ lib_destroy(p) \/ lib_trywait(p)
             \/ lib_getvalue(p) \/ lib_wait(p) \/ lib_post(p)
      PROVE  Next
  <2>1. sem_t[p] \in Handles
    BY SemsAreHandles DEF SysTypeOK
  <2>2. HandleCall(p)
    BY <1>2, <2>1 DEF HandleCall, lib_close, lib_destroy, lib_trywait,
                      lib_getvalue, lib_wait, lib_post
  <2> QED BY <2>2 DEF Next
<1>3. ASSUME NEW p \in Procs, NEW v \in InitialValues, lib_init(p, v)
      PROVE  Next
  BY <1>3 DEF lib_init, Next
<1>4. ASSUME NEW p \in Procs, NEW n \in Keys, lib_unlink(p, n)
      PROVE  Next
  BY <1>4 DEF lib_unlink, NamedCall, Next
<1>5. ASSUME NEW p \in Procs, NEW n \in Keys, NEW oflag \in OFlags,
             NEW v \in IF oflag.O_CREAT THEN InitialValues ELSE {0},
             lib_open(p, n, oflag, v)
      PROVE  Next
  BY <1>5 DEF lib_open, NamedCall, Next
<1>6. ASSUME NEW p \in Procs, NEW child \in Procs, lib_fork(p, child)
      PROVE  Next
  BY <1>6 DEF lib_fork, Next
<1>7. ASSUME NEW p \in Procs, lib_gone(p)
      PROVE  Next
  BY <1>7 DEF lib_gone, Next
<1> QED BY <1>1, <1>2, <1>3, <1>4, <1>5, <1>6, <1>7 DEF SysNext

-----------------------------------------------------------------------------
(***************************************************************************)
(* What errno tells after each function of the server.                     *)
(***************************************************************************)

\* A failure has set errno.
Honest(return_val) == return_val \in {0, -1} /\ (return_val = -1 => errno' # "0")

LEMMA CloseIsHonest ==
    ASSUME NEW p, NEW h, sem_close(p, h)
    PROVE  Honest(Status(ValidHandle(p, h)))
BY DEF sem_close, Refused, Status, Honest

LEMMA DestroyIsHonest ==
    ASSUME NEW p, NEW h, sem_destroy(p, h)
    PROVE  Honest(Status(ValidHandle(p, h) /\ ~Busy(h)))
BY DEF sem_destroy, Refused, Status, Honest

LEMMA TrywaitIsHonest ==
    ASSUME NEW p, NEW h, sem_trywait(p, h)
    PROVE  Honest(Status(ValidHandle(p, h) /\ ~Taken(h)))
BY DEF sem_trywait, Refused, Status, Honest

LEMMA WaitIsHonest ==
    ASSUME NEW p, NEW h, sem_wait(p, h)
    PROVE  Honest(Status(ValidHandle(p, h)))
BY DEF sem_wait, Refused, Status, Honest

\* sem_init creates only with errno clear, and otherwise leaves an error.
LEMMA InitIsHonest ==
    ASSUME TypeOK, NEW p \in Procs, NEW v, sem_init(p, v)
    PROVE  \/ /\ errno' = "0"
              /\ \E i \in Slots : sem_create(p, i, v, TRUE) /\ Free \ Free' = {i}
           \/ /\ errno' # "0" /\ Free' = Free
              /\ UNCHANGED proc_list
<1>1. ASSUME NEW i \in Slots, sem_create(p, i, v, TRUE)
      PROVE  Free \ Free' = {i}
  BY <1>1 DEF sem_create, IsFirst, Free, TypeOK
<1> QED BY <1>1 DEF sem_init, sem_create_fails, Free, sems

\* A removal from the name table frees the row that was found.
LEMMA RemoveChangesTable ==
    ASSUME TypeOK, NEW n, NEW i \in Slots, HashTableFinds(sem_name_map, n, i)
    PROVE  HashTableRemove(sem_name_map, n) # sem_name_map
<1>1. PICK r \in Rows : r \in Matching(sem_name_map, n)
  BY DEF HashTableFinds, IsFirst
<1>2. sem_name_map.entry_array[r] # NULL
  BY <1>1 DEF Matching, UsedRows
<1>3. HashTableRemove(sem_name_map, n).entry_array[r] = NULL
  BY <1>1 DEF HashTableRemove
<1> QED BY <1>2, <1>3

LEMMA UnlinkIsHonest ==
    ASSUME TypeOK, NEW p, NEW n, sem_unlink(p, n)
    PROVE  Honest(Status(sem_name_map' # sem_name_map))
BY RemoveChangesTable DEF sem_unlink, Status, Honest, names

-----------------------------------------------------------------------------
(***************************************************************************)
(* What the caller is told.                                                *)
(***************************************************************************)

LEMMA LibraryResultAgrees ==
    ASSUME NEW call \in CallNames, NEW r, Honest(r), errno' \in Errors
    PROVE  /\ LibraryResult(call, r) \in Results
           /\ Agrees(LibraryResult(call, r))
           /\ LibraryResult(call, r).call = call
<1>1. "0" \in Errors
  BY DEF Errors
<1>2. CASE r = 0
  BY <1>1, <1>2 DEF LibraryResult, ReplyType, Returned, Agrees, Results
<1>3. CASE r = -1 /\ errno' # "0"
  BY <1>3 DEF LibraryResult, ReplyType, Returned, Agrees, Results
<1> QED BY <1>2, <1>3 DEF Honest

\* A call that is replied to at once concerns its caller only.
LEMMA ReturnsToCaller ==
    ASSUME SysTypeOK, ResultsAgree, NEW p \in Procs, NEW call \in CallNames, NEW r,
           Honest(r), errno' \in Errors, NEW sema \in Sems,
           SyscallReturns(p, call, r, sema)
    PROVE  /\ SysTypeOK' /\ ResultsAgree'
           /\ \A q \in Procs \ {p} : sem_t'[q] = sem_t[q]
           /\ returned'[p].call = call
           /\ sem_t'[p] \in {sem_t[p], sema}
<1>1. /\ LibraryResult(call, r) \in Results
      /\ Agrees(LibraryResult(call, r)) /\ LibraryResult(call, r).call = call
  BY LibraryResultAgrees
<1>2. /\ reply_param1' = sema
      /\ returned' = [returned EXCEPT ![p] = LibraryResult(call, r)]
      /\ sem_t' \in {sem_t, [sem_t EXCEPT ![p] = sema]}
  BY DEF SyscallReturns, answer
<1>3. SysTypeOK'
  BY <1>1, <1>2 DEF SysTypeOK
<1>4. ResultsAgree'
  BY <1>1, <1>2 DEF SysTypeOK, ResultsAgree
<1> QED BY <1>1, <1>2, <1>3, <1>4 DEF SysTypeOK

-----------------------------------------------------------------------------
(***************************************************************************)
(* The action properties, as conditions on one step, and what each step of *)
(* the library does about them.                                            *)
(***************************************************************************)

HandlesKept ==
    \A p \in alive \cap alive' :
        waiting[p] = NULL /\ sem_t'[p] # sem_t[p] =>
            returned'[p].call \in Creators \/ sem_t'[p] = NULL

Granted(p, i) == proc_list'[i][p] > proc_list[i][p]

GrantsReported ==
    \A p \in alive, i \in Slots :
        Granted(p, i) => /\ returned'[p].call \in Creators
                         /\ returned'[p].value = 0
                         /\ sem_t'[p] = i

SysInv   == NameInv /\ SysTypeOK /\ ResultsAgree
StepGoal == SysTypeOK' /\ ResultsAgree' /\ HandlesKept /\ GrantsReported

NoGrant == \A p \in alive, i \in Slots : ~Granted(p, i)

LEMMA SysFacts ==
    ASSUME SysInv
    PROVE  /\ TypeOK /\ SysTypeOK /\ ResultsAgree
           /\ alive \subseteq Procs
           /\ proc_list \in [Slots -> [Procs -> Nat]]
           /\ \A i \in Slots, p \in Procs : proc_list[i][p] \in Nat
BY DEF SysInv, NameInv, QueueInv, TypeOK

LEMMA SameGrantsNothing ==
    ASSUME SysInv, UNCHANGED proc_list
    PROVE  NoGrant
BY SysFacts DEF NoGrant, Granted

LEMMA CloseGrantsNothing ==
    ASSUME SysInv, NEW p \in Procs, NEW S \in SUBSET Slots, CloseSlots(p, S)
    PROVE  NoGrant
<1>1. ASSUME NEW q \in Procs, NEW i \in Slots
      PROVE  proc_list'[i][q] \in {proc_list[i][q], proc_list[i][q] - 1}
  BY <1>1, SysFacts DEF CloseSlots, WithoutOne
<1>2. ASSUME NEW q \in Procs, NEW i \in Slots
      PROVE  ~Granted(q, i)
  BY <1>1, <1>2, SysFacts DEF Granted
<1> QED BY <1>2, SysFacts DEF NoGrant

\* A call that hands its own sem_t to SyscallReturns and grants nothing.
LEMMA PlainCall ==
    ASSUME SysInv, TypeOK', NoGrant, NEW p \in Procs, NEW call \in CallNames, NEW r,
           Honest(r), SyscallReturns(p, call, r, sem_t[p])
    PROVE  StepGoal
<1>1. sem_t[p] \in Sems /\ errno' \in Errors
  BY SysFacts DEF SysTypeOK, TypeOK
<1>2. /\ SysTypeOK' /\ ResultsAgree'
      /\ \A q \in Procs : sem_t'[q] = sem_t[q]
  BY <1>1, SysFacts, ReturnsToCaller
<1> QED BY <1>2, SysFacts DEF StepGoal, HandlesKept, GrantsReported, NoGrant

LEMMA StepClose ==
    ASSUME SysInv, TypeOK', NEW p \in Procs, lib_close(p)
    PROVE  StepGoal
<1>1. NoGrant
  BY SameGrantsNothing, CloseGrantsNothing
  DEF lib_close, sem_close, Refused, ValidHandle, sems
<1> DEFINE r == Status(ValidHandle(p, sem_t[p]))
<1>2. /\ Honest(r) /\ SyscallReturns(p, "sem_close", r, sem_t[p])
      /\ "sem_close" \in CallNames
  BY CloseIsHonest DEF lib_close, CallNames, ValueCalls
<1> HIDE DEF r
<1> QED BY <1>1, <1>2, PlainCall

LEMMA StepDestroy ==
    ASSUME SysInv, TypeOK', NEW p \in Procs, lib_destroy(p)
    PROVE  StepGoal
<1>1. NoGrant
  <2>1. CASE UNCHANGED proc_list
    BY <2>1, SameGrantsNothing
  <2>2. CASE /\ sem_t[p] \in Slots
             /\ proc_list' = [proc_list EXCEPT ![sem_t[p]] = NoMembers]
    <3>1. ASSUME NEW q \in Procs, NEW i \in Slots
          PROVE  proc_list'[i][q] \in {0, proc_list[i][q]}
      BY <2>2, <3>1, SysFacts DEF NoMembers
    <3> QED BY <3>1, SysFacts DEF NoGrant, Granted
  <2> QED BY <2>1, <2>2 DEF lib_destroy, sem_destroy, Refused, ValidHandle, sems
<1> DEFINE r == Status(ValidHandle(p, sem_t[p]) /\ ~Busy(sem_t[p]))
<1>2. /\ Honest(r) /\ SyscallReturns(p, "sem_destroy", r, sem_t[p])
      /\ "sem_destroy" \in CallNames
  BY DestroyIsHonest DEF lib_destroy, CallNames, ValueCalls
<1> HIDE DEF r
<1> QED BY <1>1, <1>2, PlainCall

LEMMA StepTrywait ==
    ASSUME SysInv, TypeOK', NEW p \in Procs, lib_trywait(p)
    PROVE  StepGoal
<1>1. NoGrant
  BY SameGrantsNothing DEF lib_trywait, sem_trywait, Refused, sems
<1> DEFINE r == Status(ValidHandle(p, sem_t[p]) /\ ~Taken(sem_t[p]))
<1>2. /\ Honest(r) /\ SyscallReturns(p, "sem_trywait", r, sem_t[p])
      /\ "sem_trywait" \in CallNames
  BY TrywaitIsHonest DEF lib_trywait, CallNames, ValueCalls
<1> HIDE DEF r
<1> QED BY <1>1, <1>2, PlainCall

LEMMA StepWait ==
    ASSUME SysInv, TypeOK', NEW p \in Procs, lib_wait(p)
    PROVE  StepGoal
<1>1. NoGrant
  BY SameGrantsNothing DEF lib_wait, sem_wait, Refused, sems
<1>2. CASE answer(sem_t[p]) /\ UNCHANGED client
  <2>1. SysTypeOK' /\ ResultsAgree'
    BY <1>2, SysFacts DEF SysTypeOK, ResultsAgree, answer, client
  <2> QED BY <1>1, <1>2, <2>1
      DEF StepGoal, HandlesKept, GrantsReported, NoGrant, client
<1>3. CASE SyscallReturns(p, "sem_wait", Status(ValidHandle(p, sem_t[p])), sem_t[p])
  <2> DEFINE r == Status(ValidHandle(p, sem_t[p]))
  <2>1. /\ Honest(r) /\ SyscallReturns(p, "sem_wait", r, sem_t[p])
        /\ "sem_wait" \in CallNames
    BY <1>3, WaitIsHonest DEF lib_wait, CallNames, ValueCalls
  <2> HIDE DEF r
  <2> QED BY <1>1, <2>1, PlainCall
<1> QED BY <1>2, <1>3 DEF lib_wait

LEMMA StepGetvalue ==
    ASSUME SysInv, TypeOK', NEW p \in Procs, lib_getvalue(p)
    PROVE  StepGoal
<1>1. NoGrant
  BY SameGrantsNothing DEF lib_getvalue, sem_getvalue, Refused, sems
<1>2. PICK g \in Int, e \in Errors :
        returned' = [returned EXCEPT ![p] = Returned("sem_getvalue", g, e)]
  <2>1. "0" \in Errors /\ errno' \in Errors /\ Garbage \subseteq Int
    BY DEF TypeOK, Errors, Garbage
  <2> QED BY <2>1 DEF lib_getvalue
<1>3. reply_param1' = sem_t[p] /\ sem_t' = sem_t
  BY DEF lib_getvalue, answer
<1>4. SysTypeOK'
  <2>1. Returned("sem_getvalue", g, e) \in Results
    BY DEF Returned, Results, CallNames
  <2> QED BY <1>2, <1>3, <2>1, SysFacts DEF SysTypeOK
<1>5. Agrees(Returned("sem_getvalue", g, e))
  BY DEF Agrees, ValueCalls, Returned
<1>6. ResultsAgree'
  BY <1>2, <1>5, SysFacts DEF SysTypeOK, ResultsAgree
<1> QED BY <1>1, <1>3, <1>4, <1>6
    DEF StepGoal, HandlesKept, GrantsReported, NoGrant

LEMMA StepUnlink ==
    ASSUME SysInv, TypeOK', NEW p \in Procs, NEW n \in Keys, lib_unlink(p, n)
    PROVE  StepGoal
<1> DEFINE r == LibraryResult("sem_unlink", Status(sem_name_map' # sem_name_map))
<1>1. NoGrant
  BY SameGrantsNothing DEF lib_unlink, sem_unlink
<1>2. errno' \in Errors /\ Honest(Status(sem_name_map' # sem_name_map))
  BY SysFacts, UnlinkIsHonest DEF lib_unlink, TypeOK
<1>3. r \in Results /\ Agrees(r)
  <2>1. "sem_unlink" \in CallNames
    BY DEF CallNames, ValueCalls
  <2> QED BY <1>2, <2>1, LibraryResultAgrees
<1>4. /\ UNCHANGED <<reply_param1, sem_t>>
      /\ returned' = [returned EXCEPT ![p] = r]
  BY DEF lib_unlink
<1> HIDE DEF r
<1>5. SysTypeOK' /\ ResultsAgree'
  BY <1>3, <1>4, SysFacts DEF SysTypeOK, ResultsAgree
<1> QED BY <1>1, <1>4, <1>5 DEF StepGoal, HandlesKept, GrantsReported, NoGrant

\* The caller of a sem_post, and whoever it wakes, are answered.
LEMMA StepPost ==
    ASSUME SysInv, TypeOK', NEW p \in Procs, lib_post(p)
    PROVE  StepGoal
<1>1. NoGrant
  BY SameGrantsNothing DEF lib_post, sem_post, Refused, sems
<1>2. CASE UNCHANGED <<reply_param1, client>>
  <2>1. SysTypeOK' /\ ResultsAgree'
    BY <1>2, SysFacts DEF SysTypeOK, ResultsAgree, client
  <2> QED BY <1>1, <1>2, <2>1
      DEF StepGoal, HandlesKept, GrantsReported, NoGrant, client
<1>3. CASE ~fs_stuck'
  <2>1. PICK g \in Garbage :
          /\ reply_param1' = sem_t[p]
          /\ sem_t' = [q \in Procs |-> IF q \in Woken THEN reply_param1
                                       ELSE sem_t[q]]
          /\ returned' = [q \in Procs |->
                 IF q = p THEN LibraryResult("sem_post", g)
                 ELSE IF q \in Woken THEN Returned("sem_wait", 0, errno')
                 ELSE returned[q]]
    BY <1>3 DEF lib_post, answer
  <2>2. Woken # {} => errno' = "0"
    BY DEF lib_post, sem_post, Woken, procs
  <2>3. /\ LibraryResult("sem_post", g) \in Results
        /\ Agrees(LibraryResult("sem_post", g))
    <3>1. "0" \in Errors /\ errno' \in Errors /\ g \in Int
      BY DEF TypeOK, Errors, Garbage
    <3>2. \A v \in Int, e \in Errors : /\ Returned("sem_post", v, e) \in Results
                                       /\ Agrees(Returned("sem_post", v, e))
      BY DEF Returned, Results, CallNames, Agrees, ValueCalls
    <3> QED BY <3>1, <3>2 DEF LibraryResult, ReplyType
  <2>4. ASSUME NEW q \in Woken
        PROVE  /\ Returned("sem_wait", 0, errno') \in Results
               /\ Agrees(Returned("sem_wait", 0, errno'))
    BY <2>2, <2>4 DEF Returned, Results, CallNames, ValueCalls, Errors, Agrees
  <2>5. SysTypeOK'
    BY <2>1, <2>3, <2>4, SysFacts DEF SysTypeOK
  <2>6. ResultsAgree'
    BY <2>1, <2>3, <2>4, SysFacts DEF ResultsAgree
  <2>7. HandlesKept
    BY <2>1, SysFacts DEF HandlesKept, Woken
  <2> QED BY <1>1, <2>5, <2>6, <2>7 DEF StepGoal, GrantsReported, NoGrant
<1> QED BY <1>2, <1>3 DEF lib_post

-----------------------------------------------------------------------------

\* A semaphore p has been given: errno is clear, and nobody else gained one.
GivenOnly(p, i) ==
    /\ errno' = "0"
    /\ \A q \in alive, j \in Slots : Granted(q, j) => q = p /\ j = i

LEMMA CreateGivesOnly ==
    ASSUME SysInv, NEW p \in Procs, NEW i \in Slots, NEW v, NEW u,
           sem_create(p, i, v, u), errno' = "0"
    PROVE  GivenOnly(p, i)
<1>1. \A j \in Slots \ {i} : proc_list'[j] = proc_list[j]
  BY SysFacts DEF sem_create
<1>2. \A q \in Procs \ {p} : proc_list'[i][q] = 0
  BY SysFacts DEF sem_create, InsertMember, NoMembers
<1> QED BY <1>1, <1>2, SysFacts DEF GivenOnly, Granted

LEMMA StepInitCall ==
    ASSUME SysInv, TypeOK', NEW p \in Procs, NEW v, lib_init(p, v)
    PROVE  StepGoal
<1>0. "sem_init" \in CallNames /\ "sem_init" \in Creators
  BY DEF CallNames, ValueCalls, Creators
<1>1. CASE /\ errno' = "0"
           /\ \E i \in Slots : sem_create(p, i, v, TRUE) /\ Free \ Free' = {i}
  <2>1. PICK i \in Slots : sem_create(p, i, v, TRUE) /\ Free \ Free' = {i}
    BY <1>1
  <2>2. SyscallReturns(p, "sem_init", 0, i)
    BY <2>1 DEF lib_init
  <2>3. GivenOnly(p, i)
    BY <1>1, <2>1, CreateGivesOnly
  <2>4. Honest(0) /\ errno' \in Errors /\ i \in Sems
    BY DEF Honest, TypeOK, Sems
  <2>5. /\ SysTypeOK' /\ ResultsAgree'
        /\ \A q \in Procs \ {p} : sem_t'[q] = sem_t[q]
        /\ returned'[p].call = "sem_init"
    BY <1>0, <2>2, <2>4, SysFacts, ReturnsToCaller
  <2>6. sem_t'[p] = i /\ returned'[p].value = 0
    BY <2>2, SysFacts
    DEF SyscallReturns, answer, ReplyType, LibraryResult, Returned, SysTypeOK
  <2>7. HandlesKept
    BY <1>0, <2>5, SysFacts DEF HandlesKept
  <2>8. GrantsReported
    BY <1>0, <2>3, <2>5, <2>6 DEF GrantsReported, GivenOnly
  <2> QED BY <2>5, <2>7, <2>8 DEF StepGoal
<1>2. CASE errno' # "0" /\ Free' = Free /\ UNCHANGED proc_list
  <2>1. SyscallReturns(p, "sem_init", -1, sem_t[p])
    BY <1>2 DEF lib_init
  <2>2. Honest(-1) /\ NoGrant
    BY <1>2, SameGrantsNothing DEF Honest
  <2> QED BY <1>0, <2>1, <2>2, PlainCall
<1> QED BY <1>1, <1>2, SysFacts, InitIsHonest DEF lib_init

LEMMA OpenGivesOnly ==
    ASSUME SysInv, NEW p \in Procs, NEW n, NEW oflag, NEW v,
           sem_open(p, n, oflag, v)
    PROVE  \/ NoGrant
           \/ \E i \in Slots : GivenOnly(p, i) /\ Opened = {i}
<1>1. ASSUME NEW i \in Slots, sem_open_existing(p, i)
      PROVE  GivenOnly(p, i) /\ Opened = {i}
  <2>1. \A j \in Slots \ {i} : /\ proc_list'[j] = proc_list[j]
                               /\ ref_count'[j] = ref_count[j]
    BY <1>1, SysFacts DEF sem_open_existing, TypeOK
  <2>2. \A q \in Procs \ {p} : proc_list'[i][q] = proc_list[i][q]
    BY <1>1, SysFacts DEF sem_open_existing, InsertMember
  <2>3. ref_count'[i] = ref_count[i] + 1 /\ ref_count \in [Slots -> Nat]
    BY <1>1, SysFacts DEF sem_open_existing, TypeOK
  <2>4. GivenOnly(p, i)
    BY <1>1, <2>1, <2>2, SysFacts DEF GivenOnly, Granted, sem_open_existing
  <2>5. Opened = {i}
    BY <2>1, <2>3 DEF Opened
  <2> QED BY <2>4, <2>5
<1>2. ASSUME NEW i \in Slots, sem_create(p, i, v, FALSE), errno' = "0"
      PROVE  GivenOnly(p, i) /\ Opened = {i}
  <2>1. /\ ref_count'[i] = 1 /\ ref_count[i] = 0
        /\ \A j \in Slots \ {i} : ref_count'[j] = ref_count[j]
        /\ \A j \in Slots : ref_count[j] \in Nat
    BY <1>2, SysFacts DEF sem_create, IsFirst, Free, TypeOK
  <2>2. Opened = {i}
    BY <2>1 DEF Opened
  <2> QED BY <1>2, <2>2, CreateGivesOnly
<1>3. UNCHANGED proc_list => NoGrant
  BY SameGrantsNothing
<1> QED BY <1>1, <1>2, <1>3 DEF sem_open, sem_open_new, sem_create_fails, sems

LEMMA StepOpen ==
    ASSUME SysInv, TypeOK', NEW p \in Procs, NEW n, NEW oflag, NEW v,
           lib_open(p, n, oflag, v)
    PROVE  StepGoal
<1>1. PICK g \in Garbage :
        IF ReplyType(g) = "0"
        THEN /\ sem_t' = [sem_t EXCEPT ![p] = IF Opened = {} THEN 0
                                              ELSE CHOOSE i \in Opened : TRUE]
             /\ returned' = [returned EXCEPT ![p] = Returned("sem_open", 0, "0")]
        ELSE /\ returned' = [returned EXCEPT ![p] = Returned("sem_open", -1, errno')]
             /\ UNCHANGED sem_t
  BY DEF lib_open
<1>2. UNCHANGED reply_param1 /\ sem_open(p, n, oflag, v)
  BY DEF lib_open
<1>3. PICK r \in Results : /\ r.call = "sem_open"
                           /\ returned' = [returned EXCEPT ![p] = r]
                           /\ ReplyType(g) = "0" => r.value = 0
  <2>1. "0" \in Errors /\ errno' \in Errors
    BY DEF TypeOK, Errors
  <2>2. \A w \in Int, e \in Errors : /\ Returned("sem_open", w, e) \in Results
                                     /\ Returned("sem_open", w, e).call = "sem_open"
                                     /\ Returned("sem_open", w, e).value = w
    BY DEF Returned, Results, CallNames
  <2> QED BY <1>1, <2>1, <2>2
<1>4. Agrees(r) /\ r.call \in Creators
  BY <1>3 DEF Agrees, ValueCalls, Creators
<1>5. PICK s \in Sems : sem_t' = [sem_t EXCEPT ![p] = s]
  <2>1. 0 \in Sems /\ Opened \subseteq Sems
    BY SemServerAssumption DEF Sems, Slots, Opened
  <2>2. Opened # {} => (CHOOSE i \in Opened : TRUE) \in Sems
    BY <2>1
  <2>3. sem_t = [sem_t EXCEPT ![p] = sem_t[p]] /\ sem_t[p] \in Sems
    BY SysFacts DEF SysTypeOK
  <2> QED BY <1>1, <2>1, <2>2, <2>3
<1>6. SysTypeOK' /\ ResultsAgree'
  BY <1>2, <1>3, <1>4, <1>5, SysFacts DEF SysTypeOK, ResultsAgree
<1>7. returned'[p] = r /\ \A q \in Procs \ {p} : sem_t'[q] = sem_t[q]
  BY <1>3, <1>5, SysFacts DEF SysTypeOK
<1>8. HandlesKept
  BY <1>4, <1>7, SysFacts DEF HandlesKept
<1>9. GrantsReported
  <2>1. CASE NoGrant
    BY <2>1 DEF NoGrant, GrantsReported
  <2>2. ASSUME NEW i \in Slots, GivenOnly(p, i), Opened = {i}
        PROVE  GrantsReported
    <3>1. ReplyType(g) = "0"
      BY <2>2 DEF GivenOnly, ReplyType
    <3>2. sem_t'[p] = i
      BY <1>1, <2>2, <3>1, SysFacts DEF SysTypeOK
    <3> QED BY <1>3, <1>4, <1>7, <2>2, <3>1, <3>2 DEF GivenOnly, GrantsReported
  <2> QED BY <1>2, <2>1, <2>2, OpenGivesOnly
<1> QED BY <1>6, <1>8, <1>9 DEF StepGoal

-----------------------------------------------------------------------------

LEMMA StepFork ==
    ASSUME SysInv, NEW p \in Procs, NEW child \in Procs, lib_fork(p, child)
    PROVE  StepGoal
<1>1. /\ child \notin alive
      /\ sem_t' = [sem_t EXCEPT ![child] = sem_t[p]]
      /\ UNCHANGED <<reply_param1, returned>>
  BY DEF lib_fork, do_fork
<1>2. SysTypeOK' /\ ResultsAgree'
  BY <1>1, SysFacts DEF SysTypeOK, ResultsAgree
<1>3. HandlesKept
  BY <1>1, SysFacts DEF HandlesKept, SysTypeOK
<1>4. ASSUME NEW q \in Procs \ {child}, NEW i \in Slots
      PROVE  proc_list'[i][q] = proc_list[i][q]
  BY <1>4, SysFacts DEF lib_fork, do_fork
<1>5. NoGrant
  BY <1>1, <1>4, SysFacts DEF NoGrant, Granted
<1> QED BY <1>2, <1>3, <1>5 DEF StepGoal, GrantsReported, NoGrant

LEMMA StepGone ==
    ASSUME SysInv, NEW p \in Procs, lib_gone(p)
    PROVE  StepGoal
<1>1. /\ sem_t' = [sem_t EXCEPT ![p] = NULL]
      /\ UNCHANGED <<reply_param1, returned>>
  BY DEF lib_gone
<1>2. SysTypeOK' /\ ResultsAgree'
  BY <1>1, SysFacts DEF SysTypeOK, ResultsAgree, Sems
<1>3. HandlesKept
  BY <1>1, SysFacts DEF HandlesKept, SysTypeOK
<1>4. NoGrant
  BY CloseGrantsNothing DEF lib_gone, do_exec, do_exit, sem_close_all, Held
<1> QED BY <1>2, <1>3, <1>4 DEF StepGoal, GrantsReported, NoGrant

LEMMA SysStep ==
    ASSUME SysInv, TypeOK', SysNext
    PROVE  StepGoal
BY StepClose, StepDestroy, StepTrywait, StepGetvalue, StepWait, StepPost,
   StepInitCall, StepUnlink, StepOpen, StepFork, StepGone DEF SysNext

-----------------------------------------------------------------------------

LEMMA SysInitType == SysInit => SysTypeOK /\ ResultsAgree
<1> SUFFICES ASSUME SysInit PROVE SysTypeOK /\ ResultsAgree
  OBVIOUS
<1>1. 0 \in Sems /\ NULL \in Sems
  BY SemServerAssumption DEF Sems, Slots
<1>2. Returned("none", 0, "0") \in Results /\ Agrees(Returned("none", 0, "0"))
  BY DEF Returned, Results, CallNames, ValueCalls, Errors, Agrees
<1>3. /\ reply_param1 = 0
      /\ sem_t = [p \in Procs |-> NULL]
      /\ returned = [p \in Procs |-> Returned("none", 0, "0")]
  BY DEF SysInit
<1> QED BY <1>1, <1>2, <1>3 DEF SysTypeOK, ResultsAgree

LEMMA SysInvariant == SysSpec => []SysInv
<1>1. SysInit => SysInv
  <2>1. SysInit => Init
    BY DEF SysInit
  <2>2. Init => NameInv
    BY NameInvInit
  <2> QED BY <2>1, <2>2, SysInitType DEF SysInv
<1>2. SysInv /\ [SysNext]_sysvars => SysInv'
  <2> SUFFICES ASSUME SysInv, [SysNext]_sysvars PROVE SysInv'
    OBVIOUS
  <2>1. NameInv'
    BY SysNextIsNext, SysFacts, NameInvNext DEF SysInv
  <2>2. SysTypeOK' /\ ResultsAgree'
    <3>1. CASE SysNext
      BY <2>1, <3>1, SysStep DEF StepGoal, NameInv, QueueInv
    <3>2. CASE UNCHANGED sysvars
      BY <3>2, SysFacts DEF SysTypeOK, ResultsAgree, sysvars, client
    <3> QED BY <3>1, <3>2
  <2> QED BY <2>1, <2>2 DEF SysInv
<1> QED BY <1>1, <1>2, PTL DEF SysSpec

\* Behind the library and the dispatcher runs the server of SemServer: every
\* call reaches it with a handle it gave out or with none, so that everything
\* proved of it holds for programs linked with the library.
THEOREM LibraryRunsServer == SysSpec => Spec
<1>1. SysInit => Init
  BY DEF SysInit
<1>2. SysInv /\ [SysNext]_sysvars => [Next]_vars
  BY SysNextIsNext DEF SysInv
<1> QED BY <1>1, <1>2, SysInvariant, PTL DEF SysSpec, Spec

\* A call that returns -1 has set the caller's errno and one that returns 0 has
\* not, for every call whose value the dispatcher sets, woken sleepers included.
THEOREM ErrnoIsSetOnFailure == SysSpec => FailuresSetErrno
<1>1. SysInv /\ SysInv' /\ [SysNext]_sysvars =>
        [\A p \in Procs :
           returned'[p].call \in ValueCalls =>
             /\ returned'[p].value \in {0, -1}
             /\ returned'[p].value = -1 <=> returned'[p].error # "0"]_sysvars
  BY DEF SysInv, ResultsAgree, Agrees
<1> QED BY <1>1, SysInvariant, PTL DEF SysSpec, FailuresSetErrno

\* A caller that does not sleep gets its own sem_t back, whatever m1_i2 held.
THEOREM HandleSurvivesCall == SysSpec => CallsKeepHandle
<1>1. SysInv /\ SysInv' /\ [SysNext]_sysvars =>
        [\A p \in alive \cap alive' :
           waiting[p] = NULL /\ sem_t'[p] # sem_t[p] =>
             returned'[p].call \in Creators \/ sem_t'[p] = NULL]_sysvars
  BY SysStep DEF SysInv, NameInv, QueueInv, StepGoal, HandlesKept
<1> QED BY <1>1, SysInvariant, PTL DEF SysSpec, CallsKeepHandle

\* Whoever becomes a member of a semaphore is told so, with its handle, although
\* the value sem_open returns to the dispatcher is lost.
THEOREM MembersAreTold == SysSpec => GrantedIsReported
<1>1. SysInv /\ SysInv' /\ [SysNext]_sysvars =>
        [\A p \in alive, i \in Slots :
           proc_list'[i][p] > proc_list[i][p] =>
             /\ returned'[p].call \in Creators
             /\ returned'[p].value = 0
             /\ sem_t'[p] = i]_sysvars
  BY SysStep DEF SysInv, NameInv, QueueInv, StepGoal, GrantsReported, Granted
<1> QED BY <1>1, SysInvariant, PTL DEF SysSpec, GrantedIsReported
=============================================================================
