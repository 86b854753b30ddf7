------------------------------ MODULE SemSyscall ------------------------------
(***************************************************************************)
(* The path of a call from the client library (src/libsem/semaphore.c)     *)
(* through the dispatcher of FS (semaphore_entry and answer in             *)
(* src/fs/semaphore2.c) to the server and back.                            *)
(*                                                                         *)
(* The reply message m1 is one global of FS.  answer() writes its first    *)
(* `params' fields and leaves the others as an earlier call left them, and *)
(* the library copies the field m1_i2 into the caller's sem_t whenever the *)
(* reply's type is 0.  Each process has one sem_t here, the one it used    *)
(* last.  _syscall (external) answers -1 and sets the caller's errno       *)
(* when the type is an error.                                              *)
(***************************************************************************)
EXTENDS SemServer

VARIABLES
    reply_param1,   \* m1.m1_i2
    sem_t,          \* [Procs -> Int]: the value of the process's sem_t
    returned        \* [Procs -> what its last library call returned]

client  == <<sem_t, returned>>
sysvars == <<vars, reply_param1, client>>

\* A value the code never sets: the uninitialised return_val of
\* semaphore_entry, or the result of a function that ends without a return.
Garbage == {0, 1}

\* What the program sees: the call, its value, and the error it put in errno
\* ("0" when it left errno alone).
Returned(call, value, error) == [call |-> call, value |-> value, error |-> error]

\* semaphore_entry replies with errno if the function's value is not 0, and
\* with OK otherwise; the library returns -1 on an error, else the value.
ReplyType(return_val) == IF return_val # 0 THEN errno' ELSE "0"

LibraryResult(call, return_val) ==
    IF ReplyType(return_val) = "0" THEN Returned(call, return_val, "0")
    ELSE Returned(call, -1, ReplyType(return_val))

answer_One(param1) == UNCHANGED reply_param1  \* mutant: params is 1, not 2

\* answer(rta, param1, 0, 2): the reply carries param1.
answer(param1) == reply_param1' = param1

-----------------------------------------------------------------------------
(* Calls on a sem_t that are replied to at once *)

SyscallReturns(p, call, return_val, sema) ==
    /\ answer(sema)
    /\ returned' = [returned EXCEPT ![p] = LibraryResult(call, return_val)]
    /\ sem_t' = IF ReplyType(return_val) = "0"
                THEN [sem_t EXCEPT ![p] = reply_param1'] ELSE sem_t

Status(ok) == IF ok THEN 0 ELSE -1

lib_close(p) ==
    /\ sem_close(p, sem_t[p])
    /\ SyscallReturns(p, "sem_close", Status(ValidHandle(p, sem_t[p])), sem_t[p])

lib_destroy(p) ==
    /\ MayDestroy(p, sem_t[p])
    /\ sem_destroy(p, sem_t[p])
    /\ SyscallReturns(p, "sem_destroy",
           Status(ValidHandle(p, sem_t[p]) /\ ~Busy(sem_t[p])), sem_t[p])

lib_trywait(p) ==
    /\ sem_trywait(p, sem_t[p])
    /\ SyscallReturns(p, "sem_trywait",
           Status(ValidHandle(p, sem_t[p]) /\ ~Taken(sem_t[p])), sem_t[p])

\* The library function ends without a return when the call fails.
lib_getvalue(p) ==
    /\ sem_getvalue(p, sem_t[p])
    /\ answer(sem_t[p])
    /\ UNCHANGED sem_t
    /\ \/ /\ ValidHandle(p, sem_t[p])
          /\ returned' = [returned EXCEPT ![p] = Returned("sem_getvalue", 0, "0")]
       \/ /\ ~ValidHandle(p, sem_t[p])
          /\ \E g \in Garbage :
               returned' = [returned EXCEPT
                               ![p] = Returned("sem_getvalue", g, errno')]

\* sem_create stores the new index in the message's copy of the sem_t.
lib_init(p, value) ==
    /\ sem_init(p, value)
    /\ \/ \E i \in Free \ Free' : SyscallReturns(p, "sem_init", 0, i)
       \/ Free' = Free /\ SyscallReturns(p, "sem_init", -1, sem_t[p])

-----------------------------------------------------------------------------
(* Waiting and waking *)

\* A sleeper's reply is prepared, by answer(), but not sent.
lib_wait(p) ==
    /\ sem_wait(p, sem_t[p])
    /\ \/ /\ waiting'[p] # NULL
          /\ answer(sem_t[p])
          /\ UNCHANGED client
       \/ /\ waiting'[p] = NULL
          /\ SyscallReturns(p, "sem_wait", Status(ValidHandle(p, sem_t[p])),
                            sem_t[p])

Woken == {q \in Procs : waiting[q] # NULL /\ waiting'[q] = NULL}

\* sem_wake answers with one field: the woken process is sent the m1_i2 that
\* the call before this one left.  sem_post itself returns no value.
lib_post(p) ==
    /\ sem_post(p, sem_t[p])
    /\ \/ /\ fs_stuck'
          /\ UNCHANGED <<reply_param1, client>>
       \/ /\ ~fs_stuck'
          /\ answer(sem_t[p])
          /\ sem_t' = [q \in Procs |-> IF q \in Woken THEN reply_param1
                                       ELSE sem_t[q]]
          /\ \E g \in Garbage :
               returned' = [q \in Procs |->
                   IF q = p THEN LibraryResult("sem_post", g)
                   ELSE IF q \in Woken THEN Returned("sem_wait", 0, errno')
                   ELSE returned[q]]

-----------------------------------------------------------------------------
(* Calls on a name *)

\* The slot sem_open returned a pointer to, if any.
Opened == {i \in Slots : ref_count'[i] > ref_count[i]}

\* The dispatcher answers with *semaux, which for SEM_FAILED is the 0 at address
\* 0, and never sets return_val: a failure is an error or handle 0 by chance.
lib_open(p, n, oflag, value) ==
    /\ sem_open(p, n, oflag, value)
    /\ UNCHANGED reply_param1
    /\ \E g \in Garbage :
         IF ReplyType(g) = "0"
         THEN /\ sem_t' = [sem_t EXCEPT ![p] = IF Opened = {} THEN 0
                                               ELSE CHOOSE i \in Opened : TRUE]
              /\ returned' = [returned EXCEPT ![p] = Returned("sem_open", 0, "0")]
         ELSE /\ returned' = [returned EXCEPT
                                 ![p] = Returned("sem_open", -1, errno')]
              /\ UNCHANGED sem_t

lib_unlink(p, n) ==
    /\ sem_unlink(p, n)
    /\ UNCHANGED <<reply_param1, sem_t>>
    /\ returned' = [returned EXCEPT ![p] =
           LibraryResult("sem_unlink", Status(sem_name_map' # sem_name_map))]

-----------------------------------------------------------------------------

\* fork copies the parent's memory; exec and exit discard it.
lib_fork(p, child) ==
    /\ do_fork(p, child)
    /\ sem_t' = [sem_t EXCEPT ![child] = sem_t[p]]
    /\ UNCHANGED <<reply_param1, returned>>

lib_gone(p) ==
    /\ do_exec(p) \/ do_exit(p)
    /\ sem_t' = [sem_t EXCEPT ![p] = NULL]
    /\ UNCHANGED <<reply_param1, returned>>

SysInit ==
    /\ Init
    /\ reply_param1 = 0
    /\ sem_t = [p \in Procs |-> NULL]
    /\ returned = [p \in Procs |-> Returned("none", 0, "0")]

SysNext ==
    \E p \in Procs :
        \/ lib_close(p) \/ lib_destroy(p) \/ lib_trywait(p) \/ lib_getvalue(p)
        \/ lib_wait(p) \/ lib_post(p)
        \/ \E v \in InitialValues : lib_init(p, v)
        \/ \E n \in Keys :
             \/ lib_unlink(p, n)
             \/ \E oflag \in OFlags :
                  \E v \in IF oflag.O_CREAT THEN InitialValues ELSE {0} :
                     lib_open(p, n, oflag, v)
        \/ \E child \in Procs : lib_fork(p, child)
        \/ lib_gone(p)

SysSpec == SysInit /\ [][SysNext]_sysvars

-----------------------------------------------------------------------------
(* Properties *)

\* The calls whose value the code does set.
ValueCalls == {"sem_close", "sem_destroy", "sem_trywait", "sem_wait", "sem_init",
               "sem_unlink"}

\* A call that returns -1 has set the caller's errno, and one that returns 0
\* has not: the reply carries FS's errno, which only some functions clear and
\* which earlier calls of others leave set.
FailuresSetErrno ==
    [][\A p \in Procs :
         returned'[p].call \in ValueCalls =>
             /\ returned'[p].value \in {0, -1}
             /\ returned'[p].value = -1 <=> returned'[p].error # "0"]_sysvars

\* A call that does not sleep gives the caller its own sem_t back, whatever an
\* earlier call left in the shared reply message; only sem_open and sem_init
\* change it.
Creators == {"sem_open", "sem_init"}
CallsKeepHandle ==
    [][\A p \in alive \cap alive' :
         waiting[p] = NULL /\ sem_t'[p] # sem_t[p] =>
             returned'[p].call \in Creators \/ sem_t'[p] = NULL]_sysvars

\* Whoever becomes a member of a semaphore is told so, with its handle: the
\* value sem_open returns to the dispatcher is lost (return_val is never set),
\* and the reply is right only because errno is clear after a success.  A
\* process that is not told would stay a member without ever closing it.
GrantedIsReported ==
    [][\A p \in alive, i \in Slots :
         proc_list'[i][p] > proc_list[i][p] =>
             /\ returned'[p].call \in Creators
             /\ returned'[p].value = 0
             /\ sem_t'[p] = i]_sysvars
=============================================================================
