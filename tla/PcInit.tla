------------------------------- MODULE PcInit -------------------------------
(***************************************************************************)
(* The example src/examples/pc_init.c run against the server: a parent     *)
(* creates two unnamed semaphores and produces, its child consumes.  Each  *)
(* process has its own copy of the variables s_empty and s_full after the  *)
(* fork.  As in SemSyscall, a process that has slept in sem_wait finds in  *)
(* the variable it passed whatever the last answer() left in m1_i2.        *)
(***************************************************************************)
EXTENDS SemServer

CONSTANTS
    Parent, Child,  \* the two process slots
    ITEMS           \* items produced, and places to put them (15)

ASSUME PcInitAssumption ==
    /\ Parent # Child /\ Procs = {Parent, Child}
    /\ ITEMS \in Nat \ {0}

VARIABLES
    pc,             \* [Procs -> where the process is]
    items,          \* [Procs -> rounds left]
    handle,         \* [Procs -> [s_empty : Int, s_full : Int]]
    reply_param1    \* m1.m1_i2

program == <<pc, items, handle, reply_param1>>
pcvars  == <<vars, program>>

Goto(p, label) == pc' = [pc EXCEPT ![p] = label]

-----------------------------------------------------------------------------
(* The calls, through the library and the dispatcher *)

\* Which variable a process asleep in sem_wait passed.
Passed(p) == IF p = Parent THEN "s_empty" ELSE "s_full"

call_init(p, f, value) ==
    /\ sem_init(p, value)
    /\ \E i \in Free \ Free' :
         /\ handle' = [handle EXCEPT ![p][f] = i]
         /\ reply_param1' = i
    /\ UNCHANGED items

call_wait(p) ==
    /\ sem_wait(p, handle[p][Passed(p)])
    /\ reply_param1' = handle[p][Passed(p)]
    /\ UNCHANGED <<items, handle>>

Woken == {q \in Procs : waiting[q] # NULL /\ waiting'[q] = NULL}

\* What is in the variables of a process that sem_wake replied to.
WokenHandle(q) == [handle[q] EXCEPT ![Passed(q)] = reply_param1]

call_post(p, f) ==
    /\ sem_post(p, handle[p][f])
    /\ reply_param1' = handle[p][f]
    /\ handle' = [q \in Procs |-> IF q \in Woken THEN WokenHandle(q)
                                  ELSE handle[q]]

call_destroy(p, f) ==
    /\ sem_destroy(p, handle[p][f])
    /\ reply_param1' = handle[p][f]
    /\ UNCHANGED <<items, handle>>

-----------------------------------------------------------------------------
(* main *)

init_empty ==
    /\ pc[Parent] = "init_empty"
    /\ call_init(Parent, "s_empty", ITEMS)
    /\ Goto(Parent, "init_full")

init_full ==
    /\ pc[Parent] = "init_full"
    /\ call_init(Parent, "s_full", 0)
    /\ Goto(Parent, "fork")

fork ==
    /\ pc[Parent] = "fork"
    /\ do_fork(Parent, Child)
    /\ pc' = [p \in Procs |-> "round"]
    /\ handle' = [handle EXCEPT ![Child] = handle[Parent]]
    /\ UNCHANGED <<items, reply_param1>>

\* exit(EXIT_FAILURE), and the end of either process.
exit(p) ==
    /\ \/ p = Parent /\ pc[p] \in {"fork", "end"}
       \/ p = Child /\ pc[p] = "round" /\ items[p] = 0
    /\ do_exit(p)
    /\ Goto(p, "gone")
    /\ UNCHANGED <<items, handle, reply_param1>>

\* The parent, once the child is gone: wait(NULL) returns.
destroy_empty ==
    /\ pc[Parent] = "round" /\ items[Parent] = 0
    /\ Child \notin alive
    /\ call_destroy(Parent, "s_empty")
    /\ Goto(Parent, "destroy_full")

destroy_full ==
    /\ pc[Parent] = "destroy_full"
    /\ call_destroy(Parent, "s_full")
    /\ Goto(Parent, "end")

-----------------------------------------------------------------------------
(* producer and consumer: wait on one semaphore, post the other *)

begin_round(p) ==
    /\ pc[p] = "round" /\ items[p] > 0
    /\ call_wait(p)
    /\ Goto(p, "working")

Posted(p) == IF p = Parent THEN "s_full" ELSE "s_empty"

end_round_Drop(p) ==    \* mutant: the sem_post is missing
    /\ pc[p] = "working" /\ waiting[p] = NULL
    /\ items' = [items EXCEPT ![p] = @ - 1]
    /\ Goto(p, "round")
    /\ UNCHANGED <<vars, handle, reply_param1>>

end_round(p) ==
    /\ pc[p] = "working" /\ waiting[p] = NULL
    /\ call_post(p, Posted(p))
    /\ items' = [items EXCEPT ![p] = @ - 1]
    /\ Goto(p, "round")

-----------------------------------------------------------------------------

PcInitInit ==
    /\ init_sem_server
    /\ alive = {Parent}
    /\ waiting = [p \in Procs |-> NULL]
    /\ fs_stuck = FALSE
    /\ opened_as = [i \in Slots |-> EmptyKey]
    /\ pc = [p \in Procs |-> IF p = Parent THEN "init_empty" ELSE "unborn"]
    /\ items = [p \in Procs |-> ITEMS]
    /\ handle = [p \in Procs |-> [s_empty |-> 0, s_full |-> 0]]
    /\ reply_param1 = 0

Step(p) ==
    \/ begin_round(p) \/ end_round(p) \/ exit(p)
    \/ p = Parent /\ (\/ init_empty \/ init_full \/ fork
                      \/ destroy_empty \/ destroy_full)

PcInitNext == \E p \in Procs : Step(p)

\* A process that can go on is given the processor, and FS answers it.
PcInitSpec ==
    PcInitInit /\ [][PcInitNext]_pcvars /\ \A p \in Procs : WF_pcvars(Step(p))

-----------------------------------------------------------------------------

\* The program ends, however the two processes are scheduled, and leaves no
\* semaphore behind, neither if the fork fails nor after the sem_destroy calls.
EndsAndCleansUp == <>[](alive = {} /\ Live = {})
=============================================================================
