----------------------------- MODULE MCSemSyscall -----------------------------
(***************************************************************************)
(* Model checking of SemSyscall, and what a comment of the dispatcher says *)
(* of a reply that the code does not keep.                                 *)
(***************************************************************************)
EXTENDS SemSyscall, TLC

Symmetry == Permutations(Procs) \cup Permutations(Keys)

\* No step reads what was returned, or tells one error code from another.
View == <<sems, names, procs, errno = "0", reply_param1, sem_t>>

\* semaphore2.c:160, "reply_param1: es el valor que retorna la funcion en el
\* parametro 1 si era un puntero": sem_wait does not change its parameter, so a
\* process that has slept wakes with the handle it went to sleep with.
WokenKeepsHandle ==
    [][\A p \in Woken : p \in alive' => sem_t'[p] = waiting[p]]_sysvars
=============================================================================
