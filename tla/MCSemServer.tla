----------------------------- MODULE MCSemServer -----------------------------
(***************************************************************************)
(* Model checking of SemServer.  Process slots and names are               *)
(* interchangeable, and no step tells one error code from another          *)
(* (sem_create tests errno against 0): two states that differ only there   *)
(* are explored once.                                                      *)
(***************************************************************************)
EXTENDS SemServer, TLC

Symmetry == Permutations(Procs) \cup Permutations(Keys)

View == <<sems, names, procs, errno = "0">>
=============================================================================
