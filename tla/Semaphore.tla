------------------------------ MODULE Semaphore ------------------------------
(***************************************************************************)
(* What one counting semaphore promises its users (man/semaphore.3,        *)
(* man/sem_wait.3, man/sem_post.3): a number that is never negative, and   *)
(* processes that are held in sem_wait exactly while it is zero.  A post   *)
(* releases one of them if there are any, and counts up otherwise.  From   *)
(* creation to the end of a semaphore nothing else changes the number.     *)
(***************************************************************************)
EXTENDS Naturals

CONSTANT Procs

VARIABLES
    live,       \* is there a semaphore?
    value,      \* the number
    waiters     \* the processes held in sem_wait

TypeOK ==
    /\ live \in BOOLEAN
    /\ value \in Nat
    /\ waiters \subseteq Procs

Init == ~live /\ value = 0 /\ waiters = {}

\* A new semaphore starts at any number.  One that is refused may leave its
\* number behind, where there is still no semaphore.
Create ==
    /\ ~live /\ live' \in BOOLEAN
    /\ waiters = {}
    /\ value' \in Nat
    /\ UNCHANGED waiters

\* A semaphore may end only when nobody waits.
Retire ==
    /\ live /\ live' = FALSE
    /\ waiters = {}
    /\ UNCHANGED <<value, waiters>>

Lock ==
    /\ live
    /\ value > 0
    /\ value' = value - 1
    /\ UNCHANGED <<live, waiters>>

Sleep(p) ==
    /\ live
    /\ value = 0
    /\ p \notin waiters
    /\ waiters' = waiters \cup {p}
    /\ UNCHANGED <<live, value>>

Unlock ==
    /\ live
    /\ waiters = {}
    /\ value' = value + 1
    /\ UNCHANGED <<live, waiters>>

Wake(p) ==
    /\ live
    /\ p \in waiters
    /\ waiters' = waiters \ {p}
    /\ UNCHANGED <<live, value>>

Next ==
    \/ Create \/ Retire
    \/ Lock \/ Unlock
    \/ \E p \in Procs : Sleep(p) \/ Wake(p)

vars == <<live, value, waiters>>

Spec == Init /\ [][Next]_vars
=============================================================================
