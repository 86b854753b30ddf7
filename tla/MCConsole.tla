------------------------------ MODULE MCConsole ------------------------------
(***************************************************************************)
(* Model checking of Console.  Users are interchangeable; no step tells    *)
(* one error code from another, reads conn_array at a free index, the      *)
(* message of a client in no call, or the table of one that is gone.       *)
(***************************************************************************)
EXTENDS Console, TLC

Symmetry == Permutations(Clients)

View == <<sems, names, procs, errno = "0", backlog, stale_afds, client, unread,
          reply,
          [i \in Procs |-> IF i \in alive THEN conn_array[i] ELSE NoClient],
          [c \in Clients |-> IF client[c] = "calling" \/ c \in unread
                             THEN call[c] ELSE NoCall],
          [c \in Clients |-> IF client[c] = "gone" THEN <<>>
                             ELSE <<sem_array[c], sem_name[c]>>]>>
=============================================================================
