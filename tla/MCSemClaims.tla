----------------------------- MODULE MCSemClaims -----------------------------
(***************************************************************************)
(* A statement of the manual pages that the server's code does not keep.   *)
(***************************************************************************)
EXTENDS MCSemServer

\* man/semaphore.3:36, "Dos o mas procesos pueden esperar en el mismo semaforo
\* usando la misma cadena al llamar a la funcion sem_open": two semaphores that
\* are in use and not unlinked were never created under the same name.
SameNameSameSemaphore ==
    \A i, j \in Live :
        opened_as[i] # EmptyKey /\ opened_as[i] = opened_as[j] => i = j
=============================================================================
