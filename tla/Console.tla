------------------------------- MODULE Console -------------------------------
(***************************************************************************)
(* The test console (src/examples/console.c) run by several users against  *)
(* the Linux emulator.  Each console keeps a table of MAX_SEM entries, a   *)
(* handle and a name, and makes the call its user picks from the menu.     *)
(* Entries stay when their semaphore is closed, destroyed or unlinked.     *)
(***************************************************************************)
EXTENDS LinuxServer

CONSTANTS
    MAX_SEM,        \* entries of the table (5)
    Names,          \* names the users type
    UNNAMED         \* the name insert_sem is given for a sem_init

ASSUME ConsoleAssumption ==
    /\ MAX_SEM \in Nat \ {0}
    /\ Keys = Names \cup {UNNAMED}

VARIABLES
    sem_array,      \* [Clients -> [Entries -> handle, or NULL for SEM_FAILED]]
    sem_name        \* [Clients -> [Entries -> name, or EmptyKey for NULL]]

table == <<sem_array, sem_name>>
cvars == <<lvars, table>>

Entries == 0 .. (MAX_SEM - 1)
Empty(c) == {e \in Entries : sem_array[c][e] = NULL}

\* A null pointer is followed.
crash(c) == client[c] = "idle" /\ killed(c)

-----------------------------------------------------------------------------
(* The menu *)

CreateFlags == [O_CREAT : {TRUE}, O_EXCL : BOOLEAN]
NoFlags     == [O_CREAT |-> FALSE, O_EXCL |-> FALSE]

\* Without O_CREAT no value is asked for; option 0 leaves flags uninitialised
\* and so acts as one of the other three.
m_open(c) ==
    \E n \in Names :
        \/ cli_open(c, n, NoFlags, 0)
        \/ \E flags \in CreateFlags, v \in InitialValues : cli_open(c, n, flags, v)

m_sem_init(c) == \E v \in InitialValues : cli_init(c, v)

\* A text read as a number: the handle of no slot.
NoHandle == INITIAL_SEM

get_sem_Name(c) ==      \* mutant: the other array is read
    {sem_name[c][e] : e \in Entries \ Empty(c)}

\* get_sem_fd lets MAX_SEM through, and what lies behind the table is taken for
\* a pointer: it is NULL or points to a name.  On NULL, as on SEM_FAILED, the
\* library fails by itself.
get_sem(c) ==
    {sem_array[c][e] : e \in Entries \ Empty(c)} \cup {NoHandle}

m_wait(c)     == \E sem \in get_sem(c) : cli_wait(c, sem)
m_trywait(c)  == \E sem \in get_sem(c) : cli_trywait(c, sem)
m_getvalue(c) == \E sem \in get_sem(c) : cli_getvalue(c, sem)
m_post(c)     == \E sem \in get_sem(c) : cli_post(c, sem)
m_close(c)    == \E sem \in get_sem(c) : cli_close(c, sem)

\* The menu offers every entry.  The users are taken to keep to sem_destroy.3 and
\* not to pick one whose semaphore a name still leads to.
m_destroy(c) ==
    \E sem \in get_sem(c) : MayAskDestroy(c, sem) /\ cli_destroy(c, sem)

\* The texts get_sem_name may return, EmptyKey for NULL.  Behind this table too
\* lies NULL or some pointer, and what it points to, like UNNAMED, is the name of
\* no semaphore.
get_sem_name(c) ==
    {sem_name[c][e] : e \in Entries} \cup {EmptyKey, UNNAMED}

\* sem_unlink takes the length of the name, also of a name that is NULL.
m_unlink(c) ==
    \E n \in get_sem_name(c) :
        \/ n = EmptyKey /\ crash(c)
        \/ n # EmptyKey /\ cli_unlink(c, n)

free_space(c) ==
    /\ client[c] = "idle"
    /\ \E e \in Entries \ Empty(c) :
         /\ sem_array' = [sem_array EXCEPT ![c][e] = NULL]
         /\ sem_name' = [sem_name EXCEPT ![c][e] = EmptyKey]
    /\ UNCHANGED lvars

\* The first free entry takes the semaphore; in a full table it is lost.
insert_sem(c, name, sem) ==
    \/ \E e \in Entries :
         /\ IsFirst(e, Empty(c))
         /\ sem_array' = [sem_array EXCEPT ![c][e] = sem]
         /\ sem_name' = [sem_name EXCEPT ![c][e] = name]
    \/ Empty(c) = {} /\ UNCHANGED table

\* The call is over; m_open and m_sem_init put a semaphore in the table.
call_ends(c) ==
    /\ return(c)
    /\ LET handle == Head(reply[c]).handle
       IN \/ handle = NULL /\ UNCHANGED table
          \/ /\ handle # NULL
             /\ insert_sem(c, IF call[c].op = "OPEN" THEN call[c].name
                              ELSE UNNAMED, handle)

\* End of input: main returns.
quit(c) == clean_all(c)

\* The console is started again; its process is a new one.
launch(c) ==
    /\ client[c] = "gone"
    /\ c \notin unread
    /\ ~fs_stuck
    /\ client' = [client EXCEPT ![c] = "new"]
    /\ sem_array' = [sem_array EXCEPT ![c] = [e \in Entries |-> NULL]]
    /\ sem_name' = [sem_name EXCEPT ![c] = [e \in Entries |-> EmptyKey]]
    /\ UNCHANGED <<vars, server, call, unread, reply>>

-----------------------------------------------------------------------------

ConsoleInit ==
    /\ LinuxInit
    /\ sem_array = [c \in Clients |-> [e \in Entries |-> NULL]]
    /\ sem_name = [c \in Clients |-> [e \in Entries |-> EmptyKey]]

\* The choices of the menu that leave the table alone until the call ends.
menu(c) ==
    \/ m_open(c) \/ m_sem_init(c) \/ m_unlink(c)
    \/ m_wait(c) \/ m_trywait(c) \/ m_getvalue(c) \/ m_post(c)
    \/ m_close(c) \/ m_destroy(c)

ConsoleNext ==
    \/ Serve /\ UNCHANGED table
    \/ \E c \in Clients :
         \/ /\ connect(c) \/ menu(c) \/ quit(c) \/ killed(c)
            /\ UNCHANGED table
         \/ free_space(c) \/ call_ends(c) \/ launch(c)

ConsoleSpec == ConsoleInit /\ [][ConsoleNext]_cvars
=============================================================================
