------------------------------ MODULE ProdCons ------------------------------
(***************************************************************************)
(* The example src/examples/prod_cons.c run by several users against the   *)
(* Linux emulator: producers and consumers, started and ended at any time, *)
(* that meet through the names "sem_prod" and "sem_cons".  Every character *)
(* a user types makes a process produce or consume an element; the end of  *)
(* the input ends it.                                                      *)
(***************************************************************************)
EXTENDS LinuxServer

CONSTANTS
    Producers, Consumers,   \* the two kinds of clients
    sem_prod, sem_cons,     \* the two names
    CAPACITY,               \* initial value of sem_prod (15)
    INPUT                   \* bound: characters typed by one user

ASSUME ProdConsAssumption ==
    /\ Clients = Producers \cup Consumers
    /\ Producers \cap Consumers = {}
    /\ sem_prod # sem_cons /\ Keys = {sem_prod, sem_cons}
    /\ CAPACITY \in Nat \ {0} /\ CAPACITY <= SEM_VALUE_MAX
    /\ INPUT \in Nat

VARIABLES
    pc,         \* [Clients -> the statement the process is at]
    input,      \* [Clients -> characters its user may still type]
    handle,     \* [Clients -> [Keys -> what sem_open returned]]
    produced,   \* history: elements produced
    consumed    \* history: elements consumed

program == <<pc, input, handle, produced, consumed>>
pvars   == <<lvars, program>>

Goto(c, label) == pc' = [pc EXCEPT ![c] = label]

Next_of_Skip == [unlink_cons |-> "close_cons",   \* mutant: one unlink missing
                 close_cons |-> "close_prod", close_prod |-> "end"]

\* The statements from the end of the loop on, in order.
Next_of == [unlink_cons |-> "unlink_prod", unlink_prod |-> "close_cons",
            close_cons |-> "close_prod", close_prod |-> "end"]

-----------------------------------------------------------------------------
(* Calls *)

\* The semaphore a process waits on and the one it posts.
Awaited(c) == IF c \in Producers THEN sem_prod ELSE sem_cons
Posted(c)  == IF c \in Producers THEN sem_cons ELSE sem_prod

\* sem_open with O_CREAT: the first process creates the semaphore.
open(c, n, v) == cli_open(c, n, [O_CREAT |-> TRUE, O_EXCL |-> FALSE], v)

\* The call at pc[c].
Statement(c) ==
    \/ pc[c] = "open_prod" /\ open(c, sem_prod, CAPACITY)
    \/ pc[c] = "open_cons" /\ open(c, sem_cons, 0)
    \/ pc[c] = "wait" /\ cli_wait(c, handle[c][Awaited(c)])
    \/ pc[c] \in {"post", "last_post"} /\ cli_post(c, handle[c][Posted(c)])
    \/ pc[c] = "unlink_cons" /\ cli_unlink(c, sem_cons)
    \/ pc[c] = "unlink_prod" /\ cli_unlink(c, sem_prod)
    \/ pc[c] = "close_cons" /\ cli_close(c, handle[c][sem_cons])
    \/ pc[c] = "close_prod" /\ cli_close(c, handle[c][sem_prod])

\* An element is produced just before the producer's sem_post.
calls(c) ==
    /\ Statement(c)
    /\ produced' = IF pc[c] = "post" /\ c \in Producers THEN produced + 1
                   ELSE produced
    /\ UNCHANGED <<pc, input, handle, consumed>>

-----------------------------------------------------------------------------
(* What follows a call *)

opened(c) ==
    \/ /\ pc[c] = "open_prod"
       /\ handle' = [handle EXCEPT ![c][sem_prod] = Head(reply[c]).handle]
       /\ Goto(c, "open_cons")
    \/ /\ pc[c] = "open_cons"
       /\ handle' = [handle EXCEPT ![c][sem_cons] = Head(reply[c]).handle]
       /\ \/ c \in Producers /\ Goto(c, "wait")
          \/ c \in Consumers /\ Goto(c, "getchar")
          \* the consumer tests `c' before it is set: it may equal EOF
          \/ c \in Consumers /\ Goto(c, "unlink_cons")

\* A producer waits for a place and then reads; a consumer reads and then
\* waits for an element.
waited(c) ==
    /\ pc[c] = "wait"
    /\ Goto(c, IF c \in Producers THEN "getchar" ELSE "post")

posted(c) ==
    \/ pc[c] = "post" /\ Goto(c, IF c \in Producers THEN "wait" ELSE "getchar")
    \/ pc[c] = "last_post" /\ Goto(c, "unlink_cons")

returns(c) ==
    /\ return(c)
    /\ \/ opened(c)
       \/ /\ \/ waited(c)
             \/ posted(c)
             \/ pc[c] \in DOMAIN Next_of /\ Goto(c, Next_of[pc[c]])
          /\ UNCHANGED handle
    /\ consumed' = IF pc[c] = "wait" /\ c \in Consumers THEN consumed + 1
                   ELSE consumed
    /\ UNCHANGED <<input, produced>>

-----------------------------------------------------------------------------
(* The loop *)

getchar_AfterEof(c) ==  \* mutant: the producer posts at the end of input too
    /\ pc[c] = "getchar"
    /\ \/ /\ input[c] > 0
          /\ input' = [input EXCEPT ![c] = @ - 1]
          /\ Goto(c, IF c \in Producers THEN "post" ELSE "wait")
       \/ /\ Goto(c, "last_post")
          /\ UNCHANGED input
    /\ UNCHANGED <<lvars, handle, produced, consumed>>

\* A character, or the end of the input; a consumer posts then all the same.
getchar(c) ==
    /\ pc[c] = "getchar"
    /\ \/ /\ input[c] > 0
          /\ input' = [input EXCEPT ![c] = @ - 1]
          /\ Goto(c, IF c \in Producers THEN "post" ELSE "wait")
       \/ /\ Goto(c, IF c \in Producers THEN "unlink_cons" ELSE "last_post")
          /\ UNCHANGED input
    /\ UNCHANGED <<lvars, handle, produced, consumed>>

ends(c) ==
    /\ pc[c] = "end"
    /\ clean_all(c)
    /\ UNCHANGED program

-----------------------------------------------------------------------------

ProdConsInit ==
    /\ LinuxInit
    /\ pc = [c \in Clients |-> "open_prod"]
    /\ input = [c \in Clients |-> INPUT]
    /\ handle = [c \in Clients |-> [n \in Keys |-> NULL]]
    /\ produced = 0
    /\ consumed = 0

Step(c) ==
    \/ connect(c) /\ UNCHANGED program
    \/ calls(c) \/ returns(c) \/ getchar(c) \/ ends(c)

ProdConsNext ==
    \/ Serve /\ UNCHANGED program
    \/ \E c \in Clients : Step(c)

\* The server and the clients it has answered are not all kept from running
\* while one of them can go on.  Nobody need start a program, or type.
Proceeds == (Serve /\ UNCHANGED program) \/ \E c \in Clients : returns(c)

ProdConsSpec == ProdConsInit /\ [][ProdConsNext]_pvars /\ WF_pvars(Proceeds)

-----------------------------------------------------------------------------
(* Properties *)

\* A process keeps the semaphores it has opened until it closes them, whoever
\* unlinks their names, closes them or ends meanwhile, and the two it has are
\* different ones.
Loop == {"wait", "getchar", "post", "last_post", "unlink_cons", "unlink_prod"}
Uses(c, n) ==
    /\ handle[c][n] \in Live
    /\ \E i \in alive : conn_array[i] = c /\ Belongs(i, handle[c][n])
HandlesStayOpen ==
    \A c \in Clients :
        /\ pc[c] \in Loop \cup {"open_cons", "close_cons"} => Uses(c, sem_prod)
        /\ pc[c] \in Loop => /\ Uses(c, sem_cons)
                             /\ handle[c][sem_prod] # handle[c][sem_cons]

\* "Los primeros producen mensajes y los segundos los consumen": whoever opens
\* first, and however processes that end unlink the names under those that run
\* or start, no element is consumed before it was produced; and until one of
\* them reaches the end of its input no more than CAPACITY are left over.
Running == {"open_prod", "open_cons", "wait", "getchar", "post"}
BoundedBuffer ==
    /\ consumed <= produced
    /\ (\A c \in Clients : pc[c] \in Running) => produced <= consumed + CAPACITY

\* Once the users stop typing every call has been served, that is, has returned
\* or fallen asleep, unless the server waits for ever in accept after a client
\* has left, or turns round for ever in front of a full conn_array.
AllServed == \A c \in Clients : client[c] = "calling" => Asleep(c)
CallsAreServed ==
    <>[]AllServed \/ <>[](WaitsInAccept \/ SpinsWithNoSlot)

\* When all have ended, every semaphore has been given back that a name still
\* leads to or that was unlinked.  (One whose row of the name table another
\* insertion has overwritten stays for ever, see HashTable.)
NamesAreReleased ==
    (\A c \in Clients : client[c] \in {"new", "gone"}) =>
        \A i \in Live :
            /\ ~unlinked[i]
            /\ \A n \in Keys : ~HashTableFinds(sem_name_map, n, i)
=============================================================================
