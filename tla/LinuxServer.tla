----------------------------- MODULE LinuxServer -----------------------------
(***************************************************************************)
(* The Linux emulator (src/examples/linux): the same semaphore.c, hash.c   *)
(* and list.c behind a TCP server (sem_serv.c), and the client library     *)
(* that talks to it (sem_cli.c, protocolo_sem.c).                          *)
(*                                                                         *)
(* `who' is the index of a connection in conn_array, so the process slots  *)
(* Procs of SemServer are those indexes and `alive' the ones whose         *)
(* status_array entry is 1.  The server is one process that takes one      *)
(* connection or one request per round of its loop, so each round is one   *)
(* action; what interleaves are the clients.  `fs_stuck' says that the     *)
(* server never returns from a connection_recv.                            *)
(*                                                                         *)
(* A socket carries whole messages in order (libconnection, external).     *)
(***************************************************************************)
EXTENDS SemServer

CONSTANTS
    Clients,    \* processes linked with sem_cli.c
    MAX_CON     \* entries of conn_array (31)

ASSUME LinuxServerAssumption ==
    /\ MAX_CON \in Nat \ {0}
    /\ Procs = 0 .. (MAX_CON - 1)

VARIABLES
    conn_array,     \* [Procs -> the client at the other end, or NoClient]
    backlog,        \* clients that have connected and are not accepted yet
    stale_afds,     \* afds still holds the socket of a closed connection
    client,         \* [Clients -> "new", "idle", "calling" or "gone"]
    call,           \* [Clients -> the message the client sent last]
    unread,         \* clients whose message the server has not read
    reply           \* [Clients -> Seq of messages it has not read]

server  == <<conn_array, backlog, stale_afds>>
sockets == <<client, call, unread, reply>>
lvars   == <<vars, server, sockets>>

\* An entry of conn_array that was never used.
NoClient == "none"

-----------------------------------------------------------------------------
(* Messages *)

Message == [op : {"OPEN"}, name : Keys, oflag : OFlags, value : Int]
      \cup [op : {"UNLINK"}, name : Keys]
      \cup [op : {"INIT"}, value : Int]
      \cup [op : {"CLOSE", "WAIT", "POST", "TRYWAIT", "GETVALUE", "DESTROY"},
            handle : Int]
      \cup [op : {"DISCONNECT", "EOF", "NONE"}]

NoCall     == [op |-> "NONE"]
Disconnect == [op |-> "DISCONNECT"]

\* Not a message: what the server reads once the other end is closed.
EndOfFile  == [op |-> "EOF"]

\* What is answered: every call, and the sem_wait of a process that is woken.
AnswerOps == {"OPEN", "UNLINK", "INIT", "CLOSE", "WAIT", "POST", "TRYWAIT",
              "GETVALUE", "DESTROY", "WAKE"}

\* The answer to op; handle is the one OPEN and INIT return, NULL for a failure
\* and for every other op.
Answer(op, handle) == [op |-> op, handle |-> handle]

-----------------------------------------------------------------------------
(* The client library *)

\* conn is NULL: sem_open and sem_init connect first.
connect(c) ==
    /\ client[c] = "new"
    /\ client' = [client EXCEPT ![c] = "idle"]
    /\ backlog' = Append(backlog, c)
    /\ UNCHANGED <<vars, conn_array, stale_afds, call, unread, reply>>

send(c, message) ==
    /\ call' = [call EXCEPT ![c] = message]
    /\ unread' = unread \cup {c}

\* A call: the message goes out and the client waits for the answer.  Sending
\* to a server that runs does not fail.
request(c, message) ==
    /\ client[c] = "idle"
    /\ client' = [client EXCEPT ![c] = "calling"]
    /\ send(c, message)
    /\ UNCHANGED <<vars, server, reply>>

\* The functions, up to the point where they wait for the answer.
cli_open(c, n, oflags, v) ==
    request(c, [op |-> "OPEN", name |-> n, oflag |-> oflags, value |-> v])
cli_post(c, h)     == request(c, [op |-> "POST", handle |-> h])
cli_wait(c, h)     == request(c, [op |-> "WAIT", handle |-> h])
cli_close(c, h)    == request(c, [op |-> "CLOSE", handle |-> h])
cli_trywait(c, h)  == request(c, [op |-> "TRYWAIT", handle |-> h])
cli_unlink(c, n)   == request(c, [op |-> "UNLINK", name |-> n])
cli_init(c, v)     == request(c, [op |-> "INIT", value |-> v])
cli_destroy(c, h)  == request(c, [op |-> "DESTROY", handle |-> h])
cli_getvalue(c, h) == request(c, [op |-> "GETVALUE", handle |-> h])

\* What sem_destroy asks of its caller, for the client of a connection.  Only one
\* that the server has accepted holds the handle of a slot.
MayAskDestroy(c, h) ==
    h \in Slots => \E i \in alive : conn_array[i] = c /\ MayDestroy(i, h)

\* The call returns; a wake-up is a single byte, which over what is left in
\* the buffer reads as the value 0.
return(c) ==
    /\ client[c] = "calling"
    /\ reply[c] # <<>>
    /\ client' = [client EXCEPT ![c] = "idle"]
    /\ reply' = [reply EXCEPT ![c] = Tail(@)]
    /\ call' = [call EXCEPT ![c] = NoCall]
    /\ UNCHANGED <<vars, server, unread>>

\* exit() runs clean_all, which atexit registered with the connection.
clean_all(c) ==
    /\ client[c] = "idle"
    /\ client' = [client EXCEPT ![c] = "gone"]
    /\ send(c, Disconnect)
    /\ UNCHANGED <<vars, server, reply>>

\* A signal ends the process, in a call or not, and clean_all does not run.  A
\* request that is on its way still arrives.
killed(c) ==
    /\ client[c] \in {"idle", "calling"}
    /\ client' = [client EXCEPT ![c] = "gone"]
    /\ call' = IF c \in unread THEN call ELSE [call EXCEPT ![c] = EndOfFile]
    /\ unread' = unread \cup {c}
    /\ reply' = [reply EXCEPT ![c] = <<>>]
    /\ UNCHANGED <<vars, server>>

-----------------------------------------------------------------------------
(* The server's loop *)

FreeIndexes == Procs \ alive

accept_connection_Any ==   \* mutant: index 0 is taken without looking
    /\ backlog # <<>>
    /\ conn_array' = [conn_array EXCEPT ![0] = Head(backlog)]
    /\ alive' = alive \cup {0}
    /\ stale_afds' = FALSE
    /\ backlog' = Tail(backlog)
    /\ UNCHANGED <<sems, names, waiting, fs_stuck, errno, sockets>>

\* The first free index takes the connection, with whatever semaphores the
\* index belongs to, and afds is cleared.  Without a free index the server
\* comes back here for ever, since the connection keeps waiting.
accept_connection ==
    /\ backlog # <<>>
    /\ \E i \in FreeIndexes :
         /\ IsFirst(i, FreeIndexes)
         /\ conn_array' = [conn_array EXCEPT ![i] = Head(backlog)]
         /\ alive' = alive \cup {i}
    /\ stale_afds' = FALSE
    /\ backlog' = Tail(backlog)
    /\ UNCHANGED <<sems, names, waiting, fs_stuck, errno, sockets>>

\* Connections select reports.
Readable == {i \in alive : conn_array[i] \in unread}

Selects_First(i) ==     \* mutant: the scan stops at the first connection
    ~stale_afds /\ backlog = <<>> /\ IsFirst(i, alive) /\ i \in Readable

\* With a closed socket in afds select fails and leaves rfds as it was, the
\* listening socket included: the server goes on to accept a connection and
\* sits there until one comes.  A connection that waits is always taken first.
Selects(i) ==
    /\ ~stale_afds
    /\ backlog = <<>>
    /\ IsFirst(i, Readable)

WaitsInAccept   == stale_afds /\ backlog = <<>>
SpinsWithNoSlot == backlog # <<>> /\ FreeIndexes = {}

-----------------------------------------------------------------------------
(* aceptar_pedido *)

\* connection_send; it fails, which is ignored, when the client is gone.
Put(messages, c, m) ==
    IF client[c] = "gone" THEN messages ELSE [messages EXCEPT ![c] = Append(@, m)]

\* What is sent to the caller: nothing when dont_reply was set.
Replied_Always(i, messages, handle) ==   \* mutant: dont_reply is not looked at
    Put(messages, conn_array[i], Answer(call[conn_array[i]].op, handle))
Replied(i, messages, handle) ==
    IF waiting'[i] # NULL THEN messages
    ELSE Put(messages, conn_array[i], Answer(call[conn_array[i]].op, handle))

Replies(i, handle) == reply' = Replied(i, reply, handle)

\* The handle of the semaphore sem_open or sem_init has just returned, or NULL.
Returned ==
    LET opened == {s \in Slots : ref_count'[s] > ref_count[s]}
    IN IF opened = {} THEN NULL ELSE CHOOSE s \in opened : TRUE

sem_wake_Caller(i, q) == conn_array[i]  \* mutant: `who' is woken, not `proc'

\* sem_wake writes to the connection of the process at the head of the queue.
sem_wake(i, q) == conn_array[q]

\* Writing to a socket does not block the server.  (The list nodes are taken to
\* suffice here, so that the queue is not empty when somebody is to be woken;
\* SemServer is explored without that assumption.)
post(i, handle) ==
    /\ sem_post(i, handle)
    /\ UNCHANGED fs_stuck
    /\ reply' = Replied(i,
           IF ValidHandle(i, handle) /\ sem_count[handle] < 0
           THEN Put(reply, sem_wake(i, Head(blocked_list[handle])),
                    Answer("WAKE", NULL))
           ELSE reply,
           NULL)

handle_call(i, m) ==
    \/ m.op = "OPEN" /\ sem_open(i, m.name, m.oflag, m.value)
                     /\ Replies(i, Returned)
    \/ m.op = "INIT" /\ sem_init(i, m.value) /\ Replies(i, Returned)
    \/ m.op = "UNLINK" /\ sem_unlink(i, m.name) /\ Replies(i, NULL)
    \/ m.op = "CLOSE" /\ sem_close(i, m.handle) /\ Replies(i, NULL)
    \/ m.op = "WAIT" /\ sem_wait(i, m.handle) /\ Replies(i, NULL)
    \/ m.op = "TRYWAIT" /\ sem_trywait(i, m.handle) /\ Replies(i, NULL)
    \/ m.op = "GETVALUE" /\ sem_getvalue(i, m.handle) /\ Replies(i, NULL)
    \/ m.op = "DESTROY" /\ sem_destroy(i, m.handle) /\ Replies(i, NULL)
    \/ m.op = "POST" /\ post(i, m.handle)

\* No semaphore is closed, the socket is, and the next select sets errno.
disconnect(i) ==
    /\ alive' = alive \ {i}
    /\ stale_afds' = TRUE
    /\ errno' = "EBADF"
    /\ UNCHANGED <<sems, names, waiting, fs_stuck, reply>>

\* connection_recv reads no bytes again and again.
hang ==
    /\ fs_stuck' = TRUE
    /\ UNCHANGED <<sems, names, alive, waiting, errno, stale_afds, reply>>

\* The message has been read; after a killed client's last request comes the
\* end of its socket.
consume(c) ==
    IF client[c] = "gone" /\ call[c] \notin {Disconnect, EndOfFile}
    THEN call' = [call EXCEPT ![c] = EndOfFile] /\ UNCHANGED unread
    ELSE unread' = unread \ {c} /\ UNCHANGED call

aceptar_pedido(i) ==
    /\ Selects(i)
    /\ LET m == call[conn_array[i]]
       IN \/ handle_call(i, m) /\ UNCHANGED stale_afds
          \/ m.op = "DISCONNECT" /\ disconnect(i)
          \/ m.op = "EOF" /\ hang
    /\ consume(conn_array[i])
    /\ UNCHANGED <<conn_array, backlog, client>>

Serve ==
    /\ ~fs_stuck
    /\ accept_connection \/ \E i \in Procs : aceptar_pedido(i)

-----------------------------------------------------------------------------

\* errno is the C library's: what main called before may have set it.
LinuxInit ==
    /\ sem_count = [i \in Slots |-> 0]
    /\ ref_count = [i \in Slots |-> 0]
    /\ proc_list = [i \in Slots |-> NoMembers]
    /\ blocked_list = [i \in Slots |-> <<>>]
    /\ unlinked = [i \in Slots |-> FALSE]
    /\ sem_name_map = NewHashTable
    /\ errno \in {"0", "EBADF"}
    /\ alive = {}
    /\ waiting = [i \in Procs |-> NULL]
    /\ fs_stuck = FALSE
    /\ opened_as = [i \in Slots |-> EmptyKey]
    /\ conn_array = [i \in Procs |-> NoClient]
    /\ backlog = <<>>
    /\ stale_afds = FALSE
    /\ client = [c \in Clients |-> "new"]
    /\ call = [c \in Clients |-> NoCall]
    /\ unread = {}
    /\ reply = [c \in Clients |-> <<>>]

-----------------------------------------------------------------------------
(* Properties *)

\* The shape of the emulator's own state.
LinuxTypeOK ==
    /\ conn_array \in [Procs -> Clients \cup {NoClient}]
    /\ backlog \in Seq(Clients)
    /\ stale_afds \in BOOLEAN
    /\ client \in [Clients -> {"new", "idle", "calling", "gone"}]
    /\ call \in [Clients -> Message]
    /\ unread \subseteq Clients
    /\ reply \in [Clients -> Seq([op : AnswerOps, handle : Slots \cup {NULL}])]

\* The client sleeps in the server: it is not replied to.
Asleep(c) == \E i \in alive : conn_array[i] = c /\ waiting[i] # NULL

\* A call in progress is in exactly one place: its message is unread, the
\* client sleeps in a sem_wait on that semaphore, or one answer to that very
\* call is on its way.  No answer is lost, doubled or sent to another client,
\* although wake-ups go to an index of conn_array and indexes are used again.
EachCallInOnePlace ==
    \A c \in Clients :
        /\ client[c] = "calling" =>
             \/ c \in unread /\ ~Asleep(c) /\ reply[c] = <<>>
             \/ c \notin unread /\ Asleep(c) /\ reply[c] = <<>>
             \/ /\ c \notin unread /\ ~Asleep(c)
                /\ Len(reply[c]) = 1
                /\ \/ Head(reply[c]).op = call[c].op
                   \/ Head(reply[c]).op = "WAKE" /\ call[c].op = "WAIT"
        /\ client[c] \in {"new", "idle"} => ~Asleep(c) /\ reply[c] = <<>>
        /\ Asleep(c) /\ client[c] = "calling" => call[c].op = "WAIT"

\* A request to destroy that was in order when the client sent it still is when
\* the server reads it, although in between others close and destroy, a new
\* semaphore takes the slot, names are made and unlinked, and indexes change
\* hands: sem_destroy never frees a semaphore that a name leads to.
DestroysAreLawful ==
    \A c \in unread : call[c].op = "DESTROY" => MayAskDestroy(c, call[c].handle)

\* A client is never at two indexes, and everyone the server still serves is
\* at one: no accepted connection is overwritten.
ConnectionsAreDistinct ==
    /\ \A i, j \in alive : conn_array[i] = conn_array[j] => i = j
    /\ \A c \in Clients : client[c] \in {"idle", "calling"} =>
         \/ \E k \in DOMAIN backlog : backlog[k] = c
         \/ \E i \in alive : conn_array[i] = c
=============================================================================
