---------------------------- MODULE Console_proofs ----------------------------
(***************************************************************************)
(* The emulator under the test console, for every number of users,         *)
(* connections, semaphores, names and entries of the table: no call is     *)
(* lost, answered twice or answered to somebody else, and no connection    *)
(* overwrites another.                                                     *)
(*                                                                         *)
(* To the invariant of the emulator (LinuxServer_proofs) the console adds  *)
(* what its table holds, which is what makes its requests legal, and its   *)
(* restart: a process that is gone, and whose end has been read, has left  *)
(* no connection behind.  Its users destroy no semaphore with a name       *)
(* (sem_destroy.3); that this still holds when the server gets to their    *)
(* request is part of the invariant.                                       *)
(*                                                                         *)
(* KillsSleepers is only read by do_exit of misc.c, which the emulator     *)
(* does not have.                                                          *)
(***************************************************************************)
EXTENDS Console, LinuxServer_proofs

TableInv ==
    /\ sem_array \in [Clients -> [Entries -> Sems]]
    /\ sem_name \in [Clients -> [Entries -> Keys \cup {EmptyKey}]]

ConsoleInv == LinuxInv /\ TableInv

-----------------------------------------------------------------------------
(***************************************************************************)
(* The menu.                                                               *)
(***************************************************************************)

HandleOps == {"CLOSE", "WAIT", "POST", "TRYWAIT", "GETVALUE", "DESTROY"}

LEMMA LegalHandleCall ==
    ASSUME NEW op \in HandleOps, NEW h \in Handles
    PROVE  /\ Legal([op |-> op, handle |-> h])
           /\ [op |-> op, handle |-> h].op \notin {"DISCONNECT", "EOF", "NONE"}
<1>1. h \in Int
  BY SemServerAssumption DEF Handles
<1> QED BY <1>1 DEF HandleOps, Legal, Message

LEMMA LegalOpen ==
    ASSUME NEW n \in Keys, NEW oflag \in OFlags,
           NEW v \in IF oflag.O_CREAT THEN InitialValues ELSE {0}
    PROVE  Legal([op |-> "OPEN", name |-> n, oflag |-> oflag, value |-> v])
<1>1. v \in Int
  BY SemServerAssumption DEF InitialValues
<1> QED BY <1>1 DEF Legal, Message

LEMMA LegalInit ==
    ASSUME NEW v \in InitialValues
    PROVE  Legal([op |-> "INIT", value |-> v])
<1>1. v \in Int
  BY SemServerAssumption DEF InitialValues
<1> QED BY <1>1 DEF Legal, Message

LEMMA LegalUnlink ==
    ASSUME NEW n \in Keys
    PROVE  Legal([op |-> "UNLINK", name |-> n])
BY DEF Legal, Message

\* What lies in the table, or behind it, is a handle.
LEMMA TableHandles ==
    ASSUME TableInv, NEW c \in Clients
    PROVE  get_sem(c) \subseteq Handles
<1>1. Slots \subseteq Handles /\ NoHandle \in Handles
  BY SemServerAssumption DEF Slots, Handles, NoHandle
<1>2. \A e \in Entries \ Empty(c) : sem_array[c][e] \in Slots
  BY DEF TableInv, Empty, Sems
<1> QED BY <1>1, <1>2 DEF get_sem

LEMMA MenuStep ==
    ASSUME ConsoleInv, NEW c \in Clients, menu(c)
    PROVE  LinuxInv'
<1>1. LinuxInv /\ TableInv
  BY DEF ConsoleInv
<1>2. ASSUME NEW n \in Keys, NEW oflag \in OFlags,
             NEW v \in IF oflag.O_CREAT THEN InitialValues ELSE {0},
             cli_open(c, n, oflag, v)
      PROVE  LinuxInv'
  <2> DEFINE m == [op |-> "OPEN", name |-> n, oflag |-> oflag, value |-> v]
  <2>1. Legal(m) /\ m.op = "OPEN"
    BY <1>2, LegalOpen
  <2>2. request(c, m)
    BY <1>2 DEF cli_open
  <2> HIDE DEF m
  <2> QED BY <1>1, <2>1, <2>2, RequestStep
<1>3. CASE m_open(c)
  <2>1. Names \subseteq Keys
    BY ConsoleAssumption
  <2>2. ASSUME NEW n \in Names, cli_open(c, n, NoFlags, 0) PROVE LinuxInv'
    <3>1. NoFlags \in OFlags /\ 0 \in IF NoFlags.O_CREAT THEN InitialValues ELSE {0}
      BY DEF NoFlags, OFlags
    <3> QED BY <1>2, <2>1, <2>2, <3>1
  <2>3. ASSUME NEW n \in Names, NEW flags \in CreateFlags, NEW v \in InitialValues,
               cli_open(c, n, flags, v)
        PROVE  LinuxInv'
    <3>1. flags \in OFlags /\ v \in IF flags.O_CREAT THEN InitialValues ELSE {0}
      BY DEF CreateFlags, OFlags
    <3> QED BY <1>2, <2>1, <2>3, <3>1
  <2> QED BY <1>3, <2>2, <2>3 DEF m_open
<1>4. CASE m_sem_init(c)
  <2>1. PICK v \in InitialValues : request(c, [op |-> "INIT", value |-> v])
    BY <1>4 DEF m_sem_init, cli_init
  <2> DEFINE m == [op |-> "INIT", value |-> v]
  <2>2. Legal(m) /\ m.op = "INIT" /\ request(c, m)
    BY <2>1, LegalInit
  <2> HIDE DEF m
  <2> QED BY <1>1, <2>2, RequestStep
<1>5. CASE m_unlink(c)
  <2>1. PICK n \in get_sem_name(c) : \/ crash(c)
                                     \/ n # EmptyKey /\ cli_unlink(c, n)
    BY <1>5 DEF m_unlink
  <2>2. CASE crash(c)
    BY <1>1, <2>2, KilledStep DEF crash
  <2>3. CASE n # EmptyKey /\ cli_unlink(c, n)
    <3> DEFINE m == [op |-> "UNLINK", name |-> n]
    <3>1. n \in Keys
      BY <1>1, <2>3, ConsoleAssumption DEF TableInv, get_sem_name
    <3>2. Legal(m) /\ m.op = "UNLINK"
      BY <3>1, LegalUnlink
    <3>3. request(c, m)
      BY <2>3 DEF cli_unlink
    <3> HIDE DEF m
    <3> QED BY <1>1, <3>2, <3>3, RequestStep
  <2> QED BY <2>1, <2>2, <2>3
<1>6. ASSUME NEW op \in HandleOps, NEW h \in get_sem(c),
             op = "DESTROY" => MayAskDestroy(c, h),
             request(c, [op |-> op, handle |-> h])
      PROVE  LinuxInv'
  <2> DEFINE m == [op |-> op, handle |-> h]
  <2>1. h \in Handles
    BY <1>1, TableHandles
  <2>2. Legal(m) /\ m.op \notin {"DISCONNECT", "EOF", "NONE"}
    BY <2>1, LegalHandleCall
  <2>3. request(c, m)
    BY <1>6
  <2>4. m.op = "DESTROY" => MayAskDestroy(c, m.handle)
    BY <1>6
  <2> HIDE DEF m
  <2> QED BY <1>1, <2>2, <2>3, <2>4, RequestStep
<1>7. CASE \/ m_wait(c) \/ m_trywait(c) \/ m_getvalue(c) \/ m_post(c)
           \/ m_close(c) \/ m_destroy(c)
  <2>1. \E op \in HandleOps, h \in get_sem(c) :
          /\ op = "DESTROY" => MayAskDestroy(c, h)
          /\ request(c, [op |-> op, handle |-> h])
    BY <1>7 DEF m_wait, m_trywait, m_getvalue, m_post, m_close, m_destroy, cli_wait,
       cli_trywait, cli_getvalue, cli_post, cli_close, cli_destroy, HandleOps
  <2> QED BY <1>6, <2>1
<1> QED BY <1>3, <1>4, <1>5, <1>7 DEF menu

-----------------------------------------------------------------------------
(***************************************************************************)
(* The table, and the console's restart.                                   *)
(***************************************************************************)

LEMMA FreeSpaceTable ==
    ASSUME TableInv, NEW c \in Clients, free_space(c)
    PROVE  TableInv'
<1>1. PICK e \in Entries : /\ sem_array' = [sem_array EXCEPT ![c][e] = NULL]
                           /\ sem_name' = [sem_name EXCEPT ![c][e] = EmptyKey]
  BY DEF free_space
<1> QED BY <1>1 DEF TableInv, Sems

\* What m_open and m_sem_init put in the table is a handle that was returned.
LEMMA CallEndsTable ==
    ASSUME ConsoleInv, NEW c \in Clients, call_ends(c)
    PROVE  TableInv'
<1> DEFINE handle == Head(reply[c]).handle
           name == IF call[c].op = "OPEN" THEN call[c].name ELSE UNNAMED
<1>1. handle \in Sems
  <2>1. reply[c] \in Seq(Answers) /\ reply[c] # <<>>
    BY DEF call_ends, return, ConsoleInv, LinuxInv, MessageInv
  <2>2. Head(reply[c]) \in Answers
    BY <2>1
  <2> QED BY <2>2 DEF Answers
<1>2. name \in Keys
  <2>1. call[c] \in Message
    BY DEF ConsoleInv, LinuxInv, MessageInv
  <2>2. call[c].op = "OPEN" => call[c].name \in Keys
    BY <2>1 DEF Message
  <2> QED BY <2>2, ConsoleAssumption
<1>3. UNCHANGED table \/ insert_sem(c, name, handle)
  BY DEF call_ends
<1> HIDE DEF handle, name
<1>4. CASE UNCHANGED table
  BY <1>4 DEF ConsoleInv, TableInv, table
<1>5. CASE insert_sem(c, name, handle)
  <2>1. CASE UNCHANGED table
    BY <2>1 DEF ConsoleInv, TableInv, table
  <2>2. CASE \E e \in Entries : /\ sem_array' = [sem_array EXCEPT ![c][e] = handle]
                                /\ sem_name' = [sem_name EXCEPT ![c][e] = name]
    BY <1>1, <1>2, <2>2 DEF ConsoleInv, TableInv
  <2> QED BY <1>5, <2>1, <2>2 DEF insert_sem
<1> QED BY <1>3, <1>4, <1>5

\* The predecessor is gone and the server has read its end: it is connected
\* nowhere, nobody sleeps for it and nothing was sent to it.
LEMMA LaunchStep ==
    ASSUME ConsoleInv, NEW c \in Clients, launch(c)
    PROVE  ConsoleInv'
<1>1. /\ client[c] = "gone" /\ c \notin unread /\ ~fs_stuck
      /\ client' = [client EXCEPT ![c] = "new"]
      /\ UNCHANGED vars /\ UNCHANGED <<conn_array, backlog, stale_afds>>
      /\ UNCHANGED <<call, unread, reply>>
      /\ UNCHANGED <<waiting, alive, conn_array, fs_stuck>>
  BY DEF launch, vars, procs, server
<1>2. ServerInv /\ MessageInv /\ ConnectionInv /\ CallInv /\ TableInv
  BY DEF ConsoleInv, LinuxInv
<1>3. ~Queued(c) /\ ~Connected(c) /\ ~Asleep(c) /\ reply[c] = <<>>
  BY <1>1, <1>2 DEF ConnectionInv, CallInv, ClientInv, Asleep, Connected
<1>4. client'[c] = "new" /\ \A d \in Clients \ {c} : client'[d] = client[d]
  BY <1>1, <1>2 DEF MessageInv
<1>5. \A d : /\ Asleep(d)' <=> Asleep(d)
             /\ Connected(d)' <=> Connected(d)
             /\ Queued(d)' <=> Queued(d)
  BY <1>1, SleepFrame DEF Queued
<1>6. MessageInv'
  BY <1>1, <1>2 DEF MessageInv, Legal
<1>7. ASSUME NEW d \in Clients PROVE ClientInv(d)'
  <2>1. CASE d = c
    BY <1>1, <1>3, <1>4, <1>5, <2>1 DEF ClientInv
  <2>2. CASE d # c
    BY <1>1, <1>2, <1>4, <1>5, <2>2, ClientFrame DEF CallInv
  <2> QED BY <2>1, <2>2
<1>8. ConnectionInv'
  <2>1. /\ IsInjective(backlog)'
        /\ (\A i, j \in alive : conn_array[i] = conn_array[j] => i = j)'
        /\ (\A i \in alive : conn_array[i] \in Clients /\ ~Queued(conn_array[i]))'
    BY <1>1, <1>2, <1>5 DEF ConnectionInv
  <2>2. ASSUME NEW d \in Clients
        PROVE  /\ client'[d] = "new" => ~Queued(d)' /\ ~Connected(d)'
               /\ client'[d] \in {"idle", "calling"} => Queued(d)' \/ Connected(d)'
               /\ client'[d] = "gone" /\ (Queued(d)' \/ Connected(d)') /\ ~fs_stuck'
                    => d \in unread'
    <3>1. CASE d = c
      BY <1>3, <1>4, <1>5, <3>1
    <3>2. CASE d # c
      BY <1>1, <1>2, <1>4, <1>5, <3>2 DEF ConnectionInv
    <3> QED BY <3>1, <3>2
  <2> QED BY <2>1, <2>2 DEF ConnectionInv
<1>9. ServerInv'
  BY <1>1, <1>2, ServerUnchanged
<1>10. TableInv'
  BY <1>2 DEF launch, TableInv, Sems
<1>11. DestroysAreLawful'
  <2>1. UNCHANGED <<proc_list, unlinked>>
    BY <1>1 DEF vars, sems
  <2> QED BY <1>1, <2>1, MayAskFrame DEF ConsoleInv, LinuxInv, DestroysAreLawful
<1> QED BY <1>6, <1>7, <1>8, <1>9, <1>10, <1>11 DEF ConsoleInv, LinuxInv, CallInv

-----------------------------------------------------------------------------
(***************************************************************************)
(* The results.                                                            *)
(***************************************************************************)

LEMMA ConsoleInvInit == ConsoleInit => ConsoleInv
<1>1. ConsoleInit => LinuxInv
  BY LinuxInvInit DEF ConsoleInit
<1>2. ConsoleInit => TableInv
  BY DEF ConsoleInit, TableInv, Sems
<1> QED BY <1>1, <1>2 DEF ConsoleInv

LEMMA ConsoleInvNext ==
    ASSUME ConsoleInv, NodesLast, ~KillsSleepers, [ConsoleNext]_cvars
    PROVE  ConsoleInv'
<1>1. LinuxInv /\ TableInv
  BY DEF ConsoleInv
<1>2. ASSUME UNCHANGED table PROVE TableInv'
  BY <1>1, <1>2 DEF TableInv, table
<1>3. CASE Serve /\ UNCHANGED table
  BY <1>1, <1>2, <1>3, ServeStep DEF ConsoleInv
<1>4. ASSUME NEW c \in Clients, connect(c) \/ menu(c) \/ quit(c) \/ killed(c),
             UNCHANGED table
      PROVE  ConsoleInv'
  <2>1. LinuxInv'
    BY <1>1, <1>4, ConnectStep, MenuStep, CleanAllStep, KilledStep DEF quit
  <2> QED BY <1>2, <1>4, <2>1 DEF ConsoleInv
<1>5. ASSUME NEW c \in Clients, free_space(c) PROVE ConsoleInv'
  <2>1. UNCHANGED lvars
    BY <1>5 DEF free_space
  <2> QED BY <1>1, <1>5, <2>1, LinuxStutter, FreeSpaceTable DEF ConsoleInv
<1>6. ASSUME NEW c \in Clients, call_ends(c) PROVE ConsoleInv'
  <2>1. return(c)
    BY <1>6 DEF call_ends
  <2> QED BY <1>1, <1>6, <2>1, ReturnStep, CallEndsTable DEF ConsoleInv
<1>7. ASSUME NEW c \in Clients, launch(c) PROVE ConsoleInv'
  BY <1>7, LaunchStep
<1>8. CASE UNCHANGED cvars
  BY <1>1, <1>2, <1>8, LinuxStutter DEF cvars, ConsoleInv
<1> QED BY <1>3, <1>4, <1>5, <1>6, <1>7, <1>8 DEF ConsoleNext

LEMMA ConsoleInvariant ==
    ASSUME ~KillsSleepers
    PROVE  ConsoleSpec /\ []NodesLast => []ConsoleInv
<1>1. ConsoleInv /\ NodesLast /\ [ConsoleNext]_cvars => ConsoleInv'
  BY ConsoleInvNext
<1> QED BY <1>1, ConsoleInvInit, PTL DEF ConsoleSpec

\* The emulator's state keeps its shape: every index in use has a client, and
\* what is sent and answered are messages and answers of the protocol.
THEOREM EmulatorIsTyped ==
    ASSUME ~KillsSleepers
    PROVE  ConsoleSpec /\ []NodesLast => []LinuxTypeOK
<1>1. ConsoleInv => LinuxTypeOK
  BY MessagesAreTyped DEF ConsoleInv, LinuxInv
<1> QED BY <1>1, ConsoleInvariant, PTL

\* No DESTROY is handled on a semaphore that a name leads to, if none was sent:
\* users who keep to sem_destroy.3 are not overtaken by other users while their
\* request waits.
THEOREM DestroysStayLawful ==
    ASSUME ~KillsSleepers
    PROVE  ConsoleSpec /\ []NodesLast => []DestroysAreLawful
<1>1. ConsoleInv => DestroysAreLawful
  BY DEF ConsoleInv, LinuxInv
<1> QED BY <1>1, ConsoleInvariant, PTL

\* A call in progress is unread, asleep in a sem_wait or has exactly one answer
\* on its way, and the answer is to that call, although wake-ups go to an index
\* of conn_array, indexes and processes are used again, and processes are
\* killed in the middle of a call.  The users keep to sem_destroy.3 (m_destroy):
\* after a DESTROY of a semaphore with a name, which the server carries out,
\* slots share lists and nothing of this is claimed.
THEOREM CallsAreAnsweredOnce ==
    ASSUME ~KillsSleepers
    PROVE  ConsoleSpec /\ []NodesLast => []EachCallInOnePlace
<1>1. ConsoleInv => EachCallInOnePlace
  BY CallsAreInOnePlace DEF ConsoleInv, LinuxInv
<1> QED BY <1>1, ConsoleInvariant, PTL

\* No connection that was accepted is overwritten, and no client that has
\* connected is forgotten.
THEOREM ConnectionsAreKept ==
    ASSUME ~KillsSleepers
    PROVE  ConsoleSpec /\ []NodesLast => []ConnectionsAreDistinct
<1>1. ConsoleInv => ConnectionsAreDistinct
  BY ConnectionsHold DEF ConsoleInv, LinuxInv
<1> QED BY <1>1, ConsoleInvariant, PTL
=============================================================================
