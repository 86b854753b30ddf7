-------------------------- MODULE LinuxServer_proofs --------------------------
(***************************************************************************)
(* The emulator's connections and calls, for every number of clients,      *)
(* connections, semaphores and names, as long as list nodes last.          *)
(*                                                                         *)
(* What the server keeps between rounds is the invariant of the semaphores *)
(* (SemSleepers_proofs), which holds here too although an index of         *)
(* conn_array that is given back keeps its semaphores: only one that does  *)
(* not sleep is ever given back.  Over it, the connections and the calls   *)
(* of the clients are one invariant, since a client that starts again must *)
(* find neither a connection nor an answer of its predecessor.             *)
(*                                                                         *)
(* Requests to destroy that are in order when they are sent stay in order  *)
(* until they are read: nobody but a client itself makes it a member of a  *)
(* semaphore.  Without that a name could be left on a free slot.           *)
(*                                                                         *)
(* Each action of the server and of the library is shown to keep it; what  *)
(* a program built on them adds is shown with that program.                *)
(***************************************************************************)
EXTENDS LinuxServer, SemSleepers_proofs

Sems == Slots \cup {NULL}

\* The semaphores: each queue is exactly the sleepers of its slot.
ServerInv == SleepInv /\ \A i \in Slots : SlotIsSound(i)

\* Messages the programs send: a value up to one past the limit, and a handle
\* that was returned or is out of range.
Legal(m) ==
    /\ m \in Message
    /\ m.op = "OPEN" =>
         m.value \in IF m.oflag.O_CREAT THEN InitialValues ELSE {0}
    /\ m.op = "INIT" => m.value \in InitialValues
    /\ m.op \in {"CLOSE", "WAIT", "POST", "TRYWAIT", "GETVALUE", "DESTROY"} =>
         m.handle \in Handles

Answers == [op : AnswerOps, handle : Sems]

\* LinuxTypeOK, for the messages that are really sent.
MessageInv ==
    /\ conn_array \in [Procs -> Clients \cup {NoClient}]
    /\ backlog \in Seq(Clients)
    /\ stale_afds \in BOOLEAN
    /\ client \in [Clients -> {"new", "idle", "calling", "gone"}]
    /\ call \in [Clients -> {m \in Message : Legal(m)}]
    /\ unread \subseteq Clients
    /\ reply \in [Clients -> Seq(Answers)]

\* The client c waits to be accepted, or is at an index in use.
Queued(c)    == \E k \in DOMAIN backlog : backlog[k] = c
Connected(c) == \E i \in alive : conn_array[i] = c

\* Each connection is in one place, and belongs to a process that is not past
\* its end, or whose end the server has still to read.
ConnectionInv ==
    /\ IsInjective(backlog)
    /\ \A i, j \in alive : conn_array[i] = conn_array[j] => i = j
    /\ \A i \in alive : conn_array[i] \in Clients /\ ~Queued(conn_array[i])
    /\ \A c \in Clients :
         /\ client[c] = "new" => ~Queued(c) /\ ~Connected(c)
         /\ client[c] \in {"idle", "calling"} => Queued(c) \/ Connected(c)
         /\ client[c] = "gone" /\ (Queued(c) \/ Connected(c)) /\ ~fs_stuck
              => c \in unread

\* Where the call of one client is, as in EachCallInOnePlace.  What is read of
\* a client is a request of one in a call, or the end of one that is gone; one
\* that takes leave does not sleep.
ClientInv(c) ==
    /\ client[c] = "calling" =>
         \/ c \in unread /\ ~Asleep(c) /\ reply[c] = <<>>
         \/ /\ c \notin unread /\ Asleep(c) /\ reply[c] = <<>>
            /\ call[c].op = "WAIT"
         \/ /\ c \notin unread /\ ~Asleep(c)
            /\ Len(reply[c]) = 1
            /\ \/ Head(reply[c]).op = call[c].op
               \/ Head(reply[c]).op = "WAKE" /\ call[c].op = "WAIT"
    /\ client[c] \in {"new", "idle"} =>
         c \notin unread /\ ~Asleep(c) /\ reply[c] = <<>>
    /\ client[c] = "gone" => reply[c] = <<>>
    /\ c \in unread /\ client[c] # "gone" =>
         call[c].op \notin {"DISCONNECT", "EOF", "NONE"}
    /\ c \in unread /\ call[c].op = "DISCONNECT" => ~Asleep(c)

CallInv == \A c \in Clients : ClientInv(c)

LinuxInv ==
    ServerInv /\ MessageInv /\ ConnectionInv /\ CallInv /\ DestroysAreLawful

-----------------------------------------------------------------------------
(***************************************************************************)
(* The semaphores.                                                         *)
(***************************************************************************)

LEMMA ServerFacts ==
    ASSUME ServerInv
    PROVE  /\ TypeOK /\ SleepInv
           /\ \A p \in Procs : waiting[p] # NULL => p \in alive /\ waiting[p] \in Slots
           /\ \A i \in Slots : /\ Range(blocked_list[i]) = Sleepers(i)
                               /\ Len(blocked_list[i]) = Debt(i)
           /\ ~fs_stuck => QuietInv
BY SlotFacts DEF ServerInv, SleepInv, NameInv, QueueInv, SlotIsSound, QuietInv,
                 QuietParts

\* Connections come and go, and the server may hang.
LEMMA ServerFrame ==
    ASSUME ServerInv, UNCHANGED <<sems, names, waiting>>, errno' \in Errors,
           alive' \subseteq Procs, fs_stuck' \in BOOLEAN,
           \A p \in Procs : waiting[p] # NULL => p \in alive'
    PROVE  ServerInv'
<1>1. NameInv'
  <2>1. TypeOK'
    BY ServerFacts DEF TypeOK, sems, names
  <2>2. FreeSlotsAreEmpty' /\ BlockedWithinDebt'
    BY DEF ServerInv, SleepInv, NameInv, QueueInv, FreeSlotsAreEmpty,
           BlockedWithinDebt, Free, Debt, sems
  <2>3. NameTableMirrorsSlots' /\ LookupIsSound'
    BY DEF ServerInv, SleepInv, NameInv, NameTableMirrorsSlots,
           RowsNameLinkedSlots, RowsAreDistinct, LinkedSlotsHaveRows,
           LookupIsSound, Live, sems, names
  <2> QED BY <2>1, <2>2, <2>3 DEF NameInv, QueueInv
<1>2. \A i \in Slots : SlotIsSound(i)'
  BY DEF ServerInv, SlotIsSound, Sleepers, Debt, sems
<1>3. SleepersKeepTheirSemaphore' /\ SleepersAreQueued' /\ UnlinkedHaveMembers'
  BY DEF ServerInv, SleepInv, SleepParts, SleepersKeepTheirSemaphore,
         SleepersAreQueued, UnlinkedHaveMembers, Live, Belongs, sems
<1>4. BlockedIsDebt'
  BY <1>2 DEF BlockedIsDebt, SlotIsSound, Live
<1> QED BY <1>1, <1>2, <1>3, <1>4 DEF ServerInv, SleepInv, SleepParts

LEMMA ServerNext ==
    ASSUME ServerInv, NodesLast, ~KillsSleepers, ~fs_stuck, Next
    PROVE  ServerInv'
<1>1. QuietInv /\ SleepInv
  BY ServerFacts
<1>2. QuietParts'
  BY <1>1, QuietNext
<1>3. SleepInv'
  BY <1>1, SleepNext, NameInvNext DEF SleepInv
<1> QED BY <1>2, <1>3 DEF ServerInv, QuietParts

\* A legal request is a call that the server of SemServer takes.
LEMMA CallIsCall ==
    ASSUME NEW i \in Procs, NEW m, Legal(m), handle_call(i, m),
           m.op = "DESTROY" => MayDestroy(i, m.handle)
    PROVE  \/ NamedCall(i) \/ HandleCall(i)
           \/ \E v \in InitialValues : sem_init(i, v)
<1>1. CASE m.op = "OPEN" /\ sem_open(i, m.name, m.oflag, m.value)
  <2>1. m.name \in Keys /\ m.oflag \in OFlags
    BY <1>1 DEF Legal, Message
  <2>2. m.value \in IF m.oflag.O_CREAT THEN InitialValues ELSE {0}
    BY <1>1 DEF Legal
  <2> QED BY <1>1, <2>1, <2>2 DEF NamedCall
<1>2. CASE m.op = "UNLINK" /\ sem_unlink(i, m.name)
  <2>1. m.name \in Keys
    BY <1>2 DEF Legal, Message
  <2> QED BY <1>2, <2>1 DEF NamedCall
<1>3. CASE m.op = "INIT" /\ sem_init(i, m.value)
  BY <1>3 DEF Legal
<1>4. CASE /\ m.op \in {"CLOSE", "WAIT", "POST", "TRYWAIT", "GETVALUE", "DESTROY"}
           /\ \/ sem_close(i, m.handle) \/ sem_wait(i, m.handle)
              \/ sem_trywait(i, m.handle) \/ sem_getvalue(i, m.handle)
              \/ MayDestroy(i, m.handle) /\ sem_destroy(i, m.handle)
              \/ sem_post(i, m.handle)
  <2>1. m.handle \in Handles
    BY <1>4 DEF Legal
  <2> QED BY <1>4, <2>1 DEF HandleCall
<1> QED BY <1>1, <1>2, <1>3, <1>4 DEF handle_call, post

\* A call makes nobody but the caller a member of anything, and takes no name's
\* place with a semaphore of somebody else.
LEMMA OthersMayDestroy ==
    ASSUME NameInv, NEW i \in Procs, NEW j \in Procs \ {i}, NEW h \in Slots,
           \/ NamedCall(i) \/ HandleCall(i)
           \/ \E v \in InitialValues : sem_init(i, v),
           MayDestroy(j, h)
    PROVE  MayDestroy(j, h)'
<1>1. TypeOK /\ QueueInv
  BY DEF NameInv, QueueInv
<1> SUFFICES ASSUME proc_list'[h][j] > 0 PROVE unlinked'[h]
  BY DEF MayDestroy, ValidHandle, Belongs
<1> SUFFICES proc_list'[h][j] = proc_list[h][j] /\ (unlinked[h] => unlinked'[h])
  BY DEF MayDestroy, ValidHandle, Belongs
<1>2. ~(0 > 0) /\ NoMembers[j] = 0
  BY DEF NoMembers
<1>3. CASE UNCHANGED <<proc_list, unlinked>>
  BY <1>3
<1>4. ASSUME NEW s \in Slots, Unlinks(i, s)
      PROVE  proc_list'[h][j] = proc_list[h][j] /\ (unlinked[h] => unlinked'[h])
  BY <1>1, <1>4 DEF Unlinks, TypeOK
<1>5. ASSUME NEW s \in Slots, Joins(i, s)
      PROVE  proc_list'[h][j] = proc_list[h][j] /\ (unlinked[h] => unlinked'[h])
  BY <1>1, <1>5 DEF Joins, InsertMember, TypeOK
<1>6. ASSUME NEW s \in Slots, NEW v, NEW u, Creates(i, s, v, u)
      PROVE  proc_list'[h][j] = proc_list[h][j] /\ (unlinked[h] => unlinked'[h])
  <2>1. /\ proc_list' = [proc_list EXCEPT ![s] = InsertMember(NoMembers, i)]
        /\ unlinked' = [unlinked EXCEPT ![s] = u]
    BY <1>6 DEF Creates, sem_create
  <2>2. InsertMember(NoMembers, i)[j] = 0
    BY DEF InsertMember, NoMembers
  <2>3. h # s
    BY <1>1, <1>2, <2>1, <2>2 DEF TypeOK
  <2> QED BY <1>1, <2>1, <2>3 DEF TypeOK
<1>7. ASSUME NEW s \in Slots, Destroys(s)
      PROVE  proc_list'[h][j] = proc_list[h][j] /\ (unlinked[h] => unlinked'[h])
  <2>1. proc_list' = [proc_list EXCEPT ![s] = NoMembers] /\ UNCHANGED unlinked
    BY <1>7 DEF Destroys
  <2>2. h # s
    BY <1>1, <1>2, <2>1 DEF TypeOK
  <2> QED BY <1>1, <2>1, <2>2 DEF TypeOK
<1>8. ASSUME NEW s \in Slots, Closes(i, {s})
      PROVE  proc_list'[h][j] = proc_list[h][j] /\ (unlinked[h] => unlinked'[h])
  BY <1>1, <1>8 DEF Closes, CloseSlots, WithoutOne, TypeOK
<1>9. CASE NamedCall(i)
  BY <1>3, <1>4, <1>5, <1>6, <1>9, NamedCallEffect DEF NoEffect, Stores, sems
<1>10. CASE HandleCall(i)
  <2>1. Held(i) \subseteq Slots
    BY DEF Held
  <2> QED BY <1>1, <1>3, <1>7, <1>8, <1>10, <2>1, HandleCallEffect
          DEF NoEffect, Sleeps, Counts, Wakes, Blocks, Pops, sems
<1>11. CASE \E v \in InitialValues : sem_init(i, v)
  BY <1>3, <1>6, <1>11, InitCallEffect DEF NoEffect, Stores, sems
<1> QED BY <1>9, <1>10, <1>11

-----------------------------------------------------------------------------
(***************************************************************************)
(* What a request does to sleepers and answers.                            *)
(***************************************************************************)

\* The caller is answered.
RepliedTo(i) ==
    /\ waiting' = waiting
    /\ \E h \in Sems : reply' = Put(reply, conn_array[i],
                                    Answer(call[conn_array[i]].op, h))

\* It falls asleep and is not.
FallsAsleep(i) ==
    /\ call[conn_array[i]].op = "WAIT"
    /\ \E s \in Slots : waiting' = [waiting EXCEPT ![i] = s]
    /\ reply' = reply

\* It is answered, and so is the sleeper q.
WakesUp(i, q) ==
    /\ waiting[q] # NULL
    /\ waiting' = [waiting EXCEPT ![q] = NULL]
    /\ reply' = Put(Put(reply, conn_array[q], Answer("WAKE", NULL)),
                    conn_array[i], Answer(call[conn_array[i]].op, NULL))

LEMMA ReturnedType == Returned \in Sems
BY DEF Returned, Sems

LEMMA PlainAnswer ==
    ASSUME NEW i, Calls(i), UNCHANGED procs, NEW h \in Sems, Replies(i, h)
    PROVE  RepliedTo(i)
<1>1. waiting' = waiting /\ waiting'[i] = NULL
  BY DEF Calls, procs
<1> QED BY <1>1 DEF RepliedTo, Replies, Replied

LEMMA WaitOutcome ==
    ASSUME ServerInv, NEW i \in Procs, call[conn_array[i]].op = "WAIT", NEW handle,
           sem_wait(i, handle), Replies(i, NULL)
    PROVE  RepliedTo(i) \/ FallsAsleep(i)
<1>1. CASE UNCHANGED waiting
  BY <1>1, PlainAnswer DEF sem_wait, procs, Sems
<1>2. CASE handle \in Slots /\ waiting' = [waiting EXCEPT ![i] = handle]
  <2>1. waiting'[i] # NULL
    BY <1>2, ServerFacts, NullIsNoSlot DEF TypeOK
  <2> QED BY <1>2, <2>1 DEF FallsAsleep, Replies, Replied
<1> QED BY <1>1, <1>2 DEF sem_wait, ValidHandle

LEMMA PostOutcome ==
    ASSUME ServerInv, NEW i \in Procs, NEW handle, post(i, handle)
    PROVE  RepliedTo(i) \/ \E q \in Procs : WakesUp(i, q)
<1>1. waiting[i] = NULL /\ UNCHANGED <<alive, fs_stuck>> /\ ~fs_stuck
  BY DEF post, sem_post, Calls
<1>2. CASE ~(ValidHandle(i, handle) /\ sem_count[handle] < 0)
  <2>1. waiting' = waiting
    <3>1. CASE ~ValidHandle(i, handle)
      BY <3>1 DEF post, sem_post, procs
    <3>2. CASE ValidHandle(i, handle) /\ ~(sem_count[handle] < 0)
      BY <3>2 DEF post, sem_post, procs
    <3> QED BY <1>2, <3>1, <3>2
  <2>2. Replies(i, NULL)
    BY <1>2 DEF post, Replies
  <2>3. UNCHANGED procs /\ Calls(i)
    BY <1>1, <2>1 DEF procs, post, sem_post
  <2> QED BY <2>2, <2>3, PlainAnswer DEF Sems
<1>3. CASE ValidHandle(i, handle) /\ sem_count[handle] < 0
  <2> DEFINE q == Head(blocked_list[handle])
  <2>1. handle \in Slots /\ blocked_list[handle] \in Seq(Procs)
    BY <1>3, ServerFacts DEF ValidHandle, TypeOK
  <2>2. Len(blocked_list[handle]) > 0
    BY <1>3, <2>1, ServerFacts DEF Debt, TypeOK
  <2>3. blocked_list[handle] # <<>>
    BY <2>2
  <2>4. q \in Procs /\ q \in Range(blocked_list[handle])
    BY <2>1, <2>3, PopFront
  <2>5. waiting[q] = handle
    BY <2>1, <2>4, ServerFacts DEF Sleepers
  <2>6. waiting[q] # NULL
    BY <2>1, <2>5, NullIsNoSlot
  <2>7. waiting' = [waiting EXCEPT ![q] = NULL]
    <3>1. WakeCandidates(handle) = {q}
      BY <2>3 DEF WakeCandidates
    <3>2. ~SendBlocks(q)
      BY <2>6 DEF SendBlocks
    <3>3. sem_post(i, handle) /\ ~(sem_count[handle] >= 0)
      BY <1>3, <2>1, ServerFacts DEF post, TypeOK
    <3> HIDE DEF q
    <3> QED BY <1>3, <3>1, <3>2, <3>3 DEF sem_post, Delivered, Refused
  <2>8. waiting'[i] = NULL
    BY <1>1, <2>6, <2>7, ServerFacts DEF TypeOK
  <2>9. reply' = Put(Put(reply, conn_array[q], Answer("WAKE", NULL)),
                     conn_array[i], Answer(call[conn_array[i]].op, NULL))
    BY <1>3, <2>8 DEF post, Replied, sem_wake
  <2>10. WakesUp(i, q)
    BY <2>6, <2>7, <2>9 DEF WakesUp
  <2> QED BY <2>4, <2>10
<1> QED BY <1>2, <1>3

LEMMA CallOutcome ==
    ASSUME ServerInv, NEW i \in Procs, handle_call(i, call[conn_array[i]])
    PROVE  /\ UNCHANGED <<alive, fs_stuck>>
           /\ i \in alive /\ waiting[i] = NULL
           /\ call[conn_array[i]].op \in AnswerOps
           /\ \/ RepliedTo(i) \/ FallsAsleep(i)
              \/ \E q \in Procs : WakesUp(i, q)
<1> DEFINE m == call[conn_array[i]]
<1>0. m.op \in AnswerOps
  BY DEF handle_call, AnswerOps
<1>1. ASSUME NEW h \in Sems, Calls(i), UNCHANGED procs, Replies(i, h)
      PROVE  /\ UNCHANGED <<alive, fs_stuck>>
             /\ i \in alive /\ waiting[i] = NULL
             /\ RepliedTo(i)
  BY <1>1, PlainAnswer DEF Calls, procs
<1>2. CASE m.op = "WAIT" /\ sem_wait(i, m.handle) /\ Replies(i, NULL)
  BY <1>0, <1>2, WaitOutcome DEF sem_wait, Calls
<1>3. CASE m.op = "POST" /\ post(i, m.handle)
  BY <1>0, <1>3, PostOutcome DEF post, sem_post, Calls
<1>4. CASE m.op = "OPEN" /\ sem_open(i, m.name, m.oflag, m.value)
                         /\ Replies(i, Returned)
  BY <1>0, <1>1, <1>4, ReturnedType DEF sem_open
<1>5. CASE m.op = "INIT" /\ sem_init(i, m.value) /\ Replies(i, Returned)
  BY <1>0, <1>1, <1>5, ReturnedType DEF sem_init
<1>6. CASE /\ Replies(i, NULL)
           /\ \/ sem_unlink(i, m.name) \/ sem_close(i, m.handle)
              \/ sem_trywait(i, m.handle) \/ sem_getvalue(i, m.handle)
              \/ sem_destroy(i, m.handle)
  <2>1. Calls(i) /\ UNCHANGED procs
    BY <1>6 DEF sem_unlink, sem_close, sem_trywait, sem_getvalue, sem_destroy
  <2> QED BY <1>0, <1>1, <1>6, <2>1 DEF Sems
<1> QED BY <1>2, <1>3, <1>4, <1>5, <1>6 DEF handle_call

-----------------------------------------------------------------------------
(***************************************************************************)
(* Messages.                                                               *)
(***************************************************************************)

LEMMA LegalEnds == Legal(NoCall) /\ Legal(Disconnect) /\ Legal(EndOfFile)
BY DEF Legal, Message, NoCall, Disconnect, EndOfFile

LEMMA LegalOps ==
    ASSUME NEW m, Legal(m)
    PROVE  /\ m.op \in AnswerOps \cup {"DISCONNECT", "EOF", "NONE"}
           /\ m.op = "DISCONNECT" => m = Disconnect
           /\ m.op = "EOF" => m = EndOfFile
BY DEF Legal, Message, AnswerOps, Disconnect, EndOfFile

\* connection_send adds one message for one client, unless it is gone.
LEMMA PutFacts ==
    ASSUME NEW messages \in [Clients -> Seq(Answers)], NEW c \in Clients,
           NEW op \in AnswerOps, NEW h \in Sems
    PROVE  /\ Put(messages, c, Answer(op, h)) \in [Clients -> Seq(Answers)]
           /\ \A d \in Clients \ {c} :
                Put(messages, c, Answer(op, h))[d] = messages[d]
           /\ client[c] = "gone" => Put(messages, c, Answer(op, h))[c] = messages[c]
           /\ client[c] # "gone" =>
                Put(messages, c, Answer(op, h))[c] = Append(messages[c], Answer(op, h))
<1>1. Answer(op, h) \in Answers
  BY DEF Answer, Answers
<1> HIDE DEF Answer
<1>2. messages[c] \in Seq(Answers) /\ Append(messages[c], Answer(op, h)) \in Seq(Answers)
  BY <1>1
<1> QED BY <1>2 DEF Put

LEMMA NothingLeft ==
    ASSUME NEW S, NEW l \in Seq(S), Len(l) = 0
    PROVE  l = <<>>
OBVIOUS

LEMMA OneAnswer ==
    ASSUME NEW op, NEW h
    PROVE  /\ Append(<<>>, Answer(op, h)) # <<>>
           /\ Len(Append(<<>>, Answer(op, h))) = 1
           /\ Head(Append(<<>>, Answer(op, h))).op = op
<1>1. Append(<<>>, Answer(op, h)) = <<Answer(op, h)>>
  OBVIOUS
<1>2. Len(<<Answer(op, h)>>) = 1 /\ Head(<<Answer(op, h)>>) = Answer(op, h)
  OBVIOUS
<1>3. Answer(op, h).op = op
  BY DEF Answer
<1> QED BY <1>1, <1>2, <1>3

LEMMA MessagesAreTyped == MessageInv => LinuxTypeOK
BY DEF MessageInv, LinuxTypeOK, Answers, Sems

LEMMA CallsAreInOnePlace == CallInv => EachCallInOnePlace
BY DEF CallInv, ClientInv, EachCallInOnePlace

LEMMA ConnectionsHold == ConnectionInv => ConnectionsAreDistinct
BY DEF ConnectionInv, ConnectionsAreDistinct, Queued, Connected

-----------------------------------------------------------------------------
(***************************************************************************)
(* The connections that wait to be accepted.                               *)
(***************************************************************************)

In(c, l) == \E k \in DOMAIN l : l[k] = c

LEMMA AppendQueue ==
    ASSUME NEW l \in Seq(Clients), NEW c \in Clients, IsInjective(l), ~In(c, l)
    PROVE  /\ Append(l, c) \in Seq(Clients)
           /\ IsInjective(Append(l, c))
           /\ \A d : In(d, Append(l, c)) <=> In(d, l) \/ d = c
<1>1. /\ DOMAIN Append(l, c) = 1 .. (Len(l) + 1) /\ DOMAIN l = 1 .. Len(l)
      /\ Len(l) \in Nat /\ Append(l, c) \in Seq(Clients)
  OBVIOUS
<1>2. /\ Append(l, c)[Len(l) + 1] = c
      /\ \A k \in 1 .. Len(l) : Append(l, c)[k] = l[k]
  OBVIOUS
<1>3. \A k \in 1 .. (Len(l) + 1) : k = Len(l) + 1 \/ k \in 1 .. Len(l)
  BY <1>1
<1>4. \A k \in 1 .. Len(l) : k \in 1 .. (Len(l) + 1)
  BY <1>1
<1>5. Len(l) + 1 \in 1 .. (Len(l) + 1)
  BY <1>1
<1>6. IsInjective(Append(l, c))
  <2> SUFFICES ASSUME NEW a \in 1 .. (Len(l) + 1), NEW b \in 1 .. (Len(l) + 1),
                      Append(l, c)[a] = Append(l, c)[b]
               PROVE  a = b
    BY <1>1 DEF IsInjective
  <2> QED BY <1>1, <1>2, <1>3 DEF IsInjective, In
<1>7. ASSUME NEW d PROVE In(d, Append(l, c)) <=> In(d, l) \/ d = c
  BY <1>1, <1>2, <1>3, <1>4, <1>5 DEF In
<1> QED BY <1>1, <1>6, <1>7

LEMMA TailQueue ==
    ASSUME NEW l \in Seq(Clients), l # <<>>, IsInjective(l)
    PROVE  /\ Head(l) \in Clients /\ In(Head(l), l)
           /\ Tail(l) \in Seq(Clients)
           /\ IsInjective(Tail(l))
           /\ \A d : In(d, Tail(l)) <=> In(d, l) /\ d # Head(l)
<1>1. /\ DOMAIN Tail(l) = 1 .. (Len(l) - 1) /\ DOMAIN l = 1 .. Len(l)
      /\ Len(l) \in Nat /\ Len(l) >= 1 /\ Head(l) = l[1]
      /\ Tail(l) \in Seq(Clients) /\ Head(l) \in Clients
  OBVIOUS
<1>2. \A k \in 1 .. (Len(l) - 1) : Tail(l)[k] = l[k + 1]
  OBVIOUS
<1>3. \A k \in 1 .. (Len(l) - 1) : k + 1 \in 1 .. Len(l) /\ k + 1 # 1
  BY <1>1
<1>4. 1 \in 1 .. Len(l)
  BY <1>1
<1>5. \A k \in 1 .. Len(l) : k = 1 \/ (k - 1 \in 1 .. (Len(l) - 1) /\ (k - 1) + 1 = k)
  BY <1>1
<1>6. IsInjective(Tail(l))
  <2> SUFFICES ASSUME NEW a \in 1 .. (Len(l) - 1), NEW b \in 1 .. (Len(l) - 1),
                      Tail(l)[a] = Tail(l)[b]
               PROVE  a = b
    BY <1>1 DEF IsInjective
  <2>1. a + 1 = b + 1
    BY <1>1, <1>2, <1>3 DEF IsInjective
  <2> QED BY <1>1, <2>1
<1>7. ASSUME NEW d, In(d, Tail(l)) PROVE In(d, l) /\ d # Head(l)
  BY <1>1, <1>2, <1>3, <1>4, <1>7 DEF In, IsInjective
<1>8. ASSUME NEW d, In(d, l), d # Head(l) PROVE In(d, Tail(l))
  <2>1. PICK k \in 1 .. Len(l) : l[k] = d
    BY <1>1, <1>8 DEF In
  <2>2. k - 1 \in 1 .. (Len(l) - 1) /\ (k - 1) + 1 = k
    BY <1>1, <1>5, <1>8, <2>1
  <2>3. Tail(l)[k - 1] = d /\ k - 1 \in DOMAIN Tail(l)
    BY <1>1, <1>2, <2>1, <2>2
  <2> QED BY <2>3 DEF In
<1> QED BY <1>1, <1>4, <1>6, <1>7, <1>8 DEF In

-----------------------------------------------------------------------------
(***************************************************************************)
(* Steps of the clients.                                                   *)
(***************************************************************************)

\* A step that leaves the server and its connections alone keeps who sleeps.
LEMMA SleepFrame ==
    ASSUME UNCHANGED <<waiting, alive, conn_array>>
    PROVE  /\ \A c : Asleep(c)' <=> Asleep(c)
           /\ \A c : Connected(c)' <=> Connected(c)
BY DEF Asleep, Connected

LEMMA ServerUnchanged ==
    ASSUME ServerInv, UNCHANGED vars
    PROVE  ServerInv'
<1>1. /\ UNCHANGED <<sems, names, waiting>>
      /\ UNCHANGED <<errno, alive, fs_stuck>>
  BY DEF vars, procs
<1> QED BY <1>1, ServerFrame, ServerFacts DEF TypeOK

\* Another client than the one that acts.
LEMMA ClientFrame ==
    ASSUME NEW d, ClientInv(d), Asleep(d)' <=> Asleep(d),
           client'[d] = client[d], reply'[d] = reply[d],
           d \in unread' <=> d \in unread,
           d \in unread => call'[d] = call[d],
           client[d] = "calling" => call'[d] = call[d]
    PROVE  ClientInv(d)'
BY DEF ClientInv

\* What a client may destroy depends on the members and on who is connected.
LEMMA MayAskFrame ==
    ASSUME UNCHANGED <<proc_list, unlinked>>, NEW c, NEW h, MayAskDestroy(c, h),
           \A i \in alive : conn_array[i] = c => i \in alive' /\ conn_array'[i] = c
    PROVE  MayAskDestroy(c, h)'
BY DEF MayAskDestroy, MayDestroy, ValidHandle, Belongs

\* What a client's step must show: its own place, and its connection.
LEMMA ClientStep ==
    ASSUME LinuxInv, NEW c \in Clients, UNCHANGED vars, UNCHANGED server,
           NEW s \in {"new", "idle", "calling", "gone"},
           client' = [client EXCEPT ![c] = s],
           \A d \in Clients \ {c} : /\ call'[d] = call[d] /\ reply'[d] = reply[d]
                                    /\ d \in unread' <=> d \in unread,
           MessageInv', ClientInv(c)',
           client[c] \in {"idle", "calling"}, s # "new",
           s = "gone" => c \in unread',
           c \in unread' /\ call'[c].op = "DESTROY" => MayAskDestroy(c, call'[c].handle)
    PROVE  LinuxInv'
<1>1. UNCHANGED <<waiting, alive, conn_array, backlog, fs_stuck>>
  BY DEF vars, procs, server
<1>2. client \in [Clients -> {"new", "idle", "calling", "gone"}]
  BY DEF LinuxInv, MessageInv
<1>3. client'[c] = s /\ \A d \in Clients \ {c} : client'[d] = client[d]
  BY <1>2
<1>4. ASSUME NEW d \in Clients \ {c} PROVE ClientInv(d)'
  BY <1>1, <1>3, <1>4, SleepFrame, ClientFrame DEF LinuxInv, CallInv
<1>5. CallInv'
  BY <1>4 DEF CallInv
<1>6. \A d : (Queued(d)' <=> Queued(d)) /\ (Connected(d)' <=> Connected(d))
  BY <1>1, SleepFrame DEF Queued
<1>7. ConnectionInv'
  <2>1. /\ IsInjective(backlog)'
        /\ (\A i, j \in alive : conn_array[i] = conn_array[j] => i = j)'
        /\ (\A i \in alive : conn_array[i] \in Clients /\ ~Queued(conn_array[i]))'
    BY <1>1, <1>6 DEF LinuxInv, ConnectionInv
  <2>2. ASSUME NEW d \in Clients
        PROVE  /\ client'[d] = "new" => ~Queued(d)' /\ ~Connected(d)'
               /\ client'[d] \in {"idle", "calling"} => Queued(d)' \/ Connected(d)'
               /\ client'[d] = "gone" /\ (Queued(d)' \/ Connected(d)') /\ ~fs_stuck'
                    => d \in unread'
    <3>1. CASE d = c
      BY <1>3, <1>6, <3>1 DEF LinuxInv, ConnectionInv
    <3>2. CASE d # c
      BY <1>1, <1>3, <1>6, <3>2 DEF LinuxInv, ConnectionInv
    <3> QED BY <3>1, <3>2
  <2> QED BY <2>1, <2>2 DEF ConnectionInv
<1>8. ServerInv'
  BY ServerUnchanged DEF LinuxInv
<1>9. DestroysAreLawful'
  <2> SUFFICES ASSUME NEW d, d \in unread', call'[d].op = "DESTROY",
                      NEW h, h = call'[d].handle
               PROVE  MayAskDestroy(d, h)'
    BY DEF DestroysAreLawful
  <2>1. d \in Clients
    BY DEF MessageInv
  <2>2. MayAskDestroy(d, h)
    <3>1. CASE d = c
      BY <3>1
    <3>2. CASE d # c
      BY <2>1, <3>2 DEF LinuxInv, DestroysAreLawful
    <3> QED BY <3>1, <3>2
  <2> QED BY <1>1, <2>2, MayAskFrame DEF vars, sems
<1> QED BY <1>5, <1>7, <1>8, <1>9 DEF LinuxInv

\* A client asks only for what it may ask.
LEMMA RequestStep ==
    ASSUME LinuxInv, NEW c \in Clients, NEW m, Legal(m),
           m.op \notin {"DISCONNECT", "EOF", "NONE"}, request(c, m),
           m.op = "DESTROY" => MayAskDestroy(c, m.handle)
    PROVE  LinuxInv'
<1>1. /\ client[c] = "idle" /\ client' = [client EXCEPT ![c] = "calling"]
      /\ call' = [call EXCEPT ![c] = m] /\ unread' = unread \cup {c}
      /\ UNCHANGED vars /\ UNCHANGED server /\ UNCHANGED reply
  BY DEF request, send
<1>2. MessageInv /\ ClientInv(c)
  BY DEF LinuxInv, CallInv
<1>3. MessageInv'
  BY <1>1, <1>2 DEF MessageInv, Legal, server
<1>4. ~Asleep(c)' /\ reply'[c] = <<>>
  <2>1. UNCHANGED <<waiting, alive, conn_array>>
    BY <1>1 DEF vars, procs, server
  <2> QED BY <1>1, <1>2, <2>1, SleepFrame DEF ClientInv
<1>5. client'[c] = "calling" /\ call'[c] = m
  BY <1>1, <1>2 DEF MessageInv
<1>6. ClientInv(c)'
  BY <1>1, <1>4, <1>5 DEF ClientInv
<1>7. \A d \in Clients \ {c} : /\ call'[d] = call[d] /\ reply'[d] = reply[d]
                               /\ d \in unread' <=> d \in unread
  BY <1>1, <1>2 DEF MessageInv
<1> QED BY <1>1, <1>3, <1>5, <1>6, <1>7, ClientStep

LEMMA ReturnStep ==
    ASSUME LinuxInv, NEW c \in Clients, return(c)
    PROVE  LinuxInv'
<1>1. /\ client[c] = "calling" /\ reply[c] # <<>>
      /\ client' = [client EXCEPT ![c] = "idle"]
      /\ reply' = [reply EXCEPT ![c] = Tail(@)]
      /\ call' = [call EXCEPT ![c] = NoCall]
      /\ UNCHANGED vars /\ UNCHANGED server /\ UNCHANGED unread
  BY DEF return
<1>2. MessageInv /\ ClientInv(c)
  BY DEF LinuxInv, CallInv
<1>3. reply[c] \in Seq(Answers) /\ Tail(reply[c]) \in Seq(Answers)
  BY <1>1, <1>2 DEF MessageInv
<1>4. MessageInv'
  <2>1. NoCall \in {m \in Message : Legal(m)}
    BY LegalEnds DEF Legal
  <2>2. reply' \in [Clients -> Seq(Answers)]
    BY <1>1, <1>2, <1>3 DEF MessageInv
  <2> QED BY <1>1, <1>2, <2>1, <2>2 DEF MessageInv, server
<1>5. c \notin unread /\ ~Asleep(c) /\ Len(reply[c]) = 1
  BY <1>1, <1>2 DEF ClientInv
<1>6. Tail(reply[c]) = <<>>
  <2>1. Len(Tail(reply[c])) = 0
    BY <1>3, <1>5
  <2> QED BY <1>3, <2>1, NothingLeft
<1>7. ~Asleep(c)' /\ reply'[c] = <<>> /\ client'[c] = "idle" /\ c \notin unread'
  <2>1. UNCHANGED <<waiting, alive, conn_array>>
    BY <1>1 DEF vars, procs, server
  <2>2. ~Asleep(c)'
    BY <1>5, <2>1, SleepFrame
  <2>3. reply'[c] = <<>> /\ client'[c] = "idle"
    BY <1>1, <1>2, <1>6 DEF MessageInv
  <2> QED BY <1>1, <1>5, <2>2, <2>3
<1>8. ClientInv(c)'
  BY <1>7 DEF ClientInv
<1>9. \A d \in Clients \ {c} : /\ call'[d] = call[d] /\ reply'[d] = reply[d]
                               /\ d \in unread' <=> d \in unread
  BY <1>1, <1>2 DEF MessageInv
<1> QED BY <1>1, <1>4, <1>7, <1>8, <1>9, ClientStep

LEMMA CleanAllStep ==
    ASSUME LinuxInv, NEW c \in Clients, clean_all(c)
    PROVE  LinuxInv'
<1>1. /\ client[c] = "idle" /\ client' = [client EXCEPT ![c] = "gone"]
      /\ call' = [call EXCEPT ![c] = Disconnect] /\ unread' = unread \cup {c}
      /\ UNCHANGED vars /\ UNCHANGED server /\ UNCHANGED reply
  BY DEF clean_all, send
<1>2. MessageInv /\ ClientInv(c)
  BY DEF LinuxInv, CallInv
<1>3. MessageInv'
  <2>1. Disconnect \in {m \in Message : Legal(m)}
    BY LegalEnds DEF Legal
  <2> QED BY <1>1, <1>2, <2>1 DEF MessageInv, server
<1>4. ~Asleep(c)' /\ reply'[c] = <<>>
  <2>1. UNCHANGED <<waiting, alive, conn_array>>
    BY <1>1 DEF vars, procs, server
  <2> QED BY <1>1, <1>2, <2>1, SleepFrame DEF ClientInv
<1>5. client'[c] = "gone" /\ call'[c].op = "DISCONNECT"
  BY <1>1, <1>2 DEF MessageInv, Disconnect
<1>6. ClientInv(c)'
  BY <1>4, <1>5 DEF ClientInv
<1>7. \A d \in Clients \ {c} : /\ call'[d] = call[d] /\ reply'[d] = reply[d]
                               /\ d \in unread' <=> d \in unread
  BY <1>1, <1>2 DEF MessageInv
<1> QED BY <1>1, <1>3, <1>5, <1>6, <1>7, ClientStep

LEMMA KilledStep ==
    ASSUME LinuxInv, NEW c \in Clients, killed(c)
    PROVE  LinuxInv'
<1>1. /\ client[c] \in {"idle", "calling"}
      /\ client' = [client EXCEPT ![c] = "gone"]
      /\ call' = IF c \in unread THEN call ELSE [call EXCEPT ![c] = EndOfFile]
      /\ unread' = unread \cup {c} /\ reply' = [reply EXCEPT ![c] = <<>>]
      /\ UNCHANGED vars /\ UNCHANGED server
  BY DEF killed
<1>2. MessageInv /\ ClientInv(c)
  BY DEF LinuxInv, CallInv
<1>3. MessageInv'
  <2>1. EndOfFile \in {m \in Message : Legal(m)} /\ <<>> \in Seq(Answers)
    BY LegalEnds DEF Legal
  <2>2. call' \in [Clients -> {m \in Message : Legal(m)}]
    BY <1>1, <1>2, <2>1 DEF MessageInv
  <2>3. reply' \in [Clients -> Seq(Answers)]
    BY <1>1, <1>2, <2>1 DEF MessageInv
  <2> QED BY <1>1, <1>2, <2>2, <2>3 DEF MessageInv, server
<1>4. client'[c] = "gone" /\ reply'[c] = <<>>
  BY <1>1, <1>2 DEF MessageInv
<1>5. call'[c].op # "DISCONNECT"
  <2>1. CASE c \in unread
    BY <1>1, <1>2, <2>1 DEF ClientInv
  <2>2. CASE c \notin unread
    BY <1>1, <1>2, <2>2 DEF MessageInv, EndOfFile
  <2> QED BY <2>1, <2>2
<1>6. ClientInv(c)'
  BY <1>4, <1>5 DEF ClientInv
<1>7. \A d \in Clients \ {c} : /\ call'[d] = call[d] /\ reply'[d] = reply[d]
                               /\ d \in unread' <=> d \in unread
  BY <1>1, <1>2 DEF MessageInv
<1>8. c \in unread' /\ call'[c].op = "DESTROY" => MayAskDestroy(c, call'[c].handle)
  <2>1. CASE c \in unread
    BY <1>1, <2>1 DEF LinuxInv, DestroysAreLawful
  <2>2. CASE c \notin unread
    BY <1>1, <1>2, <2>2 DEF MessageInv, EndOfFile
  <2> QED BY <2>1, <2>2
<1> QED BY <1>1, <1>3, <1>6, <1>7, <1>8, ClientStep

LEMMA ConnectStep ==
    ASSUME LinuxInv, NEW c \in Clients, connect(c)
    PROVE  LinuxInv'
<1>1. /\ client[c] = "new" /\ client' = [client EXCEPT ![c] = "idle"]
      /\ backlog' = Append(backlog, c)
      /\ UNCHANGED vars /\ UNCHANGED <<conn_array, stale_afds, call, unread, reply>>
      /\ UNCHANGED <<waiting, alive, conn_array, fs_stuck>>
  BY DEF connect, vars, procs
<1>2. MessageInv /\ ConnectionInv /\ CallInv /\ ServerInv
  BY DEF LinuxInv
<1>3. ~In(c, backlog) /\ ~Connected(c)
  BY <1>1, <1>2 DEF ConnectionInv, Queued, In
<1>4. /\ backlog' \in Seq(Clients) /\ IsInjective(backlog')
      /\ \A d : Queued(d)' <=> Queued(d) \/ d = c
  <2>1. backlog \in Seq(Clients) /\ IsInjective(backlog)
    BY <1>2 DEF MessageInv, ConnectionInv
  <2> QED BY <1>1, <1>3, <2>1, AppendQueue DEF Queued, In
<1>5. client'[c] = "idle" /\ \A d \in Clients \ {c} : client'[d] = client[d]
  BY <1>1, <1>2 DEF MessageInv
<1>6. MessageInv'
  BY <1>1, <1>2, <1>4 DEF MessageInv, Legal
<1>7. \A d : (Asleep(d)' <=> Asleep(d)) /\ (Connected(d)' <=> Connected(d))
  BY <1>1, SleepFrame
<1>8. ASSUME NEW d \in Clients PROVE ClientInv(d)'
  <2>1. CASE d = c
    BY <1>1, <1>2, <1>5, <1>7, <2>1 DEF CallInv, ClientInv
  <2>2. CASE d # c
    BY <1>1, <1>2, <1>5, <1>7, <2>2, ClientFrame DEF CallInv
  <2> QED BY <2>1, <2>2
<1>9. ConnectionInv'
  <2>1. /\ (\A i, j \in alive : conn_array[i] = conn_array[j] => i = j)'
        /\ (\A i \in alive : conn_array[i] \in Clients /\ ~Queued(conn_array[i]))'
    BY <1>1, <1>2, <1>3, <1>4 DEF ConnectionInv, Connected
  <2>2. ASSUME NEW d \in Clients
        PROVE  /\ client'[d] = "new" => ~Queued(d)' /\ ~Connected(d)'
               /\ client'[d] \in {"idle", "calling"} => Queued(d)' \/ Connected(d)'
               /\ client'[d] = "gone" /\ (Queued(d)' \/ Connected(d)') /\ ~fs_stuck'
                    => d \in unread'
    <3>1. CASE d = c
      BY <1>4, <1>5, <3>1
    <3>2. CASE d # c
      BY <1>1, <1>2, <1>4, <1>5, <1>7, <3>2 DEF ConnectionInv
    <3> QED BY <3>1, <3>2
  <2> QED BY <1>4, <2>1, <2>2 DEF ConnectionInv
<1>10. ServerInv'
  BY <1>1, <1>2, ServerUnchanged
<1>11. DestroysAreLawful'
  <2>1. UNCHANGED <<proc_list, unlinked>>
    BY <1>1 DEF vars, sems
  <2> QED BY <1>1, <2>1, MayAskFrame DEF LinuxInv, DestroysAreLawful
<1> QED BY <1>6, <1>8, <1>9, <1>10, <1>11 DEF LinuxInv, CallInv

-----------------------------------------------------------------------------
(***************************************************************************)
(* A round of the server.                                                  *)
(***************************************************************************)

\* The first free index takes the connection.  Nobody sleeps there.
LEMMA AcceptStep ==
    ASSUME LinuxInv, accept_connection
    PROVE  LinuxInv'
<1> DEFINE c == Head(backlog)
<1>1. PICK i \in FreeIndexes :
        /\ conn_array' = [conn_array EXCEPT ![i] = c]
        /\ alive' = alive \cup {i}
  BY DEF accept_connection
<1>2. /\ backlog # <<>> /\ stale_afds' = FALSE /\ backlog' = Tail(backlog)
      /\ UNCHANGED <<sems, names, waiting, fs_stuck, errno>>
      /\ UNCHANGED <<client, call, unread, reply>>
  BY DEF accept_connection, sockets
<1>3. MessageInv /\ ConnectionInv /\ CallInv /\ ServerInv
  BY DEF LinuxInv
<1>4. i \in Procs /\ i \notin alive /\ waiting[i] = NULL /\ alive \subseteq Procs
  BY <1>3, ServerFacts DEF FreeIndexes, TypeOK
<1>5. /\ c \in Clients /\ In(c, backlog)
      /\ Tail(backlog) \in Seq(Clients) /\ IsInjective(Tail(backlog))
      /\ \A d : In(d, Tail(backlog)) <=> In(d, backlog) /\ d # c
  <2>1. backlog \in Seq(Clients) /\ IsInjective(backlog)
    BY <1>3 DEF MessageInv, ConnectionInv
  <2> QED BY <1>2, <2>1, TailQueue
<1> HIDE DEF c
<1>6. /\ IsInjective(backlog') /\ Queued(c)
      /\ \A d : Queued(d)' <=> Queued(d) /\ d # c
  BY <1>2, <1>5 DEF Queued, In
<1>7. /\ conn_array'[i] = c
      /\ \A j \in alive : conn_array'[j] = conn_array[j]
  BY <1>1, <1>3, <1>4 DEF MessageInv
<1>8. \A d : Asleep(d)' <=> Asleep(d)
  BY <1>1, <1>2, <1>4, <1>7 DEF Asleep
<1>9. \A d : Connected(d)' <=> Connected(d) \/ d = c
  BY <1>1, <1>7 DEF Connected
<1>10. ServerInv'
  <2>1. errno' \in Errors /\ alive' \subseteq Procs /\ fs_stuck' \in BOOLEAN
    BY <1>1, <1>2, <1>3, <1>4, ServerFacts DEF TypeOK
  <2>2. \A p \in Procs : waiting[p] # NULL => p \in alive'
    BY <1>1, <1>3, ServerFacts
  <2> QED BY <1>2, <1>3, <2>1, <2>2, ServerFrame
<1>11. MessageInv'
  <2>1. conn_array' \in [Procs -> Clients \cup {NoClient}]
    BY <1>1, <1>3, <1>5 DEF MessageInv
  <2> QED BY <1>2, <1>3, <1>5, <2>1 DEF MessageInv, Legal
<1>12. ConnectionInv'
  <2>1. (\A a, b \in alive : conn_array[a] = conn_array[b] => a = b)'
    BY <1>1, <1>3, <1>6, <1>7 DEF ConnectionInv
  <2>2. (\A a \in alive : conn_array[a] \in Clients /\ ~Queued(conn_array[a]))'
    BY <1>1, <1>3, <1>5, <1>6, <1>7 DEF ConnectionInv
  <2>3. ASSUME NEW d \in Clients
        PROVE  /\ client'[d] = "new" => ~Queued(d)' /\ ~Connected(d)'
               /\ client'[d] \in {"idle", "calling"} => Queued(d)' \/ Connected(d)'
               /\ client'[d] = "gone" /\ (Queued(d)' \/ Connected(d)') /\ ~fs_stuck'
                    => d \in unread'
    BY <1>2, <1>3, <1>6, <1>9 DEF ConnectionInv
  <2> QED BY <1>6, <2>1, <2>2, <2>3 DEF ConnectionInv
<1>13. ASSUME NEW d \in Clients PROVE ClientInv(d)'
  BY <1>2, <1>3, <1>8, ClientFrame DEF CallInv
<1>14. DestroysAreLawful'
  <2>1. \A j \in alive : j \in alive' /\ conn_array'[j] = conn_array[j]
    BY <1>1, <1>7
  <2>2. UNCHANGED <<proc_list, unlinked>>
    BY <1>2 DEF sems
  <2> QED BY <1>2, <2>1, <2>2, MayAskFrame DEF LinuxInv, DestroysAreLawful
<1> QED BY <1>10, <1>11, <1>12, <1>13, <1>14 DEF LinuxInv, CallInv

\* What the server knows of the connection it reads from.
LEMMA SelectedFacts ==
    ASSUME LinuxInv, NEW i \in Procs, Selects(i)
    PROVE  /\ i \in alive /\ conn_array[i] \in Clients /\ conn_array[i] \in unread
           /\ ClientInv(conn_array[i]) /\ Legal(call[conn_array[i]])
           /\ client[conn_array[i]] \in {"calling", "gone"}
           /\ \A j \in alive : conn_array[j] = conn_array[i] => j = i
           /\ ~Queued(conn_array[i]) /\ Connected(conn_array[i])
           /\ Asleep(conn_array[i]) <=> waiting[i] # NULL
           /\ call[conn_array[i]].op = "DESTROY" =>
                MayDestroy(i, call[conn_array[i]].handle)
<1> DEFINE c == conn_array[i]
<1>1. i \in alive /\ c \in unread
  BY DEF Selects, IsFirst, Readable
<1>2. /\ c \in Clients /\ ~Queued(c) /\ Connected(c)
      /\ \A j \in alive : conn_array[j] = c => j = i
  BY <1>1 DEF LinuxInv, ConnectionInv, Connected
<1> HIDE DEF c
<1>3. ClientInv(c) /\ Legal(call[c]) /\ client[c] \in {"new", "idle", "calling", "gone"}
  BY <1>2 DEF LinuxInv, CallInv, MessageInv
<1>4. client[c] \in {"calling", "gone"}
  BY <1>1, <1>3 DEF ClientInv
<1>5. Asleep(c) <=> waiting[i] # NULL
  BY <1>1, <1>2 DEF Asleep, c
<1>6. call[c].op = "DESTROY" => MayDestroy(i, call[c].handle)
  BY <1>1, <1>2 DEF LinuxInv, DestroysAreLawful, MayAskDestroy, MayDestroy, ValidHandle
<1> QED BY <1>1, <1>2, <1>3, <1>4, <1>5, <1>6 DEF c

\* Each sleep belongs to the client at one index.
LEMMA AsleepAt ==
    ASSUME ConnectionInv, UNCHANGED <<alive, conn_array>>, NEW j \in alive
    PROVE  /\ Asleep(conn_array[j]) <=> waiting[j] # NULL
           /\ Asleep(conn_array[j])' <=> waiting'[j] # NULL
BY DEF ConnectionInv, Asleep

\* A call is read: after it the client of index i is answered or asleep, and
\* the one that is woken is answered.
LEMMA CallPlaces ==
    ASSUME LinuxInv, NEW i \in Procs, Selects(i),
           handle_call(i, call[conn_array[i]]), consume(conn_array[i]),
           UNCHANGED <<conn_array, backlog, client>>
    PROVE  /\ \A d \in Clients : ClientInv(d)'
           /\ reply' \in [Clients -> Seq(Answers)]
           /\ call' \in [Clients -> {m \in Message : Legal(m)}]
           /\ unread' \subseteq Clients
           /\ \A d \in Clients : client[d] = "gone" => (d \in unread' <=> d \in unread)
           /\ \A d \in Clients \ {conn_array[i]} :
                d \in unread' => d \in unread /\ call'[d] = call[d]
           /\ conn_array[i] \in unread' => call'[conn_array[i]].op = "EOF"
<1>0. PICK c \in Clients : c = conn_array[i]
  BY SelectedFacts
<1>1. /\ i \in alive /\ c \in Clients /\ c \in unread /\ ClientInv(c)
      /\ client[c] \in {"calling", "gone"}
      /\ \A j \in alive : conn_array[j] = c => j = i
  BY <1>0, SelectedFacts
<1>2. /\ UNCHANGED <<alive, fs_stuck>> /\ waiting[i] = NULL
      /\ call[c].op \in AnswerOps
      /\ RepliedTo(i) \/ FallsAsleep(i) \/ \E q \in Procs : WakesUp(i, q)
  BY <1>0, CallOutcome DEF LinuxInv
<1>3. ServerInv /\ MessageInv /\ ConnectionInv /\ CallInv
  BY DEF LinuxInv
<1>4. reply \in [Clients -> Seq(Answers)] /\ waiting \in [Procs -> Sems]
  BY <1>3, ServerFacts DEF MessageInv, TypeOK, Sems
<1>5. call[c] \notin {Disconnect, EndOfFile}
  BY <1>2 DEF AnswerOps, Disconnect, EndOfFile
<1>6. /\ client[c] = "gone" => call' = [call EXCEPT ![c] = EndOfFile] /\ unread' = unread
      /\ client[c] # "gone" => unread' = unread \ {c} /\ call' = call
  BY <1>0, <1>5 DEF consume
<1>7. /\ call' \in [Clients -> {m \in Message : Legal(m)}] /\ unread' \subseteq Clients
      /\ \A d \in Clients : client[d] = "gone" => (d \in unread' <=> d \in unread)
  <2>1. EndOfFile \in {m \in Message : Legal(m)}
    BY LegalEnds DEF Legal
  <2> QED BY <1>3, <1>6, <2>1 DEF MessageInv
<1>8. /\ client[c] = "gone" => call'[c].op = "EOF"
      /\ client[c] = "calling" => c \notin unread' /\ call'[c] = call[c]
      /\ \A d \in Clients \ {c} : call'[d] = call[d] /\ (d \in unread' <=> d \in unread)
  BY <1>1, <1>3, <1>6 DEF MessageInv, EndOfFile
<1>9. ~Asleep(c) /\ reply[c] = <<>>
  <2>1. ~Asleep(c)
    BY <1>0, <1>1, <1>2, <1>3, AsleepAt
  <2> QED BY <1>1, <2>1 DEF ClientInv
<1>10. ASSUME NEW h \in Sems, client[c] = "calling", ~Asleep(c)',
              reply'[c] = Append(<<>>, Answer(call[c].op, h))
       PROVE  ClientInv(c)'
  BY <1>8, <1>10, OneAnswer DEF ClientInv
<1>11. ASSUME client[c] = "gone", reply'[c] = <<>>
       PROVE  ClientInv(c)'
  BY <1>8, <1>11 DEF ClientInv
<1>12. ASSUME NEW d \in Clients \ {c}, Asleep(d)' <=> Asleep(d), reply'[d] = reply[d]
       PROVE  ClientInv(d)'
  BY <1>3, <1>8, <1>12, ClientFrame DEF CallInv
<1>13. \A d : Asleep(d)' <=> \E j \in alive : conn_array[j] = d /\ waiting'[j] # NULL
  BY <1>2 DEF Asleep
<1>14. /\ \A d \in Clients \ {c} : d \in unread' => d \in unread /\ call'[d] = call[d]
       /\ c \in unread' => call'[c].op = "EOF"
  BY <1>1, <1>8
<1>15. CASE RepliedTo(i)
  <2>1. PICK h \in Sems : reply' = Put(reply, c, Answer(call[c].op, h))
    BY <1>0, <1>15 DEF RepliedTo
  <2>2. \A d : Asleep(d)' <=> Asleep(d)
    BY <1>2, <1>15, SleepFrame DEF RepliedTo
  <2>3. /\ reply' \in [Clients -> Seq(Answers)]
        /\ \A d \in Clients \ {c} : reply'[d] = reply[d]
        /\ client[c] = "gone" => reply'[c] = <<>>
        /\ client[c] # "gone" => reply'[c] = Append(<<>>, Answer(call[c].op, h))
    BY <1>1, <1>2, <1>4, <1>9, <2>1, PutFacts
  <2>4. ClientInv(c)'
    BY <1>1, <1>9, <1>10, <1>11, <2>2, <2>3
  <2>5. \A d \in Clients \ {c} : ClientInv(d)'
    BY <1>12, <2>2, <2>3
  <2> QED BY <1>0, <1>7, <1>14, <2>3, <2>4, <2>5
<1>16. CASE FallsAsleep(i)
  <2>1. PICK s \in Slots : waiting' = [waiting EXCEPT ![i] = s]
    BY <1>16 DEF FallsAsleep
  <2>2. reply' = reply /\ call[c].op = "WAIT"
    BY <1>0, <1>16 DEF FallsAsleep
  <2>3. Asleep(c)'
    <3>1. waiting'[i] # NULL
      BY <1>4, <2>1, NullIsNoSlot
    <3> QED BY <1>0, <1>1, <1>13, <3>1
  <2>4. \A d \in Clients \ {c} : Asleep(d)' <=> Asleep(d)
    <3>1. \A j \in alive \ {i} : waiting'[j] = waiting[j]
      BY <1>3, <1>4, <2>1, ServerFacts DEF TypeOK
    <3> QED BY <1>0, <1>13, <3>1 DEF Asleep
  <2>5. ClientInv(c)'
    <3>1. CASE client[c] = "gone"
      BY <1>9, <1>11, <2>2, <3>1
    <3>2. CASE client[c] = "calling"
      BY <1>8, <1>9, <2>2, <2>3, <3>2 DEF ClientInv
    <3> QED BY <1>1, <3>1, <3>2
  <2>6. \A d \in Clients \ {c} : ClientInv(d)'
    BY <1>12, <2>2, <2>4
  <2> QED BY <1>0, <1>4, <1>7, <1>14, <2>2, <2>5, <2>6
<1>17. CASE \E q \in Procs : WakesUp(i, q)
  <2>1. PICK q \in Procs : WakesUp(i, q)
    BY <1>17
  <2>2. q \in alive /\ q # i /\ waiting[q] # NULL
    BY <1>2, <1>3, <2>1, ServerFacts DEF WakesUp
  <2>3. PICK w \in Clients \ {c} : w = conn_array[q]
    BY <1>1, <1>3, <2>2 DEF ConnectionInv
  <2> DEFINE woken == Put(reply, w, Answer("WAKE", NULL))
  <2>4. /\ waiting[q] # NULL /\ waiting' = [waiting EXCEPT ![q] = NULL]
        /\ reply' = Put(woken, c, Answer(call[c].op, NULL))
    BY <1>0, <2>1, <2>3 DEF WakesUp
  <2>5. Asleep(w) /\ ~Asleep(w)'
    <3>1. waiting'[q] = NULL
      BY <1>4, <2>4
    <3> QED BY <1>2, <1>3, <2>2, <2>3, <3>1, AsleepAt
  <2>6. \A d : d # w => (Asleep(d)' <=> Asleep(d))
    <3>1. \A j \in alive \ {q} : waiting'[j] = waiting[j]
      BY <1>3, <1>4, <2>4, ServerFacts DEF TypeOK
    <3> QED BY <1>13, <2>3, <3>1 DEF Asleep
  <2>7. NULL \in Sems /\ "WAKE" \in AnswerOps
    BY DEF Sems, AnswerOps
  <2>8. /\ woken \in [Clients -> Seq(Answers)]
        /\ \A d \in Clients \ {w} : woken[d] = reply[d]
        /\ client[w] = "gone" => woken[w] = reply[w]
        /\ client[w] # "gone" => woken[w] = Append(reply[w], Answer("WAKE", NULL))
    BY <1>4, <2>3, <2>7, PutFacts
  <2> HIDE DEF woken
  <2>9. /\ reply' \in [Clients -> Seq(Answers)]
        /\ \A d \in Clients \ {c} : reply'[d] = woken[d]
        /\ client[c] = "gone" => reply'[c] = woken[c]
        /\ client[c] # "gone" => reply'[c] = Append(woken[c], Answer(call[c].op, NULL))
    BY <1>1, <1>2, <2>4, <2>7, <2>8, PutFacts
  <2>10. woken[c] = <<>>
    BY <1>1, <1>9, <2>3, <2>8
  <2>11. ClientInv(c)'
    BY <1>1, <1>9, <1>10, <1>11, <2>3, <2>6, <2>7, <2>9, <2>10
  <2>12. ClientInv(w)'
    <3>1. ClientInv(w) /\ call'[w] = call[w] /\ (w \in unread' <=> w \in unread)
      BY <1>3, <1>8, <2>3 DEF CallInv
    <3>2. client[w] \in {"calling", "gone"} /\ reply[w] = <<>>
      BY <1>3, <2>3, <2>5, <3>1 DEF ClientInv, MessageInv
    <3>3. CASE client[w] = "gone"
      BY <2>3, <2>5, <2>8, <2>9, <3>1, <3>2, <3>3 DEF ClientInv
    <3>4. CASE client[w] = "calling"
      <4>1. reply'[w] = Append(<<>>, Answer("WAKE", NULL))
        BY <2>3, <2>8, <2>9, <3>2, <3>4
      <4>2. w \notin unread /\ call[w].op = "WAIT"
        BY <2>5, <3>1, <3>4 DEF ClientInv
      <4> QED BY <2>5, <3>1, <3>4, <4>1, <4>2, OneAnswer DEF ClientInv
    <3> QED BY <3>2, <3>3, <3>4
  <2>13. ASSUME NEW d \in Clients \ {c}, d # w PROVE ClientInv(d)'
    BY <1>12, <2>6, <2>8, <2>9, <2>13
  <2> QED BY <1>0, <1>7, <1>14, <2>9, <2>11, <2>12, <2>13
<1> QED BY <1>2, <1>15, <1>16, <1>17

LEMMA CallStep ==
    ASSUME LinuxInv, NodesLast, ~KillsSleepers, ~fs_stuck, NEW i \in Procs, Selects(i),
           handle_call(i, call[conn_array[i]]), consume(conn_array[i]),
           UNCHANGED <<stale_afds, conn_array, backlog, client>>
    PROVE  LinuxInv'
<1>0. \/ NamedCall(i) \/ HandleCall(i)
      \/ \E v \in InitialValues : sem_init(i, v)
  BY SelectedFacts, CallIsCall
<1>1. ServerInv'
  <2>1. Next
    BY <1>0 DEF Next
  <2> QED BY <2>1, ServerNext DEF LinuxInv
<1>2. /\ CallInv' /\ reply' \in [Clients -> Seq(Answers)]
      /\ call' \in [Clients -> {m \in Message : Legal(m)}]
      /\ unread' \subseteq Clients
      /\ \A d \in Clients : client[d] = "gone" => (d \in unread' <=> d \in unread)
  BY CallPlaces DEF CallInv
<1>3. MessageInv'
  BY <1>2 DEF LinuxInv, MessageInv, Legal
<1>4. UNCHANGED <<alive, fs_stuck>>
  BY CallOutcome DEF LinuxInv
<1>5. ConnectionInv'
  BY <1>2, <1>4 DEF LinuxInv, ConnectionInv, Queued, Connected
<1>6. DestroysAreLawful'
  <2> SUFFICES ASSUME NEW d, d \in unread', call'[d].op = "DESTROY",
                      NEW h \in Slots, h = call'[d].handle
               PROVE  \E j \in alive' : conn_array'[j] = d /\ MayDestroy(j, h)'
    BY DEF DestroysAreLawful, MayAskDestroy
  <2>1. d \in unread /\ d # conn_array[i] /\ call'[d] = call[d]
    BY <1>2, CallPlaces
  <2>2. PICK j \in alive : conn_array[j] = d /\ MayDestroy(j, h)
    BY <2>1 DEF LinuxInv, DestroysAreLawful, MayAskDestroy
  <2>3. j \in Procs \ {i} /\ NameInv
    BY <2>1, <2>2, ServerFacts DEF LinuxInv, TypeOK, SleepInv
  <2>4. MayDestroy(j, h)'
    BY <1>0, <2>1, <2>2, <2>3, OthersMayDestroy
  <2> QED BY <1>4, <2>1, <2>2, <2>4
<1> QED BY <1>1, <1>2, <1>3, <1>5, <1>6 DEF LinuxInv

\* The end of a connection is read: the client is gone, and its message leaves
\* nothing unread.
LEMMA EndIsRead ==
    ASSUME LinuxInv, NEW i \in Procs, Selects(i),
           call[conn_array[i]].op \in {"DISCONNECT", "EOF"}, consume(conn_array[i])
    PROVE  /\ client[conn_array[i]] = "gone"
           /\ unread' = unread \ {conn_array[i]} /\ call' = call
<1>1. client[conn_array[i]] = "gone"
  BY SelectedFacts DEF ClientInv
<1>2. call[conn_array[i]] \in {Disconnect, EndOfFile}
  BY SelectedFacts, LegalOps
<1> QED BY <1>1, <1>2 DEF consume

\* Reading an end keeps the place of everyone's call.
LEMMA EndPlaces ==
    ASSUME LinuxInv, NEW c \in Clients, client[c] = "gone",
           unread' = unread \ {c}, UNCHANGED <<call, client, reply>>,
           \A d \in Clients : Asleep(d)' <=> Asleep(d)
    PROVE  CallInv'
<1>1. ASSUME NEW d \in Clients PROVE ClientInv(d)'
  <2>1. CASE d = c
    BY <2>1 DEF LinuxInv, CallInv, ClientInv
  <2>2. CASE d # c
    BY <2>2, ClientFrame DEF LinuxInv, CallInv
  <2> QED BY <2>1, <2>2
<1> QED BY <1>1 DEF CallInv

\* The index is given back.  Its client does not sleep, so no sleeper loses its
\* connection, and nobody is left with a connection and nothing to say.
LEMMA DisconnectStep ==
    ASSUME LinuxInv, NEW i \in Procs, Selects(i), disconnect(i),
           call[conn_array[i]].op = "DISCONNECT", consume(conn_array[i]),
           UNCHANGED <<conn_array, backlog, client>>
    PROVE  LinuxInv'
<1>1. PICK c \in Clients : c = conn_array[i]
  BY SelectedFacts
<1>2. /\ i \in alive /\ c \in unread /\ ClientInv(c) /\ ~Queued(c)
      /\ \A j \in alive : conn_array[j] = c => j = i
      /\ Asleep(c) <=> waiting[i] # NULL
  BY <1>1, SelectedFacts
<1>3. client[c] = "gone" /\ unread' = unread \ {c} /\ call' = call
  BY <1>1, EndIsRead
<1>4. waiting[i] = NULL
  BY <1>1, <1>2 DEF ClientInv
<1>5. /\ alive' = alive \ {i} /\ stale_afds' = TRUE /\ errno' = "EBADF"
      /\ UNCHANGED <<sems, names, waiting, fs_stuck>> /\ reply' = reply
  BY DEF disconnect
<1>6. ServerInv'
  <2>1. ServerInv /\ errno' \in Errors /\ alive' \subseteq Procs /\ fs_stuck' \in BOOLEAN
    BY <1>5, ServerFacts DEF LinuxInv, TypeOK, Errors
  <2>2. \A p \in Procs : waiting[p] # NULL => p \in alive'
    BY <1>4, <1>5, <2>1, ServerFacts
  <2> QED BY <1>5, <2>1, <2>2, ServerFrame
<1>7. MessageInv'
  BY <1>3, <1>5 DEF LinuxInv, MessageInv, Legal
<1>8. \A d : Asleep(d)' <=> Asleep(d)
  BY <1>4, <1>5 DEF Asleep
<1>9. CallInv'
  BY <1>3, <1>5, <1>8, EndPlaces
<1>10. \A d : (Queued(d)' <=> Queued(d)) /\ (Connected(d)' <=> Connected(d) /\ d # c)
  BY <1>1, <1>2, <1>5 DEF Queued, Connected
<1>11. ConnectionInv'
  <2>1. /\ IsInjective(backlog)'
        /\ (\A a, b \in alive : conn_array[a] = conn_array[b] => a = b)'
        /\ (\A a \in alive : conn_array[a] \in Clients /\ ~Queued(conn_array[a]))'
    BY <1>5, <1>10 DEF LinuxInv, ConnectionInv
  <2>2. ASSUME NEW d \in Clients
        PROVE  /\ client'[d] = "new" => ~Queued(d)' /\ ~Connected(d)'
               /\ client'[d] \in {"idle", "calling"} => Queued(d)' \/ Connected(d)'
               /\ client'[d] = "gone" /\ (Queued(d)' \/ Connected(d)') /\ ~fs_stuck'
                    => d \in unread'
    <3>1. CASE d = c
      BY <1>2, <1>3, <1>10, <3>1
    <3>2. CASE d # c
      BY <1>3, <1>5, <1>10, <3>2 DEF LinuxInv, ConnectionInv
    <3> QED BY <3>1, <3>2
  <2> QED BY <2>1, <2>2 DEF ConnectionInv
<1>12. DestroysAreLawful'
  <2>1. \A d \in unread' : /\ d \in unread /\ call'[d] = call[d]
                           /\ \A j \in alive : conn_array[j] = d =>
                                j \in alive' /\ conn_array'[j] = d
    BY <1>1, <1>3, <1>5
  <2>2. UNCHANGED <<proc_list, unlinked>>
    BY <1>5 DEF sems
  <2> QED BY <2>1, <2>2, MayAskFrame DEF LinuxInv, DestroysAreLawful
<1> QED BY <1>6, <1>7, <1>9, <1>11, <1>12 DEF LinuxInv

LEMMA HangStep ==
    ASSUME LinuxInv, NEW i \in Procs, Selects(i), hang,
           call[conn_array[i]].op = "EOF", consume(conn_array[i]),
           UNCHANGED <<conn_array, backlog, client>>
    PROVE  LinuxInv'
<1>1. PICK c \in Clients : c = conn_array[i]
  BY SelectedFacts
<1>2. client[c] = "gone" /\ unread' = unread \ {c} /\ call' = call
  BY <1>1, EndIsRead
<1>3. /\ fs_stuck' = TRUE /\ UNCHANGED <<sems, names, waiting>>
      /\ UNCHANGED <<alive, waiting, conn_array, stale_afds, reply, errno>>
  BY DEF hang
<1>4. ServerInv'
  <2>1. ServerInv /\ errno' \in Errors /\ alive' \subseteq Procs /\ fs_stuck' \in BOOLEAN
    BY <1>3, ServerFacts DEF LinuxInv, TypeOK
  <2>2. \A p \in Procs : waiting[p] # NULL => p \in alive'
    BY <1>3, <2>1, ServerFacts
  <2> QED BY <1>3, <2>1, <2>2, ServerFrame
<1>5. MessageInv'
  BY <1>2, <1>3 DEF LinuxInv, MessageInv, Legal
<1>6. \A d : (Asleep(d)' <=> Asleep(d)) /\ (Connected(d)' <=> Connected(d))
  BY <1>3, SleepFrame
<1>7. CallInv'
  BY <1>2, <1>3, <1>6, EndPlaces
<1>8. ConnectionInv'
  BY <1>3, <1>6 DEF LinuxInv, ConnectionInv, Queued
<1>9. DestroysAreLawful'
  <2>1. UNCHANGED <<proc_list, unlinked>>
    BY <1>3 DEF sems
  <2> QED BY <1>2, <1>3, <2>1, MayAskFrame DEF LinuxInv, DestroysAreLawful
<1> QED BY <1>4, <1>5, <1>7, <1>8, <1>9 DEF LinuxInv

LEMMA ServeStep ==
    ASSUME LinuxInv, NodesLast, ~KillsSleepers, Serve
    PROVE  LinuxInv'
<1>1. CASE accept_connection
  BY <1>1, AcceptStep
<1>2. ASSUME NEW i \in Procs, aceptar_pedido(i) PROVE LinuxInv'
  <2>1. /\ Selects(i) /\ consume(conn_array[i]) /\ ~fs_stuck
        /\ UNCHANGED <<conn_array, backlog, client>>
    BY <1>2 DEF aceptar_pedido, Serve
  <2>2. CASE handle_call(i, call[conn_array[i]]) /\ UNCHANGED stale_afds
    BY <2>1, <2>2, CallStep
  <2>3. CASE call[conn_array[i]].op = "DISCONNECT" /\ disconnect(i)
    BY <2>1, <2>3, DisconnectStep
  <2>4. CASE call[conn_array[i]].op = "EOF" /\ hang
    BY <2>1, <2>4, HangStep
  <2> QED BY <1>2, <2>2, <2>3, <2>4 DEF aceptar_pedido
<1> QED BY <1>1, <1>2 DEF Serve

-----------------------------------------------------------------------------
(***************************************************************************)
(* The server starts.                                                      *)
(***************************************************************************)

LEMMA LinuxInvInit ==
    ASSUME LinuxInit
    PROVE  LinuxInv
<1>1. \A i \in Slots : /\ sem_count[i] = 0 /\ blocked_list[i] = <<>>
                       /\ proc_list[i] = NoMembers /\ ref_count[i] = 0
  BY DEF LinuxInit
<1>2. TypeOK
  <2>1. NoMembers \in [Procs -> Nat]
    BY DEF NoMembers
  <2>2. sem_name_map \in HashTableType(Slots)
    BY DEF LinuxInit, NewHashTable, HashTableType
  <2>3. blocked_list \in [Slots -> Seq(Procs)]
    <3>1. <<>> \in Seq(Procs)
      OBVIOUS
    <3> QED BY <3>1 DEF LinuxInit
  <2>4. errno \in Errors
    BY DEF LinuxInit, Errors
  <2>5. unlinked \in [Slots -> BOOLEAN] /\ fs_stuck \in BOOLEAN
    BY Zenon DEF LinuxInit
  <2>6. /\ sem_count \in [Slots -> Int] /\ ref_count \in [Slots -> Nat]
        /\ proc_list \in [Slots -> [Procs -> Nat]] /\ alive \subseteq Procs
        /\ waiting \in [Procs -> Slots \cup {NULL}]
        /\ opened_as \in [Slots -> Keys \cup {EmptyKey}]
    BY <2>1 DEF LinuxInit
  <2> QED BY <2>2, <2>3, <2>4, <2>5, <2>6 DEF TypeOK
<1>3. QueueInv
  <2>1. FreeSlotsAreEmpty
    BY <1>1 DEF FreeSlotsAreEmpty, Free
  <2>2. BlockedWithinDebt
    BY <1>1 DEF BlockedWithinDebt, Debt
  <2> QED BY <1>2, <2>1, <2>2 DEF QueueInv
<1>4. UsedRows(sem_name_map) = {} /\ Live = {}
  BY DEF LinuxInit, NewHashTable, UsedRows, Live
<1>5. NameInv
  BY <1>3, <1>4 DEF NameInv, NameTableMirrorsSlots, RowsNameLinkedSlots,
     RowsAreDistinct, LinkedSlotsHaveRows, LookupIsSound
<1>6. SleepParts
  <2>1. \A p \in Procs : waiting[p] = NULL
    BY DEF LinuxInit
  <2> QED BY <1>4, <2>1 DEF SleepParts, BlockedIsDebt, SleepersKeepTheirSemaphore,
             SleepersAreQueued, UnlinkedHaveMembers
<1>7. ASSUME NEW i \in Slots PROVE SlotIsSound(i)
  <2>1. Debt(i) = 0
    BY <1>1 DEF Debt
  <2>2. Sleepers(i) = {}
    BY NullIsNoSlot DEF LinuxInit, Sleepers
  <2>3. Range(<<>>) = {} /\ IsInjective(<<>>)
    BY DEF Range, IsInjective
  <2> QED BY <1>1, <2>1, <2>2, <2>3 DEF SlotIsSound
<1>8. MessageInv
  <2>1. <<>> \in Seq(Clients) /\ <<>> \in Seq(Answers)
    OBVIOUS
  <2>2. NoCall \in {m \in Message : Legal(m)}
    BY LegalEnds DEF Legal
  <2> QED BY <2>1, <2>2 DEF LinuxInit, MessageInv
<1>9. ConnectionInv
  BY DEF LinuxInit, ConnectionInv, Queued, Connected, IsInjective
<1>10. CallInv
  BY DEF LinuxInit, CallInv, ClientInv, Asleep
<1>11. DestroysAreLawful
  BY DEF LinuxInit, DestroysAreLawful
<1> QED BY <1>5, <1>6, <1>7, <1>8, <1>9, <1>10, <1>11 DEF LinuxInv, ServerInv, SleepInv

LEMMA LinuxStutter ==
    ASSUME LinuxInv, UNCHANGED lvars
    PROVE  LinuxInv'
<1>1. /\ UNCHANGED vars /\ UNCHANGED <<conn_array, backlog, stale_afds>>
      /\ UNCHANGED <<client, call, unread, reply>>
      /\ UNCHANGED <<waiting, alive, conn_array, fs_stuck>>
  BY DEF lvars, vars, procs, server, sockets
<1>2. ServerInv'
  BY <1>1, ServerUnchanged DEF LinuxInv
<1>3. MessageInv'
  BY <1>1 DEF LinuxInv, MessageInv, Legal
<1>4. ConnectionInv'
  BY <1>1 DEF LinuxInv, ConnectionInv, Queued, Connected
<1>5. CallInv'
  BY <1>1, SleepFrame, ClientFrame DEF LinuxInv, CallInv
<1>6. DestroysAreLawful'
  BY <1>1, MayAskFrame DEF LinuxInv, DestroysAreLawful, vars, sems
<1> QED BY <1>2, <1>3, <1>4, <1>5, <1>6 DEF LinuxInv
=============================================================================
