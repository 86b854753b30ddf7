---------------------------- MODULE ProdCons_proofs ----------------------------
(***************************************************************************)
(* prod_cons on the Linux emulator, for every number of producers,         *)
(* consumers, connections, characters typed and places of the buffer, as   *)
(* long as list nodes and slots last; two slots for each client do.        *)
(*                                                                         *)
(* To the invariant of the emulator (LinuxServer_proofs) the program adds  *)
(* who holds which semaphore under which name, and what the semaphores     *)
(* count: an element is carried by the producer that posts it, lies in a   *)
(* semaphore, and is carried by the consumer it was granted to; so is a    *)
(* free place, the other way round.  Elements and places are counted as    *)
(* the members of a set, so that a step moves one member or drops some.    *)
(***************************************************************************)
EXTENDS ProdCons, LinuxServer_proofs

\* The units in the semaphores of S, one for each value of the count from 1 on,
\* and one for each client of C.
Units(S, count, C) ==
    {x \in Slots \X Nat : x[1] \in S /\ x[2] # 0 /\ x[2] <= count[x[1]]}
        \cup {<<c, 0>> : c \in C}

\* At most n of them.
AtMost(n, S, count, C) ==
    IsFiniteSet(Units(S, count, C)) /\ Cardinality(Units(S, count, C)) <= n

-----------------------------------------------------------------------------
(***************************************************************************)
(* Counting.                                                               *)
(***************************************************************************)

LEMMA UnitsAre ==
    ASSUME NEW S, NEW count, NEW C
    PROVE  /\ \A s \in Slots, k \in Nat : k # 0 =>
                (<<s, k>> \in Units(S, count, C) <=> s \in S /\ k <= count[s])
           /\ \A c : <<c, 0>> \in Units(S, count, C) <=> c \in C
           /\ \A x \in Units(S, count, C) :
                \/ \E s \in Slots, k \in Nat : k # 0 /\ x = <<s, k>>
                \/ \E c \in C : x = <<c, 0>>
BY DEF Units

\* Units are the same, or fewer, when each of them was there before.
LEMMA UnitsFewer ==
    ASSUME NEW n \in Int, NEW S, NEW count \in [Slots -> Int], NEW C,
           NEW T \in SUBSET Slots, NEW count2 \in [Slots -> Int], NEW D \in SUBSET C,
           AtMost(n, S, count, C),
           \A s \in T : count2[s] <= 0 \/ (s \in S /\ count2[s] <= count[s])
    PROVE  AtMost(n, T, count2, D)
<1>1. Units(T, count2, D) \subseteq Units(S, count, C)
  <2> SUFFICES ASSUME NEW x \in Units(T, count2, D) PROVE x \in Units(S, count, C)
    OBVIOUS
  <2>1. CASE \E s \in Slots, k \in Nat : k # 0 /\ x = <<s, k>>
    <3>1. PICK s \in Slots, k \in Nat : k # 0 /\ x = <<s, k>>
      BY <2>1
    <3>2. s \in T /\ k <= count2[s]
      BY <3>1, UnitsAre
    <3>3. s \in S /\ k <= count[s]
      BY <3>1, <3>2
    <3> QED BY <3>1, <3>3, UnitsAre
  <2>2. CASE \E c \in D : x = <<c, 0>>
    BY <2>2, UnitsAre
  <2> QED BY <2>1, <2>2, UnitsAre
<1>2. /\ IsFiniteSet(Units(T, count2, D))
      /\ Cardinality(Units(T, count2, D)) <= Cardinality(Units(S, count, C))
  BY <1>1, FS_Subset DEF AtMost
<1>3. Cardinality(Units(T, count2, D)) \in Nat /\ Cardinality(Units(S, count, C)) \in Nat
  BY <1>2, FS_CardinalityType DEF AtMost
<1> QED BY <1>2, <1>3 DEF AtMost

LEMMA OneMore ==
    ASSUME NEW n \in Int, NEW A, IsFiniteSet(A), Cardinality(A) <= n, NEW x
    PROVE  IsFiniteSet(A \cup {x}) /\ Cardinality(A \cup {x}) <= n + 1
<1>1. IsFiniteSet(A \cup {x}) /\ Cardinality(A) \in Nat
  BY FS_AddElement, FS_CardinalityType
<1>2. Cardinality(A \cup {x}) = Cardinality(A) \/ Cardinality(A \cup {x}) = Cardinality(A) + 1
  BY FS_AddElement
<1> QED BY <1>1, <1>2

LEMMA OneFewer ==
    ASSUME NEW n \in Int, NEW A, IsFiniteSet(A), Cardinality(A) <= n, NEW x \in A
    PROVE  IsFiniteSet(A \ {x}) /\ Cardinality(A \ {x}) <= n - 1
<1>1. /\ IsFiniteSet(A \ {x}) /\ Cardinality(A) \in Nat
      /\ Cardinality(A \ {x}) = Cardinality(A) - 1
  BY FS_RemoveElement, FS_CardinalityType
<1> QED BY <1>1

\* A client takes up a unit, or gives it away.
LEMMA ClientTakes ==
    ASSUME NEW n \in Int, NEW S, NEW count, NEW C, NEW c, AtMost(n, S, count, C)
    PROVE  AtMost(n + 1, S, count, C \cup {c})
<1>1. Units(S, count, C \cup {c}) = Units(S, count, C) \cup {<<c, 0>>}
  BY DEF Units
<1>2. IsFiniteSet(Units(S, count, C)) /\ Cardinality(Units(S, count, C)) <= n
  BY DEF AtMost
<1>3. PICK A : A = Units(S, count, C)
  OBVIOUS
<1>4. IsFiniteSet(A \cup {<<c, 0>>}) /\ Cardinality(A \cup {<<c, 0>>}) <= n + 1
  BY <1>2, <1>3, OneMore
<1> QED BY <1>1, <1>3, <1>4 DEF AtMost

LEMMA ClientGives ==
    ASSUME NEW n \in Int, NEW S, NEW count, NEW C, NEW c \in C, AtMost(n, S, count, C)
    PROVE  AtMost(n - 1, S, count, C \ {c})
<1>1. Units(S, count, C \ {c}) = Units(S, count, C) \ {<<c, 0>>}
  BY DEF Units
<1>2. <<c, 0>> \in Units(S, count, C)
  BY UnitsAre
<1> QED BY <1>1, <1>2, OneFewer DEF AtMost

\* So does a semaphore.
LEMMA SlotTakes ==
    ASSUME NEW n \in Int, NEW S \in SUBSET Slots, NEW count \in [Slots -> Int], NEW C,
           NEW s \in Slots, AtMost(n, S, count, C)
    PROVE  AtMost(n + 1, S, [count EXCEPT ![s] = @ + 1], C)
<1> DEFINE more == [count EXCEPT ![s] = @ + 1]
           unit == <<s, count[s] + 1>>
<1>0. /\ more[s] = count[s] + 1 /\ \A t \in Slots \ {s} : more[t] = count[t]
      /\ \A t \in Slots : more[t] \in Int /\ count[t] \in Int
  OBVIOUS
<1> HIDE DEF more
<1>1. Units(S, more, C) \subseteq Units(S, count, C) \cup {unit}
  <2> SUFFICES ASSUME NEW x \in Units(S, more, C), x # unit
               PROVE  x \in Units(S, count, C)
    OBVIOUS
  <2>1. CASE \E t \in Slots, k \in Nat : k # 0 /\ x = <<t, k>>
    <3>1. PICK t \in Slots, k \in Nat : k # 0 /\ x = <<t, k>>
      BY <2>1
    <3>2. t \in S /\ k <= more[t]
      BY <3>1, UnitsAre
    <3>3. k <= count[t]
      <4>1. CASE t = s
        <5>1. k # count[s] + 1
          BY <3>1, <4>1
        <5> QED BY <1>0, <3>2, <4>1, <5>1
      <4>2. CASE t # s
        BY <1>0, <3>2, <4>2
      <4> QED BY <4>1, <4>2
    <3> QED BY <3>1, <3>2, <3>3, UnitsAre
  <2>2. CASE \E c \in C : x = <<c, 0>>
    BY <2>2, UnitsAre
  <2> QED BY <2>1, <2>2, UnitsAre
<1>2. /\ IsFiniteSet(Units(S, count, C) \cup {unit})
      /\ Cardinality(Units(S, count, C) \cup {unit}) <= n + 1
  BY OneMore DEF AtMost
<1> HIDE DEF unit
<1>3. /\ IsFiniteSet(Units(S, more, C))
      /\ Cardinality(Units(S, more, C)) <= Cardinality(Units(S, count, C) \cup {unit})
  BY <1>1, <1>2, FS_Subset
<1>4. /\ Cardinality(Units(S, more, C)) \in Nat
      /\ Cardinality(Units(S, count, C) \cup {unit}) \in Nat
  BY <1>2, <1>3, FS_CardinalityType
<1>5. AtMost(n + 1, S, more, C)
  BY <1>2, <1>3, <1>4 DEF AtMost
<1> QED BY <1>5 DEF more

LEMMA SlotGives ==
    ASSUME NEW n \in Int, NEW S \in SUBSET Slots, NEW count \in [Slots -> Int], NEW C,
           NEW s \in S, count[s] > 0, AtMost(n, S, count, C)
    PROVE  AtMost(n - 1, S, [count EXCEPT ![s] = @ - 1], C)
<1> DEFINE less == [count EXCEPT ![s] = @ - 1]
           unit == <<s, count[s]>>
<1>0. /\ less[s] = count[s] - 1 /\ \A t \in Slots \ {s} : less[t] = count[t]
      /\ \A t \in Slots : less[t] \in Int /\ count[t] \in Int
      /\ s \in Slots /\ count[s] \in Nat /\ count[s] # 0
  OBVIOUS
<1> HIDE DEF less
<1>1. unit \in Units(S, count, C) /\ unit \notin Units(S, less, C)
  <2>1. unit \in Units(S, count, C) <=> s \in S /\ count[s] <= count[s]
    BY <1>0, UnitsAre
  <2>2. unit \in Units(S, less, C) <=> s \in S /\ count[s] <= less[s]
    BY <1>0, UnitsAre
  <2> QED BY <1>0, <2>1, <2>2
<1>2. Units(S, less, C) \subseteq Units(S, count, C) \ {unit}
  <2> SUFFICES ASSUME NEW x \in Units(S, less, C) PROVE x \in Units(S, count, C)
    BY <1>1
  <2>1. CASE \E t \in Slots, k \in Nat : k # 0 /\ x = <<t, k>>
    <3>1. PICK t \in Slots, k \in Nat : k # 0 /\ x = <<t, k>>
      BY <2>1
    <3>2. t \in S /\ k <= less[t]
      BY <3>1, UnitsAre
    <3>3. k <= count[t]
      BY <1>0, <3>2
    <3> QED BY <3>1, <3>2, <3>3, UnitsAre
  <2>2. CASE \E c \in C : x = <<c, 0>>
    BY <2>2, UnitsAre
  <2> QED BY <2>1, <2>2, UnitsAre
<1>3. /\ IsFiniteSet(Units(S, count, C) \ {unit})
      /\ Cardinality(Units(S, count, C) \ {unit}) <= n - 1
  BY <1>1, OneFewer DEF AtMost
<1> HIDE DEF unit
<1>4. /\ IsFiniteSet(Units(S, less, C))
      /\ Cardinality(Units(S, less, C)) <= Cardinality(Units(S, count, C) \ {unit})
  BY <1>2, <1>3, FS_Subset
<1>5. /\ Cardinality(Units(S, less, C)) \in Nat
      /\ Cardinality(Units(S, count, C) \ {unit}) \in Nat
  BY <1>3, <1>4, FS_CardinalityType
<1>6. AtMost(n - 1, S, less, C)
  BY <1>3, <1>4, <1>5 DEF AtMost
<1> QED BY <1>6 DEF less

\* Moving units: out of a semaphore to a client, the other way round, and from
\* client to client.
LEMMA UnitTaken ==
    ASSUME NEW n \in Int, NEW S \in SUBSET Slots, NEW count \in [Slots -> Int], NEW C,
           NEW s \in S, count[s] > 0, NEW c, NEW D \in SUBSET (C \cup {c}),
           AtMost(n, S, count, C)
    PROVE  AtMost(n, S, [count EXCEPT ![s] = @ - 1], D)
<1> DEFINE less == [count EXCEPT ![s] = @ - 1]
<1>1. AtMost(n - 1, S, less, C)
  BY SlotGives
<1>2. less \in [Slots -> Int]
  OBVIOUS
<1> HIDE DEF less
<1>3. AtMost((n - 1) + 1, S, less, C \cup {c})
  <2>1. n - 1 \in Int
    OBVIOUS
  <2> QED BY <1>1, <2>1, ClientTakes
<1>4. AtMost(n, S, less, C \cup {c})
  <2>1. (n - 1) + 1 = n
    OBVIOUS
  <2> QED BY <1>3, <2>1
<1>5. AtMost(n, S, less, D)
  BY <1>2, <1>4, UnitsFewer
<1> QED BY <1>5 DEF less

LEMMA UnitGiven ==
    ASSUME NEW n \in Int, NEW S \in SUBSET Slots, NEW count \in [Slots -> Int], NEW C,
           NEW s \in Slots, NEW c \in C, NEW D \in SUBSET (C \ {c}), AtMost(n, S, count, C)
    PROVE  AtMost(n, S, [count EXCEPT ![s] = @ + 1], D)
<1> DEFINE more == [count EXCEPT ![s] = @ + 1]
<1>1. AtMost(n - 1, S, count, C \ {c})
  BY ClientGives
<1>2. AtMost((n - 1) + 1, S, more, C \ {c})
  <2>1. n - 1 \in Int
    OBVIOUS
  <2> QED BY <1>1, <2>1, SlotTakes
<1>3. more \in [Slots -> Int] /\ (n - 1) + 1 = n
  OBVIOUS
<1> HIDE DEF more
<1>4. AtMost(n, S, more, C \ {c})
  BY <1>2, <1>3
<1>5. AtMost(n, S, more, D)
  BY <1>3, <1>4, UnitsFewer
<1> QED BY <1>5 DEF more

LEMMA UnitHanded ==
    ASSUME NEW n \in Int, NEW S \in SUBSET Slots, NEW count \in [Slots -> Int], NEW C,
           NEW s \in Slots, count[s] < 0, NEW c \in C, NEW w,
           NEW D \in SUBSET ((C \ {c}) \cup {w}), AtMost(n, S, count, C)
    PROVE  AtMost(n, S, [count EXCEPT ![s] = @ + 1], D)
<1> DEFINE more == [count EXCEPT ![s] = @ + 1]
<1>1. AtMost(n - 1, S, count, C \ {c})
  BY ClientGives
<1>2. AtMost((n - 1) + 1, S, count, (C \ {c}) \cup {w})
  <2>1. n - 1 \in Int
    OBVIOUS
  <2> QED BY <1>1, <2>1, ClientTakes
<1>3. /\ more \in [Slots -> Int] /\ (n - 1) + 1 = n
      /\ \A t \in S : more[t] <= 0 \/ (t \in S /\ more[t] <= count[t])
  OBVIOUS
<1> HIDE DEF more
<1>4. AtMost(n, S, count, (C \ {c}) \cup {w})
  BY <1>2, <1>3
<1>5. AtMost(n, S, more, D)
  BY <1>3, <1>4, UnitsFewer
<1> QED BY <1>5 DEF more

\* A client takes up a unit that has just come to be, or uses one up.
LEMMA UnitMade ==
    ASSUME NEW n \in Int, NEW S \in SUBSET Slots, NEW count \in [Slots -> Int], NEW C,
           NEW c, NEW D \in SUBSET (C \cup {c}), AtMost(n, S, count, C)
    PROVE  AtMost(n + 1, S, count, D)
<1>1. AtMost(n + 1, S, count, C \cup {c})
  BY ClientTakes
<1>2. n + 1 \in Int
  OBVIOUS
<1> QED BY <1>1, <1>2, UnitsFewer

LEMMA UnitUsed ==
    ASSUME NEW n \in Int, NEW S \in SUBSET Slots, NEW count \in [Slots -> Int], NEW C,
           NEW c \in C, NEW D \in SUBSET (C \ {c}), AtMost(n, S, count, C)
    PROVE  AtMost(n - 1, S, count, D)
<1>1. AtMost(n - 1, S, count, C \ {c})
  BY ClientGives
<1>2. n - 1 \in Int
  OBVIOUS
<1> QED BY <1>1, <1>2, UnitsFewer

\* A semaphore by itself has as many units as its count says.
LEMMA SlotAlone ==
    ASSUME NEW s \in Slots, NEW count \in [Slots -> Int], count[s] \in Nat
    PROVE  AtMost(count[s], {s}, count, {})
<1> DEFINE f == [k \in 1 .. count[s] |-> <<s, k>>]
<1>1. IsFiniteSet(1 .. count[s]) /\ Cardinality(1 .. count[s]) = count[s]
  BY FS_Interval
<1>2. f \in Surjection(1 .. count[s], Units({s}, count, {}))
  <2>1. \A k \in 1 .. count[s] : f[k] \in Units({s}, count, {})
    BY DEF Units
  <2>2. \A x \in Units({s}, count, {}) : \E k \in 1 .. count[s] : f[k] = x
    <3> TAKE x \in Units({s}, count, {})
    <3>1. PICK t \in Slots, k \in Nat : k # 0 /\ x = <<t, k>>
      BY UnitsAre
    <3>2. t = s /\ k <= count[s]
      BY <3>1, UnitsAre
    <3>3. k \in 1 .. count[s]
      BY <3>1, <3>2
    <3> QED BY <3>1, <3>2, <3>3
  <2> QED BY <2>1, <2>2 DEF Surjection
<1>3. IsFiniteSet(Units({s}, count, {}))
      /\ Cardinality(Units({s}, count, {})) <= count[s]
  BY <1>1, <1>2, FS_Surjection
<1> QED BY <1>3 DEF AtMost

-----------------------------------------------------------------------------
(***************************************************************************)
(* The program.                                                            *)
(***************************************************************************)

\* The calls on each of the two semaphores, and the statements between them.
OpenLabel(n)   == IF n = sem_prod THEN "open_prod" ELSE "open_cons"
UnlinkLabel(n) == IF n = sem_prod THEN "unlink_prod" ELSE "unlink_cons"
CloseLabel(n)  == IF n = sem_prod THEN "close_prod" ELSE "close_cons"
FirstValue(n)  == IF n = sem_prod THEN CAPACITY ELSE 0

Labels     == Loop \cup {"open_prod", "open_cons", "close_cons", "close_prod", "end"}
HoldLabels(n) == Loop \cup IF n = sem_prod THEN {"open_cons", "close_cons"} ELSE {}
LeftLabels(n) == {"close_cons", "close_prod", "end"}
                     \cup IF n = sem_prod THEN {} ELSE {"unlink_prod"}

OpenFlags == [O_CREAT |-> TRUE, O_EXCL |-> FALSE]

\* What the client c sends is the call at pc[c].
OpenCall(c, n) ==
    /\ pc[c] = OpenLabel(n)
    /\ call[c] = [op |-> "OPEN", name |-> n, oflag |-> OpenFlags, value |-> FirstValue(n)]
UnlinkCall(c, n) == pc[c] = UnlinkLabel(n) /\ call[c] = [op |-> "UNLINK", name |-> n]
CloseCall(c, n)  == pc[c] = CloseLabel(n) /\ call[c] = [op |-> "CLOSE", handle |-> handle[c][n]]
WaitCall(c)      == pc[c] = "wait" /\ call[c] = [op |-> "WAIT", handle |-> handle[c][Awaited(c)]]
PostCall(c)      == /\ pc[c] \in {"post", "last_post"}
                    /\ call[c] = [op |-> "POST", handle |-> handle[c][Posted(c)]]

CallMatches(c) ==
    \/ \E n \in Keys : OpenCall(c, n) \/ UnlinkCall(c, n) \/ CloseCall(c, n)
    \/ WaitCall(c) \/ PostCall(c)

\* Where one process is.
ProcessInv(c) ==
    /\ client[c] = "new" => pc[c] = "open_prod"
    /\ client[c] = "calling" => CallMatches(c)
    /\ client[c] = "gone" => pc[c] = "end" /\ call[c] = Disconnect
    /\ pc[c] = "last_post" => c \in Consumers

\* One that sleeps is in its sem_wait.
SleeperInv(i) ==
    waiting[i] # NULL =>
        /\ client[conn_array[i]] = "calling"
        /\ pc[conn_array[i]] = "wait"
        /\ handle[conn_array[i]][Awaited(conn_array[i])] = waiting[i]

ProgramInv ==
    /\ pc \in [Clients -> Labels]
    /\ handle \in [Clients -> [Keys -> Sems]]
    /\ produced \in Nat /\ consumed \in Nat
    /\ \A c \in Clients : ProcessInv(c)
    /\ \A i \in Procs : SleeperInv(i)

\* The client c has the semaphore s open under the name n: from the server's
\* answer to sem_open to its answer to sem_close.
Holds(c, n) ==
    \/ pc[c] \in HoldLabels(n)
    \/ pc[c] = OpenLabel(n) /\ reply[c] # <<>>
    \/ pc[c] = CloseLabel(n) /\ reply[c] = <<>>
Opened(c, n) == IF pc[c] = OpenLabel(n) THEN Head(reply[c]).handle ELSE handle[c][n]
Has(c, n, s) == Holds(c, n) /\ Opened(c, n) = s

\* It has unlinked the name n.
Left(c, n) == pc[c] \in LeftLabels(n) \/ (pc[c] = UnlinkLabel(n) /\ reply[c] # <<>>)

\* Nothing of this changes for d.
Same(d) == \A n \in Keys : /\ Left(d, n)' <=> Left(d, n)
                           /\ \A s : Has(d, n, s)' <=> Has(d, n, s)

LEMMA ProgramFacts ==
    ASSUME LinuxInv, ProgramInv, NEW c \in Clients
    PROVE  /\ client[c] \in {"new", "idle", "calling", "gone"}
           /\ pc[c] \in Labels /\ ProcessInv(c) /\ ClientInv(c)
           /\ handle[c] \in [Keys -> Sems] /\ reply[c] \in Seq(Answers)
           /\ c \in Producers <=> c \notin Consumers
BY ProdConsAssumption DEF LinuxInv, MessageInv, ProgramInv, CallInv

LEMMA SameFrame ==
    ASSUME NEW d, pc'[d] = pc[d], handle'[d] = handle[d], reply'[d] = reply[d]
    PROVE  Same(d)
BY DEF Same, Left, Has, Holds, Opened

\* Between a sem_open and an unlink the answers do not matter.
LEMMA SameInLoop ==
    ASSUME NEW d, pc'[d] = pc[d], handle'[d] = handle[d],
           pc[d] \in {"wait", "getchar", "post", "last_post"}
    PROVE  Same(d)
BY DEF Same, Left, Has, Holds, Opened, HoldLabels, LeftLabels, Loop, OpenLabel,
       CloseLabel, UnlinkLabel

-----------------------------------------------------------------------------
(***************************************************************************)
(* Steps of the clients.  They leave the server alone, and nobody has or   *)
(* has unlinked anything else after them.                                  *)
(***************************************************************************)

LEMMA LegalRequest ==
    ASSUME NEW n \in Keys, NEW h \in Sems, NEW op \in {"CLOSE", "WAIT", "POST"}
    PROVE  /\ Legal([op |-> "OPEN", name |-> n, oflag |-> OpenFlags,
                     value |-> FirstValue(n)])
           /\ Legal([op |-> "UNLINK", name |-> n])
           /\ Legal([op |-> op, handle |-> h])
<1>1. FirstValue(n) \in Int /\ FirstValue(n) \in InitialValues
  BY SemServerAssumption, ProdConsAssumption DEF FirstValue, InitialValues
<1>2. OpenFlags \in OFlags /\ OpenFlags.O_CREAT
  BY DEF OpenFlags, OFlags
<1>3. h \in Handles /\ h \in Int
  BY SemServerAssumption DEF Sems, Slots, NULL, Handles
<1> HIDE DEF OpenFlags, FirstValue
<1> QED BY <1>1, <1>2, <1>3 DEF Legal, Message

\* A call goes out.
LEMMA CallsFacts ==
    ASSUME LinuxInv, ProgramInv, NEW c \in Clients, calls(c)
    PROVE  /\ client[c] = "idle"
           /\ UNCHANGED <<pc, input, handle, consumed>> /\ UNCHANGED <<vars, server, reply>>
           /\ client' = [client EXCEPT ![c] = "calling"]
           /\ unread' = unread \cup {c}
           /\ \E m : call' = [call EXCEPT ![c] = m]
           /\ CallMatches(c)'
           /\ LinuxInv'
<1>1. Keys = {sem_prod, sem_cons} /\ sem_prod # sem_cons
  BY ProdConsAssumption
<1>2. handle[c] \in [Keys -> Sems] /\ call \in [Clients -> {m \in Message : Legal(m)}]
  BY ProgramFacts DEF LinuxInv, MessageInv
<1>3. ASSUME NEW m, request(c, m), Legal(m), m.op \in {"OPEN", "UNLINK", "CLOSE", "WAIT", "POST"}
      PROVE  /\ client[c] = "idle"
             /\ UNCHANGED <<vars, server, reply>>
             /\ client' = [client EXCEPT ![c] = "calling"]
             /\ unread' = unread \cup {c}
             /\ call' = [call EXCEPT ![c] = m] /\ call'[c] = m
             /\ LinuxInv'
  <2>1. LinuxInv'
    BY <1>3, RequestStep
  <2> QED BY <1>2, <1>3, <2>1 DEF request, send
<1>4. UNCHANGED <<pc, input, handle, consumed>>
  BY DEF calls
<1>5. ASSUME NEW n \in Keys, pc[c] = OpenLabel(n),
             cli_open(c, n, OpenFlags, FirstValue(n))
      PROVE  \E m : request(c, m) /\ Legal(m) /\ m.op = "OPEN"
                    /\ (call'[c] = m => CallMatches(c)')
  <2> DEFINE m == [op |-> "OPEN", name |-> n, oflag |-> OpenFlags, value |-> FirstValue(n)]
  <2>1. request(c, m) /\ m.op = "OPEN"
    BY <1>5 DEF cli_open
  <2>2. Legal(m)
    BY LegalRequest DEF Sems
  <2>3. call'[c] = m => CallMatches(c)'
    BY <1>4, <1>5 DEF CallMatches, OpenCall
  <2> QED BY <2>1, <2>2, <2>3
<1>6. ASSUME NEW n \in Keys, pc[c] = UnlinkLabel(n), cli_unlink(c, n)
      PROVE  \E m : request(c, m) /\ Legal(m) /\ m.op = "UNLINK"
                    /\ (call'[c] = m => CallMatches(c)')
  <2> DEFINE m == [op |-> "UNLINK", name |-> n]
  <2>1. request(c, m) /\ m.op = "UNLINK"
    BY <1>6 DEF cli_unlink
  <2>2. Legal(m)
    BY LegalRequest DEF Sems
  <2>3. call'[c] = m => CallMatches(c)'
    BY <1>4, <1>6 DEF CallMatches, UnlinkCall
  <2> QED BY <2>1, <2>2, <2>3
<1>7. ASSUME NEW n \in Keys, NEW op \in {"CLOSE", "WAIT", "POST"},
             request(c, [op |-> op, handle |-> handle[c][n]]),
             \/ op = "CLOSE" /\ pc[c] = CloseLabel(n)
             \/ op = "WAIT" /\ pc[c] = "wait" /\ n = Awaited(c)
             \/ op = "POST" /\ pc[c] \in {"post", "last_post"} /\ n = Posted(c)
      PROVE  \E m : request(c, m) /\ Legal(m) /\ m.op \in {"CLOSE", "WAIT", "POST"}
                    /\ (call'[c] = m => CallMatches(c)')
  <2> DEFINE m == [op |-> op, handle |-> handle[c][n]]
  <2>1. request(c, m) /\ m.op \in {"CLOSE", "WAIT", "POST"}
    BY <1>7
  <2>2. Legal(m)
    BY <1>2, LegalRequest
  <2>3. call'[c] = m => CallMatches(c)'
    BY <1>4, <1>7 DEF CallMatches, CloseCall, WaitCall, PostCall, Awaited, Posted
  <2> QED BY <2>1, <2>2, <2>3
<1>8. \E m : /\ request(c, m) /\ Legal(m)
             /\ m.op \in {"OPEN", "UNLINK", "CLOSE", "WAIT", "POST"}
             /\ call'[c] = m => CallMatches(c)'
  <2>1. Statement(c)
    BY DEF calls
  <2>2. CASE \/ pc[c] = "open_prod" /\ open(c, sem_prod, CAPACITY)
             \/ pc[c] = "open_cons" /\ open(c, sem_cons, 0)
    BY <1>1, <1>5, <2>2 DEF open, OpenLabel, OpenFlags, FirstValue
  <2>3. CASE \/ pc[c] = "unlink_cons" /\ cli_unlink(c, sem_cons)
             \/ pc[c] = "unlink_prod" /\ cli_unlink(c, sem_prod)
    BY <1>1, <1>6, <2>3 DEF UnlinkLabel
  <2>4. CASE \/ pc[c] = "close_cons" /\ cli_close(c, handle[c][sem_cons])
             \/ pc[c] = "close_prod" /\ cli_close(c, handle[c][sem_prod])
    BY <1>1, <1>7, <2>4 DEF CloseLabel, cli_close
  <2>5. CASE pc[c] = "wait" /\ cli_wait(c, handle[c][Awaited(c)])
    <3>1. Awaited(c) \in Keys
      BY <1>1 DEF Awaited
    <3> QED BY <1>7, <2>5, <3>1 DEF cli_wait
  <2>6. CASE pc[c] \in {"post", "last_post"} /\ cli_post(c, handle[c][Posted(c)])
    <3>1. Posted(c) \in Keys
      BY <1>1 DEF Posted
    <3> QED BY <1>7, <2>6, <3>1 DEF cli_post
  <2> QED BY <2>1, <2>2, <2>3, <2>4, <2>5, <2>6 DEF Statement
<1> QED BY <1>3, <1>4, <1>8

\* A call returns: the process goes on to the next statement, and the answer of
\* a sem_open is kept.
GoesOn(c) ==
    \/ /\ pc[c] = "open_prod" /\ pc'[c] = "open_cons"
       /\ handle' = [handle EXCEPT ![c][sem_prod] = Head(reply[c]).handle]
    \/ /\ pc[c] = "open_cons"
       /\ \/ c \in Producers /\ pc'[c] = "wait"
          \/ c \in Consumers /\ pc'[c] \in {"getchar", "unlink_cons"}
       /\ handle' = [handle EXCEPT ![c][sem_cons] = Head(reply[c]).handle]
    \/ /\ \/ pc[c] = "wait" /\ pc'[c] = IF c \in Producers THEN "getchar" ELSE "post"
          \/ pc[c] = "post" /\ pc'[c] = IF c \in Producers THEN "wait" ELSE "getchar"
          \/ pc[c] = "last_post" /\ pc'[c] = "unlink_cons"
          \/ pc[c] = "unlink_cons" /\ pc'[c] = "unlink_prod"
          \/ pc[c] = "unlink_prod" /\ pc'[c] = "close_cons"
          \/ pc[c] = "close_cons" /\ pc'[c] = "close_prod"
          \/ pc[c] = "close_prod" /\ pc'[c] = "end"
       /\ handle' = handle

LEMMA ReturnsFacts ==
    ASSUME LinuxInv, ProgramInv, NEW c \in Clients, returns(c)
    PROVE  /\ client[c] = "calling" /\ reply[c] # <<>> /\ reply'[c] = <<>>
           /\ client' = [client EXCEPT ![c] = "idle"]
           /\ \A d \in Clients \ {c} : /\ reply'[d] = reply[d] /\ call'[d] = call[d]
                                       /\ pc'[d] = pc[d] /\ handle'[d] = handle[d]
           /\ UNCHANGED <<vars, server, unread, input, produced>>
           /\ c \notin unread /\ ~Asleep(c)
           /\ Head(reply[c]).handle \in Sems
           /\ pc' \in [Clients -> Labels] /\ handle' \in [Clients -> [Keys -> Sems]]
           /\ GoesOn(c)
           /\ LinuxInv'
<1>1. return(c) /\ LinuxInv'
  BY ReturnStep DEF returns
<1>2. /\ client[c] = "calling" /\ reply[c] # <<>>
      /\ client' = [client EXCEPT ![c] = "idle"]
      /\ reply' = [reply EXCEPT ![c] = Tail(@)]
      /\ call' = [call EXCEPT ![c] = NoCall]
      /\ UNCHANGED <<vars, server, unread>>
  BY <1>1 DEF return
<1>3. /\ reply \in [Clients -> Seq(Answers)] /\ call \in [Clients -> {m \in Message : Legal(m)}]
      /\ pc \in [Clients -> Labels] /\ handle \in [Clients -> [Keys -> Sems]]
      /\ ClientInv(c) /\ ProcessInv(c) /\ (c \in Producers <=> c \notin Consumers)
  BY ProgramFacts DEF LinuxInv, MessageInv, ProgramInv
<1>4. Len(reply[c]) = 1 /\ c \notin unread /\ ~Asleep(c)
  BY <1>2, <1>3 DEF ClientInv
<1>5. reply'[c] = <<>>
  <2>1. reply[c] \in Seq(Answers) /\ Tail(reply[c]) \in Seq(Answers)
    BY <1>2, <1>3
  <2>2. Len(Tail(reply[c])) = 0
    BY <1>4, <2>1
  <2>3. Tail(reply[c]) = <<>>
    BY <2>1, <2>2, NothingLeft
  <2> QED BY <1>2, <1>3, <2>3
<1>6. Head(reply[c]).handle \in Sems
  <2>1. Head(reply[c]) \in Answers
    BY <1>2, <1>3
  <2> QED BY <2>1 DEF Answers
<1>7. pc' = [pc EXCEPT ![c] = pc'[c]] /\ pc'[c] \in Labels /\ GoesOn(c)
  <2>1. CASE opened(c)
    BY <1>3, <2>1 DEF opened, Goto, GoesOn, Labels, Loop
  <2>2. CASE waited(c) \/ posted(c)
    <3>1. handle' = handle
      BY <2>2 DEF returns, opened, waited, posted
    <3> QED BY <1>3, <2>2, <3>1 DEF waited, posted, Goto, GoesOn, Labels, Loop
  <2>3. CASE pc[c] \in DOMAIN Next_of /\ Goto(c, Next_of[pc[c]])
    <3>1. pc[c] \in {"unlink_cons", "unlink_prod", "close_cons", "close_prod"}
      BY <2>3 DEF Next_of
    <3>2. handle' = handle
      BY <3>1 DEF returns, opened
    <3>3. \/ pc[c] = "unlink_cons" /\ Next_of[pc[c]] = "unlink_prod"
          \/ pc[c] = "unlink_prod" /\ Next_of[pc[c]] = "close_cons"
          \/ pc[c] = "close_cons" /\ Next_of[pc[c]] = "close_prod"
          \/ pc[c] = "close_prod" /\ Next_of[pc[c]] = "end"
      BY <3>1 DEF Next_of
    <3>4. pc' = [pc EXCEPT ![c] = Next_of[pc[c]]]
      BY <2>3 DEF Goto
    <3> QED BY <1>3, <3>2, <3>3, <3>4 DEF GoesOn, Labels, Loop
  <2> QED BY <2>1, <2>2, <2>3 DEF returns
<1>8. /\ handle' \in [Clients -> [Keys -> Sems]]
      /\ \A d \in Clients \ {c} : handle'[d] = handle[d]
  <2>1. PICK h \in Sems : h = Head(reply[c]).handle
    BY <1>6
  <2>2. \/ handle' = handle
        \/ \E n \in Keys : handle' = [handle EXCEPT ![c][n] = h]
    BY <1>7, <2>1, ProdConsAssumption DEF GoesOn
  <2>3. ASSUME NEW n \in Keys, handle' = [handle EXCEPT ![c][n] = h]
        PROVE  \E f \in [Keys -> Sems] : handle' = [handle EXCEPT ![c] = f]
    <3>1. [handle[c] EXCEPT ![n] = h] \in [Keys -> Sems]
      BY <1>3
    <3>2. handle' = [handle EXCEPT ![c] = [handle[c] EXCEPT ![n] = h]]
      BY <2>3
    <3> QED BY <3>1, <3>2
  <2>4. CASE handle' = handle
    BY <1>3, <2>4
  <2>5. CASE \E f \in [Keys -> Sems] : handle' = [handle EXCEPT ![c] = f]
    BY <1>3, <2>5
  <2> QED BY <2>2, <2>3, <2>4, <2>5
<1>9. UNCHANGED <<input, produced>>
  BY DEF returns
<1> QED BY <1>1, <1>2, <1>3, <1>4, <1>5, <1>6, <1>7, <1>8, <1>9

LEMMA ReturnsSame ==
    ASSUME LinuxInv, ProgramInv, NEW c \in Clients, returns(c), NEW d \in Clients
    PROVE  Same(d)
<1>1. CASE d # c
  BY <1>1, ReturnsFacts, SameFrame
<1>2. CASE d = c
  <2>1. reply[c] # <<>> /\ reply'[c] = <<>> /\ GoesOn(c) /\ handle[c] \in [Keys -> Sems]
        /\ Keys = {sem_prod, sem_cons} /\ sem_prod # sem_cons
        /\ handle \in [Clients -> [Keys -> Sems]]
    BY ReturnsFacts, ProgramFacts, ProdConsAssumption DEF ProgramInv
  <2>2. ASSUME NEW n \in Keys PROVE Left(c, n)' <=> Left(c, n)
    BY <2>1 DEF GoesOn, Left, LeftLabels, UnlinkLabel
  <2>3. ASSUME NEW n \in Keys PROVE Holds(c, n)' <=> Holds(c, n)
    BY <2>1 DEF GoesOn, Holds, HoldLabels, Loop, OpenLabel, CloseLabel
  <2>4. ASSUME NEW n \in Keys, Holds(c, n), Holds(c, n)'
        PROVE  Opened(c, n)' = Opened(c, n)
    <3>1. CASE pc[c] = OpenLabel(n)
      BY <2>1, <3>1 DEF Opened, OpenLabel, GoesOn
    <3>2. CASE pc[c] # OpenLabel(n)
      <4>1. pc'[c] # OpenLabel(n)
        BY <2>1, <2>4, <3>2 DEF GoesOn, OpenLabel, Holds, HoldLabels, Loop, CloseLabel
      <4>2. handle'[c][n] = handle[c][n]
        BY <2>1, <3>2 DEF GoesOn, OpenLabel
      <4> QED BY <3>2, <4>1, <4>2 DEF Opened
    <3> QED BY <3>1, <3>2
  <2> QED BY <1>2, <2>2, <2>3, <2>4 DEF Same, Has
<1> QED BY <1>1, <1>2

LEMMA ProgramFrame ==
    ASSUME LinuxInv, ProgramInv, NEW c \in Clients, UNCHANGED <<waiting, conn_array>>,
           pc' \in [Clients -> Labels], handle' \in [Clients -> [Keys -> Sems]],
           produced' \in Nat, consumed' \in Nat,
           \A d \in Clients \ {c} : /\ client'[d] = client[d] /\ call'[d] = call[d]
                                    /\ pc'[d] = pc[d] /\ handle'[d] = handle[d],
           ProcessInv(c)',
           ~Asleep(c) \/ client[c] # "calling" \/ pc[c] # "wait"
    PROVE  ProgramInv'
<1>1. ASSUME NEW d \in Clients PROVE ProcessInv(d)'
  <2>1. CASE d # c
    <3>1. ProcessInv(d)
      BY DEF ProgramInv
    <3> QED BY <2>1, <3>1 DEF ProcessInv, CallMatches, OpenCall, UnlinkCall, CloseCall,
               WaitCall, PostCall, Awaited, Posted
  <2> QED BY <2>1
<1>2. ASSUME NEW i \in Procs PROVE SleeperInv(i)'
  <2>1. CASE waiting[i] = NULL
    BY <2>1 DEF SleeperInv
  <2>2. CASE waiting[i] # NULL
    <3>1. i \in alive
      BY <2>2, ServerFacts DEF LinuxInv
    <3>2. conn_array[i] \in Clients /\ SleeperInv(i) /\ Asleep(conn_array[i])
      BY <2>2, <3>1 DEF LinuxInv, ConnectionInv, ProgramInv, Asleep
    <3>3. conn_array[i] # c
      BY <2>2, <3>2 DEF SleeperInv
    <3> QED BY <2>2, <3>2, <3>3 DEF SleeperInv, Awaited
  <2> QED BY <2>1, <2>2
<1> QED BY <1>1, <1>2 DEF ProgramInv

\* What all steps of a client have in common.
LEMMA ClientSteps ==
    ASSUME LinuxInv, ProgramInv, NEW c \in Clients, Step(c)
    PROVE  /\ UNCHANGED vars /\ conn_array' = conn_array
           /\ \A d \in Clients : Same(d)
           /\ LinuxInv' /\ ProgramInv'
<1>1. /\ pc \in [Clients -> Labels] /\ handle \in [Clients -> [Keys -> Sems]]
      /\ produced \in Nat /\ consumed \in Nat
      /\ client \in [Clients -> {"new", "idle", "calling", "gone"}]
      /\ call \in [Clients -> {m \in Message : Legal(m)}]
  BY DEF LinuxInv, MessageInv, ProgramInv
<1>2. ProcessInv(c) /\ ClientInv(c)
  BY ProgramFacts
<1>3. CASE connect(c) /\ UNCHANGED program
  <2>1. LinuxInv' /\ UNCHANGED <<vars, conn_array, call, reply>>
        /\ client[c] = "new" /\ client' = [client EXCEPT ![c] = "idle"]
        /\ UNCHANGED <<pc, input, handle, produced, consumed>>
    BY <1>3, ConnectStep DEF connect, program
  <2>2. \A d \in Clients : Same(d)
    BY <2>1, SameFrame
  <2>3. ProcessInv(c)'
    BY <1>1, <1>2, <2>1 DEF ProcessInv
  <2>4. ProgramInv'
    BY <1>1, <2>1, <2>3, ProgramFrame DEF vars, procs
  <2> QED BY <2>1, <2>2, <2>4
<1>4. CASE calls(c)
  <2>1. PICK m : call' = [call EXCEPT ![c] = m]
    BY <1>4, CallsFacts
  <2>2. /\ client[c] = "idle" /\ client' = [client EXCEPT ![c] = "calling"]
        /\ UNCHANGED <<pc, input, handle, consumed>> /\ UNCHANGED <<vars, server, reply>>
        /\ CallMatches(c)' /\ LinuxInv' /\ conn_array' = conn_array
    BY <1>4, CallsFacts DEF server
  <2>3. produced' \in Nat
    BY <1>1, <1>4 DEF calls
  <2>4. \A d \in Clients : Same(d)
    BY <2>2, SameFrame
  <2>5. ProcessInv(c)'
    BY <1>1, <1>2, <2>2 DEF ProcessInv
  <2>6. ProgramInv'
    BY <1>1, <2>1, <2>2, <2>3, <2>5, ProgramFrame DEF vars, procs
  <2> QED BY <2>2, <2>4, <2>6
<1>5. CASE returns(c)
  <2>1. /\ client' = [client EXCEPT ![c] = "idle"] /\ ~Asleep(c)
        /\ \A d \in Clients \ {c} : /\ call'[d] = call[d]
                                    /\ pc'[d] = pc[d] /\ handle'[d] = handle[d]
        /\ UNCHANGED <<vars, server, unread, input, produced>>
        /\ pc' \in [Clients -> Labels] /\ handle' \in [Clients -> [Keys -> Sems]]
        /\ GoesOn(c) /\ LinuxInv'
    BY <1>5, ReturnsFacts
  <2>2. conn_array' = conn_array /\ consumed' \in Nat
    BY <1>1, <1>5, <2>1 DEF server, returns
  <2>3. ProcessInv(c)'
    BY <1>1, <1>2, <2>1 DEF ProcessInv, GoesOn
  <2>4. ProgramInv'
    BY <1>1, <2>1, <2>2, <2>3, ProgramFrame DEF vars, procs
  <2> QED BY <1>5, <2>1, <2>2, <2>4, ReturnsSame
<1>6. CASE getchar(c)
  <2>1. /\ pc[c] = "getchar" /\ UNCHANGED lvars /\ UNCHANGED <<handle, produced, consumed>>
        /\ pc' = [pc EXCEPT ![c] = pc'[c]]
        /\ pc'[c] \in {"post", "wait", "unlink_cons", "last_post"}
        /\ pc'[c] = "last_post" => c \in Consumers
    BY <1>1, <1>6, ProgramFacts DEF getchar, Goto
  <2>2. /\ UNCHANGED vars /\ conn_array' = conn_array
        /\ UNCHANGED <<client, call, unread, reply>>
    BY <2>1 DEF lvars, server, sockets
  <2>3. client[c] = "idle" /\ reply[c] = <<>>
    <3>1. client[c] # "calling"
      BY <1>2, <2>1 DEF ProcessInv, CallMatches, OpenCall, UnlinkCall, CloseCall, WaitCall,
         PostCall, OpenLabel, UnlinkLabel, CloseLabel
    <3> QED BY <1>1, <1>2, <2>1, <3>1 DEF ProcessInv, ClientInv
  <2>4. ASSUME NEW d \in Clients PROVE Same(d)
    <3>1. CASE d # c
      BY <1>1, <2>1, <2>2, <3>1, SameFrame
    <3>2. CASE d = c
      BY <2>1, <2>2, <2>3, <3>2 DEF Same, Left, Has, Holds, Opened, HoldLabels, LeftLabels, Loop,
         OpenLabel, CloseLabel, UnlinkLabel
    <3> QED BY <3>1, <3>2
  <2>5. ProcessInv(c)'
    BY <2>1, <2>2, <2>3 DEF ProcessInv
  <2>6. pc' \in [Clients -> Labels]
    BY <1>1, <2>1 DEF Labels, Loop
  <2>7. ProgramInv'
    BY <1>1, <2>1, <2>2, <2>3, <2>5, <2>6, ProgramFrame DEF vars, procs
  <2> QED BY <2>1, <2>2, <2>4, <2>7, LinuxStutter
<1>7. CASE ends(c)
  <2>1. /\ LinuxInv' /\ UNCHANGED <<vars, server, reply>> /\ conn_array' = conn_array
        /\ client[c] = "idle" /\ client' = [client EXCEPT ![c] = "gone"]
        /\ call' = [call EXCEPT ![c] = Disconnect] /\ pc[c] = "end"
        /\ UNCHANGED <<pc, input, handle, produced, consumed>>
    BY <1>7, CleanAllStep DEF ends, clean_all, send, program, server
  <2>2. \A d \in Clients : Same(d)
    BY <2>1, SameFrame
  <2>3. ProcessInv(c)'
    BY <1>1, <1>2, <2>1 DEF ProcessInv
  <2>4. ProgramInv'
    BY <1>1, <2>1, <2>3, ProgramFrame DEF vars, procs
  <2> QED BY <2>1, <2>2, <2>4
<1> QED BY <1>3, <1>4, <1>5, <1>6, <1>7 DEF Step

-----------------------------------------------------------------------------
(***************************************************************************)
(* Who has what.                                                           *)
(***************************************************************************)

\* The server creates a semaphore on the request at the index i.
Creating(i) ==
    /\ conn_array[i] \in unread /\ call[conn_array[i]].op = "OPEN"
    /\ HashTableMisses(sem_name_map, call[conn_array[i]].name)

\* There is a slot for it then.
SlotsLast == \A i \in alive : Creating(i) => Free # {}

\* What a client has is in use under that name, or was unlinked, and the client
\* is a member; no semaphore is had under two names; and nobody else is a
\* member, or a member twice.
HeldLive ==
    \A c \in Clients, n \in Keys : \A s : Has(c, n, s) =>
        /\ s \in Live /\ opened_as[s] \in {n, EmptyKey}
        /\ \E i \in alive : conn_array[i] = c /\ Belongs(i, s)
HeldOnce ==
    \A c, d \in Clients, m, n \in Keys : \A s : Has(c, m, s) /\ Has(d, n, s) => m = n
MembersHold ==
    \A s \in Slots, i \in Procs :
        /\ proc_list[s][i] <= 1
        /\ Belongs(i, s) => i \in alive /\ \E n \in Keys : Has(conn_array[i], n, s)

\* A name in the table leads to a semaphore that a client has and has still to
\* unlink.
NamesHeld ==
    \A n \in Keys, s \in Slots : HashTableFinds(sem_name_map, n, s) =>
        \E c \in Clients : Has(c, n, s) /\ ~Left(c, n)

HoldParts == HeldLive /\ HeldOnce /\ MembersHold /\ NamesHeld
HoldInv   == LinuxInv /\ ProgramInv /\ HoldParts

LEMMA HoldFrame ==
    ASSUME LinuxInv, HoldParts, UNCHANGED vars, conn_array' = conn_array,
           \A d \in Clients : Same(d)
    PROVE  HoldParts'
<1>1. UNCHANGED <<ref_count, proc_list, alive, opened_as, sem_name_map>>
  BY DEF vars, sems, names, procs
<1>2. \A i \in alive : conn_array[i] \in Clients
  BY DEF LinuxInv, ConnectionInv
<1>3. /\ \A i \in Procs, s \in Slots : Belongs(i, s)' <=> Belongs(i, s)
      /\ Live' = Live
  BY <1>1 DEF Belongs, Live
<1>4. Live \subseteq Slots /\ alive \subseteq Procs
  BY ServerFacts DEF Live, LinuxInv, TypeOK
<1>5. HeldLive'
  BY <1>1, <1>3, <1>4 DEF HoldParts, HeldLive, Same
<1>6. HeldOnce'
  BY DEF HoldParts, HeldOnce, Same
<1>7. MembersHold'
  BY <1>1, <1>2, <1>3 DEF HoldParts, MembersHold, Same
<1>8. NamesHeld'
  BY <1>1 DEF HoldParts, NamesHeld, Same
<1> QED BY <1>5, <1>6, <1>7, <1>8 DEF HoldParts

-----------------------------------------------------------------------------
(***************************************************************************)
(* What the server does with a request, in terms of the effects of         *)
(* SemSleepers_proofs: none is refused.                                    *)
(***************************************************************************)

\* The client c asks at the index i.
Asks(i, c) ==
    /\ i \in Procs /\ i \in alive /\ c \in Clients /\ c = conn_array[i]
    /\ \A j \in alive : conn_array[j] = c => j = i
    /\ client[c] = "calling" /\ c \in unread /\ reply[c] = <<>> /\ waiting[i] = NULL
    /\ CallMatches(c)
    /\ unread' = unread \ {c}
    /\ UNCHANGED <<alive, conn_array, fs_stuck, client, call>>
    /\ UNCHANGED <<pc, handle, produced, consumed>>

\* It is answered with the handle h, or NULL.
GetsAnswer(c, h) ==
    /\ waiting' = waiting
    /\ reply'[c] # <<>> /\ Head(reply'[c]).handle = h
    /\ \A d \in Clients \ {c} : reply'[d] = reply[d]

OpensOld(i, c, n, s) ==
    /\ pc[c] = OpenLabel(n) /\ GetsAnswer(c, s)
    /\ HashTableFinds(sem_name_map, n, s)
    /\ Joins(i, s) /\ UNCHANGED names
OpensNew(i, c, n, s) ==
    /\ pc[c] = OpenLabel(n) /\ GetsAnswer(c, s)
    /\ HashTableMisses(sem_name_map, n)
    /\ Creates(i, s, FirstValue(n), FALSE)
    /\ HashTableInsert(sem_name_map, n, s, sem_name_map')
    /\ opened_as' = [opened_as EXCEPT ![s] = n]
KeepsName(i, c, n) ==
    /\ pc[c] = UnlinkLabel(n) /\ GetsAnswer(c, NULL)
    /\ \A s \in Slots : HashTableFinds(sem_name_map, n, s) => ~Belongs(i, s)
    /\ UNCHANGED <<sems, names>>
DropsName(i, c, n, s) ==
    /\ pc[c] = UnlinkLabel(n) /\ GetsAnswer(c, NULL)
    /\ HashTableFinds(sem_name_map, n, s)
    /\ Unlinks(i, s)
    /\ sem_name_map' = HashTableRemove(sem_name_map, n)
    /\ opened_as' = [opened_as EXCEPT ![s] = EmptyKey]
ClosesOne(i, c, n, s) ==
    /\ pc[c] = CloseLabel(n) /\ s = handle[c][n] /\ GetsAnswer(c, NULL)
    /\ CloseSlots(i, {s})
TakesUnit(i, c, s) ==
    /\ pc[c] = "wait" /\ s = handle[c][Awaited(c)] /\ GetsAnswer(c, NULL)
    /\ Counts(s, -1) /\ UNCHANGED names
SleepsFor(i, c, s) ==
    /\ pc[c] = "wait" /\ s = handle[c][Awaited(c)] /\ reply' = reply
    /\ Sleeps(i, s) /\ UNCHANGED names
GivesUnit(i, c, s) ==
    /\ pc[c] \in {"post", "last_post"} /\ s = handle[c][Posted(c)] /\ GetsAnswer(c, NULL)
    /\ Counts(s, 1) /\ UNCHANGED names
HandsUnit(i, c, s, w) ==
    /\ pc[c] \in {"post", "last_post"} /\ s = handle[c][Posted(c)]
    /\ w \in Clients \ {c} /\ pc[w] = "wait" /\ handle[w][Awaited(w)] = s
    /\ reply[w] = <<>> /\ reply'[w] # <<>> /\ reply'[c] # <<>>
    /\ \A d \in Clients \ {c, w} : reply'[d] = reply[d]
    /\ \E q \in Procs : Wakes(s, q) /\ conn_array[q] = w
    /\ UNCHANGED names

\* connection_send to a client that is in a call.
LEMMA PutTo ==
    ASSUME NEW messages \in [Clients -> Seq(Answers)], NEW c \in Clients,
           client[c] = "calling", NEW m \in Answers
    PROVE  /\ Put(messages, c, m) \in [Clients -> Seq(Answers)]
           /\ \A d \in Clients \ {c} : Put(messages, c, m)[d] = messages[d]
           /\ Put(messages, c, m)[c] # <<>>
           /\ messages[c] = <<>> => Head(Put(messages, c, m)[c]) = m
<1>1. Put(messages, c, m) = [messages EXCEPT ![c] = Append(@, m)]
  BY DEF Put
<1>2. messages[c] \in Seq(Answers) /\ Append(messages[c], m) \in Seq(Answers)
  OBVIOUS
<1>3. Append(messages[c], m) # <<>>
  <2>1. Len(Append(messages[c], m)) = Len(messages[c]) + 1 /\ Len(messages[c]) \in Nat
    BY <1>2
  <2>2. Len(<<>>) = 0
    OBVIOUS
  <2> QED BY <2>1, <2>2
<1>4. messages[c] = <<>> => Head(Append(messages[c], m)) = m
  <2>1. Append(<<>>, m) = <<m>> /\ Head(<<m>>) = m
    OBVIOUS
  <2> QED BY <2>1
<1> QED BY <1>1, <1>2, <1>3, <1>4

LEMMA AnswerIs ==
    ASSUME MessageInv, NEW c \in Clients, client[c] = "calling", reply[c] = <<>>,
           NEW op \in AnswerOps, NEW h \in Sems, reply' = Put(reply, c, Answer(op, h))
    PROVE  /\ reply'[c] # <<>> /\ Head(reply'[c]).handle = h
           /\ \A d \in Clients \ {c} : reply'[d] = reply[d]
<1>1. PICK m \in Answers : m = Answer(op, h) /\ m.handle = h
  BY DEF Answer, Answers
<1>2. reply \in [Clients -> Seq(Answers)] /\ reply' = Put(reply, c, m)
  BY <1>1 DEF MessageInv
<1> QED BY <1>1, <1>2, PutTo

LEMMA AskFacts ==
    ASSUME HoldInv, NEW i \in Procs, Selects(i), consume(conn_array[i]),
           handle_call(i, call[conn_array[i]]), UNCHANGED <<conn_array, backlog, client>>,
           UNCHANGED program
    PROVE  Asks(i, conn_array[i]) /\ ~fs_stuck
<1>1. PICK c \in Clients : c = conn_array[i]
  BY SelectedFacts DEF HoldInv
<1>2. /\ i \in alive /\ c \in unread /\ ClientInv(c)
      /\ client[c] \in {"calling", "gone"}
      /\ \A j \in alive : conn_array[j] = c => j = i
      /\ Asleep(c) <=> waiting[i] # NULL
  BY <1>1, SelectedFacts DEF HoldInv
<1>3. UNCHANGED <<alive, fs_stuck>> /\ waiting[i] = NULL /\ call[c].op \in AnswerOps
  BY <1>1, CallOutcome DEF HoldInv, LinuxInv
<1>4. client[c] = "calling" /\ CallMatches(c)
  <2>1. Disconnect.op \notin AnswerOps
    BY DEF Disconnect, AnswerOps
  <2> QED BY <1>2, <1>3, <2>1, ProgramFacts DEF HoldInv, ProcessInv
<1>5. reply[c] = <<>>
  BY <1>2, <1>3, <1>4 DEF ClientInv
<1>6. unread' = unread \ {c} /\ call' = call
  BY <1>1, <1>4 DEF consume
<1>7. UNCHANGED <<pc, handle, produced, consumed>>
  BY DEF program
<1>8. ~fs_stuck
  BY DEF handle_call, post, sem_open, sem_init, sem_unlink, sem_close, sem_wait, sem_trywait,
     sem_getvalue, sem_destroy, sem_post, Calls
<1> QED BY <1>1, <1>2, <1>3, <1>4, <1>5, <1>6, <1>7, <1>8 DEF Asks

\* The handle sem_open returns is that of the semaphore it counts the caller in.
LEMMA ReturnedIs ==
    ASSUME TypeOK, NEW s \in Slots, NEW r \in Nat, r > ref_count[s],
           ref_count' = [ref_count EXCEPT ![s] = r]
    PROVE  Returned = s
<1>1. {t \in Slots : ref_count'[t] > ref_count[t]} = {s}
  BY DEF TypeOK
<1> QED BY <1>1 DEF Returned

LEMMA OpenEffect ==
    ASSUME HoldInv, NodesLast, SlotsLast, NEW i, NEW c, Asks(i, c), NEW n \in Keys,
           OpenCall(c, n), handle_call(i, call[c])
    PROVE  \E s \in Slots : OpensOld(i, c, n, s) \/ OpensNew(i, c, n, s)
<1>1. /\ i \in Procs /\ c = conn_array[i] /\ c \in Clients /\ reply[c] = <<>>
      /\ client[c] = "calling" /\ waiting[i] = NULL
  BY DEF Asks
<1>2. TypeOK /\ NameInv /\ MessageInv
  BY ServerFacts DEF HoldInv, LinuxInv, SleepInv
<1>3. call[c].op = "OPEN" /\ pc[c] = OpenLabel(n)
      /\ sem_open(i, n, OpenFlags, FirstValue(n)) /\ Replies(i, Returned)
  <2>1. /\ call[c].op = "OPEN" /\ call[c].name = n /\ call[c].oflag = OpenFlags
        /\ call[c].value = FirstValue(n) /\ pc[c] = OpenLabel(n)
    BY DEF OpenCall
  <2> QED BY <2>1 DEF handle_call
<1>4. OpenFlags.O_CREAT /\ ~OpenFlags.O_EXCL
  BY DEF OpenFlags
<1>5. Calls(i) /\ UNCHANGED procs /\ waiting' = waiting
  BY <1>3 DEF sem_open, procs
<1>6. ASSUME NEW s \in Slots, Returned = s PROVE GetsAnswer(c, s)
  <2>1. waiting'[i] = NULL
    BY <1>1, <1>5
  <2>2. reply' = Put(reply, c, Answer(call[c].op, s))
    BY <1>1, <1>3, <1>6, <2>1 DEF Replies, Replied
  <2>3. s \in Sems /\ call[c].op \in AnswerOps
    BY <1>3 DEF Sems, AnswerOps
  <2> QED BY <1>1, <1>2, <1>5, <2>2, <2>3, AnswerIs DEF GetsAnswer
<1>7. ASSUME NEW s \in Slots, HashTableFinds(sem_name_map, n, s), sem_open_existing(i, s)
      PROVE  OpensOld(i, c, n, s)
  <2>1. s \in Live
    BY <1>2, <1>7, FoundIsLive
  <2>2. Joins(i, s) /\ UNCHANGED names
    BY <1>5, <1>7, <2>1 DEF sem_open_existing, Joins
  <2>3. Returned = s
    <3>1. ref_count[s] \in Nat /\ ref_count' = [ref_count EXCEPT ![s] = ref_count[s] + 1]
      BY <1>2, <1>7 DEF sem_open_existing, TypeOK
    <3>2. ref_count[s] + 1 \in Nat /\ ref_count[s] + 1 > ref_count[s]
      BY <3>1
    <3> QED BY <1>2, <3>1, <3>2, ReturnedIs
  <2> QED BY <1>3, <1>6, <1>7, <2>2, <2>3 DEF OpensOld
<1>8. ASSUME HashTableMisses(sem_name_map, n), sem_open_new(i, n, FirstValue(n))
      PROVE  \E s \in Slots : OpensNew(i, c, n, s)
  <2>1. FirstValue(n) \in Nat /\ FirstValue(n) <= SEM_VALUE_MAX
    BY SemServerAssumption, ProdConsAssumption DEF FirstValue
  <2>2. ~sem_create_fails(FirstValue(n))
    <3>1. call[c].name = n
      BY DEF OpenCall
    <3>2. Free # {}
      BY <1>1, <1>3, <1>8, <3>1 DEF SlotsLast, Creating, Asks
    <3> QED BY <2>1, <3>2, SemServerAssumption DEF sem_create_fails
  <2>3. PICK s \in Slots : /\ sem_create(i, s, FirstValue(n), FALSE)
                           /\ HashTableInsert(sem_name_map, n, s, sem_name_map')
                           /\ opened_as' = [opened_as EXCEPT ![s] = n]
    BY <1>8, <2>2 DEF sem_open_new
  <2>4. s \in Free /\ ref_count[s] = 0 /\ ref_count' = [ref_count EXCEPT ![s] = 1]
    BY <2>3 DEF sem_create, IsFirst, Free
  <2>5. Returned = s
    <3>1. 1 \in Nat /\ 1 > ref_count[s]
      BY <2>4
    <3> QED BY <1>2, <2>4, <3>1, ReturnedIs
  <2> QED BY <1>3, <1>5, <1>6, <1>8, <2>3, <2>4, <2>5 DEF OpensNew, Creates
<1> QED BY <1>3, <1>4, <1>7, <1>8 DEF sem_open

LEMMA NullAnswer ==
    ASSUME HoldInv, NEW i, NEW c, Asks(i, c), waiting' = waiting, Replies(i, NULL),
           call[c].op \in AnswerOps
    PROVE  GetsAnswer(c, NULL)
<1>1. /\ i \in Procs /\ c = conn_array[i] /\ c \in Clients /\ reply[c] = <<>>
      /\ client[c] = "calling" /\ waiting[i] = NULL
  BY DEF Asks
<1>2. MessageInv /\ NULL \in Sems
  BY DEF HoldInv, LinuxInv, Sems
<1>3. reply' = Put(reply, c, Answer(call[c].op, NULL))
  BY <1>1 DEF Replies, Replied
<1> QED BY <1>1, <1>2, <1>3, AnswerIs DEF GetsAnswer

\* A name leads to one semaphore.
LEMMA FindsOne ==
    ASSUME NEW n, NEW s, NEW t, TypeOK, HashTableFinds(sem_name_map, n, s),
           HashTableFinds(sem_name_map, n, t)
    PROVE  s = t
BY DEF HashTableFinds, IsFirst, Rows

LEMMA UnlinkEffect ==
    ASSUME HoldInv, NEW i, NEW c, Asks(i, c), NEW n \in Keys, UnlinkCall(c, n),
           handle_call(i, call[c])
    PROVE  KeepsName(i, c, n) \/ \E s \in Slots : DropsName(i, c, n, s)
<1>1. TypeOK /\ NameInv
  BY ServerFacts DEF HoldInv, LinuxInv, SleepInv
<1>2. call[c].op = "UNLINK" /\ pc[c] = UnlinkLabel(n)
      /\ sem_unlink(i, n) /\ Replies(i, NULL)
  <2>1. call[c].op = "UNLINK" /\ call[c].name = n /\ pc[c] = UnlinkLabel(n)
    BY DEF UnlinkCall
  <2> QED BY <2>1 DEF handle_call
<1>3. /\ UNCHANGED <<procs, sem_count, ref_count, proc_list, blocked_list>>
      /\ waiting' = waiting
  BY <1>2 DEF sem_unlink, procs
<1>4. GetsAnswer(c, NULL)
  BY <1>2, <1>3, NullAnswer DEF AnswerOps
<1>5. CASE HashTableMisses(sem_name_map, n) /\ UNCHANGED <<unlinked, names>>
  <2>1. \A s \in Slots : ~HashTableFinds(sem_name_map, n, s)
    BY <1>5 DEF HashTableMisses, HashTableFinds, IsFirst
  <2> QED BY <1>2, <1>3, <1>4, <1>5, <2>1 DEF KeepsName, sems
<1>6. ASSUME NEW s \in Slots, HashTableFinds(sem_name_map, n, s), ~Belongs(i, s),
             UNCHANGED <<unlinked, names>>
      PROVE  KeepsName(i, c, n)
  BY <1>1, <1>2, <1>3, <1>4, <1>6, FindsOne DEF KeepsName, sems
<1>7. ASSUME NEW s \in Slots, HashTableFinds(sem_name_map, n, s), Belongs(i, s),
             unlinked' = [unlinked EXCEPT ![s] = TRUE],
             sem_name_map' = HashTableRemove(sem_name_map, n),
             opened_as' = [opened_as EXCEPT ![s] = EmptyKey]
      PROVE  DropsName(i, c, n, s)
  BY <1>1, <1>2, <1>3, <1>4, <1>7, FoundIsLive DEF DropsName, Unlinks
<1> QED BY <1>2, <1>5, <1>6, <1>7 DEF sem_unlink

\* A client that holds a semaphore may use it.
LEMMA HandleIsValid ==
    ASSUME HoldInv, NEW i, NEW c, Asks(i, c), NEW n \in Keys, Holds(c, n),
           pc[c] # OpenLabel(n)
    PROVE  ValidHandle(i, handle[c][n]) /\ handle[c][n] \in Live
<1>1. Has(c, n, handle[c][n]) /\ c \in Clients
  BY DEF Has, Opened, Asks
<1>2. PICK s : s = handle[c][n]
  OBVIOUS
<1>3. s \in Live /\ \E j \in alive : conn_array[j] = c /\ Belongs(j, s)
  BY <1>1, <1>2 DEF HoldInv, HoldParts, HeldLive
<1> QED BY <1>2, <1>3 DEF ValidHandle, Asks, Live

LEMMA CloseEffect ==
    ASSUME HoldInv, NEW i, NEW c, Asks(i, c), NEW n \in Keys, CloseCall(c, n),
           handle_call(i, call[c])
    PROVE  ClosesOne(i, c, n, handle[c][n])
<1>1. call[c].op = "CLOSE" /\ pc[c] = CloseLabel(n)
      /\ sem_close(i, handle[c][n]) /\ Replies(i, NULL)
  <2>1. call[c].op = "CLOSE" /\ call[c].handle = handle[c][n] /\ pc[c] = CloseLabel(n)
    BY DEF CloseCall
  <2> QED BY <2>1 DEF handle_call
<1>2. Holds(c, n) /\ pc[c] # OpenLabel(n)
  BY <1>1 DEF Asks, Holds, OpenLabel, CloseLabel
<1>3. waiting' = waiting /\ CloseSlots(i, {handle[c][n]})
  BY <1>1, <1>2, HandleIsValid DEF sem_close, Refused, procs
<1>4. GetsAnswer(c, NULL)
  BY <1>1, <1>3, NullAnswer DEF AnswerOps
<1> QED BY <1>1, <1>3, <1>4 DEF ClosesOne

LEMMA WaitEffect ==
    ASSUME HoldInv, NEW i, NEW c, Asks(i, c), WaitCall(c), handle_call(i, call[c])
    PROVE  TakesUnit(i, c, handle[c][Awaited(c)]) \/ SleepsFor(i, c, handle[c][Awaited(c)])
<1>1. Awaited(c) \in Keys
  BY ProdConsAssumption DEF Awaited
<1>2. PICK s : s = handle[c][Awaited(c)]
  OBVIOUS
<1>3. call[c].op = "WAIT" /\ pc[c] = "wait" /\ sem_wait(i, s) /\ Replies(i, NULL)
  <2>1. call[c].op = "WAIT" /\ call[c].handle = s /\ pc[c] = "wait"
    BY <1>2 DEF WaitCall
  <2> QED BY <2>1 DEF handle_call
<1>4. ValidHandle(i, s) /\ s \in Live /\ s \in Slots
  <2>1. Holds(c, Awaited(c)) /\ pc[c] # OpenLabel(Awaited(c))
    BY <1>3 DEF Holds, HoldLabels, Loop, OpenLabel
  <2>2. ValidHandle(i, s) /\ s \in Live
    BY <1>1, <1>2, <2>1, HandleIsValid
  <2> QED BY <2>2 DEF Live
<1>5. sem_count[s] \in Int /\ i \in Procs /\ TypeOK
  BY <1>4, ServerFacts DEF HoldInv, LinuxInv, TypeOK, Asks
<1>6. CASE sem_count[s] <= 0
  <2>1. Sleeps(i, s) /\ UNCHANGED names
    BY <1>3, <1>4, <1>6 DEF sem_wait, Refused, Taken, Sleeps, Calls, ValidHandle
  <2>2. waiting'[i] # NULL
    BY <1>4, <1>5, <2>1, NullIsNoSlot DEF Sleeps, TypeOK
  <2>3. reply' = reply
    BY <1>3, <2>2 DEF Replies, Replied
  <2> QED BY <1>2, <1>3, <2>1, <2>3 DEF SleepsFor
<1>7. CASE sem_count[s] > 0
  <2>1. Counts(s, -1) /\ UNCHANGED names /\ waiting' = waiting
    BY <1>3, <1>4, <1>5, <1>7 DEF sem_wait, Refused, Taken, Counts, procs
  <2>2. GetsAnswer(c, NULL)
    BY <1>3, <2>1, NullAnswer DEF AnswerOps
  <2> QED BY <1>2, <1>3, <2>1, <2>2 DEF TakesUnit
<1>8. sem_count[s] <= 0 \/ sem_count[s] > 0
  BY <1>5
<1> QED BY <1>6, <1>7, <1>8

LEMMA PostEffect ==
    ASSUME HoldInv, NEW i, NEW c, Asks(i, c), PostCall(c), handle_call(i, call[c]), ~fs_stuck
    PROVE  \/ GivesUnit(i, c, handle[c][Posted(c)])
           \/ \E w \in Clients : HandsUnit(i, c, handle[c][Posted(c)], w)
<1>1. Posted(c) \in Keys
  BY ProdConsAssumption DEF Posted
<1>2. PICK s : s = handle[c][Posted(c)]
  OBVIOUS
<1>3. call[c].op = "POST" /\ pc[c] \in {"post", "last_post"} /\ post(i, s)
  <2>1. call[c].op = "POST" /\ call[c].handle = s /\ pc[c] \in {"post", "last_post"}
    BY <1>2 DEF PostCall
  <2> QED BY <2>1 DEF handle_call
<1>4. ValidHandle(i, s) /\ s \in Live /\ s \in Slots
  <2>1. Holds(c, Posted(c)) /\ pc[c] # OpenLabel(Posted(c))
    BY <1>3 DEF Holds, HoldLabels, Loop, OpenLabel
  <2>2. ValidHandle(i, s) /\ s \in Live
    BY <1>1, <1>2, <2>1, HandleIsValid
  <2> QED BY <2>2 DEF Live
<1>5. /\ sem_count[s] \in Int /\ TypeOK /\ ServerInv /\ MessageInv /\ ConnectionInv /\ QuietInv
      /\ blocked_list[s] \in Seq(Procs)
  BY <1>4, ServerFacts DEF HoldInv, LinuxInv, TypeOK
<1>6. sem_post(i, s) /\ fs_stuck' = fs_stuck
  BY <1>3 DEF post
<1>7. /\ i \in Procs /\ c = conn_array[i] /\ c \in Clients /\ reply[c] = <<>>
      /\ client[c] = "calling" /\ waiting[i] = NULL
      /\ \A j \in alive : conn_array[j] = c => j = i
  BY DEF Asks
<1>8. CASE sem_count[s] >= 0
  <2>1. Counts(s, 1) /\ UNCHANGED names /\ waiting' = waiting
    BY <1>4, <1>5, <1>6, <1>8 DEF sem_post, Refused, Counts, procs
  <2>2. Replies(i, NULL)
    BY <1>3, <1>5, <1>8 DEF post, Replies
  <2>3. GetsAnswer(c, NULL)
    BY <1>3, <2>1, <2>2, NullAnswer DEF AnswerOps
  <2> QED BY <1>2, <1>3, <2>1, <2>3 DEF GivesUnit
<1>9. CASE sem_count[s] < 0
  <2>1. PICK q \in WakeCandidates(s) : Wakes(s, q) /\ UNCHANGED names
    BY <1>4, <1>5, <1>6, <1>9 DEF sem_post, Refused, Wakes, Pops
  <2>2. q \in Procs
    BY <1>5, <2>1 DEF WakeCandidates
  <2>3. q = Head(blocked_list[s]) /\ waiting[q] = s
    BY <1>4, <1>5, <2>1, <2>2, WakesFacts DEF Sleepers
  <2>4. waiting[q] # NULL /\ q \in alive /\ q # i
    BY <1>4, <1>5, <1>7, <2>2, <2>3, ServerFacts, NullIsNoSlot
  <2>5. PICK w \in Clients : w = conn_array[q]
    BY <1>5, <2>4 DEF ConnectionInv
  <2>6. /\ w # c /\ client[w] = "calling" /\ pc[w] = "wait" /\ handle[w][Awaited(w)] = s
        /\ Asleep(w)
    BY <1>7, <2>2, <2>3, <2>4, <2>5 DEF HoldInv, ProgramInv, SleeperInv, Asleep
  <2>7. reply[w] = <<>>
    BY <2>6 DEF HoldInv, LinuxInv, CallInv, ClientInv
  <2>8. waiting'[i] = NULL
    BY <1>5, <1>7, <2>1, <2>2 DEF Wakes, Delivered, TypeOK
  <2>9. PICK m \in Answers, a \in Answers : m = Answer("WAKE", NULL) /\ a = Answer("POST", NULL)
    BY DEF Answer, Answers, AnswerOps, Sems
  <2>10. PICK woken : woken = Put(reply, w, m)
    OBVIOUS
  <2>11. reply' = Put(woken, c, a)
    BY <1>3, <1>4, <1>7, <1>9, <2>3, <2>5, <2>8, <2>9, <2>10 DEF post, Replied, sem_wake
  <2>12. /\ woken \in [Clients -> Seq(Answers)] /\ woken[w] # <<>>
         /\ \A d \in Clients \ {w} : woken[d] = reply[d]
    <3>1. reply \in [Clients -> Seq(Answers)]
      BY <1>5 DEF MessageInv
    <3> QED BY <2>6, <2>10, <3>1, PutTo
  <2>13. reply'[c] # <<>> /\ \A d \in Clients \ {c} : reply'[d] = woken[d]
    BY <1>7, <2>11, <2>12, PutTo
  <2>14. reply'[w] # <<>> /\ \A d \in Clients \ {c, w} : reply'[d] = reply[d]
    BY <2>6, <2>12, <2>13
  <2>15. HandsUnit(i, c, s, w)
    BY <1>2, <1>3, <2>1, <2>2, <2>5, <2>6, <2>7, <2>13, <2>14 DEF HandsUnit
  <2> QED BY <1>2, <2>15
<1>10. sem_count[s] >= 0 \/ sem_count[s] < 0
  BY <1>5
<1> QED BY <1>8, <1>9, <1>10

\* What a request changes of who has what: the caller has one more semaphore,
\* or one less, or has unlinked a name.
Gains(c, n, s) ==
    \A d \in Clients, m \in Keys :
        /\ Left(d, m)' <=> Left(d, m)
        /\ \A t : Has(d, m, t)' <=> Has(d, m, t) \/ (d = c /\ m = n /\ t = s)
Loses(c, n) ==
    \A d \in Clients, m \in Keys :
        /\ Left(d, m)' <=> Left(d, m)
        /\ \A t : Has(d, m, t)' <=> Has(d, m, t) /\ ~(d = c /\ m = n)
Leaves(c, n) ==
    \A d \in Clients, m \in Keys :
        /\ Left(d, m)' <=> Left(d, m) \/ (d = c /\ m = n)
        /\ \A t : Has(d, m, t)' <=> Has(d, m, t)

LEMMA OthersSame ==
    ASSUME NEW i, NEW c, Asks(i, c), NEW d \in Clients, reply'[d] = reply[d]
    PROVE  Same(d)
BY SameFrame DEF Asks

LEMMA OpenGains ==
    ASSUME NEW i, NEW c, Asks(i, c), NEW n \in Keys, NEW s, pc[c] = OpenLabel(n),
           GetsAnswer(c, s)
    PROVE  Gains(c, n, s) /\ ~Holds(c, n) /\ ~Left(c, n)
<1>1. /\ reply[c] = <<>> /\ reply'[c] # <<>> /\ Head(reply'[c]).handle = s
      /\ UNCHANGED <<pc, handle>> /\ Keys = {sem_prod, sem_cons} /\ sem_prod # sem_cons
      /\ \A d \in Clients \ {c} : reply'[d] = reply[d]
  BY ProdConsAssumption DEF Asks, GetsAnswer
<1>2. ASSUME NEW m \in Keys PROVE ~Left(c, m) /\ ~Left(c, m)'
  BY <1>1 DEF Left, LeftLabels, OpenLabel, UnlinkLabel
<1>3. ~Holds(c, n) /\ Has(c, n, s)' /\ \A t : Has(c, n, t)' => t = s
  BY <1>1 DEF Has, Holds, Opened, HoldLabels, Loop, OpenLabel, CloseLabel
<1>4. ASSUME NEW m \in Keys, m # n, NEW t PROVE Has(c, m, t)' <=> Has(c, m, t)
  BY <1>1, <1>4 DEF Has, Holds, Opened, HoldLabels, Loop, OpenLabel, CloseLabel
<1>5. ASSUME NEW d \in Clients, NEW m \in Keys, d # c
      PROVE  (Left(d, m)' <=> Left(d, m)) /\ \A t : Has(d, m, t)' <=> Has(d, m, t)
  BY <1>1, <1>5, OthersSame DEF Same
<1>6. ASSUME NEW d \in Clients, NEW m \in Keys
      PROVE  /\ Left(d, m)' <=> Left(d, m)
             /\ \A t : Has(d, m, t)' <=> Has(d, m, t) \/ (d = c /\ m = n /\ t = s)
  <2>1. CASE d # c
    BY <1>5, <2>1
  <2>2. CASE d = c /\ m # n
    BY <1>2, <1>4, <2>2
  <2>3. CASE d = c /\ m = n
    BY <1>2, <1>3, <2>3 DEF Has
  <2> QED BY <2>1, <2>2, <2>3
<1> QED BY <1>2, <1>3, <1>6 DEF Gains

LEMMA UnlinkLeaves ==
    ASSUME NEW i, NEW c, Asks(i, c), NEW n \in Keys, NEW h, pc[c] = UnlinkLabel(n),
           GetsAnswer(c, h)
    PROVE  Leaves(c, n)
<1>1. /\ reply[c] = <<>> /\ reply'[c] # <<>>
      /\ UNCHANGED <<pc, handle>> /\ Keys = {sem_prod, sem_cons} /\ sem_prod # sem_cons
      /\ \A d \in Clients \ {c} : reply'[d] = reply[d]
  BY ProdConsAssumption DEF Asks, GetsAnswer
<1>2. ASSUME NEW m \in Keys PROVE Left(c, m)' <=> Left(c, m) \/ m = n
  BY <1>1 DEF Left, LeftLabels, UnlinkLabel
<1>3. ASSUME NEW m \in Keys, NEW t PROVE Has(c, m, t)' <=> Has(c, m, t)
  BY <1>1 DEF Has, Holds, Opened, HoldLabels, Loop, OpenLabel, CloseLabel, UnlinkLabel
<1>4. ASSUME NEW d \in Clients, NEW m \in Keys
      PROVE  /\ Left(d, m)' <=> Left(d, m) \/ (d = c /\ m = n)
             /\ \A t : Has(d, m, t)' <=> Has(d, m, t)
  <2>1. CASE d # c
    BY <1>1, <2>1, OthersSame DEF Same
  <2>2. CASE d = c
    BY <1>2, <1>3, <2>2
  <2> QED BY <2>1, <2>2
<1> QED BY <1>4 DEF Leaves

LEMMA CloseLoses ==
    ASSUME NEW i, NEW c, Asks(i, c), NEW n \in Keys, NEW h, pc[c] = CloseLabel(n),
           GetsAnswer(c, h)
    PROVE  /\ Loses(c, n) /\ Has(c, n, handle[c][n])
           /\ \A m \in Keys : Left(c, m)
<1>1. /\ reply[c] = <<>> /\ reply'[c] # <<>>
      /\ UNCHANGED <<pc, handle>> /\ Keys = {sem_prod, sem_cons} /\ sem_prod # sem_cons
      /\ \A d \in Clients \ {c} : reply'[d] = reply[d]
  BY ProdConsAssumption DEF Asks, GetsAnswer
<1>2. ASSUME NEW m \in Keys PROVE Left(c, m)' /\ Left(c, m)
  BY <1>1 DEF Left, LeftLabels, CloseLabel
<1>3. Has(c, n, handle[c][n])
  BY <1>1 DEF Has, Holds, Opened, OpenLabel, CloseLabel
<1>4. ASSUME NEW m \in Keys, NEW t PROVE Has(c, m, t)' <=> Has(c, m, t) /\ m # n
  BY <1>1 DEF Has, Holds, Opened, HoldLabels, Loop, OpenLabel, CloseLabel, UnlinkLabel
<1>5. ASSUME NEW d \in Clients, NEW m \in Keys
      PROVE  /\ Left(d, m)' <=> Left(d, m)
             /\ \A t : Has(d, m, t)' <=> Has(d, m, t) /\ ~(d = c /\ m = n)
  <2>1. CASE d # c
    BY <1>1, <2>1, OthersSame DEF Same
  <2>2. CASE d = c
    BY <1>2, <1>4, <2>2
  <2> QED BY <2>1, <2>2
<1> QED BY <1>2, <1>3, <1>5 DEF Loses

\* sem_wait and sem_post change nothing of it.
LEMMA UnitsSame ==
    ASSUME NEW i, NEW c, Asks(i, c), NEW s, NEW w \in Clients,
           \/ TakesUnit(i, c, s) \/ SleepsFor(i, c, s) \/ GivesUnit(i, c, s)
           \/ HandsUnit(i, c, s, w),
           NEW d \in Clients
    PROVE  Same(d)
<1>1. UNCHANGED <<pc, handle>>
  BY DEF Asks
<1>2. CASE pc[d] \in {"wait", "getchar", "post", "last_post"}
  BY <1>1, <1>2, SameInLoop
<1>3. CASE pc[d] \notin {"wait", "getchar", "post", "last_post"}
  <2>1. reply'[d] = reply[d]
    BY <1>3 DEF TakesUnit, SleepsFor, GivesUnit, HandsUnit, GetsAnswer
  <2> QED BY <2>1, OthersSame
<1> QED BY <1>2, <1>3

-----------------------------------------------------------------------------
(***************************************************************************)
(* Requests keep the program in its places, and who has what in order.     *)
(***************************************************************************)

LEMMA HoldFacts ==
    ASSUME HoldInv
    PROVE  /\ TypeOK /\ NameInv /\ SleepInv /\ HoldParts
           /\ alive \subseteq Procs /\ Live \subseteq Slots
           /\ \A j \in alive : conn_array[j] \in Clients
           /\ \A j, k \in alive : conn_array[j] = conn_array[k] => j = k
           /\ \A s \in Slots : proc_list[s] \in [Procs -> Nat] /\ ref_count[s] \in Nat
           /\ proc_list \in [Slots -> [Procs -> Nat]] /\ ref_count \in [Slots -> Nat]
           /\ opened_as \in [Slots -> Keys \cup {EmptyKey}] /\ EmptyKey \notin Keys
BY ServerFacts, HashTableAssumption
   DEF HoldInv, LinuxInv, ConnectionInv, TypeOK, Live, SleepInv

LEMMA AskProgram ==
    ASSUME HoldInv, NEW i, NEW c, Asks(i, c),
           \/ waiting' = waiting
           \/ \E s \in Slots : SleepsFor(i, c, s)
           \/ \E s \in Slots, w \in Clients : HandsUnit(i, c, s, w)
    PROVE  ProgramInv'
<1>1. /\ UNCHANGED <<conn_array, client, call, pc, handle, produced, consumed>>
      /\ i \in Procs /\ c = conn_array[i] /\ client[c] = "calling"
  BY DEF Asks
<1>2. ASSUME NEW d \in Clients PROVE ProcessInv(d)'
  BY <1>1 DEF HoldInv, ProgramInv, ProcessInv, CallMatches, OpenCall, UnlinkCall, CloseCall,
     WaitCall, PostCall, Awaited, Posted
<1>3. \A j \in Procs : \/ waiting'[j] = waiting[j] \/ waiting'[j] = NULL
                       \/ j = i /\ pc[c] = "wait" /\ waiting'[j] = handle[c][Awaited(c)]
  <2>1. waiting \in [Procs -> Slots \cup {NULL}]
    BY HoldFacts DEF TypeOK
  <2>2. CASE \E s \in Slots : SleepsFor(i, c, s)
    BY <1>1, <2>1, <2>2 DEF SleepsFor, Sleeps
  <2>3. CASE \E s \in Slots, w \in Clients : HandsUnit(i, c, s, w)
    BY <2>1, <2>3 DEF HandsUnit, Wakes, Delivered
  <2> QED BY <2>2, <2>3
<1>4. ASSUME NEW j \in Procs PROVE SleeperInv(j)'
  <2>1. SleeperInv(j)
    BY DEF HoldInv, ProgramInv
  <2> QED BY <1>1, <1>3, <2>1 DEF SleeperInv, Awaited
<1>5. /\ pc' \in [Clients -> Labels] /\ handle' \in [Clients -> [Keys -> Sems]]
      /\ produced' \in Nat /\ consumed' \in Nat
  BY <1>1 DEF HoldInv, ProgramInv
<1> QED BY <1>2, <1>4, <1>5 DEF ProgramInv

\* A name leads to a semaphore created under it.
LEMMA FoundName ==
    ASSUME NameInv, NEW n \in Keys, NEW s \in Slots, HashTableFinds(sem_name_map, n, s)
    PROVE  s \in Live /\ opened_as[s] = n
<1>1. s \in Live
  BY FoundIsLive
<1>2. PICK r \in Rows : r \in Matching(sem_name_map, n) /\ s = sem_name_map.entry_array[r]
  BY DEF HashTableFinds, IsFirst
<1> QED BY <1>1, <1>2, HashTableAssumption DEF NameInv, LookupIsSound, Matching

\* Nobody has a slot that is free.
LEMMA FreeIsNobodys ==
    ASSUME HoldInv, NEW s \in Free
    PROVE  /\ \A c \in Clients, n \in Keys : ~Has(c, n, s)
           /\ \A j \in Procs : proc_list[s][j] = 0
<1>1. s \notin Live /\ s \in Slots
  BY DEF Free, Live
<1>2. \A c \in Clients, n \in Keys : ~Has(c, n, s)
  BY <1>1 DEF HoldInv, HoldParts, HeldLive
<1>3. \A j \in Procs : proc_list[s][j] = 0
  BY HoldFacts DEF NameInv, QueueInv, FreeSlotsAreEmpty, NoMembers
<1> QED BY <1>2, <1>3

LEMMA OpensOldHolds ==
    ASSUME HoldInv, NodesLast, NEW i, NEW c, Asks(i, c), NEW n \in Keys, NEW s \in Slots,
           OpensOld(i, c, n, s)
    PROVE  HoldParts'
<1>1. /\ i \in Procs /\ i \in alive /\ c \in Clients /\ c = conn_array[i]
      /\ UNCHANGED <<alive, conn_array>>
  BY DEF Asks
<1>2. Gains(c, n, s) /\ ~Holds(c, n)
  BY OpenGains DEF OpensOld
<1>3. s \in Live /\ opened_as[s] = n /\ n # EmptyKey
  BY FoundName, HoldFacts DEF OpensOld
<1>4. /\ ref_count' = [ref_count EXCEPT ![s] = @ + 1]
      /\ proc_list' = [proc_list EXCEPT ![s] = InsertMember(@, i)]
      /\ UNCHANGED <<sem_name_map, opened_as>>
  BY DEF OpensOld, Joins, names
<1>5. /\ proc_list'[s][i] = proc_list[s][i] + 1
      /\ \A t \in Slots, j \in Procs : t # s \/ j # i => proc_list'[t][j] = proc_list[t][j]
  <2>1. InsertMember(proc_list[s], i) = [proc_list[s] EXCEPT ![i] = @ + 1]
    BY DEF InsertMember, NodesLast
  <2>2. proc_list' = [proc_list EXCEPT ![s] = [proc_list[s] EXCEPT ![i] = @ + 1]]
    BY <1>4, <2>1
  <2> QED BY <1>1, <2>2, HoldFacts
<1>6. Live' = Live
  BY <1>3, <1>4, HoldFacts DEF Live
<1>7. \A d \in Clients, m \in Keys : Has(d, m, s) => m = n
  BY <1>3, HoldFacts DEF HoldParts, HeldLive
<1>8. proc_list[s][i] = 0
  <2>1. ~Belongs(i, s)
    BY <1>1, <1>2, <1>7, HoldFacts DEF HoldParts, MembersHold, Has
  <2> QED BY <1>1, <2>1, HoldFacts DEF Belongs
<1>9. \A t \in Slots, j \in Procs : Belongs(j, t)' <=> Belongs(j, t) \/ (t = s /\ j = i)
  BY <1>1, <1>5, HoldFacts DEF Belongs
<1>10. HeldLive'
  <2> SUFFICES ASSUME NEW d \in Clients, NEW m \in Keys, NEW t, Has(d, m, t)'
               PROVE  /\ t \in Live /\ opened_as[t] \in {m, EmptyKey}
                      /\ \E j \in alive : conn_array[j] = d /\ Belongs(j, t)'
    BY <1>1, <1>4, <1>6 DEF HeldLive
  <2>1. CASE Has(d, m, t)
    BY <1>9, <2>1, HoldFacts DEF HoldParts, HeldLive
  <2>2. CASE d = c /\ m = n /\ t = s
    BY <1>1, <1>3, <1>9, <2>2
  <2> QED BY <1>2, <2>1, <2>2 DEF Gains
<1>11. HeldOnce'
  BY <1>2, <1>7, HoldFacts DEF HoldParts, HeldOnce, Gains
<1>12. MembersHold'
  <2> SUFFICES ASSUME NEW t \in Slots, NEW j \in Procs
               PROVE  /\ proc_list'[t][j] <= 1
                      /\ Belongs(j, t)' => /\ j \in alive
                                           /\ \E m \in Keys : Has(conn_array[j], m, t)'
    BY <1>1 DEF MembersHold
  <2>1. CASE t = s /\ j = i
    BY <1>1, <1>2, <1>5, <1>8, <2>1 DEF Gains
  <2>2. CASE t # s \/ j # i
    <3>1. proc_list'[t][j] = proc_list[t][j] /\ (Belongs(j, t)' <=> Belongs(j, t))
      BY <1>5, <1>9, <2>2
    <3>2. /\ proc_list[t][j] <= 1
          /\ Belongs(j, t) => /\ j \in alive /\ conn_array[j] \in Clients
                              /\ \E m \in Keys : Has(conn_array[j], m, t)
      BY HoldFacts DEF HoldParts, MembersHold
    <3> QED BY <1>1, <1>2, <3>1, <3>2 DEF Gains
  <2> QED BY <2>1, <2>2
<1>13. NamesHeld'
  BY <1>2, <1>4, HoldFacts DEF HoldParts, NamesHeld, Gains
<1> QED BY <1>10, <1>11, <1>12, <1>13 DEF HoldParts

\* What HashTableInsert leaves: the row of the new name, and of the others those
\* it has not overwritten.
LEMMA InsertedRow ==
    ASSUME NameInv, NEW n \in Keys, NEW s \in Free, HashTableMisses(sem_name_map, n),
           HashTableInsert(sem_name_map, n, s, sem_name_map')
    PROVE  \E row \in Rows :
             /\ IsFirst(row, FreeRows(sem_name_map))
             /\ Table' = [Table EXCEPT ![row] = s]
             /\ KeyOf' = WriteKey(sem_name_map, row, n)
<1>1. FreeRows(sem_name_map) # {}
  BY TableHasRoom
<1>2. PICK row \in Rows :
        /\ IsFirst(row, FreeRows(sem_name_map))
        /\ sem_name_map' = [entry_array |-> [sem_name_map.entry_array EXCEPT ![row] = s],
                            str_hash    |-> WriteKey(sem_name_map, row, n)]
  BY <1>1 DEF HashTableInsert
<1> QED BY <1>2 DEF Table, KeyOf

LEMMA InsertedFinds ==
    ASSUME NameInv, NEW n \in Keys, NEW s \in Free, HashTableMisses(sem_name_map, n),
           HashTableInsert(sem_name_map, n, s, sem_name_map'),
           NEW m \in Keys, NEW t, HashTableFinds(sem_name_map, m, t)'
    PROVE  (m = n /\ t = s) \/ (m # n /\ HashTableFinds(sem_name_map, m, t))
<1>1. PICK row \in Rows : /\ IsFirst(row, FreeRows(sem_name_map))
                          /\ Table' = [Table EXCEPT ![row] = s]
                          /\ KeyOf' = WriteKey(sem_name_map, row, n)
  BY InsertedRow
<1>2. Table \in [Rows -> Slots \cup {NULL}] /\ m # EmptyKey /\ n # EmptyKey
  BY TableType, HashTableAssumption DEF NameInv, QueueInv
<1>3. PICK r \in Rows : Table'[r] # NULL /\ KeyOf'[r] = m /\ t = Table'[r]
  BY DEF HashTableFinds, IsFirst, Matching, UsedRows, Table, KeyOf
<1>4. CASE r = row
  BY <1>1, <1>2, <1>3, <1>4 DEF WriteKey
<1>5. CASE r # row
  <2>1. Table[r] # NULL /\ t = Table[r]
    BY <1>1, <1>2, <1>3, <1>5
  <2>2. KeyOf[r] = m
    BY <1>1, <1>2, <1>3, <1>5 DEF WriteKey, KeyOf
  <2>3. r \in UsedRows(sem_name_map) /\ r \in Matching(sem_name_map, m)
    BY <2>1, <2>2 DEF UsedRows, Matching, Table, KeyOf
  <2>4. Matching(sem_name_map, m) = {r}
    BY <1>2, <2>2, <2>3 DEF NameInv, LookupIsSound, KeyOf
  <2>5. IsFirst(r, {r})
    BY DEF IsFirst, Rows
  <2> QED BY <2>1, <2>3, <2>4, <2>5 DEF HashTableFinds, HashTableMisses, Table
<1> QED BY <1>4, <1>5

LEMMA OpensNewHolds ==
    ASSUME HoldInv, NodesLast, NEW i, NEW c, Asks(i, c), NEW n \in Keys, NEW s \in Slots,
           OpensNew(i, c, n, s)
    PROVE  HoldParts'
<1>1. /\ i \in Procs /\ i \in alive /\ c \in Clients /\ c = conn_array[i]
      /\ UNCHANGED <<alive, conn_array>>
  BY DEF Asks
<1>2. Gains(c, n, s) /\ ~Holds(c, n) /\ ~Left(c, n)
  BY OpenGains DEF OpensNew
<1>3. /\ s \in Free /\ HashTableMisses(sem_name_map, n)
      /\ HashTableInsert(sem_name_map, n, s, sem_name_map')
      /\ ref_count' = [ref_count EXCEPT ![s] = 1]
      /\ proc_list' = [proc_list EXCEPT ![s] = InsertMember(NoMembers, i)]
      /\ opened_as' = [opened_as EXCEPT ![s] = n]
  BY DEF OpensNew, Creates, sem_create
<1>4. /\ \A d \in Clients, m \in Keys : ~Has(d, m, s)
      /\ \A j \in Procs : proc_list[s][j] = 0
  BY <1>3, FreeIsNobodys
<1>5. /\ proc_list'[s][i] = 1
      /\ \A t \in Slots, j \in Procs : t # s \/ j # i => proc_list'[t][j] = proc_list[t][j]
  <2>1. InsertMember(NoMembers, i) = [NoMembers EXCEPT ![i] = @ + 1]
    BY DEF InsertMember, NodesLast
  <2>2. /\ InsertMember(NoMembers, i)[i] = 1
        /\ \A j \in Procs \ {i} : InsertMember(NoMembers, i)[j] = 0
    BY <1>1, <2>1 DEF NoMembers
  <2> HIDE DEF InsertMember
  <2> QED BY <1>1, <1>3, <1>4, <2>2, HoldFacts
<1>6. Live' = Live \cup {s}
  BY <1>3, HoldFacts DEF Live
<1>7. opened_as'[s] = n /\ \A t \in Slots \ {s} : opened_as'[t] = opened_as[t]
  BY <1>3, HoldFacts
<1>8. \A t \in Slots, j \in Procs : Belongs(j, t)' <=> Belongs(j, t) \/ (t = s /\ j = i)
  BY <1>1, <1>5, HoldFacts DEF Belongs
<1>9. HeldLive'
  <2> SUFFICES ASSUME NEW d \in Clients, NEW m \in Keys, NEW t, Has(d, m, t)'
               PROVE  /\ t \in Live' /\ opened_as'[t] \in {m, EmptyKey}
                      /\ \E j \in alive : conn_array[j] = d /\ Belongs(j, t)'
    BY <1>1 DEF HeldLive
  <2>1. CASE Has(d, m, t)
    <3>1. t # s
      BY <1>4, <2>1
    <3>2. /\ t \in Live /\ opened_as[t] \in {m, EmptyKey}
          /\ \E j \in alive : conn_array[j] = d /\ Belongs(j, t)
      BY <2>1, HoldFacts DEF HoldParts, HeldLive
    <3> QED BY <1>6, <1>7, <1>8, <3>1, <3>2, HoldFacts
  <2>2. CASE d = c /\ m = n /\ t = s
    BY <1>1, <1>6, <1>7, <1>8, <2>2
  <2> QED BY <1>2, <2>1, <2>2 DEF Gains
<1>10. HeldOnce'
  BY <1>2, <1>4, HoldFacts DEF HoldParts, HeldOnce, Gains
<1>11. MembersHold'
  <2> SUFFICES ASSUME NEW t \in Slots, NEW j \in Procs
               PROVE  /\ proc_list'[t][j] <= 1
                      /\ Belongs(j, t)' => /\ j \in alive
                                           /\ \E m \in Keys : Has(conn_array[j], m, t)'
    BY <1>1 DEF MembersHold
  <2>1. CASE t = s /\ j = i
    BY <1>1, <1>2, <1>5, <2>1 DEF Gains
  <2>2. CASE t # s \/ j # i
    <3>1. proc_list'[t][j] = proc_list[t][j] /\ (Belongs(j, t)' <=> Belongs(j, t))
      BY <1>5, <1>8, <2>2
    <3>2. /\ proc_list[t][j] <= 1
          /\ Belongs(j, t) => /\ j \in alive /\ conn_array[j] \in Clients
                              /\ \E m \in Keys : Has(conn_array[j], m, t)
      BY HoldFacts DEF HoldParts, MembersHold
    <3> QED BY <1>1, <1>2, <3>1, <3>2 DEF Gains
  <2> QED BY <2>1, <2>2
<1>12. NamesHeld'
  <2> SUFFICES ASSUME NEW m \in Keys, NEW t \in Slots, HashTableFinds(sem_name_map, m, t)'
               PROVE  \E d \in Clients : Has(d, m, t)' /\ ~Left(d, m)'
    BY DEF NamesHeld
  <2>1. (m = n /\ t = s) \/ HashTableFinds(sem_name_map, m, t)
    BY <1>3, HoldFacts, InsertedFinds
  <2>2. CASE m = n /\ t = s
    BY <1>1, <1>2, <2>2 DEF Gains
  <2>3. CASE HashTableFinds(sem_name_map, m, t)
    BY <1>2, <2>3, HoldFacts DEF HoldParts, NamesHeld, Gains
  <2> QED BY <2>1, <2>2, <2>3
<1> QED BY <1>9, <1>10, <1>11, <1>12 DEF HoldParts

\* Membership and use stay as they are: who has what is kept where it was.
LEMMA MembersFrame ==
    ASSUME HoldInv, UNCHANGED <<alive, conn_array, proc_list, ref_count>>,
           \A s \in Slots : opened_as'[s] \in {opened_as[s], EmptyKey},
           \A d \in Clients, m \in Keys : \A t : Has(d, m, t)' <=> Has(d, m, t)
    PROVE  HeldLive' /\ HeldOnce' /\ MembersHold'
<1>1. Live' = Live /\ \A t \in Slots, j \in Procs : Belongs(j, t)' <=> Belongs(j, t)
  BY DEF Live, Belongs
<1>2. HeldLive'
  <2> SUFFICES ASSUME NEW d \in Clients, NEW m \in Keys, NEW t, Has(d, m, t)'
               PROVE  /\ t \in Live' /\ opened_as'[t] \in {m, EmptyKey}
                      /\ \E j \in alive : conn_array[j] = d /\ Belongs(j, t)'
    BY DEF HeldLive
  <2>1. /\ t \in Live /\ opened_as[t] \in {m, EmptyKey}
        /\ \E j \in alive : conn_array[j] = d /\ Belongs(j, t)
    BY HoldFacts DEF HoldParts, HeldLive
  <2> QED BY <1>1, <2>1, HoldFacts
<1>3. HeldOnce'
  BY HoldFacts DEF HoldParts, HeldOnce
<1>4. MembersHold'
  BY <1>1, HoldFacts DEF HoldParts, MembersHold
<1> QED BY <1>2, <1>3, <1>4

LEMMA KeepsNameHolds ==
    ASSUME HoldInv, NEW i, NEW c, Asks(i, c), NEW n \in Keys, KeepsName(i, c, n)
    PROVE  HoldParts'
<1>1. /\ i \in alive /\ c \in Clients /\ c = conn_array[i]
      /\ \A j \in alive : conn_array[j] = c => j = i
      /\ UNCHANGED <<alive, conn_array>>
  BY DEF Asks
<1>2. Leaves(c, n)
  BY UnlinkLeaves DEF KeepsName
<1>3. UNCHANGED <<proc_list, ref_count, opened_as, sem_name_map>>
  BY DEF KeepsName, sems, names
<1>4. HeldLive' /\ HeldOnce' /\ MembersHold'
  BY <1>1, <1>2, <1>3, MembersFrame DEF Leaves
<1>5. NamesHeld'
  <2> SUFFICES ASSUME NEW m \in Keys, NEW t \in Slots, HashTableFinds(sem_name_map, m, t)
               PROVE  \E d \in Clients : Has(d, m, t)' /\ ~Left(d, m)'
    BY <1>3 DEF NamesHeld
  <2>1. PICK d \in Clients : Has(d, m, t) /\ ~Left(d, m)
    BY HoldFacts DEF HoldParts, NamesHeld
  <2>2. ~(d = c /\ m = n)
    <3> SUFFICES ASSUME d = c, m = n PROVE FALSE
      OBVIOUS
    <3>1. Belongs(i, t)
      BY <1>1, <2>1, HoldFacts DEF HoldParts, HeldLive
    <3> QED BY <3>1 DEF KeepsName
  <2> QED BY <1>2, <2>1, <2>2 DEF Leaves
<1> QED BY <1>4, <1>5 DEF HoldParts

\* HashTableRemove takes out the name, and no other.
LEMMA RemovedFinds ==
    ASSUME NameInv, NEW n \in Keys, sem_name_map' = HashTableRemove(sem_name_map, n),
           NEW m \in Keys, NEW t, HashTableFinds(sem_name_map, m, t)'
    PROVE  m # n /\ HashTableFinds(sem_name_map, m, t)
<1>1. Table \in [Rows -> Slots \cup {NULL}] /\ m # EmptyKey
  BY TableType, HashTableAssumption DEF NameInv, QueueInv
<1>2. /\ Table' = [r \in Rows |-> IF r \in Matching(sem_name_map, n) THEN NULL ELSE Table[r]]
      /\ KeyOf' = [r \in Rows |-> IF r \in Matching(sem_name_map, n) THEN EmptyKey ELSE KeyOf[r]]
  BY DEF HashTableRemove, Table, KeyOf
<1>3. PICK r \in Rows : Table'[r] # NULL /\ KeyOf'[r] = m /\ t = Table'[r]
  BY DEF HashTableFinds, IsFirst, Matching, UsedRows, Table, KeyOf
<1>4. r \notin Matching(sem_name_map, n) /\ Table[r] # NULL /\ KeyOf[r] = m /\ t = Table[r]
  BY <1>2, <1>3
<1>5. r \in UsedRows(sem_name_map) /\ r \in Matching(sem_name_map, m) /\ m # n
  BY <1>4 DEF UsedRows, Matching, Table, KeyOf
<1>6. Matching(sem_name_map, m) = {r}
  BY <1>1, <1>4, <1>5 DEF NameInv, LookupIsSound, KeyOf
<1>7. IsFirst(r, {r})
  BY DEF IsFirst, Rows
<1> QED BY <1>4, <1>5, <1>6, <1>7 DEF HashTableFinds, Table

LEMMA DropsNameHolds ==
    ASSUME HoldInv, NEW i, NEW c, Asks(i, c), NEW n \in Keys, NEW s \in Slots,
           DropsName(i, c, n, s)
    PROVE  HoldParts'
<1>1. Leaves(c, n)
  BY UnlinkLeaves DEF DropsName
<1>2. /\ UNCHANGED <<alive, conn_array>> /\ UNCHANGED <<proc_list, ref_count>>
      /\ opened_as' = [opened_as EXCEPT ![s] = EmptyKey]
      /\ sem_name_map' = HashTableRemove(sem_name_map, n)
  BY DEF Asks, DropsName, Unlinks
<1>3. \A t \in Slots : opened_as'[t] \in {opened_as[t], EmptyKey}
  BY <1>2, HoldFacts
<1>4. HeldLive' /\ HeldOnce' /\ MembersHold'
  BY <1>1, <1>2, <1>3, MembersFrame DEF Leaves
<1>5. NamesHeld'
  <2> SUFFICES ASSUME NEW m \in Keys, NEW t \in Slots, HashTableFinds(sem_name_map, m, t)'
               PROVE  \E d \in Clients : Has(d, m, t)' /\ ~Left(d, m)'
    BY DEF NamesHeld
  <2>1. m # n /\ HashTableFinds(sem_name_map, m, t)
    BY <1>2, HoldFacts, RemovedFinds
  <2> QED BY <1>1, <2>1, HoldFacts DEF HoldParts, NamesHeld, Leaves
<1> QED BY <1>4, <1>5 DEF HoldParts

\* Others that have the semaphore are members: it is not given back under them.
LEMMA ClosesOneHolds ==
    ASSUME HoldInv, NEW i, NEW c, Asks(i, c), NEW n \in Keys, NEW s,
           ClosesOne(i, c, n, s)
    PROVE  HoldParts' /\ s \in Live
<1>1. /\ i \in Procs /\ i \in alive /\ c \in Clients /\ c = conn_array[i]
      /\ \A j \in alive : conn_array[j] = c => j = i
      /\ UNCHANGED <<alive, conn_array>>
  BY DEF Asks
<1>2. Loses(c, n) /\ Has(c, n, s) /\ \A m \in Keys : Left(c, m)
  BY CloseLoses DEF ClosesOne
<1>3. s \in Live /\ s \in Slots /\ Belongs(i, s)
  BY <1>1, <1>2, HoldFacts DEF HoldParts, HeldLive, Live
<1>4. /\ proc_list' = [t \in Slots |-> IF t \in {s} THEN WithoutOne(t, i) ELSE proc_list[t]]
      /\ ref_count' = [t \in Slots |-> IF t \in {s} /\ LastClose(t, i) THEN 0 ELSE ref_count[t]]
      /\ UNCHANGED <<sem_name_map, opened_as>>
  BY DEF ClosesOne, CloseSlots, names
<1>5. /\ proc_list'[s][i] = 0
      /\ \A t \in Slots, j \in Procs : t # s \/ j # i => proc_list'[t][j] = proc_list[t][j]
  <2>1. proc_list[s][i] = 1
    BY <1>1, <1>3, HoldFacts DEF HoldParts, MembersHold, Belongs
  <2>2. WithoutOne(s, i)[i] = 0 /\ \A j \in Procs \ {i} : WithoutOne(s, i)[j] = proc_list[s][j]
    BY <1>1, <1>3, <2>1, HoldFacts DEF WithoutOne
  <2> QED BY <1>3, <1>4, <2>2
<1>6. \A t \in Slots, j \in Procs : Belongs(j, t)' <=> Belongs(j, t) /\ ~(t = s /\ j = i)
  BY <1>1, <1>3, <1>5 DEF Belongs
<1>7. ASSUME NEW t \in Live, NEW j \in Procs, Belongs(j, t)'
      PROVE  t \in Live'
  <2>1. t \in Slots /\ ref_count[t] # 0 /\ proc_list'[t][j] > 0
    BY <1>7 DEF Live, Belongs
  <2>2. CASE t # s
    BY <1>4, <2>1, <2>2 DEF Live
  <2>3. CASE t = s
    <3>1. WithoutOne(s, i)[j] > 0
      BY <1>4, <2>1, <2>3
    <3>2. WithoutOne(s, i) # NoMembers
      BY <3>1 DEF NoMembers
    <3> QED BY <1>4, <2>1, <2>3, <3>2 DEF Live, LastClose
  <2> QED BY <2>2, <2>3
<1>8. HeldLive'
  <2> SUFFICES ASSUME NEW d \in Clients, NEW m \in Keys, NEW t, Has(d, m, t)'
               PROVE  /\ t \in Live' /\ opened_as'[t] \in {m, EmptyKey}
                      /\ \E j \in alive : conn_array[j] = d /\ Belongs(j, t)'
    BY <1>1 DEF HeldLive
  <2>1. Has(d, m, t) /\ ~(d = c /\ m = n)
    BY <1>2 DEF Loses
  <2>2. t \in Live /\ opened_as[t] \in {m, EmptyKey}
    BY <2>1, HoldFacts DEF HoldParts, HeldLive
  <2>3. PICK j \in alive : conn_array[j] = d /\ Belongs(j, t)
    BY <2>1, HoldFacts DEF HoldParts, HeldLive
  <2>4. ~(t = s /\ j = i)
    BY <1>1, <1>2, <2>1, <2>3, HoldFacts DEF HoldParts, HeldOnce
  <2>5. j \in Procs /\ t \in Slots /\ Belongs(j, t)'
    BY <1>6, <2>2, <2>3, <2>4, HoldFacts
  <2> QED BY <1>4, <1>7, <2>2, <2>3, <2>5
<1>9. HeldOnce'
  BY <1>2, HoldFacts DEF HoldParts, HeldOnce, Loses
<1>10. MembersHold'
  <2> SUFFICES ASSUME NEW t \in Slots, NEW j \in Procs
               PROVE  /\ proc_list'[t][j] <= 1
                      /\ Belongs(j, t)' => /\ j \in alive
                                           /\ \E m \in Keys : Has(conn_array[j], m, t)'
    BY <1>1 DEF MembersHold
  <2>1. CASE t = s /\ j = i
    BY <1>5, <1>6, <2>1
  <2>2. CASE t # s \/ j # i
    <3>1. proc_list'[t][j] = proc_list[t][j] /\ (Belongs(j, t)' <=> Belongs(j, t))
      BY <1>5, <1>6, <2>2
    <3>2. /\ proc_list[t][j] <= 1
          /\ Belongs(j, t) => /\ j \in alive /\ conn_array[j] \in Clients
                              /\ \E m \in Keys : Has(conn_array[j], m, t)
      BY HoldFacts DEF HoldParts, MembersHold
    <3>3. ASSUME NEW m \in Keys, j \in alive, conn_array[j] = c, Has(c, m, t) PROVE m # n
      <4>1. j = i
        BY <1>1, <3>3
      <4> QED BY <1>2, <2>2, <3>3, <4>1 DEF Has
    <3> QED BY <1>1, <1>2, <3>1, <3>2, <3>3 DEF Loses
  <2> QED BY <2>1, <2>2
<1>11. NamesHeld'
  BY <1>2, <1>4, HoldFacts DEF HoldParts, NamesHeld, Loses
<1> QED BY <1>3, <1>8, <1>9, <1>10, <1>11 DEF HoldParts

LEMMA UnitHolds ==
    ASSUME HoldInv, NEW i, NEW c, Asks(i, c), NEW s, NEW w \in Clients,
           \/ TakesUnit(i, c, s) \/ SleepsFor(i, c, s) \/ GivesUnit(i, c, s)
           \/ HandsUnit(i, c, s, w)
    PROVE  HoldParts'
<1>1. \A d \in Clients : Same(d)
  BY UnitsSame
<1>2. /\ UNCHANGED <<alive, conn_array>>
      /\ UNCHANGED <<proc_list, ref_count, opened_as, sem_name_map>>
  BY DEF Asks, TakesUnit, SleepsFor, GivesUnit, HandsUnit, Counts, Sleeps, Wakes, Pops, names
<1>3. HeldLive' /\ HeldOnce' /\ MembersHold'
  BY <1>1, <1>2, MembersFrame DEF Same
<1>4. NamesHeld'
  BY <1>1, <1>2, HoldFacts DEF HoldParts, NamesHeld, Same
<1> QED BY <1>3, <1>4 DEF HoldParts

-----------------------------------------------------------------------------
(***************************************************************************)
(* A round of the server.                                                  *)
(***************************************************************************)

\* Connections come and go; a client that leaves is at its end.
Turnover ==
    /\ UNCHANGED <<sems, names, waiting>>
    /\ UNCHANGED <<client, call, reply, pc, handle, produced, consumed>>
    /\ unread' \subseteq unread
    /\ \A c \in unread \ unread' : pc[c] = "end"

\* A request is served.
Served(i, c) ==
    \/ \E n \in Keys, s \in Slots : \/ OpensOld(i, c, n, s) \/ OpensNew(i, c, n, s)
                                    \/ DropsName(i, c, n, s) \/ ClosesOne(i, c, n, s)
    \/ \E n \in Keys : KeepsName(i, c, n)
    \/ \E s \in Slots : TakesUnit(i, c, s) \/ SleepsFor(i, c, s) \/ GivesUnit(i, c, s)
    \/ \E s \in Slots, w \in Clients : HandsUnit(i, c, s, w)

\* An index changes hands only when its client has nothing open and does not
\* sleep.
LEMMA TurnoverHolds ==
    ASSUME HoldInv, Turnover, alive' \subseteq Procs,
           \A j \in alive : \/ j \in alive' /\ conn_array'[j] = conn_array[j]
                            \/ waiting[j] = NULL /\ pc[conn_array[j]] = "end"
    PROVE  HoldParts' /\ ProgramInv'
<1>1. /\ UNCHANGED <<proc_list, ref_count, opened_as, sem_name_map>> /\ waiting' = waiting
      /\ UNCHANGED <<client, call, reply, pc, handle, produced, consumed>>
  BY DEF Turnover, sems, names
<1>2. \A d \in Clients : Same(d)
  BY <1>1, SameFrame
<1>3. Live' = Live /\ \A t \in Slots, j \in Procs : Belongs(j, t)' <=> Belongs(j, t)
  BY <1>1 DEF Live, Belongs
<1>4. ASSUME NEW d \in Clients, NEW n \in Keys, NEW s, Has(d, n, s)
      PROVE  pc[d] # "end"
  BY <1>4 DEF Has, Holds, HoldLabels, Loop, OpenLabel, CloseLabel
<1>5. HeldLive'
  <2> SUFFICES ASSUME NEW d \in Clients, NEW m \in Keys, NEW t, Has(d, m, t)'
               PROVE  /\ t \in Live' /\ opened_as'[t] \in {m, EmptyKey}
                      /\ \E j \in alive' : conn_array'[j] = d /\ Belongs(j, t)'
    BY DEF HeldLive
  <2>1. Has(d, m, t)
    BY <1>2 DEF Same
  <2>2. t \in Live /\ opened_as[t] \in {m, EmptyKey}
    BY <2>1, HoldFacts DEF HoldParts, HeldLive
  <2>3. PICK j \in alive : conn_array[j] = d /\ Belongs(j, t)
    BY <2>1, HoldFacts DEF HoldParts, HeldLive
  <2>4. j \in alive' /\ conn_array'[j] = d
    BY <1>4, <2>1, <2>3
  <2> QED BY <1>1, <1>3, <2>2, <2>3, <2>4, HoldFacts
<1>6. HeldOnce'
  BY <1>2, HoldFacts DEF HoldParts, HeldOnce, Same
<1>7. MembersHold'
  <2> SUFFICES ASSUME NEW t \in Slots, NEW j \in Procs
               PROVE  /\ proc_list'[t][j] <= 1
                      /\ Belongs(j, t)' => /\ j \in alive'
                                           /\ \E m \in Keys : Has(conn_array[j], m, t)'
    BY DEF MembersHold
  <2>1. proc_list'[t][j] <= 1
    BY <1>1, HoldFacts DEF HoldParts, MembersHold
  <2>2. ASSUME Belongs(j, t)
        PROVE  j \in alive' /\ \E m \in Keys : Has(conn_array[j], m, t)'
    <3>1. PICK d \in Clients, m \in Keys : j \in alive /\ d = conn_array[j] /\ Has(d, m, t)
      BY <2>2, HoldFacts DEF HoldParts, MembersHold
    <3>2. j \in alive' /\ conn_array'[j] = d /\ Has(d, m, t)'
      BY <1>2, <1>4, <3>1 DEF Same
    <3> QED BY <3>2
  <2> QED BY <1>3, <2>1, <2>2
<1>8. NamesHeld'
  BY <1>1, <1>2, HoldFacts DEF HoldParts, NamesHeld, Same
<1>9. ASSUME NEW d \in Clients PROVE ProcessInv(d)'
  BY <1>1 DEF HoldInv, ProgramInv, ProcessInv, CallMatches, OpenCall, UnlinkCall, CloseCall,
     WaitCall, PostCall, Awaited, Posted
<1>10. ASSUME NEW j \in Procs PROVE SleeperInv(j)'
  <2>1. waiting[j] # NULL => j \in alive /\ SleeperInv(j)
    BY ServerFacts DEF HoldInv, LinuxInv, ProgramInv
  <2> QED BY <1>1, <2>1 DEF SleeperInv, Awaited
<1>11. ProgramInv'
  BY <1>1, <1>9, <1>10 DEF HoldInv, ProgramInv
<1> QED BY <1>5, <1>6, <1>7, <1>8, <1>11 DEF HoldParts

LEMMA ServedHolds ==
    ASSUME HoldInv, NodesLast, NEW i, NEW c, Asks(i, c), Served(i, c)
    PROVE  HoldParts' /\ ProgramInv'
<1>1. HoldParts'
  <2>1. CASE \E n \in Keys, s \in Slots : OpensOld(i, c, n, s)
    BY <2>1, OpensOldHolds
  <2>2. CASE \E n \in Keys, s \in Slots : OpensNew(i, c, n, s)
    BY <2>2, OpensNewHolds
  <2>3. CASE \E n \in Keys, s \in Slots : DropsName(i, c, n, s)
    BY <2>3, DropsNameHolds
  <2>4. CASE \E n \in Keys, s \in Slots : ClosesOne(i, c, n, s)
    BY <2>4, ClosesOneHolds
  <2>5. CASE \E n \in Keys : KeepsName(i, c, n)
    BY <2>5, KeepsNameHolds
  <2>6. CASE \E s \in Slots : TakesUnit(i, c, s) \/ SleepsFor(i, c, s) \/ GivesUnit(i, c, s)
    <3>1. c \in Clients
      BY DEF Asks
    <3> QED BY <2>6, <3>1, UnitHolds
  <2>7. CASE \E s \in Slots, w \in Clients : HandsUnit(i, c, s, w)
    BY <2>7, UnitHolds
  <2> QED BY <2>1, <2>2, <2>3, <2>4, <2>5, <2>6, <2>7 DEF Served
<1>2. \/ waiting' = waiting
      \/ \E s \in Slots : SleepsFor(i, c, s)
      \/ \E s \in Slots, w \in Clients : HandsUnit(i, c, s, w)
  BY DEF Served, OpensOld, OpensNew, DropsName, ClosesOne, KeepsName, TakesUnit, GivesUnit,
     GetsAnswer
<1>3. ProgramInv'
  BY <1>2, AskProgram
<1> QED BY <1>1, <1>3

LEMMA MatchedOp ==
    ASSUME NEW c, CallMatches(c)
    PROVE  call[c].op \in {"OPEN", "UNLINK", "CLOSE", "WAIT", "POST"}
<1>1. ASSUME NEW n \in Keys, OpenCall(c, n) PROVE call[c].op = "OPEN"
  BY <1>1 DEF OpenCall
<1>2. ASSUME NEW n \in Keys, UnlinkCall(c, n) PROVE call[c].op = "UNLINK"
  BY <1>2 DEF UnlinkCall
<1>3. ASSUME NEW n \in Keys, CloseCall(c, n) PROVE call[c].op = "CLOSE"
  BY <1>3 DEF CloseCall
<1>4. WaitCall(c) => call[c].op = "WAIT"
  BY DEF WaitCall
<1>5. PostCall(c) => call[c].op = "POST"
  BY DEF PostCall
<1> QED BY <1>1, <1>2, <1>3, <1>4, <1>5 DEF CallMatches

LEMMA ServeEffect ==
    ASSUME HoldInv, NodesLast, SlotsLast, Serve, UNCHANGED program
    PROVE  /\ HoldParts' /\ ProgramInv'
           /\ Turnover \/ \E i \in Procs, c \in Clients : Asks(i, c) /\ Served(i, c)
<1>1. UNCHANGED <<pc, handle, produced, consumed>>
  BY DEF program
<1>2. CASE accept_connection
  <2>1. PICK i \in FreeIndexes : /\ conn_array' = [conn_array EXCEPT ![i] = Head(backlog)]
                                 /\ alive' = alive \cup {i}
    BY <1>2 DEF accept_connection
  <2>2. UNCHANGED <<sems, names, waiting>> /\ UNCHANGED <<client, call, unread, reply>>
    BY <1>2 DEF accept_connection, sockets
  <2>3. Turnover
    BY <1>1, <2>2 DEF Turnover
  <2>4. /\ alive' \subseteq Procs
        /\ \A j \in alive : j \in alive' /\ conn_array'[j] = conn_array[j]
    BY <2>1, HoldFacts DEF FreeIndexes, HoldInv, LinuxInv, MessageInv
  <2> QED BY <2>3, <2>4, TurnoverHolds
<1>3. ASSUME NEW i \in Procs, aceptar_pedido(i)
      PROVE  /\ HoldParts' /\ ProgramInv'
             /\ Turnover \/ \E j \in Procs, c \in Clients : Asks(j, c) /\ Served(j, c)
  <2>1. /\ Selects(i) /\ consume(conn_array[i]) /\ ~fs_stuck
        /\ UNCHANGED <<conn_array, backlog, client>>
    BY <1>3 DEF aceptar_pedido, Serve
  <2>2. PICK c \in Clients : c = conn_array[i]
    BY <2>1, SelectedFacts DEF HoldInv
  <2>3. CASE handle_call(i, call[conn_array[i]])
    <3>1. Asks(i, c) /\ handle_call(i, call[c])
      BY <2>1, <2>2, <2>3, AskFacts
    <3>2. CallMatches(c)
      BY <3>1 DEF Asks
    <3>3. ASSUME NEW n \in Keys, OpenCall(c, n) PROVE Served(i, c)
      BY <3>1, <3>3, OpenEffect DEF Served
    <3>4. ASSUME NEW n \in Keys, UnlinkCall(c, n) PROVE Served(i, c)
      BY <3>1, <3>4, UnlinkEffect DEF Served
    <3>5. ASSUME NEW n \in Keys, CloseCall(c, n) PROVE Served(i, c)
      <4>1. PICK s : s = handle[c][n] /\ ClosesOne(i, c, n, s)
        BY <3>1, <3>5, CloseEffect
      <4>2. s \in Slots
        BY <3>1, <4>1, ClosesOneHolds, HoldFacts
      <4> QED BY <4>1, <4>2 DEF Served
    <3>6. ASSUME WaitCall(c) PROVE Served(i, c)
      <4>1. PICK s : TakesUnit(i, c, s) \/ SleepsFor(i, c, s)
        BY <3>1, <3>6, WaitEffect
      <4>2. s \in Slots
        BY <4>1 DEF TakesUnit, SleepsFor, Counts, Sleeps, Live
      <4>3. \E t \in Slots : TakesUnit(i, c, t) \/ SleepsFor(i, c, t) \/ GivesUnit(i, c, t)
        BY <4>1, <4>2, Zenon
      <4> QED BY <4>3 DEF Served
    <3>7. ASSUME PostCall(c) PROVE Served(i, c)
      <4>1. PICK s : GivesUnit(i, c, s) \/ \E w \in Clients : HandsUnit(i, c, s, w)
        BY <2>1, <3>1, <3>7, PostEffect
      <4>2. s \in Slots
        BY <4>1 DEF GivesUnit, HandsUnit, Counts, Wakes, Pops, Live
      <4>3. \/ \E t \in Slots : TakesUnit(i, c, t) \/ SleepsFor(i, c, t) \/ GivesUnit(i, c, t)
            \/ \E t \in Slots, w \in Clients : HandsUnit(i, c, t, w)
        BY <4>1, <4>2, Zenon
      <4> QED BY <4>3 DEF Served
    <3>8. Served(i, c)
      BY <3>2, <3>3, <3>4, <3>5, <3>6, <3>7, Zenon DEF CallMatches
    <3> QED BY <3>1, <3>8, ServedHolds
  <2>4. CASE call[c].op = "DISCONNECT" /\ disconnect(i)
    <3>1. client[c] = "gone" /\ unread' = unread \ {c} /\ call' = call
      BY <2>1, <2>2, <2>4, EndIsRead DEF HoldInv
    <3>2. /\ alive' = alive \ {i} /\ UNCHANGED <<sems, names, waiting>> /\ reply' = reply
      BY <2>4 DEF disconnect
    <3>3. pc[c] = "end" /\ waiting[i] = NULL
      <4>1. pc[c] = "end"
        BY <3>1, ProgramFacts DEF HoldInv, ProcessInv
      <4>2. waiting[i] # NULL => pc[c] = "wait"
        BY <2>2 DEF HoldInv, ProgramInv, SleeperInv
      <4> QED BY <4>1, <4>2
    <3>4. Turnover
      BY <1>1, <2>1, <3>1, <3>2, <3>3 DEF Turnover
    <3>5. /\ alive' \subseteq Procs
          /\ \A j \in alive : \/ j \in alive' /\ conn_array'[j] = conn_array[j]
                              \/ waiting[j] = NULL /\ pc[conn_array[j]] = "end"
      BY <2>1, <2>2, <3>2, <3>3, HoldFacts
    <3> QED BY <3>4, <3>5, TurnoverHolds
  <2>5. call[c].op # "EOF"
    <3>1. client[c] \in {"calling", "gone"}
      BY <2>1, <2>2, SelectedFacts DEF HoldInv
    <3>2. CASE client[c] = "gone"
      BY <3>2, ProgramFacts DEF HoldInv, ProcessInv, Disconnect
    <3>3. CASE client[c] = "calling"
      <4>1. CallMatches(c)
        BY <3>3, ProgramFacts DEF HoldInv, ProcessInv
      <4> QED BY <4>1, MatchedOp
    <3> QED BY <3>1, <3>2, <3>3
  <2> QED BY <1>3, <2>2, <2>3, <2>4, <2>5 DEF aceptar_pedido
<1> QED BY <1>2, <1>3 DEF Serve

-----------------------------------------------------------------------------
(***************************************************************************)
(* Who has what, along an execution.                                       *)
(***************************************************************************)

LEMMA HoldInvInit == ProdConsInit => HoldInv
<1> SUFFICES ASSUME ProdConsInit PROVE HoldInv
  OBVIOUS
<1>1. /\ LinuxInv /\ \A c \in Clients : client[c] = "new" /\ reply[c] = <<>>
      /\ \A c \in Clients : pc[c] = "open_prod"
      /\ \A i \in Procs : waiting[i] = NULL
      /\ \A s \in Slots : proc_list[s] = NoMembers
      /\ sem_name_map = NewHashTable
  BY LinuxInvInit DEF ProdConsInit, LinuxInit
<1>2. ProgramInv
  <2>1. /\ pc \in [Clients -> Labels] /\ handle \in [Clients -> [Keys -> Sems]]
        /\ produced \in Nat /\ consumed \in Nat
    BY DEF ProdConsInit, Labels, Sems
  <2>2. \A c \in Clients : ProcessInv(c)
    BY <1>1 DEF ProcessInv
  <2>3. \A i \in Procs : SleeperInv(i)
    BY <1>1 DEF SleeperInv
  <2> QED BY <2>1, <2>2, <2>3 DEF ProgramInv
<1>3. \A c \in Clients, n \in Keys : ~Holds(c, n)
  BY <1>1 DEF Holds, HoldLabels, Loop, OpenLabel, CloseLabel
<1>4. \A s \in Slots, i \in Procs : proc_list[s][i] = 0
  BY <1>1 DEF NoMembers
<1>5. \A n \in Keys, s \in Slots : ~HashTableFinds(sem_name_map, n, s)
  BY <1>1 DEF HashTableFinds, IsFirst, Matching, UsedRows, NewHashTable
<1>6. HoldParts
  BY <1>3, <1>4, <1>5 DEF HoldParts, HeldLive, HeldOnce, MembersHold, NamesHeld, Has, Belongs
<1> QED BY <1>1, <1>2, <1>6 DEF HoldInv

LEMMA ProgramStutter ==
    ASSUME HoldInv, UNCHANGED pvars
    PROVE  /\ UNCHANGED vars /\ conn_array' = conn_array
           /\ \A d \in Clients : Same(d)
           /\ LinuxInv' /\ ProgramInv'
<1>1. UNCHANGED lvars /\ UNCHANGED <<pc, handle, produced, consumed>>
  BY DEF pvars, program
<1>2. UNCHANGED <<vars, conn_array, waiting, client, call, reply>>
  BY <1>1 DEF lvars, server, sockets, vars, procs
<1>3. \A d \in Clients : Same(d)
  BY <1>1, <1>2, SameFrame
<1>4. \A d \in Clients : ProcessInv(d)'
  BY <1>1, <1>2 DEF HoldInv, ProgramInv, ProcessInv, CallMatches, OpenCall, UnlinkCall,
     CloseCall, WaitCall, PostCall, Awaited, Posted
<1>5. \A i \in Procs : SleeperInv(i)'
  BY <1>1, <1>2 DEF HoldInv, ProgramInv, SleeperInv, Awaited
<1>6. ProgramInv'
  BY <1>1, <1>4, <1>5 DEF HoldInv, ProgramInv
<1> QED BY <1>1, <1>2, <1>3, <1>6, LinuxStutter DEF HoldInv

LEMMA HoldInvNext ==
    ASSUME HoldInv, NodesLast, SlotsLast, ~KillsSleepers, [ProdConsNext]_pvars
    PROVE  HoldInv'
<1>1. LinuxInv /\ ProgramInv /\ HoldParts
  BY DEF HoldInv
<1>2. CASE Serve /\ UNCHANGED program
  BY <1>1, <1>2, ServeStep, ServeEffect DEF HoldInv
<1>3. ASSUME NEW c \in Clients, Step(c) PROVE HoldInv'
  <2>1. /\ UNCHANGED vars /\ conn_array' = conn_array
        /\ \A d \in Clients : Same(d)
        /\ LinuxInv' /\ ProgramInv'
    BY <1>1, <1>3, ClientSteps
  <2> QED BY <1>1, <2>1, HoldFrame DEF HoldInv
<1>4. CASE UNCHANGED pvars
  <2>1. /\ UNCHANGED vars /\ conn_array' = conn_array
        /\ \A d \in Clients : Same(d)
        /\ LinuxInv' /\ ProgramInv'
    BY <1>4, ProgramStutter
  <2> QED BY <1>1, <2>1, HoldFrame DEF HoldInv
<1> QED BY <1>2, <1>3, <1>4 DEF ProdConsNext

LEMMA HoldInvariant ==
    ASSUME ~KillsSleepers
    PROVE  ProdConsSpec /\ []NodesLast /\ []SlotsLast => []HoldInv
<1>1. HoldInv /\ NodesLast /\ SlotsLast /\ [ProdConsNext]_pvars => HoldInv'
  BY HoldInvNext
<1> QED BY <1>1, HoldInvInit, PTL DEF ProdConsSpec

LEMMA HeldHandles == HoldInv => HandlesStayOpen
<1> SUFFICES ASSUME HoldInv, NEW c \in Clients
             PROVE  /\ pc[c] \in Loop \cup {"open_cons", "close_cons"} => Uses(c, sem_prod)
                    /\ pc[c] \in Loop => /\ Uses(c, sem_cons)
                                         /\ handle[c][sem_prod] # handle[c][sem_cons]
  BY DEF HandlesStayOpen
<1>1. sem_prod \in Keys /\ sem_cons \in Keys /\ sem_prod # sem_cons
  BY ProdConsAssumption
<1>2. ASSUME NEW n \in Keys, pc[c] \in HoldLabels(n)
      PROVE  Has(c, n, handle[c][n]) /\ Uses(c, n)
  <2>1. Has(c, n, handle[c][n])
    BY <1>2 DEF Has, Holds, Opened, HoldLabels, OpenLabel, Loop
  <2> QED BY <2>1 DEF HoldInv, HoldParts, HeldLive, Uses
<1>3. pc[c] \in Loop \cup {"open_cons", "close_cons"} => Uses(c, sem_prod)
  BY <1>1, <1>2 DEF HoldLabels
<1>4. ASSUME pc[c] \in Loop
      PROVE  Uses(c, sem_cons) /\ handle[c][sem_prod] # handle[c][sem_cons]
  <2>1. pc[c] \in HoldLabels(sem_prod) /\ pc[c] \in HoldLabels(sem_cons)
    BY <1>4 DEF HoldLabels
  <2> QED BY <1>1, <1>2, <2>1 DEF HoldInv, HoldParts, HeldOnce
<1> QED BY <1>3, <1>4

LEMMA AllReleased == HoldInv => NamesAreReleased
<1> SUFFICES ASSUME HoldInv, \A c \in Clients : client[c] \in {"new", "gone"},
                    NEW i \in Live
             PROVE  ~unlinked[i] /\ \A n \in Keys : ~HashTableFinds(sem_name_map, n, i)
  BY DEF NamesAreReleased
<1>1. ASSUME NEW c \in Clients, NEW n \in Keys PROVE ~Holds(c, n)
  <2>1. ProcessInv(c) /\ ClientInv(c)
    BY ProgramFacts DEF HoldInv
  <2>2. reply[c] = <<>> /\ (pc[c] = "open_prod" \/ pc[c] = "end")
    BY <2>1 DEF ProcessInv, ClientInv
  <2> QED BY <2>2 DEF Holds, HoldLabels, Loop, OpenLabel, CloseLabel
<1>2. i \in Slots /\ proc_list[i] \in [Procs -> Nat]
  BY HoldFacts
<1>3. \A p \in Procs : proc_list[i][p] = 0
  <2>1. \A p \in Procs : ~Belongs(p, i)
    BY <1>1, <1>2, HoldFacts DEF HoldInv, HoldParts, MembersHold, Has
  <2> QED BY <1>2, <2>1 DEF Belongs
<1>4. proc_list[i] = NoMembers
  BY <1>2, <1>3 DEF NoMembers
<1>5. ~unlinked[i]
  BY <1>4, HoldFacts DEF SleepInv, SleepParts, UnlinkedHaveMembers
<1>6. \A n \in Keys : ~HashTableFinds(sem_name_map, n, i)
  BY <1>1, <1>2 DEF HoldInv, HoldParts, NamesHeld, Has
<1> QED BY <1>5, <1>6

-----------------------------------------------------------------------------
(***************************************************************************)
(* What the semaphores count.                                              *)
(***************************************************************************)

\* The semaphores in use that were opened as n, unlinked or not.
Pool(n) == {s \in Live : opened_as[s] = n \/ \E c \in Clients : Has(c, n, s)}

\* The client c carries a unit of n: it was granted one and has not returned, or
\* is about to post one.  A producer carries a place from its sem_wait to the
\* element it produces, and the element from there to its sem_post; a consumer
\* an element to where it consumes it, and from there a place.
Carries(c, n) ==
    \/ pc[c] = "wait" /\ n = Awaited(c) /\ reply[c] # <<>>
    \/ /\ pc[c] = "post" /\ n = Posted(c) /\ reply[c] = <<>>
       /\ n = sem_prod \/ c \in unread
    \/ /\ n = sem_prod /\ c \in Producers
       /\ pc[c] = "getchar" \/ (pc[c] = "post" /\ client[c] = "idle")
Carriers(n) == {c \in Clients : Carries(c, n)}

\* Elements that may still be consumed were produced and not yet consumed.
ElementsInv == AtMost(produced - consumed, Pool(sem_cons), sem_count, Carriers(sem_cons))

\* Until somebody ends, every semaphore in use can be found by its name: rows are
\* taken one after the other, and the padding of one overwrites no other.
AllRunning == \A c \in Clients : pc[c] \in Running
Packed ==
    /\ \A r \in UsedRows(sem_name_map) : KeyOf[r] # EmptyKey
    /\ \A r \in UsedRows(sem_name_map), q \in Rows : q < r => q \in UsedRows(sem_name_map)
    /\ \A s \in Live : ~unlinked[s]

\* There is then one sem_prod: what it counts and what the clients carry are the
\* places that are not taken.
PlacesInv ==
    IF Pool(sem_prod) = {} THEN produced = 0 /\ consumed = 0
    ELSE AtMost(consumed + CAPACITY - produced, Pool(sem_prod), sem_count, Carriers(sem_prod))

CountInv == /\ HoldInv /\ ElementsInv
            /\ AllRunning => Packed /\ PlacesInv

\* What a step of a client does to what is carried.
Quiet ==
    /\ UNCHANGED <<produced, consumed>>
    /\ \A n \in Keys : Carriers(n)' \subseteq Carriers(n)
Produces(c) ==
    /\ produced' = produced + 1 /\ consumed' = consumed
    /\ c \in Carriers(sem_prod) /\ Carriers(sem_prod)' \subseteq Carriers(sem_prod) \ {c}
    /\ Carriers(sem_cons)' \subseteq Carriers(sem_cons) \cup {c}
Consumes(c) ==
    /\ produced' = produced /\ consumed' = consumed + 1
    /\ c \in Carriers(sem_cons) /\ Carriers(sem_cons)' \subseteq Carriers(sem_cons) \ {c}
    /\ Carriers(sem_prod)' \subseteq Carriers(sem_prod) \cup {c}

LEMMA CarriesFrame ==
    ASSUME NEW d, NEW n, pc'[d] = pc[d], reply'[d] = reply[d], client'[d] = client[d],
           d \in unread' => d \in unread, Carries(d, n)'
    PROVE  Carries(d, n)
BY DEF Carries, Awaited, Posted

LEMMA CallsCarry ==
    ASSUME LinuxInv, ProgramInv, NEW c \in Clients, calls(c)
    PROVE  (Quiet \/ Produces(c)) /\ (AllRunning' => AllRunning)
<1>1. /\ client[c] = "idle" /\ client' = [client EXCEPT ![c] = "calling"]
      /\ UNCHANGED <<pc, consumed, reply>> /\ unread' = unread \cup {c}
  BY CallsFacts
<1>2. /\ client \in [Clients -> {"new", "idle", "calling", "gone"}]
      /\ reply[c] = <<>> /\ sem_prod # sem_cons
      /\ Keys = {sem_prod, sem_cons} /\ (c \in Producers <=> c \notin Consumers)
  BY <1>1, ProgramFacts, ProdConsAssumption DEF LinuxInv, MessageInv, ClientInv
<1>3. ASSUME NEW d \in Clients \ {c}, NEW n, Carries(d, n)' PROVE Carries(d, n)
  BY <1>1, <1>2, <1>3, CarriesFrame
<1>4. CASE pc[c] = "post" /\ c \in Producers
  <2>1. produced' = produced + 1
    BY <1>4 DEF calls
  <2>2. Carries(c, sem_prod) /\ ~Carries(c, sem_prod)'
    BY <1>1, <1>2, <1>4 DEF Carries, Awaited, Posted
  <2> QED BY <1>1, <1>3, <2>1, <2>2 DEF Produces, Carriers, AllRunning
<1>5. CASE ~(pc[c] = "post" /\ c \in Producers)
  <2>1. produced' = produced
    BY <1>5 DEF calls
  <2>2. ASSUME NEW n \in Keys, Carries(c, n)' PROVE Carries(c, n)
    BY <1>1, <1>2, <1>5, <2>2 DEF Carries, Awaited, Posted
  <2> QED BY <1>1, <1>3, <2>1, <2>2 DEF Quiet, Carriers, AllRunning
<1> QED BY <1>4, <1>5

LEMMA ReturnsCarry ==
    ASSUME LinuxInv, ProgramInv, NEW c \in Clients, returns(c)
    PROVE  (Quiet \/ Consumes(c)) /\ (AllRunning' => AllRunning)
<1>1. /\ client[c] = "calling" /\ reply[c] # <<>> /\ reply'[c] = <<>>
      /\ client' = [client EXCEPT ![c] = "idle"]
      /\ \A d \in Clients \ {c} : reply'[d] = reply[d] /\ pc'[d] = pc[d]
      /\ unread' = unread /\ produced' = produced /\ c \notin unread /\ GoesOn(c)
  BY ReturnsFacts
<1>2. /\ client \in [Clients -> {"new", "idle", "calling", "gone"}]
      /\ sem_prod # sem_cons
      /\ Keys = {sem_prod, sem_cons} /\ (c \in Producers <=> c \notin Consumers)
  BY ProgramFacts, ProdConsAssumption DEF LinuxInv, MessageInv
<1>3. ASSUME NEW d \in Clients \ {c}, NEW n, Carries(d, n)' PROVE Carries(d, n)
  BY <1>1, <1>2, <1>3, CarriesFrame
<1>4. AllRunning' => AllRunning
  <2>1. pc'[c] \in Running => pc[c] \in Running
    BY <1>1 DEF GoesOn, Running
  <2> QED BY <1>1, <2>1 DEF AllRunning
<1>5. CASE pc[c] = "wait" /\ c \in Consumers
  <2>1. consumed' = consumed + 1
    BY <1>5 DEF returns
  <2>2. Carries(c, sem_cons)
    BY <1>1, <1>2, <1>5 DEF Carries, Awaited
  <2>3. pc'[c] = "post"
    BY <1>1, <1>2, <1>5 DEF GoesOn
  <2>4. ~Carries(c, sem_cons)'
    BY <1>1, <1>2, <1>5, <2>3 DEF Carries, Posted
  <2> QED BY <1>1, <1>3, <1>4, <2>1, <2>2, <2>4 DEF Consumes, Carriers
<1>6. CASE ~(pc[c] = "wait" /\ c \in Consumers)
  <2>1. consumed' = consumed
    BY <1>6 DEF returns
  <2>2. ASSUME NEW n \in Keys, Carries(c, n)' PROVE Carries(c, n)
    <3>1. pc'[c] = "post" => FALSE
      BY <1>1, <1>2, <1>6 DEF GoesOn
    <3>2. n = sem_prod /\ c \in Producers /\ pc'[c] = "getchar"
      BY <1>1, <2>2, <3>1 DEF Carries
    <3>3. pc[c] = "wait"
      BY <1>1, <1>2, <3>2 DEF GoesOn
    <3> QED BY <1>1, <3>2, <3>3 DEF Carries, Awaited
  <2> QED BY <1>1, <1>3, <1>4, <2>1, <2>2 DEF Quiet, Carriers
<1> QED BY <1>5, <1>6

LEMMA StepCarries ==
    ASSUME LinuxInv, ProgramInv, NEW c \in Clients, Step(c)
    PROVE  (Quiet \/ Produces(c) \/ Consumes(c)) /\ (AllRunning' => AllRunning)
<1>1. /\ client \in [Clients -> {"new", "idle", "calling", "gone"}]
      /\ pc \in [Clients -> Labels] /\ ProcessInv(c) /\ ClientInv(c)
      /\ sem_prod # sem_cons
      /\ Keys = {sem_prod, sem_cons} /\ (c \in Producers <=> c \notin Consumers)
  BY ProgramFacts, ProdConsAssumption DEF LinuxInv, MessageInv, ProgramInv
<1>2. CASE (connect(c) /\ UNCHANGED program) \/ ends(c)
  <2>1. /\ client' = [client EXCEPT ![c] = client'[c]]
        /\ pc[c] \in {"open_prod", "end"}
        /\ unread' \subseteq unread \cup {c}
        /\ UNCHANGED <<pc, handle, produced, consumed, reply>>
    BY <1>1, <1>2 DEF connect, ends, clean_all, send, program, ProcessInv
  <2>2. ASSUME NEW d \in Clients, NEW n, Carries(d, n)' PROVE Carries(d, n)
    <3>1. CASE d # c
      BY <1>1, <2>1, <2>2, <3>1, CarriesFrame
    <3>2. CASE d = c
      BY <2>1, <2>2, <3>2 DEF Carries
    <3> QED BY <3>1, <3>2
  <2> QED BY <2>1, <2>2 DEF Quiet, Carriers, AllRunning
<1>3. CASE getchar(c)
  <2>1. /\ pc[c] = "getchar" /\ pc' = [pc EXCEPT ![c] = pc'[c]]
        /\ \/ pc'[c] = IF c \in Producers THEN "post" ELSE "wait"
           \/ pc'[c] \in {"unlink_cons", "last_post"}
        /\ UNCHANGED <<client, unread, reply, produced, consumed>>
    BY <1>1, <1>3 DEF getchar, Goto, lvars, sockets
  <2>2. reply[c] = <<>> /\ c \notin unread
    <3>1. client[c] \in {"new", "idle"}
      BY <1>1, <2>1 DEF ProcessInv, CallMatches, OpenCall, UnlinkCall, CloseCall, WaitCall,
         PostCall, OpenLabel, UnlinkLabel, CloseLabel
    <3> QED BY <1>1, <3>1 DEF ClientInv
  <2>3. ASSUME NEW d \in Clients, NEW n, Carries(d, n)' PROVE Carries(d, n)
    <3>1. CASE d # c
      BY <1>1, <2>1, <2>3, <3>1, CarriesFrame
    <3>2. CASE d = c
      BY <1>1, <2>1, <2>2, <2>3, <3>2 DEF Carries, Posted
    <3> QED BY <3>1, <3>2
  <2>4. AllRunning' => AllRunning
    BY <1>1, <2>1 DEF AllRunning, Running
  <2> QED BY <2>1, <2>3, <2>4 DEF Quiet, Carriers
<1>4. CASE calls(c) \/ returns(c)
  BY <1>4, CallsCarry, ReturnsCarry
<1> QED BY <1>2, <1>3, <1>4 DEF Step

LEMMA PoolFacts ==
    ASSUME HoldInv, NEW c \in Clients, NEW n \in Keys, NEW s, Has(c, n, s)
    PROVE  /\ s \in Pool(n) /\ s \in Slots
           /\ \A m \in Keys : s \in Pool(m) => m = n
<1>1. s \in Live /\ opened_as[s] \in {n, EmptyKey}
  BY DEF HoldInv, HoldParts, HeldLive
<1>2. \A m \in Keys : s \in Pool(m) => m = n
  BY <1>1, HoldFacts DEF Pool, HoldParts, HeldOnce
<1> QED BY <1>1, <1>2, HoldFacts DEF Pool

LEMMA PoolType ==
    ASSUME HoldInv, NEW n
    PROVE  Pool(n) \subseteq Slots /\ sem_count \in [Slots -> Int]
BY HoldFacts DEF Pool, TypeOK

\* Before sem_post returns the caller has the semaphore, and so has one that
\* waits for it.
LEMMA UserHas ==
    ASSUME NEW c \in Clients, NEW n, pc[c] \in {"wait", "post", "last_post"}
    PROVE  Has(c, n, handle[c][n])
BY DEF Has, Holds, Opened, HoldLabels, Loop, OpenLabel

\* Nothing happens to Pool in these.
LEMMA PoolSame ==
    ASSUME NEW n \in Keys, UNCHANGED <<ref_count, opened_as>>, \A d \in Clients : Same(d)
    PROVE  Pool(n)' = Pool(n)
<1>1. Live' = Live
  BY DEF Live
<1>2. \A s \in Live : (\E c \in Clients : Has(c, n, s)') <=> \E c \in Clients : Has(c, n, s)
  BY DEF Same
<1> QED BY <1>1, <1>2 DEF Pool

LEMMA WaitCounts ==
    ASSUME HoldInv, NEW i, NEW c, Asks(i, c), NEW s, TakesUnit(i, c, s) \/ SleepsFor(i, c, s),
           NEW n \in Keys, NEW k \in Int, AtMost(k, Pool(n), sem_count, Carriers(n))
    PROVE  AtMost(k, Pool(n)', sem_count', Carriers(n)')
<1>1. c \in Clients /\ pc[c] = "wait" /\ s = handle[c][Awaited(c)] /\ Awaited(c) \in Keys
  BY ProdConsAssumption DEF Asks, TakesUnit, SleepsFor, Awaited
<1>2. s \in Pool(Awaited(c)) /\ s \in Slots /\ \A m \in Keys : s \in Pool(m) => m = Awaited(c)
  BY <1>1, UserHas, PoolFacts
<1>3. Pool(n)' = Pool(n)
  <2>1. \A d \in Clients : Same(d)
    BY <1>1, UnitsSame
  <2>2. UNCHANGED <<ref_count, opened_as>>
    BY DEF TakesUnit, SleepsFor, Counts, Sleeps, names
  <2> QED BY <2>1, <2>2, PoolSame
<1>4. Pool(n) \subseteq Slots /\ sem_count \in [Slots -> Int]
  BY PoolType
<1>5. ASSUME NEW d \in Clients \ {c}, Carries(d, n)' PROVE Carries(d, n)
  BY <1>5, CarriesFrame DEF Asks, TakesUnit, SleepsFor, GetsAnswer
<1>6. ASSUME Carries(c, n)' PROVE n = Awaited(c) /\ reply'[c] # <<>>
  <2>1. pc'[c] = "wait" /\ Awaited(c)' = Awaited(c)
    BY <1>1 DEF Asks, Awaited
  <2> QED BY <1>6, <2>1 DEF Carries
<1>7. CASE TakesUnit(i, c, s)
  <2>1. sem_count[s] > 0 /\ sem_count' = [sem_count EXCEPT ![s] = @ + (-1)]
    BY <1>7 DEF TakesUnit, Counts
  <2>2. sem_count' = [sem_count EXCEPT ![s] = @ - 1]
    BY <1>2, <1>4, <2>1
  <2>3. CASE n = Awaited(c)
    <3>1. Carriers(n)' \subseteq Carriers(n) \cup {c}
      BY <1>5 DEF Carriers
    <3>2. AtMost(k, Pool(n), [sem_count EXCEPT ![s] = @ - 1], Carriers(n)')
      BY <1>2, <1>4, <2>1, <2>3, <3>1, UnitTaken
    <3> QED BY <1>3, <2>2, <3>2
  <2>4. CASE n # Awaited(c)
    <3>1. Carriers(n)' \subseteq Carriers(n)
      BY <1>5, <1>6, <2>4 DEF Carriers
    <3>2. \A t \in Pool(n) : sem_count'[t] = sem_count[t] /\ sem_count[t] \in Int
      BY <1>2, <1>4, <2>2, <2>4
    <3>3. sem_count' \in [Slots -> Int]
      BY <1>2, <1>4, <2>2
    <3> QED BY <1>3, <1>4, <3>1, <3>2, <3>3, UnitsFewer
  <2> QED BY <2>3, <2>4
<1>8. CASE SleepsFor(i, c, s)
  <2>1. sem_count[s] <= 0 /\ sem_count' = [sem_count EXCEPT ![s] = @ - 1] /\ reply' = reply
    BY <1>8 DEF SleepsFor, Sleeps
  <2>2. Carriers(n)' \subseteq Carriers(n)
    BY <1>5, <1>6, <2>1 DEF Carriers, Asks
  <2>3. \A t \in Pool(n) : sem_count'[t] <= sem_count[t]
    BY <1>2, <1>4, <2>1
  <2>4. sem_count' \in [Slots -> Int]
    BY <1>2, <1>4, <2>1
  <2> QED BY <1>3, <1>4, <2>2, <2>3, <2>4, UnitsFewer
<1> QED BY <1>7, <1>8

LEMMA PostCounts ==
    ASSUME HoldInv, NEW i, NEW c, Asks(i, c), NEW s, NEW w \in Clients,
           GivesUnit(i, c, s) \/ HandsUnit(i, c, s, w),
           NEW n \in Keys, n = sem_cons \/ pc[c] # "last_post",
           NEW k \in Int, AtMost(k, Pool(n), sem_count, Carriers(n))
    PROVE  AtMost(k, Pool(n)', sem_count', Carriers(n)')
<1>1. /\ c \in Clients /\ pc[c] \in {"post", "last_post"} /\ s = handle[c][Posted(c)]
      /\ Posted(c) \in Keys /\ sem_prod # sem_cons /\ reply'[c] # <<>>
      /\ client[c] = "calling" /\ c \in unread /\ reply[c] = <<>>
      /\ pc' = pc /\ client' = client /\ unread' = unread \ {c}
      /\ pc[c] = "last_post" => c \notin Producers
  BY ProdConsAssumption, ProgramFacts DEF Asks, GivesUnit, HandsUnit, Posted, GetsAnswer,
     HoldInv, ProcessInv
<1>2. s \in Slots /\ \A m \in Keys : s \in Pool(m) => m = Posted(c)
  BY <1>1, UserHas, PoolFacts
<1>3. Pool(n)' = Pool(n)
  <2>1. \A d \in Clients : Same(d)
    BY <1>1, UnitsSame
  <2>2. UNCHANGED <<ref_count, opened_as>>
    BY DEF GivesUnit, HandsUnit, Counts, Wakes, Pops, names
  <2> QED BY <2>1, <2>2, PoolSame
<1>4. Pool(n) \subseteq Slots /\ sem_count \in [Slots -> Int]
  BY PoolType
<1>5. sem_count' = [sem_count EXCEPT ![s] = @ + 1] /\ sem_count' \in [Slots -> Int]
  BY <1>2, <1>4 DEF GivesUnit, HandsUnit, Counts, Wakes
<1>6. ~Carries(c, n)'
  BY <1>1 DEF Carries
<1>7. n = Posted(c) => Carries(c, n)
  BY <1>1 DEF Carries, Posted
<1>8. /\ sem_count' \in [Slots -> Int]
      /\ n # Posted(c) => \A t \in Pool(n) : sem_count'[t] <= sem_count[t]
  BY <1>2, <1>4, <1>5
<1>9. CASE GivesUnit(i, c, s)
  <2>1. ASSUME NEW d \in Clients \ {c}, Carries(d, n)' PROVE Carries(d, n)
    BY <1>1, <1>9, <2>1, CarriesFrame DEF GivesUnit, GetsAnswer
  <2>2. Carriers(n)' \subseteq Carriers(n) \ {c}
    BY <1>6, <2>1 DEF Carriers
  <2>3. CASE n = Posted(c)
    <3>1. c \in Carriers(n)
      BY <1>1, <1>7, <2>3 DEF Carriers
    <3>2. AtMost(k, Pool(n), [sem_count EXCEPT ![s] = @ + 1], Carriers(n)')
      BY <1>2, <1>4, <2>2, <3>1, UnitGiven
    <3> QED BY <1>3, <1>5, <3>2
  <2>4. CASE n # Posted(c)
    <3>1. Carriers(n)' \subseteq Carriers(n)
      BY <2>2
    <3>2. AtMost(k, Pool(n), sem_count', Carriers(n)')
      BY <1>4, <1>8, <2>4, <3>1, UnitsFewer
    <3> QED BY <1>3, <3>2
  <2> QED BY <2>3, <2>4
<1>10. CASE HandsUnit(i, c, s, w)
  <2>1. /\ w # c /\ pc[w] = "wait" /\ handle[w][Awaited(w)] = s
        /\ \A d \in Clients \ {c, w} : reply'[d] = reply[d]
        /\ sem_count[s] < 0 /\ Awaited(w) \in Keys
    BY <1>10, ProdConsAssumption DEF HandsUnit, Wakes, Pops, Awaited
  <2>2. Awaited(w) = Posted(c)
    <3>1. Has(w, Awaited(w), s) /\ Has(c, Posted(c), s)
      BY <1>1, <2>1, UserHas
    <3> QED BY <1>1, <2>1, <3>1 DEF HoldInv, HoldParts, HeldOnce
  <2>3. ASSUME NEW d \in Clients \ {c, w}, Carries(d, n)' PROVE Carries(d, n)
    BY <1>1, <2>1, <2>3, CarriesFrame
  <2>4. Carries(w, n)' => n = Posted(c)
    BY <1>1, <2>1, <2>2 DEF Carries, Awaited
  <2>5. CASE n = Posted(c)
    <3>1. c \in Carriers(n)
      BY <1>1, <1>7, <2>5 DEF Carriers
    <3>2. Carriers(n)' \subseteq (Carriers(n) \ {c}) \cup {w}
      BY <1>6, <2>3 DEF Carriers
    <3>3. AtMost(k, Pool(n), [sem_count EXCEPT ![s] = @ + 1], Carriers(n)')
      BY <1>2, <1>4, <2>1, <3>1, <3>2, UnitHanded
    <3> QED BY <1>3, <1>5, <3>3
  <2>6. CASE n # Posted(c)
    <3>1. Carriers(n)' \subseteq Carriers(n)
      BY <1>6, <2>3, <2>4, <2>6 DEF Carriers
    <3>2. AtMost(k, Pool(n), sem_count', Carriers(n)')
      BY <1>4, <1>8, <2>6, <3>1, UnitsFewer
    <3> QED BY <1>3, <3>2
  <2> QED BY <2>5, <2>6
<1> QED BY <1>9, <1>10

\* Opening, unlinking and closing carry nothing.
LEMMA NamesCarry ==
    ASSUME NEW i, NEW c, Asks(i, c), NEW m \in Keys, NEW h, GetsAnswer(c, h),
           pc[c] \in {OpenLabel(m), UnlinkLabel(m), CloseLabel(m)}, NEW n \in Keys
    PROVE  Carriers(n)' \subseteq Carriers(n)
<1>1. ASSUME NEW d \in Clients \ {c}, Carries(d, n)' PROVE Carries(d, n)
  BY <1>1, CarriesFrame DEF Asks, GetsAnswer
<1>2. ~Carries(c, n)'
  BY DEF Asks, Carries, OpenLabel, UnlinkLabel, CloseLabel
<1> QED BY <1>1, <1>2 DEF Carriers

LEMMA OldNameCounts ==
    ASSUME HoldInv, NEW i, NEW c, Asks(i, c), NEW m \in Keys, NEW s \in Slots,
           \/ OpensOld(i, c, m, s) \/ DropsName(i, c, m, s) \/ ClosesOne(i, c, m, s)
           \/ KeepsName(i, c, m),
           NEW n \in Keys, NEW k \in Int, AtMost(k, Pool(n), sem_count, Carriers(n))
    PROVE  AtMost(k, Pool(n)', sem_count', Carriers(n)')
<1>1. c \in Clients /\ sem_count' = sem_count
  BY DEF Asks, OpensOld, DropsName, ClosesOne, KeepsName, Joins, Unlinks, CloseSlots, sems
<1>2. Carriers(n)' \subseteq Carriers(n)
  BY NamesCarry DEF OpensOld, DropsName, ClosesOne, KeepsName
<1>3. Pool(n)' \subseteq Pool(n)
  <2>1. CASE OpensOld(i, c, m, s)
    <3>1. s \in Live /\ opened_as[s] = m /\ Gains(c, m, s)
      BY <2>1, FoundName, HoldFacts, OpenGains DEF OpensOld
    <3>2. Live' \subseteq Live /\ opened_as' = opened_as
      BY <2>1, HoldFacts DEF OpensOld, Joins, Live, names
    <3> QED BY <3>1, <3>2 DEF Pool, Gains
  <2>2. CASE DropsName(i, c, m, s)
    <3>1. Leaves(c, m)
      BY <2>2, UnlinkLeaves DEF DropsName
    <3>2. Live' = Live /\ opened_as' = [opened_as EXCEPT ![s] = EmptyKey]
      BY <2>2 DEF DropsName, Unlinks, Live
    <3>3. \A t \in Live : opened_as'[t] \in {opened_as[t], EmptyKey} /\ n # EmptyKey
      BY <3>2, HoldFacts
    <3> QED BY <3>1, <3>2, <3>3 DEF Pool, Leaves
  <2>3. CASE ClosesOne(i, c, m, s)
    <3>1. Loses(c, m)
      BY <2>3, CloseLoses DEF ClosesOne
    <3>2. Live' \subseteq Live /\ opened_as' = opened_as
      BY <2>3, HoldFacts DEF ClosesOne, CloseSlots, Live, names
    <3> QED BY <3>1, <3>2 DEF Pool, Loses
  <2>4. CASE KeepsName(i, c, m)
    <3>1. Leaves(c, m)
      BY <2>4, UnlinkLeaves DEF KeepsName
    <3>2. Live' = Live /\ opened_as' = opened_as
      BY <2>4 DEF KeepsName, Live, sems, names
    <3> QED BY <3>1, <3>2 DEF Pool, Leaves
  <2> QED BY <2>1, <2>2, <2>3, <2>4
<1>4. Pool(n) \subseteq Slots /\ sem_count \in [Slots -> Int]
  BY PoolType
<1>5. \A t \in Pool(n)' : t \in Pool(n) /\ sem_count'[t] <= sem_count[t]
  BY <1>1, <1>3, <1>4
<1> QED BY <1>1, <1>2, <1>3, <1>4, <1>5, UnitsFewer

\* A new semaphore joins the pool of its name, with the value it is created with.
LEMMA NewNamePool ==
    ASSUME HoldInv, NEW i, NEW c, Asks(i, c), NEW m \in Keys, NEW s \in Slots,
           OpensNew(i, c, m, s), NEW n \in Keys
    PROVE  /\ Carriers(n)' \subseteq Carriers(n) /\ Pool(n) \subseteq Slots
           /\ s \in Free /\ sem_count' = [sem_count EXCEPT ![s] = FirstValue(m)]
           /\ sem_count \in [Slots -> Int] /\ sem_count' \in [Slots -> Int]
           /\ Pool(n)' = Pool(n) \cup IF n = m THEN {s} ELSE {}
<1>1. Carriers(n)' \subseteq Carriers(n)
  BY NamesCarry DEF OpensNew
<1>2. Pool(n) \subseteq Slots /\ sem_count \in [Slots -> Int]
  BY PoolType
<1>3. /\ s \in Free /\ sem_count' = [sem_count EXCEPT ![s] = FirstValue(m)]
      /\ ref_count' = [ref_count EXCEPT ![s] = 1]
      /\ opened_as' = [opened_as EXCEPT ![s] = m]
  BY DEF OpensNew, Creates, sem_create
<1>4. sem_count' \in [Slots -> Int]
  BY <1>2, <1>3, ProdConsAssumption DEF FirstValue
<1>5. Gains(c, m, s) /\ \A d \in Clients : ~Has(d, n, s)
  BY <1>3, OpenGains, FreeIsNobodys DEF OpensNew
<1>6. c \in Clients /\ Live' = Live \cup {s} /\ s \notin Live
  BY <1>3, HoldFacts DEF Asks, Live, Free
<1>7. /\ opened_as'[s] = m
      /\ \A t \in Live : opened_as'[t] = opened_as[t]
  BY <1>3, <1>6, HoldFacts
<1>8. ASSUME NEW t \in Live PROVE t \in Pool(n)' <=> t \in Pool(n)
  BY <1>5, <1>6, <1>7 DEF Pool, Gains
<1>9. s \in Pool(n)' <=> n = m
  BY <1>5, <1>6, <1>7 DEF Pool, Gains
<1>10. Pool(n) \subseteq Live /\ Pool(n)' \subseteq Live \cup {s}
  BY <1>6 DEF Pool
<1>11. Pool(n)' = Pool(n) \cup IF n = m THEN {s} ELSE {}
  BY <1>6, <1>8, <1>9, <1>10
<1> QED BY <1>1, <1>2, <1>3, <1>4, <1>11

LEMMA NewNameCounts ==
    ASSUME HoldInv, NEW i, NEW c, Asks(i, c), NEW m \in Keys, NEW s \in Slots,
           OpensNew(i, c, m, s), NEW n \in Keys, n = m => FirstValue(m) = 0,
           NEW k \in Int, AtMost(k, Pool(n), sem_count, Carriers(n))
    PROVE  AtMost(k, Pool(n)', sem_count', Carriers(n)')
<1>1. /\ Carriers(n)' \subseteq Carriers(n) /\ Pool(n) \subseteq Slots
      /\ s \in Free /\ sem_count' = [sem_count EXCEPT ![s] = FirstValue(m)]
      /\ sem_count \in [Slots -> Int] /\ sem_count' \in [Slots -> Int]
      /\ Pool(n)' = Pool(n) \cup IF n = m THEN {s} ELSE {}
  BY NewNamePool
<1>2. \A t \in Pool(n)' :
        sem_count'[t] <= 0 \/ (t \in Pool(n) /\ sem_count'[t] <= sem_count[t])
  <2>1. s \notin Pool(n)
    BY <1>1 DEF Pool, Live, Free
  <2>2. \A t \in Pool(n) : sem_count'[t] <= sem_count[t]
    BY <1>1, <2>1
  <2>3. n = m => sem_count'[s] <= 0
    BY <1>1
  <2> QED BY <1>1, <2>2, <2>3
<1>3. Pool(n)' \subseteq Slots
  BY <1>1
<1>4. /\ Carriers(n)' \subseteq Carriers(n) /\ Pool(n) \subseteq Slots
      /\ sem_count \in [Slots -> Int] /\ sem_count' \in [Slots -> Int]
  BY <1>1
<1> QED BY <1>2, <1>3, <1>4, UnitsFewer

LEMMA ServedCounts ==
    ASSUME HoldInv, NEW i, NEW c, Asks(i, c), Served(i, c), NEW n \in Keys,
           n = sem_cons \/ pc[c] # "last_post",
           n = sem_cons \/ \A s \in Slots : ~OpensNew(i, c, n, s),
           NEW k \in Int, AtMost(k, Pool(n), sem_count, Carriers(n))
    PROVE  AtMost(k, Pool(n)', sem_count', Carriers(n)')
<1>1. c \in Clients /\ sem_prod # sem_cons
  BY ProdConsAssumption DEF Asks
<1>2. CASE \/ \E m \in Keys, s \in Slots : \/ OpensOld(i, c, m, s) \/ DropsName(i, c, m, s)
                                           \/ ClosesOne(i, c, m, s)
           \/ \E m \in Keys : KeepsName(i, c, m)
  <2>1. 0 \in Slots
    BY SemServerAssumption DEF Slots
  <2>2. PICK m \in Keys, s \in Slots : \/ OpensOld(i, c, m, s) \/ DropsName(i, c, m, s)
                                       \/ ClosesOne(i, c, m, s) \/ KeepsName(i, c, m)
    BY <1>2, <2>1
  <2> QED BY <2>2, OldNameCounts
<1>3. ASSUME NEW m \in Keys, NEW s \in Slots, OpensNew(i, c, m, s)
      PROVE  AtMost(k, Pool(n)', sem_count', Carriers(n)')
  <2>1. n = m => FirstValue(m) = 0
    BY <1>1, <1>3 DEF FirstValue
  <2> QED BY <1>3, <2>1, NewNameCounts
<1>4. CASE \E s \in Slots : TakesUnit(i, c, s) \/ SleepsFor(i, c, s)
  BY <1>4, WaitCounts
<1>5. CASE \E s \in Slots : GivesUnit(i, c, s)
  BY <1>1, <1>5, PostCounts
<1>6. CASE \E s \in Slots, w \in Clients : HandsUnit(i, c, s, w)
  BY <1>6, PostCounts
<1> QED BY <1>2, <1>3, <1>4, <1>5, <1>6 DEF Served

LEMMA TurnoverCounts ==
    ASSUME HoldInv, Turnover, NEW n \in Keys
    PROVE  /\ Pool(n)' = Pool(n) /\ sem_count' = sem_count
           /\ Carriers(n)' \subseteq Carriers(n)
<1>1. /\ UNCHANGED <<sem_count, ref_count, opened_as>> /\ unread' \subseteq unread
      /\ UNCHANGED <<client, reply, pc, handle>>
  BY DEF Turnover, sems, names
<1>2. \A d \in Clients : Same(d)
  BY <1>1, SameFrame
<1>3. Pool(n)' = Pool(n)
  BY <1>1, <1>2, PoolSame
<1>4. ASSUME NEW d \in Clients, Carries(d, n)' PROVE Carries(d, n)
  BY <1>1, <1>4, CarriesFrame
<1> QED BY <1>1, <1>3, <1>4 DEF Carriers

-----------------------------------------------------------------------------
(***************************************************************************)
(* Until somebody ends.                                                    *)
(***************************************************************************)

\* A semaphore in use is found under its name.
LEMMA PackedNames ==
    ASSUME HoldInv, Packed, NEW s \in Live
    PROVE  opened_as[s] \in Keys /\ ~HashTableMisses(sem_name_map, opened_as[s])
<1>1. s \in Slots /\ ~unlinked[s]
  BY HoldFacts DEF Packed
<1>2. PICK r \in UsedRows(sem_name_map) : sem_name_map.entry_array[r] = s
  BY <1>1, HoldFacts DEF NameInv, NameTableMirrorsSlots, LinkedSlotsHaveRows
<1>3. sem_name_map.str_hash[r] # EmptyKey
  BY DEF Packed, KeyOf
<1>4. /\ opened_as[s] = sem_name_map.str_hash[r]
      /\ Matching(sem_name_map, sem_name_map.str_hash[r]) = {r}
  BY <1>2, <1>3, HoldFacts DEF NameInv, LookupIsSound
<1> QED BY <1>1, <1>3, <1>4, HoldFacts DEF HashTableMisses

LEMMA MissedPool ==
    ASSUME HoldInv, Packed, NEW n \in Keys, HashTableMisses(sem_name_map, n)
    PROVE  Pool(n) = {}
<1> SUFFICES ASSUME NEW s \in Pool(n) PROVE FALSE
  OBVIOUS
<1>1. s \in Live /\ opened_as[s] \in Keys /\ ~HashTableMisses(sem_name_map, opened_as[s])
  BY PackedNames DEF Pool
<1>2. opened_as[s] = n
  BY <1>1, HoldFacts DEF Pool, HoldParts, HeldLive
<1> QED BY <1>1, <1>2

\* Who carries a unit has the semaphore.
LEMMA CarrierHas ==
    ASSUME HoldInv, NEW n \in Keys, NEW c \in Carriers(n)
    PROVE  Pool(n) # {}
<1>1. c \in Clients /\ pc[c] \in {"wait", "getchar", "post"}
  BY DEF Carriers, Carries
<1>2. Has(c, n, handle[c][n])
  BY <1>1 DEF Has, Holds, Opened, HoldLabels, Loop, OpenLabel
<1> QED BY <1>1, <1>2, PoolFacts

\* The calls of those that run.
LEMMA RunningServed ==
    ASSUME NEW i, NEW c, Asks(i, c), Served(i, c), AllRunning
    PROVE  \/ \E n \in Keys, s \in Slots : OpensOld(i, c, n, s) \/ OpensNew(i, c, n, s)
           \/ \E s \in Slots : TakesUnit(i, c, s) \/ SleepsFor(i, c, s) \/ GivesUnit(i, c, s)
           \/ \E s \in Slots, w \in Clients : HandsUnit(i, c, s, w)
<1>1. pc[c] \in Running
  BY DEF AllRunning, Asks
<1>2. \A n \in Keys : pc[c] # UnlinkLabel(n) /\ pc[c] # CloseLabel(n)
  BY <1>1 DEF Running, UnlinkLabel, CloseLabel
<1>3. /\ \A n \in Keys, s \in Slots : ~DropsName(i, c, n, s) /\ ~ClosesOne(i, c, n, s)
      /\ \A n \in Keys : ~KeepsName(i, c, n)
  BY <1>2 DEF DropsName, ClosesOne, KeepsName
<1> QED BY <1>3 DEF Served

LEMMA NewNamePacked ==
    ASSUME HoldInv, Packed, NEW i, NEW c, Asks(i, c), NEW n \in Keys, NEW s \in Slots,
           OpensNew(i, c, n, s)
    PROVE  Packed'
<1>1. /\ s \in Free /\ HashTableMisses(sem_name_map, n)
      /\ HashTableInsert(sem_name_map, n, s, sem_name_map')
      /\ ref_count' = [ref_count EXCEPT ![s] = 1]
      /\ unlinked' = [unlinked EXCEPT ![s] = FALSE]
  BY DEF OpensNew, Creates, sem_create
<1>2. PICK row \in Rows : /\ IsFirst(row, FreeRows(sem_name_map))
                          /\ Table' = [Table EXCEPT ![row] = s]
                          /\ KeyOf' = WriteKey(sem_name_map, row, n)
  BY <1>1, InsertedRow, HoldFacts
<1>3. /\ Table \in [Rows -> Slots \cup {NULL}] /\ KeyOf \in [Rows -> Keys \cup {EmptyKey}]
      /\ NULL \notin Slots /\ n # EmptyKey
  BY TableType, NullIsNoSlot, HoldFacts
<1>4. /\ UsedRows(sem_name_map) = {r \in Rows : Table[r] # NULL}
      /\ UsedRows(sem_name_map)' = {r \in Rows : Table'[r] # NULL}
      /\ FreeRows(sem_name_map) = {r \in Rows : Table[r] = NULL}
  BY DEF UsedRows, FreeRows, Table
<1>5. UsedRows(sem_name_map)' = UsedRows(sem_name_map) \cup {row}
  BY <1>2, <1>3, <1>4
<1>6. \A r \in Rows : r \in UsedRows(sem_name_map) <=> r < row
  <2>1. \A r \in Rows : r \in Int
    BY HashTableAssumption DEF Rows
  <2>2. row \notin UsedRows(sem_name_map)
    BY <1>2, <1>4 DEF IsFirst
  <2>3. ASSUME NEW r \in Rows, r < row PROVE r \in UsedRows(sem_name_map)
    BY <1>2, <1>4, <2>1, <2>3 DEF IsFirst
  <2>4. ASSUME NEW r \in UsedRows(sem_name_map) PROVE r < row
    <3>1. r \in Rows /\ ~(row < r) /\ r # row
      BY <1>4, <2>2 DEF Packed
    <3> QED BY <2>1, <3>1
  <2> QED BY <2>3, <2>4
<1>7. ASSUME NEW r \in UsedRows(sem_name_map)' PROVE KeyOf'[r] # EmptyKey
  <2>1. CASE r = row
    BY <1>2, <1>3, <2>1 DEF WriteKey
  <2>2. CASE r # row
    <3>1. r \in UsedRows(sem_name_map) /\ r \in Rows /\ r < row
      BY <1>4, <1>5, <1>6, <2>2
    <3>2. ~(row < r)
      BY <3>1, HashTableAssumption DEF Rows
    <3>3. KeyOf'[r] = KeyOf[r]
      BY <1>2, <2>2, <3>1, <3>2 DEF WriteKey, KeyOf
    <3> QED BY <3>1, <3>3 DEF Packed
  <2> QED BY <2>1, <2>2
<1>8. ASSUME NEW r \in UsedRows(sem_name_map)', NEW q \in Rows, q < r
      PROVE  q \in UsedRows(sem_name_map)'
  BY <1>5, <1>6, <1>8 DEF Packed
<1>9. ASSUME NEW t \in Live' PROVE ~unlinked'[t]
  <2>1. t \in Slots /\ (t = s \/ t \in Live)
    BY <1>1, HoldFacts DEF Live
  <2>2. unlinked \in [Slots -> BOOLEAN]
    BY HoldFacts DEF TypeOK
  <2>3. CASE t = s
    BY <1>1, <2>1, <2>2, <2>3
  <2>4. CASE t # s
    BY <1>1, <2>1, <2>2, <2>4 DEF Packed
  <2> QED BY <2>3, <2>4
<1> QED BY <1>7, <1>8, <1>9 DEF Packed

LEMMA PackedFrame ==
    ASSUME Packed, UNCHANGED <<sem_name_map, unlinked>>, Live' \subseteq Live
    PROVE  Packed'
BY DEF Packed, KeyOf

LEMMA ServedPacked ==
    ASSUME HoldInv, Packed, NEW i, NEW c, Asks(i, c), Served(i, c), AllRunning
    PROVE  Packed'
<1>1. ASSUME NEW n \in Keys, NEW s \in Slots, OpensOld(i, c, n, s) PROVE Packed'
  <2>1. UNCHANGED <<sem_name_map, unlinked>> /\ Live' \subseteq Live
    BY <1>1, HoldFacts DEF OpensOld, Joins, names, Live
  <2> QED BY <2>1, PackedFrame
<1>2. ASSUME NEW s \in Slots, NEW w \in Clients,
             \/ TakesUnit(i, c, s) \/ SleepsFor(i, c, s) \/ GivesUnit(i, c, s)
             \/ HandsUnit(i, c, s, w)
      PROVE  Packed'
  <2>1. UNCHANGED <<sem_name_map, unlinked, ref_count>>
    BY <1>2 DEF TakesUnit, SleepsFor, GivesUnit, HandsUnit, Counts, Sleeps, Wakes, Pops, names
  <2> QED BY <2>1, PackedFrame DEF Live
<1>3. c \in Clients
  BY DEF Asks
<1> QED BY <1>1, <1>2, <1>3, NewNamePacked, RunningServed

\* The set of semaphores does not change, unless it is a first sem_open.
LEMMA RunningPool ==
    ASSUME HoldInv, NEW i, NEW c, Asks(i, c), Served(i, c), AllRunning, NEW n \in Keys,
           \A s \in Slots : ~OpensNew(i, c, n, s)
    PROVE  Pool(n)' = Pool(n)
<1>1. ASSUME NEW m \in Keys, NEW s \in Slots, OpensOld(i, c, m, s) PROVE Pool(n)' = Pool(n)
  <2>1. s \in Live /\ opened_as[s] = m /\ Gains(c, m, s)
    BY <1>1, FoundName, HoldFacts, OpenGains DEF OpensOld
  <2>2. Live' = Live /\ opened_as' = opened_as
    <3>1. /\ s \in Slots /\ ref_count' = [ref_count EXCEPT ![s] = @ + 1]
          /\ opened_as' = opened_as
      BY <1>1 DEF OpensOld, Joins, names
    <3>2. ref_count \in [Slots -> Nat] /\ ref_count[s] # 0
      BY <2>1, HoldFacts DEF Live
    <3> QED BY <3>1, <3>2 DEF Live
  <2>3. ASSUME NEW t \in Live PROVE t \in Pool(n)' <=> t \in Pool(n)
    BY <2>1, <2>2 DEF Pool, Gains
  <2> QED BY <2>2, <2>3 DEF Pool
<1>2. ASSUME NEW m \in Keys, NEW s \in Slots, OpensNew(i, c, m, s) PROVE Pool(n)' = Pool(n)
  BY <1>2, NewNamePool
<1>3. ASSUME NEW s \in Slots, NEW w \in Clients,
             \/ TakesUnit(i, c, s) \/ SleepsFor(i, c, s) \/ GivesUnit(i, c, s)
             \/ HandsUnit(i, c, s, w)
      PROVE  Pool(n)' = Pool(n)
  <2>1. UNCHANGED <<ref_count, opened_as>>
    BY <1>3 DEF TakesUnit, SleepsFor, GivesUnit, HandsUnit, Counts, Sleeps, Wakes, Pops, names
  <2>2. \A d \in Clients : Same(d)
    BY <1>3, UnitsSame
  <2> QED BY <2>1, <2>2, PoolSame
<1>4. c \in Clients
  BY DEF Asks
<1> QED BY <1>1, <1>2, <1>3, <1>4, RunningServed

\* The first sem_open of sem_prod makes CAPACITY places.
LEMMA FirstPlaces ==
    ASSUME HoldInv, Packed, PlacesInv, NEW i, NEW c, Asks(i, c), NEW s \in Slots,
           OpensNew(i, c, sem_prod, s)
    PROVE  PlacesInv'
<1>1. sem_prod \in Keys /\ CAPACITY \in Nat /\ FirstValue(sem_prod) = CAPACITY
  BY ProdConsAssumption DEF FirstValue
<1>2. Pool(sem_prod) = {}
  BY <1>1, MissedPool DEF OpensNew
<1>3. Carriers(sem_prod) = {}
  BY <1>1, <1>2, CarrierHas
<1>4. /\ Carriers(sem_prod)' \subseteq Carriers(sem_prod)
      /\ sem_count' = [sem_count EXCEPT ![s] = CAPACITY]
      /\ sem_count \in [Slots -> Int] /\ sem_count' \in [Slots -> Int]
      /\ Pool(sem_prod)' = Pool(sem_prod) \cup {s}
  BY <1>1, NewNamePool
<1>5. /\ sem_count' \in [Slots -> Int] /\ sem_count'[s] = CAPACITY
      /\ Pool(sem_prod)' = {s} /\ Carriers(sem_prod)' = {}
  BY <1>2, <1>3, <1>4
<1>6. AtMost(CAPACITY, Pool(sem_prod)', sem_count', Carriers(sem_prod)')
  <2>1. PICK count \in [Slots -> Int] : count = sem_count'
    BY <1>5
  <2>2. AtMost(count[s], {s}, count, {})
    BY <1>1, <1>5, <2>1, SlotAlone
  <2> QED BY <1>5, <2>1, <2>2
<1>7. produced = 0 /\ consumed = 0 /\ produced' = produced /\ consumed' = consumed
  BY <1>2 DEF PlacesInv, Asks
<1>8. consumed' + CAPACITY - produced' = CAPACITY
  BY <1>1, <1>7
<1> QED BY <1>5, <1>6, <1>8 DEF PlacesInv

LEMMA ServedPlaces ==
    ASSUME HoldInv, Packed, PlacesInv, NEW i, NEW c, Asks(i, c), Served(i, c), AllRunning
    PROVE  PlacesInv'
<1>1. CASE \E s \in Slots : OpensNew(i, c, sem_prod, s)
  BY <1>1, FirstPlaces
<1>2. CASE \A s \in Slots : ~OpensNew(i, c, sem_prod, s)
  <2>1. sem_prod \in Keys /\ CAPACITY \in Nat /\ produced \in Nat /\ consumed \in Nat
    BY ProdConsAssumption DEF HoldInv, ProgramInv
  <2>2. UNCHANGED <<produced, consumed>> /\ pc[c] # "last_post"
    BY DEF Asks, AllRunning, Running
  <2>3. Pool(sem_prod)' = Pool(sem_prod)
    BY <1>2, <2>1, RunningPool
  <2>4. CASE Pool(sem_prod) = {}
    BY <2>2, <2>3, <2>4 DEF PlacesInv
  <2>5. CASE Pool(sem_prod) # {}
    <3>1. PICK k \in Int : k = consumed + CAPACITY - produced
      BY <2>1
    <3>2. AtMost(k, Pool(sem_prod), sem_count, Carriers(sem_prod))
      BY <2>5, <3>1 DEF PlacesInv
    <3>3. AtMost(k, Pool(sem_prod)', sem_count', Carriers(sem_prod)')
      BY <1>2, <2>1, <2>2, <3>2, ServedCounts
    <3>4. k = consumed' + CAPACITY - produced'
      BY <2>2, <3>1
    <3> QED BY <2>3, <2>5, <3>3, <3>4 DEF PlacesInv
  <2> QED BY <2>4, <2>5
<1> QED BY <1>1, <1>2

-----------------------------------------------------------------------------
(***************************************************************************)
(* What is counted, along an execution.                                    *)
(***************************************************************************)

LEMMA StepElements ==
    ASSUME HoldInv, ElementsInv, Pool(sem_cons)' = Pool(sem_cons), sem_count' = sem_count,
           NEW c, Quiet \/ Produces(c) \/ Consumes(c)
    PROVE  ElementsInv'
<1>1. produced \in Nat /\ consumed \in Nat /\ sem_cons \in Keys
  BY ProdConsAssumption DEF HoldInv, ProgramInv
<1>2. PICK k \in Int : k = produced - consumed
  BY <1>1
<1>3. Pool(sem_cons) \subseteq Slots /\ sem_count \in [Slots -> Int]
  BY PoolType
<1>4. AtMost(k, Pool(sem_cons), sem_count, Carriers(sem_cons))
  BY <1>2 DEF ElementsInv
<1>5. CASE Quiet
  <2>1. Carriers(sem_cons)' \subseteq Carriers(sem_cons) /\ UNCHANGED <<produced, consumed>>
    BY <1>1, <1>5 DEF Quiet
  <2>2. AtMost(k, Pool(sem_cons), sem_count, Carriers(sem_cons)')
    BY <1>3, <1>4, <2>1, UnitsFewer
  <2> QED BY <1>2, <2>1, <2>2 DEF ElementsInv
<1>6. CASE Produces(c)
  <2>1. AtMost(k + 1, Pool(sem_cons), sem_count, Carriers(sem_cons)')
    BY <1>3, <1>4, <1>6, UnitMade DEF Produces
  <2>2. k + 1 = produced' - consumed'
    BY <1>1, <1>2, <1>6 DEF Produces
  <2> QED BY <2>1, <2>2 DEF ElementsInv
<1>7. CASE Consumes(c)
  <2>1. AtMost(k - 1, Pool(sem_cons), sem_count, Carriers(sem_cons)')
    BY <1>3, <1>4, <1>7, UnitUsed DEF Consumes
  <2>2. k - 1 = produced' - consumed'
    BY <1>1, <1>2, <1>7 DEF Consumes
  <2> QED BY <2>1, <2>2 DEF ElementsInv
<1> QED BY <1>5, <1>6, <1>7

LEMMA StepPlaces ==
    ASSUME HoldInv, PlacesInv, UNCHANGED vars, \A n \in Keys : Pool(n)' = Pool(n),
           NEW c, Quiet \/ Produces(c) \/ Consumes(c)
    PROVE  PlacesInv'
<1>1. /\ produced \in Nat /\ consumed \in Nat /\ sem_prod \in Keys /\ sem_cons \in Keys
      /\ CAPACITY \in Nat
      /\ sem_count' = sem_count /\ Pool(sem_prod)' = Pool(sem_prod)
  BY ProdConsAssumption DEF HoldInv, ProgramInv, vars, sems
<1>2. PICK k \in Int : k = consumed + CAPACITY - produced
  BY <1>1
<1>3. Pool(sem_prod) \subseteq Slots /\ sem_count \in [Slots -> Int]
  BY PoolType
<1>4. Pool(sem_prod) # {} => AtMost(k, Pool(sem_prod), sem_count, Carriers(sem_prod))
  BY <1>2 DEF PlacesInv
<1>5. CASE Quiet
  <2>1. Carriers(sem_prod)' \subseteq Carriers(sem_prod) /\ UNCHANGED <<produced, consumed>>
    BY <1>1, <1>5 DEF Quiet
  <2>2. CASE Pool(sem_prod) = {}
    BY <1>1, <2>1, <2>2 DEF PlacesInv
  <2>3. CASE Pool(sem_prod) # {}
    <3>1. AtMost(k, Pool(sem_prod), sem_count, Carriers(sem_prod)')
      BY <1>3, <1>4, <2>1, <2>3, UnitsFewer
    <3> QED BY <1>1, <1>2, <2>1, <2>3, <3>1 DEF PlacesInv
  <2> QED BY <2>2, <2>3
<1>6. CASE Produces(c)
  <2>1. Pool(sem_prod) # {}
    BY <1>1, <1>6, CarrierHas DEF Produces
  <2>2. AtMost(k - 1, Pool(sem_prod), sem_count, Carriers(sem_prod)')
    BY <1>3, <1>4, <1>6, <2>1, UnitUsed DEF Produces
  <2>3. k - 1 = consumed' + CAPACITY - produced'
    BY <1>1, <1>2, <1>6 DEF Produces
  <2> QED BY <1>1, <2>1, <2>2, <2>3 DEF PlacesInv
<1>7. CASE Consumes(c)
  <2>1. Pool(sem_prod) # {}
    <3>1. c \in Clients /\ pc[c] \in {"wait", "post"}
      BY <1>7, ProdConsAssumption DEF Consumes, Carriers, Carries
    <3>2. Has(c, sem_prod, handle[c][sem_prod])
      BY <3>1, UserHas
    <3> QED BY <1>1, <3>1, <3>2, PoolFacts
  <2>2. AtMost(k + 1, Pool(sem_prod), sem_count, Carriers(sem_prod)')
    BY <1>3, <1>4, <1>7, <2>1, UnitMade DEF Consumes
  <2>3. k + 1 = consumed' + CAPACITY - produced'
    BY <1>1, <1>2, <1>7 DEF Consumes
  <2> QED BY <1>1, <2>1, <2>2, <2>3 DEF PlacesInv
<1> QED BY <1>5, <1>6, <1>7

\* Steps of the clients, and those that change nothing.
LEMMA StepCounts ==
    ASSUME CountInv, UNCHANGED vars, \A d \in Clients : Same(d),
           NEW c, Quiet \/ Produces(c) \/ Consumes(c), AllRunning' => AllRunning
    PROVE  ElementsInv' /\ (AllRunning' => Packed' /\ PlacesInv')
<1>1. HoldInv /\ ElementsInv /\ (AllRunning => Packed /\ PlacesInv)
  BY DEF CountInv
<1>2. UNCHANGED <<sem_count, ref_count, opened_as, sem_name_map, unlinked>>
  BY DEF vars, sems, names
<1>3. \A n \in Keys : Pool(n)' = Pool(n)
  BY <1>2, PoolSame
<1>4. ElementsInv'
  BY <1>1, <1>2, <1>3, StepElements, ProdConsAssumption
<1>5. AllRunning' => PlacesInv'
  BY <1>1, <1>3, StepPlaces
<1>6. AllRunning' => Packed'
  BY <1>1, <1>2, PackedFrame DEF Live
<1> QED BY <1>4, <1>5, <1>6

LEMMA ServeCounts ==
    ASSUME CountInv, NodesLast, SlotsLast, Serve, UNCHANGED program
    PROVE  ElementsInv' /\ (AllRunning' => Packed' /\ PlacesInv')
<1>1. HoldInv /\ ElementsInv /\ (AllRunning => Packed /\ PlacesInv)
  BY DEF CountInv
<1>2. /\ UNCHANGED <<pc, produced, consumed>> /\ AllRunning' = AllRunning
      /\ sem_cons \in Keys /\ sem_prod \in Keys /\ produced \in Nat /\ consumed \in Nat
      /\ CAPACITY \in Nat
  BY <1>1, ProdConsAssumption DEF program, AllRunning, HoldInv, ProgramInv
<1>3. CASE Turnover
  <2>1. /\ \A n \in Keys : Pool(n)' = Pool(n) /\ Carriers(n)' \subseteq Carriers(n)
        /\ sem_count' = sem_count
    BY <1>1, <1>2, <1>3, TurnoverCounts
  <2>2. \A n \in Keys : Pool(n) \subseteq Slots /\ sem_count \in [Slots -> Int]
    BY <1>1, PoolType
  <2>3. ASSUME NEW n \in Keys, NEW k \in Int, AtMost(k, Pool(n), sem_count, Carriers(n))
        PROVE  AtMost(k, Pool(n)', sem_count', Carriers(n)')
    <3>1. AtMost(k, Pool(n), sem_count, Carriers(n)')
      BY <2>1, <2>2, <2>3, UnitsFewer
    <3> QED BY <2>1, <3>1
  <2>4. ElementsInv'
    BY <1>1, <1>2, <2>3 DEF ElementsInv
  <2>5. AllRunning' => PlacesInv'
    BY <1>1, <1>2, <2>1, <2>3 DEF PlacesInv
  <2>6. AllRunning' => Packed'
    <3>1. UNCHANGED <<sem_name_map, unlinked>> /\ Live' = Live
      BY <1>3 DEF Turnover, sems, names, Live
    <3> QED BY <1>1, <1>2, <3>1, PackedFrame
  <2> QED BY <2>4, <2>5, <2>6
<1>4. ASSUME NEW i \in Procs, NEW c \in Clients, Asks(i, c), Served(i, c)
      PROVE  ElementsInv' /\ (AllRunning' => Packed' /\ PlacesInv')
  <2>1. ElementsInv'
    <3>1. PICK k \in Int : k = produced - consumed
      BY <1>2
    <3>2. AtMost(k, Pool(sem_cons), sem_count, Carriers(sem_cons))
      BY <1>1, <3>1 DEF ElementsInv
    <3>3. AtMost(k, Pool(sem_cons)', sem_count', Carriers(sem_cons)')
      BY <1>1, <1>2, <1>4, <3>2, ServedCounts
    <3> QED BY <1>2, <3>1, <3>3 DEF ElementsInv
  <2> QED BY <1>1, <1>2, <1>4, <2>1, ServedPacked, ServedPlaces
<1> QED BY <1>1, <1>3, <1>4, ServeEffect

LEMMA CountInvInit == ProdConsInit => CountInv
<1> SUFFICES ASSUME ProdConsInit PROVE CountInv
  OBVIOUS
<1>1. /\ HoldInv /\ produced = 0 /\ consumed = 0
      /\ \A c \in Clients : pc[c] = "open_prod"
      /\ sem_name_map = NewHashTable /\ Live = {}
  BY HoldInvInit DEF ProdConsInit, LinuxInit, Live
<1>2. \A n \in Keys : Pool(n) = {} /\ Carriers(n) = {}
  BY <1>1 DEF Pool, Carriers, Carries
<1>3. ElementsInv
  <2>1. Units({}, sem_count, {}) = {}
    BY DEF Units
  <2>2. AtMost(0, {}, sem_count, {})
    BY <2>1, FS_EmptySet DEF AtMost
  <2> QED BY <1>1, <1>2, <2>2, ProdConsAssumption DEF ElementsInv
<1>4. Packed
  BY <1>1 DEF Packed, UsedRows, NewHashTable
<1>5. PlacesInv
  BY <1>1, <1>2, ProdConsAssumption DEF PlacesInv
<1> QED BY <1>1, <1>3, <1>4, <1>5 DEF CountInv

LEMMA CountInvNext ==
    ASSUME CountInv, NodesLast, SlotsLast, ~KillsSleepers, [ProdConsNext]_pvars
    PROVE  CountInv'
<1>1. HoldInv /\ HoldInv' /\ LinuxInv /\ ProgramInv
  BY HoldInvNext DEF CountInv, HoldInv
<1>2. CASE Serve /\ UNCHANGED program
  BY <1>1, <1>2, ServeCounts DEF CountInv
<1>3. ASSUME NEW c \in Clients, Step(c) PROVE CountInv'
  BY <1>1, <1>3, ClientSteps, StepCarries, StepCounts DEF CountInv
<1>4. CASE UNCHANGED pvars
  <2>1. UNCHANGED vars /\ \A d \in Clients : Same(d)
    BY <1>1, <1>4, ProgramStutter
  <2>2. UNCHANGED <<client, unread, reply, pc, produced, consumed>>
    BY <1>4 DEF pvars, lvars, sockets, program
  <2>3. Quiet /\ (AllRunning' => AllRunning)
    BY <2>2, CarriesFrame DEF Quiet, Carriers, AllRunning
  <2> QED BY <1>1, <2>1, <2>3, StepCounts DEF CountInv
<1> QED BY <1>2, <1>3, <1>4 DEF ProdConsNext

LEMMA CountInvariant ==
    ASSUME ~KillsSleepers
    PROVE  ProdConsSpec /\ []NodesLast /\ []SlotsLast => []CountInv
<1>1. CountInv /\ NodesLast /\ SlotsLast /\ [ProdConsNext]_pvars => CountInv'
  BY CountInvNext
<1> QED BY <1>1, CountInvInit, PTL DEF ProdConsSpec

\* What is counted is never negative.
LEMMA BufferIsBounded == CountInv => BoundedBuffer
<1> SUFFICES ASSUME CountInv PROVE BoundedBuffer
  OBVIOUS
<1>1. produced \in Nat /\ consumed \in Nat /\ CAPACITY \in Nat
  BY ProdConsAssumption DEF CountInv, HoldInv, ProgramInv
<1>2. ASSUME NEW k \in Int, NEW S, NEW C, AtMost(k, S, sem_count, C) PROVE 0 <= k
  <2>1. Cardinality(Units(S, sem_count, C)) \in Nat
    BY <1>2, FS_CardinalityType DEF AtMost
  <2> QED BY <1>2, <2>1 DEF AtMost
<1>3. consumed <= produced
  <2>1. 0 <= produced - consumed
    BY <1>1, <1>2 DEF CountInv, ElementsInv
  <2> QED BY <1>1, <2>1
<1>4. ASSUME AllRunning PROVE produced <= consumed + CAPACITY
  <2>1. CASE Pool(sem_prod) = {}
    BY <1>1, <1>4, <2>1 DEF CountInv, PlacesInv
  <2>2. CASE Pool(sem_prod) # {}
    <3>1. 0 <= consumed + CAPACITY - produced
      BY <1>1, <1>2, <1>4, <2>2 DEF CountInv, PlacesInv
    <3> QED BY <1>1, <3>1
  <2> QED BY <2>1, <2>2
<1> QED BY <1>3, <1>4 DEF BoundedBuffer, AllRunning

-----------------------------------------------------------------------------
(***************************************************************************)
(* Two slots for each client are enough, also with those that are never    *)
(* given back: each was created for one sem_open of one client.            *)
(***************************************************************************)

\* The client c has still to open n.
Pending(c, n) ==
    \/ pc[c] = "open_prod" /\ (n = sem_cons \/ reply[c] = <<>>)
    \/ pc[c] = "open_cons" /\ n = sem_cons /\ reply[c] = <<>>
OpensDone == {x \in Clients \X Keys : ~Pending(x[1], x[2])}

SlotsInv == Cardinality(Live) <= Cardinality(OpensDone)

LEMMA PairsAreFinite ==
    ASSUME IsFiniteSet(Clients)
    PROVE  /\ IsFiniteSet(Clients \X Keys)
           /\ Cardinality(Clients \X Keys) = 2 * Cardinality(Clients)
           /\ IsFiniteSet(OpensDone) /\ Cardinality(OpensDone) \in Nat
           /\ IsFiniteSet(OpensDone') /\ Cardinality(OpensDone') \in Nat
<1>1. IsFiniteSet(Keys) /\ Cardinality(Keys) = 2
  <2>1. Keys = {sem_prod} \cup {sem_cons} /\ sem_cons \notin {sem_prod}
    BY ProdConsAssumption
  <2>2. IsFiniteSet({sem_prod}) /\ Cardinality({sem_prod}) = 1
    BY FS_Singleton
  <2> QED BY <2>1, <2>2, FS_AddElement
<1>2. IsFiniteSet(Clients \X Keys) /\ Cardinality(Clients) \in Nat
      /\ Cardinality(Clients \X Keys) = Cardinality(Clients) * 2
  BY <1>1, FS_Product, FS_CardinalityType
<1>3. /\ OpensDone \subseteq Clients \X Keys /\ OpensDone' \subseteq Clients \X Keys
      /\ Cardinality(Clients) * 2 = 2 * Cardinality(Clients)
  BY <1>2 DEF OpensDone
<1>4. IsFiniteSet(OpensDone) /\ IsFiniteSet(OpensDone')
  BY <1>2, <1>3, FS_Subset
<1> QED BY <1>2, <1>3, <1>4, FS_CardinalityType

LEMMA LiveIsFinite ==
    ASSUME NEW S \in SUBSET Slots
    PROVE  /\ IsFiniteSet(S) /\ Cardinality(S) \in Nat
           /\ S # Slots => Cardinality(S) < INITIAL_SEM
           /\ S = Slots => Cardinality(S) = INITIAL_SEM
<1>1. IsFiniteSet(Slots) /\ Cardinality(Slots) = INITIAL_SEM /\ INITIAL_SEM \in Nat
  <2>1. /\ INITIAL_SEM \in Nat \ {0} /\ INITIAL_SEM - 1 \in Int /\ ~(0 > INITIAL_SEM - 1)
        /\ (INITIAL_SEM - 1) - 0 + 1 = INITIAL_SEM
    BY SemServerAssumption
  <2> QED BY <2>1, FS_Interval DEF Slots
<1>2. /\ IsFiniteSet(S) /\ Cardinality(S) <= Cardinality(Slots)
      /\ Cardinality(Slots) = Cardinality(S) => Slots = S
  BY <1>1, FS_Subset
<1>3. Cardinality(S) \in Nat
  BY <1>2, FS_CardinalityType
<1> QED BY <1>1, <1>2, <1>3

\* A client that asks for a semaphore has it still to open.
LEMMA CreatingIsPending ==
    ASSUME HoldInv, NEW i \in alive, Creating(i)
    PROVE  \E c \in Clients, n \in Keys : Pending(c, n)
<1>1. PICK c \in Clients : c = conn_array[i]
  BY HoldFacts
<1>2. c \in unread /\ call[c].op = "OPEN"
  BY <1>1 DEF Creating
<1>3. ProcessInv(c) /\ ClientInv(c) /\ client[c] \in {"new", "idle", "calling", "gone"}
  BY ProgramFacts DEF HoldInv
<1>4. client[c] = "calling" /\ reply[c] = <<>>
  <2>1. client[c] # "gone"
    BY <1>2, <1>3 DEF ProcessInv, Disconnect
  <2> QED BY <1>2, <1>3, <2>1 DEF ClientInv
<1>5. PICK n \in Keys : OpenCall(c, n)
  <2>1. CallMatches(c)
    BY <1>3, <1>4 DEF ProcessInv
  <2>2. \A n \in Keys : ~UnlinkCall(c, n)
    BY <1>2 DEF UnlinkCall
  <2>3. \A n \in Keys : ~CloseCall(c, n)
    BY <1>2 DEF CloseCall
  <2>4. ~WaitCall(c) /\ ~PostCall(c)
    BY <1>2 DEF WaitCall, PostCall
  <2> QED BY <2>1, <2>2, <2>3, <2>4 DEF CallMatches
<1>6. Pending(c, n)
  BY <1>4, <1>5, ProdConsAssumption DEF OpenCall, OpenLabel, Pending
<1> QED BY <1>6

LEMMA SlotsAreLeft ==
    ASSUME HoldInv, SlotsInv, IsFiniteSet(Clients), 2 * Cardinality(Clients) <= INITIAL_SEM
    PROVE  SlotsLast
<1> SUFFICES ASSUME NEW i \in alive, Creating(i), Free = {} PROVE FALSE
  BY DEF SlotsLast
<1>1. Live = Slots
  BY DEF Live, Free
<1>2. Cardinality(Live) = INITIAL_SEM /\ INITIAL_SEM \in Nat
  BY <1>1, LiveIsFinite, SemServerAssumption
<1>3. /\ IsFiniteSet(Clients \X Keys)
      /\ Cardinality(Clients \X Keys) = 2 * Cardinality(Clients)
      /\ Cardinality(OpensDone) \in Nat /\ Cardinality(Clients) \in Nat
  BY PairsAreFinite, FS_CardinalityType
<1>4. /\ OpensDone \subseteq Clients \X Keys
      /\ Cardinality(OpensDone) <= Cardinality(Clients \X Keys)
      /\ Cardinality(Clients \X Keys) = Cardinality(OpensDone) => Clients \X Keys = OpensDone
  <2>1. OpensDone \subseteq Clients \X Keys
    BY DEF OpensDone
  <2> QED BY <1>3, <2>1, FS_Subset
<1>5. PICK c \in Clients, n \in Keys : Pending(c, n)
  BY CreatingIsPending
<1>6. <<c, n>> \in Clients \X Keys /\ <<c, n>> \notin OpensDone
  BY <1>5 DEF OpensDone
<1>7. Cardinality(Clients \X Keys) # Cardinality(OpensDone)
  BY <1>4, <1>6
<1> QED BY <1>2, <1>3, <1>4, <1>7 DEF SlotsInv

\* What is done stays done; a new slot is one more that is done.
LEMMA SlotsFrame ==
    ASSUME HoldInv, IsFiniteSet(Clients), SlotsInv, Live' \subseteq Live,
           OpensDone \subseteq OpensDone'
    PROVE  SlotsInv'
<1>1. Live \subseteq Slots
  BY HoldFacts
<1>2. IsFiniteSet(Live) /\ Cardinality(Live) \in Nat /\ Cardinality(Live') \in Nat
  <2>1. Live' \subseteq Slots
    BY <1>1
  <2> QED BY <1>1, <2>1, LiveIsFinite
<1>3. Cardinality(Live') <= Cardinality(Live)
  BY <1>2, FS_Subset
<1>4. /\ IsFiniteSet(OpensDone') /\ Cardinality(OpensDone') \in Nat
      /\ Cardinality(OpensDone) \in Nat
  BY PairsAreFinite
<1>5. Cardinality(OpensDone) <= Cardinality(OpensDone')
  BY <1>4, FS_Subset
<1> QED BY <1>2, <1>3, <1>4, <1>5 DEF SlotsInv

LEMMA SlotTaken ==
    ASSUME HoldInv, IsFiniteSet(Clients), SlotsInv, NEW s \in Slots, Live' = Live \cup {s},
           NEW x, x \notin OpensDone, x \in OpensDone', OpensDone \subseteq OpensDone'
    PROVE  SlotsInv'
<1>1. IsFiniteSet(Live) /\ Cardinality(Live) \in Nat
  BY HoldFacts, LiveIsFinite
<1>2. Cardinality(Live') <= Cardinality(Live) + 1 /\ Cardinality(Live') \in Nat
  <2>1. /\ IsFiniteSet(Live \cup {s})
        /\ Cardinality(Live \cup {s}) \in {Cardinality(Live), Cardinality(Live) + 1}
    BY <1>1, FS_AddElement
  <2> QED BY <1>1, <2>1
<1>3. /\ IsFiniteSet(OpensDone') /\ IsFiniteSet(OpensDone)
      /\ Cardinality(OpensDone') \in Nat /\ Cardinality(OpensDone) \in Nat
  BY PairsAreFinite
<1>4. /\ Cardinality(OpensDone) <= Cardinality(OpensDone')
      /\ Cardinality(OpensDone') = Cardinality(OpensDone) => OpensDone' = OpensDone
  BY <1>3, FS_Subset
<1>5. Cardinality(OpensDone) # Cardinality(OpensDone')
  BY <1>4
<1> QED BY <1>1, <1>2, <1>3, <1>4, <1>5 DEF SlotsInv

LEMMA ServedSlots ==
    ASSUME HoldInv, IsFiniteSet(Clients), SlotsInv, NEW i, NEW c, Asks(i, c), Served(i, c)
    PROVE  SlotsInv'
<1>1. OpensDone \subseteq OpensDone'
  <2>1. \A d \in Clients : pc'[d] = pc[d] /\ (reply'[d] = <<>> => reply[d] = <<>>)
    BY DEF Asks, Served, OpensOld, OpensNew, DropsName, ClosesOne, KeepsName, TakesUnit,
       SleepsFor, GivesUnit, HandsUnit, GetsAnswer
  <2>2. \A d \in Clients, n \in Keys : Pending(d, n)' => Pending(d, n)
    BY <2>1 DEF Pending
  <2> QED BY <2>2 DEF OpensDone
<1>2. ASSUME NEW n \in Keys, NEW s \in Slots, OpensNew(i, c, n, s) PROVE SlotsInv'
  <2>1. Live' = Live \cup {s}
    BY <1>2, HoldFacts DEF OpensNew, Creates, sem_create, Live, Free
  <2>2. <<c, n>> \in Clients \X Keys /\ Pending(c, n) /\ ~Pending(c, n)'
    BY <1>2, ProdConsAssumption DEF OpensNew, Asks, GetsAnswer, OpenLabel, Pending
  <2>3. <<c, n>> \notin OpensDone /\ <<c, n>> \in OpensDone'
    BY <2>2 DEF OpensDone
  <2> QED BY <1>1, <2>1, <2>3, SlotTaken
<1>3. CASE \A n \in Keys, s \in Slots : ~OpensNew(i, c, n, s)
  <2>1. ASSUME NEW n \in Keys, NEW s \in Slots, OpensOld(i, c, n, s) PROVE Live' \subseteq Live
    BY <2>1, HoldFacts DEF OpensOld, Joins, Live
  <2>2. ASSUME NEW n \in Keys, NEW s \in Slots, ClosesOne(i, c, n, s) PROVE Live' \subseteq Live
    BY <2>2, HoldFacts DEF ClosesOne, CloseSlots, Live
  <2>3. ASSUME ~(\E n \in Keys, s \in Slots : OpensOld(i, c, n, s) \/ ClosesOne(i, c, n, s))
        PROVE  Live' \subseteq Live
    <3>1. ref_count' = ref_count
      BY <1>3, <2>3 DEF Served, DropsName, KeepsName, TakesUnit, SleepsFor, GivesUnit,
         HandsUnit, Unlinks, Counts, Sleeps, Wakes, Pops, sems
    <3> QED BY <3>1 DEF Live
  <2>4. Live' \subseteq Live
    BY <2>1, <2>2, <2>3
  <2> QED BY <1>1, <2>4, SlotsFrame
<1> QED BY <1>2, <1>3

LEMMA SlotsInvNext ==
    ASSUME HoldInv, IsFiniteSet(Clients), SlotsInv, NodesLast, SlotsLast,
           [ProdConsNext]_pvars
    PROVE  SlotsInv'
<1>1. LinuxInv /\ ProgramInv
  BY DEF HoldInv
<1>2. ASSUME UNCHANGED ref_count, UNCHANGED <<pc, reply>> PROVE SlotsInv'
  <2>1. Live' \subseteq Live /\ OpensDone \subseteq OpensDone'
    BY <1>2 DEF Live, OpensDone, Pending
  <2> QED BY <2>1, SlotsFrame
<1>3. CASE Serve /\ UNCHANGED program
  <2>1. CASE Turnover
    BY <1>2, <2>1 DEF Turnover, sems
  <2>2. ASSUME NEW i \in Procs, NEW c \in Clients, Asks(i, c), Served(i, c) PROVE SlotsInv'
    BY <2>2, ServedSlots
  <2> QED BY <1>3, <2>1, <2>2, ServeEffect
<1>4. ASSUME NEW c \in Clients, Step(c) PROVE SlotsInv'
  <2>1. Live' \subseteq Live
    BY <1>1, <1>4, ClientSteps DEF Live, vars, sems
  <2>2. ASSUME NEW d \in Clients, NEW n \in Keys, Pending(d, n)' PROVE Pending(d, n)
    <3>1. CASE returns(c)
      <4>1. /\ reply[c] # <<>> /\ reply'[c] = <<>> /\ GoesOn(c)
            /\ \A e \in Clients \ {c} : reply'[e] = reply[e] /\ pc'[e] = pc[e]
        BY <1>1, <3>1, ReturnsFacts
      <4>2. CASE d # c
        BY <2>2, <4>1, <4>2 DEF Pending
      <4>3. CASE d = c
        BY <2>2, <4>1, <4>3 DEF Pending, GoesOn
      <4> QED BY <4>2, <4>3
    <3>2. CASE calls(c)
      BY <1>1, <2>2, <3>2, CallsFacts DEF Pending
    <3>3. CASE getchar(c)
      <4>1. /\ reply' = reply /\ pc' = [pc EXCEPT ![c] = pc'[c]]
            /\ pc'[c] \notin {"open_prod", "open_cons"}
        BY <1>1, <3>3 DEF getchar, Goto, lvars, sockets, ProgramInv
      <4> QED BY <1>1, <2>2, <4>1 DEF Pending, ProgramInv
    <3>4. CASE (connect(c) /\ UNCHANGED program) \/ ends(c)
      BY <2>2, <3>4 DEF connect, ends, clean_all, program, Pending
    <3> QED BY <1>4, <3>1, <3>2, <3>3, <3>4 DEF Step
  <2>3. OpensDone \subseteq OpensDone'
    BY <2>2 DEF OpensDone
  <2> QED BY <2>1, <2>3, SlotsFrame
<1>5. CASE UNCHANGED pvars
  BY <1>2, <1>5 DEF pvars, lvars, vars, sems, sockets, program
<1> QED BY <1>3, <1>4, <1>5 DEF ProdConsNext

LEMMA SlotsInvInit ==
    ASSUME IsFiniteSet(Clients), ProdConsInit
    PROVE  SlotsInv
<1>1. Live = {}
  BY DEF ProdConsInit, LinuxInit, Live
<1>2. Cardinality(Live) = 0
  BY <1>1, FS_EmptySet
<1> QED BY <1>2, PairsAreFinite DEF SlotsInv

-----------------------------------------------------------------------------
(***************************************************************************)
(* The results.                                                            *)
(***************************************************************************)

\* With two slots for each client sem_open never finds sem_array full, whatever
\* names are unlinked and opened again and although a semaphore whose row of
\* the name table was overwritten is never given back.
THEOREM SlotsSuffice ==
    ASSUME ~KillsSleepers, IsFiniteSet(Clients), 2 * Cardinality(Clients) <= INITIAL_SEM
    PROVE  ProdConsSpec /\ []NodesLast => []SlotsLast
<1> DEFINE Inv == HoldInv /\ SlotsInv
<1>1. ProdConsInit => Inv
  BY HoldInvInit, SlotsInvInit
<1>2. Inv => SlotsLast
  BY SlotsAreLeft
<1>3. Inv /\ NodesLast /\ [ProdConsNext]_pvars => Inv'
  BY <1>2, HoldInvNext, SlotsInvNext
<1> HIDE DEF Inv
<1> QED BY <1>1, <1>2, <1>3, PTL DEF ProdConsSpec

\* A process keeps the two semaphores it has opened, two different ones, until
\* it closes them, although others unlink the names, create semaphores anew
\* under them, close and end.
THEOREM HandlesAreKept ==
    ASSUME ~KillsSleepers
    PROVE  ProdConsSpec /\ []NodesLast /\ []SlotsLast => []HandlesStayOpen
BY HeldHandles, HoldInvariant, PTL

\* Nothing is consumed before it was produced, even between processes that have
\* met different semaphores under one name; and until a process reaches the end
\* of its input the elements left over are no more than CAPACITY.
THEOREM BufferIsKept ==
    ASSUME ~KillsSleepers
    PROVE  ProdConsSpec /\ []NodesLast /\ []SlotsLast => []BoundedBuffer
BY BufferIsBounded, CountInvariant, PTL

\* When all processes have ended no name leads to a semaphore, and none that was
\* unlinked is left.
THEOREM NamesAreGivenBack ==
    ASSUME ~KillsSleepers
    PROVE  ProdConsSpec /\ []NodesLast /\ []SlotsLast => []NamesAreReleased
BY AllReleased, HoldInvariant, PTL
=============================================================================
