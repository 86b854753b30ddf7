--------------------------- MODULE SlotLists_proofs ---------------------------
(***************************************************************************)
(* The slots and their lists, for every number of slots and lists.         *)
(* SlotsOwnPairs is inductive once the types are known; what it says about *)
(* stale pointers and about NewList follows from it.                       *)
(***************************************************************************)
EXTENDS SlotLists, TLAPS

\* The shape of the pointers and of the two allocation maps.
TypeOK ==
    /\ in_use \in [Slots -> BOOLEAN]
    /\ proc_list \in [Slots -> Lists \cup {NIL}]
    /\ blocked_list \in [Slots -> Lists \cup {NIL}]
    /\ busy \in [Lists -> BOOLEAN]

PairInv == TypeOK /\ SlotsOwnPairs

\* Every list below 2 * INITIAL_SEM is the first or the second of one slot.
LEMMA ListHasSlot ==
    ASSUME NEW l \in Lists, l < 2 * INITIAL_SEM
    PROVE  \E j \in Slots : l = 2 * j \/ l = 2 * j + 1
<1>1. l \in Nat /\ INITIAL_SEM \in Nat
  BY SlotListsAssumption DEF Lists
<1>2. l \div 2 \in Nat /\ (l = 2 * (l \div 2) \/ l = 2 * (l \div 2) + 1)
  BY <1>1
<1>3. l \div 2 \in Slots
  BY <1>1, <1>2 DEF Slots
<1>4. QED
  BY <1>2, <1>3

\* The lists of a slot exist.
LEMMA PairsAreLists ==
    ASSUME NEW i \in Slots
    PROVE  2 * i \in Lists /\ 2 * i + 1 \in Lists
  BY SlotListsAssumption DEF Slots, Lists

\* The first free slot finds its own pair: the first two free lists.
LEMMA CreateFindsPair ==
    ASSUME PairInv, NEW i \in Slots, NEW l \in Lists, NEW k \in Lists,
           IsFirstUnset(i, in_use), IsFirstUnset(l, busy),
           IsFirstUnset(k, [busy EXCEPT ![l] = TRUE])
    PROVE  l = 2 * i /\ k = 2 * i + 1
<1> USE DEF PairInv, TypeOK
<1>1. ~busy[2 * i] /\ ~busy[2 * i + 1]
  BY DEF SlotsOwnPairs, IsFirstUnset
<1>2. 2 * i \in Lists /\ 2 * i + 1 \in Lists
  BY PairsAreLists
<1>3. i \in Nat /\ l \in Nat /\ k \in Nat /\ INITIAL_SEM \in Nat /\ i < INITIAL_SEM
  BY SlotListsAssumption DEF Slots, Lists
<1>4. l <= 2 * i
  BY <1>1, <1>2 DEF IsFirstUnset
<1>5. ASSUME NEW x \in Lists, x < 2 * i
      PROVE  busy[x]
  <2>1. PICK j \in Slots : x = 2 * j \/ x = 2 * j + 1
    BY <1>3, <1>5, ListHasSlot DEF Lists
  <2>2. j \in Nat /\ j < i
    BY <2>1, <1>3, <1>5 DEF Slots
  <2>3. in_use[j]
    BY <2>2, <1>3 DEF IsFirstUnset
  <2>4. QED
    BY <2>1, <2>3 DEF SlotsOwnPairs
<1>6. l = 2 * i
  BY <1>3, <1>4, <1>5 DEF IsFirstUnset
<1>7. k <= 2 * i + 1
  BY <1>1, <1>2, <1>3, <1>6 DEF IsFirstUnset
<1>8. k # 2 * i /\ ~busy[k]
  BY <1>6 DEF IsFirstUnset
<1>9. k = 2 * i + 1
  BY <1>3, <1>5, <1>7, <1>8
<1>10. QED
  BY <1>6, <1>9

LEMMA PairInvInit == Init => PairInv
<1> SUFFICES ASSUME Init PROVE PairInv
  OBVIOUS
<1>1. TypeOK
  BY DEF Init, TypeOK
<1>2. SlotsOwnPairs
  BY PairsAreLists DEF Init, SlotsOwnPairs, OwnsOnly
<1>3. QED
  BY <1>1, <1>2 DEF PairInv

LEMMA PairInvNext == PairInv /\ [Next]_vars => PairInv'
<1> SUFFICES ASSUME PairInv, [Next]_vars PROVE PairInv'
  OBVIOUS
<1>t. TypeOK /\ SlotsOwnPairs
  BY DEF PairInv
<1>n. INITIAL_SEM \in Nat /\ \A j \in Slots : j \in Nat
  BY SlotListsAssumption DEF Slots
<1>1. CASE UNCHANGED vars
  BY <1>1, <1>t DEF vars, PairInv, TypeOK, SlotsOwnPairs, OwnsOnly
<1>2. ASSUME NEW i \in Slots, sem_create(i) PROVE PairInv'
  <2>1. PICK l \in Lists, k \in Lists :
          /\ IsFirstUnset(l, busy)
          /\ IsFirstUnset(k, [busy EXCEPT ![l] = TRUE])
          /\ busy' = [busy EXCEPT ![l] = TRUE, ![k] = TRUE]
          /\ proc_list' = [proc_list EXCEPT ![i] = l]
          /\ blocked_list' = [blocked_list EXCEPT ![i] = k]
    BY <1>2 DEF sem_create
  <2>2. l = 2 * i /\ k = 2 * i + 1
    BY <1>2, <2>1, CreateFindsPair DEF sem_create
  <2>3. in_use' = [in_use EXCEPT ![i] = TRUE]
    BY <1>2 DEF sem_create
  <2>4. TypeOK'
    BY <1>t, <2>1, <2>3 DEF TypeOK
  <2>5. ASSUME NEW j \in Slots
        PROVE  /\ OwnsOnly(j)'
               /\ in_use'[j] => proc_list'[j] # NIL /\ blocked_list'[j] # NIL
               /\ busy'[2 * j] = in_use'[j] /\ busy'[2 * j + 1] = in_use'[j]
    <3>1. 2 * j \in Lists /\ 2 * j + 1 \in Lists
      BY PairsAreLists
    <3>2. CASE j = i
      <4>1. /\ in_use'[i] = TRUE
            /\ proc_list'[i] = 2 * i /\ blocked_list'[i] = 2 * i + 1
        BY <1>t, <2>1, <2>2, <2>3 DEF TypeOK
      <4>2. busy'[2 * i] = TRUE /\ busy'[2 * i + 1] = TRUE
        BY <1>t, <2>1, <2>2 DEF TypeOK
      <4>3. 2 * i # NIL /\ 2 * i + 1 # NIL
        BY <1>n DEF NIL
      <4>4. QED
        BY <3>2, <4>1, <4>2, <4>3 DEF OwnsOnly
    <3>3. CASE j # i
      <4>1. 2 * j # l /\ 2 * j # k /\ 2 * j + 1 # l /\ 2 * j + 1 # k
        BY <1>n, <2>2, <3>3
      <4>2. busy'[2 * j] = busy[2 * j] /\ busy'[2 * j + 1] = busy[2 * j + 1]
        BY <1>t, <2>1, <3>1, <4>1 DEF TypeOK
      <4>3. /\ in_use'[j] = in_use[j]
            /\ proc_list'[j] = proc_list[j] /\ blocked_list'[j] = blocked_list[j]
        BY <1>t, <2>1, <2>3, <3>3 DEF TypeOK
      <4>4. QED
        BY <1>t, <4>2, <4>3 DEF SlotsOwnPairs, OwnsOnly
    <3>4. QED
      BY <3>2, <3>3
  <2>6. ASSUME NEW x \in Lists, x >= 2 * INITIAL_SEM
        PROVE  ~busy'[x]
    <3>1. x # l /\ x # k
      BY <1>n, <2>2, <2>6 DEF Slots, Lists
    <3>2. QED
      BY <1>t, <2>1, <2>6, <3>1 DEF TypeOK, SlotsOwnPairs
  <2>7. SlotsOwnPairs'
    BY <2>5, <2>6 DEF SlotsOwnPairs
  <2>8. QED
    BY <2>4, <2>7 DEF PairInv
<1>3. ASSUME NEW i \in Slots, release(i) PROVE PairInv'
  <2>1. proc_list[i] = 2 * i /\ blocked_list[i] = 2 * i + 1
    BY <1>3, <1>t DEF release, SlotsOwnPairs, OwnsOnly
  <2>2. /\ in_use' = [in_use EXCEPT ![i] = FALSE]
        /\ proc_list' = proc_list /\ blocked_list' = blocked_list
    BY <1>3 DEF release
  <2>3. busy' = [x \in Lists |-> busy[x] /\ x # 2 * i /\ x # 2 * i + 1]
    BY <1>3, <2>1 DEF release, FreeLists
  <2>4. TypeOK'
    BY <1>t, <2>2, <2>3 DEF TypeOK
  <2>5. ASSUME NEW j \in Slots
        PROVE  /\ OwnsOnly(j)'
               /\ in_use'[j] => proc_list'[j] # NIL /\ blocked_list'[j] # NIL
               /\ busy'[2 * j] = in_use'[j] /\ busy'[2 * j + 1] = in_use'[j]
    <3>1. 2 * j \in Lists /\ 2 * j + 1 \in Lists
      BY PairsAreLists
    <3>2. OwnsOnly(j)'
      BY <1>t, <2>2 DEF SlotsOwnPairs, OwnsOnly
    <3>3. CASE j = i
      BY <1>t, <2>2, <2>3, <3>1, <3>2, <3>3 DEF TypeOK
    <3>4. CASE j # i
      <4>1. /\ 2 * j # 2 * i /\ 2 * j # 2 * i + 1
            /\ 2 * j + 1 # 2 * i /\ 2 * j + 1 # 2 * i + 1
        BY <1>n, <3>4
      <4>2. /\ busy'[2 * j] = busy[2 * j] /\ busy'[2 * j + 1] = busy[2 * j + 1]
            /\ in_use'[j] = in_use[j]
        BY <1>t, <2>2, <2>3, <3>1, <3>4, <4>1 DEF TypeOK
      <4>3. QED
        BY <1>t, <2>2, <3>2, <4>2 DEF SlotsOwnPairs
    <3>5. QED
      BY <3>3, <3>4
  <2>6. ASSUME NEW x \in Lists, x >= 2 * INITIAL_SEM
        PROVE  ~busy'[x]
    BY <1>t, <2>3, <2>6 DEF SlotsOwnPairs
  <2>7. SlotsOwnPairs'
    BY <2>5, <2>6 DEF SlotsOwnPairs
  <2>8. QED
    BY <2>4, <2>7 DEF PairInv
<1>4. QED
  BY <1>1, <1>2, <1>3 DEF Next

\* Slot i only ever has lists 2i and 2i+1, busy exactly while it is in use.
THEOREM PairsAreOwned == Spec => []SlotsOwnPairs
<1>1. PairInv => SlotsOwnPairs
  BY DEF PairInv
<1>2. QED
  BY <1>1, PairInvInit, PairInvNext, PTL DEF Spec

\* The pointers sem_close_all searches after a semaphore is gone reach no list
\* of another semaphore.
THEOREM StalePointers == Spec => []StalePointersAreHarmless
<1>1. PairInv => StalePointersAreHarmless
  <2> SUFFICES ASSUME PairInv PROVE StalePointersAreHarmless
    OBVIOUS
  <2>t. TypeOK /\ SlotsOwnPairs
    BY DEF PairInv
  <2>n. \A j \in Slots : j \in Nat
    BY SlotListsAssumption DEF Slots
  <2>1. ASSUME NEW i \in Slots, ~in_use[i],
               NEW l \in {proc_list[i], blocked_list[i]} \ {NIL}
        PROVE  ~busy[l]
    BY <2>1, <2>t DEF SlotsOwnPairs, OwnsOnly
  <2>2. ASSUME NEW i \in Slots, NEW j \in Slots \ {i}
        PROVE  {proc_list[i], blocked_list[i]}
                   \cap {proc_list[j], blocked_list[j]} \subseteq {NIL}
    <3>1. OwnsOnly(i) /\ OwnsOnly(j)
      BY <2>t DEF SlotsOwnPairs
    <3>2. /\ 2 * j # 2 * i /\ 2 * j # 2 * i + 1
          /\ 2 * j + 1 # 2 * i /\ 2 * j + 1 # 2 * i + 1
      BY <2>n, <2>2
    <3>3. QED
      BY <3>1, <3>2 DEF OwnsOnly
  <2>3. QED
    BY <2>1, <2>2 DEF StalePointersAreHarmless
<1>2. QED
  BY <1>1, PairInvInit, PairInvNext, PTL DEF Spec

\* NewList never fails for a semaphore, as long as there are two lists a slot.
THEOREM NewListSucceeds == Spec => []ListsSuffice
<1>1. PairInv => ListsSuffice
  <2> SUFFICES ASSUME PairInv, NEW i \in Slots, ~in_use[i]
               PROVE  \E l, k \in Lists : l # k /\ ~busy[l] /\ ~busy[k]
    BY DEF ListsSuffice
  <2>1. ~busy[2 * i] /\ ~busy[2 * i + 1]
    BY DEF PairInv, SlotsOwnPairs
  <2>2. 2 * i \in Lists /\ 2 * i + 1 \in Lists
    BY PairsAreLists
  <2>3. 2 * i # 2 * i + 1
    BY <2>2 DEF Lists
  <2>4. QED
    BY <2>1, <2>2, <2>3
<1>2. QED
  BY <1>1, PairInvInit, PairInvNext, PTL DEF Spec
=============================================================================
