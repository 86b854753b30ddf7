------------------------------ MODULE SlotLists ------------------------------
(***************************************************************************)
(* Which lists the slots of sem_array point to (src/fs/semaphore.c over    *)
(* NewList and FreeList of src/fs/list.c).  A slot keeps its two pointers  *)
(* when its lists are freed, and sem_open_all and sem_close_all, which run *)
(* at every fork, exec and exit, search the list of every slot, free ones  *)
(* included: whose members they find there depends on these pointers.      *)
(***************************************************************************)
EXTENDS Integers

CONSTANTS
    INITIAL_SEM,    \* slots (10)
    MAX_LISTS       \* lists (80)

ASSUME SlotListsAssumption ==
    /\ INITIAL_SEM \in Nat \ {0}
    /\ MAX_LISTS \in Nat
    /\ 2 * INITIAL_SEM <= MAX_LISTS

VARIABLES
    in_use,         \* [Slots -> BOOLEAN]: ref_count # 0
    proc_list,      \* [Slots -> Lists \cup {NIL}]
    blocked_list,   \* [Slots -> Lists \cup {NIL}]
    busy            \* [Lists -> BOOLEAN]

vars == <<in_use, proc_list, blocked_list, busy>>

Slots == 0 .. (INITIAL_SEM - 1)
Lists == 0 .. (MAX_LISTS - 1)

\* The null pointer of a slot that was never used.  The word at address 0 of a
\* Minix process is 0, so that a search through it finds an empty list.
NIL == -1

IsFirstUnset_Any(x, f) == ~f[x]  \* mutant: a hint instead of a scan from 0

\* First fit, as sem_create looks for a slot and NewList for a list.
IsFirstUnset(x, f) == ~f[x] /\ \A y \in DOMAIN f : ~f[y] => x <= y

sem_create(i) ==
    /\ IsFirstUnset(i, in_use)
    /\ in_use' = [in_use EXCEPT ![i] = TRUE]
    /\ \E l, k \in Lists :
         /\ IsFirstUnset(l, busy)
         /\ IsFirstUnset(k, [busy EXCEPT ![l] = TRUE])
         /\ busy' = [busy EXCEPT ![l] = TRUE, ![k] = TRUE]
         /\ proc_list' = [proc_list EXCEPT ![i] = l]
         /\ blocked_list' = [blocked_list EXCEPT ![i] = k]

FreeLists_One(i) == {proc_list[i]}  \* mutant: FreeList(blocked_list) missing

\* The lists given back with a slot.
FreeLists(i) == {proc_list[i], blocked_list[i]}

\* sem_destroy, or the last sem_close of an unlinked semaphore.
release(i) ==
    /\ in_use[i]
    /\ in_use' = [in_use EXCEPT ![i] = FALSE]
    /\ busy' = [l \in Lists |-> busy[l] /\ l \notin FreeLists(i)]
    /\ UNCHANGED <<proc_list, blocked_list>>

Init ==
    /\ in_use = [i \in Slots |-> FALSE]
    /\ proc_list = [i \in Slots |-> NIL]
    /\ blocked_list = [i \in Slots |-> NIL]
    /\ busy = [l \in Lists |-> FALSE]

Next == \E i \in Slots : sem_create(i) \/ release(i)

Spec == Init /\ [][Next]_vars

-----------------------------------------------------------------------------

\* Slot i is only ever given lists 2i and 2i+1, which are busy exactly while it
\* is in use, and no other list ever is: both pools are searched from index 0.
OwnsOnly(i) ==
    /\ proc_list[i] \in {NIL, 2 * i}
    /\ blocked_list[i] \in {NIL, 2 * i + 1}
SlotsOwnPairs ==
    /\ \A i \in Slots :
         /\ OwnsOnly(i)
         /\ in_use[i] => proc_list[i] # NIL /\ blocked_list[i] # NIL
         /\ busy[2 * i] = in_use[i] /\ busy[2 * i + 1] = in_use[i]
    /\ \A l \in Lists : l >= 2 * INITIAL_SEM => ~busy[l]

\* A pointer kept by a free slot reaches no list in use, so that searching it
\* finds no member of another semaphore, and two slots never share a list.
StalePointersAreHarmless ==
    \A i \in Slots :
        /\ ~in_use[i] => \A l \in {proc_list[i], blocked_list[i]} \ {NIL} : ~busy[l]
        /\ \A j \in Slots \ {i} :
             {proc_list[i], blocked_list[i]}
                 \cap {proc_list[j], blocked_list[j]} \subseteq {NIL}

\* A slot is created only with two lists: NewList never runs out.
ListsSuffice ==
    (\E i \in Slots : ~in_use[i]) =>
        \E l, k \in Lists : l # k /\ ~busy[l] /\ ~busy[k]
=============================================================================
