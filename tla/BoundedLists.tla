----------------------------- MODULE BoundedLists -----------------------------
(***************************************************************************)
(* What the list library offers (src/fs/list.h): lists are sequences,      *)
(* sorted ones without repetition, and all of them together hold at most   *)
(* MAX_NODES elements.  A call answers one of the codes that list.h names  *)
(* (lines 11-15), which is what list.c returns.  The comments above three  *)
(* prototypes of list.h say something else, and are not what is stated     *)
(* here: 1 for the insertion of a repeated element (73-75; the code is     *)
(* LIST_ELEM_EXISTS), 0 for the deletion of an absent one (89-91;          *)
(* LIST_NO_ELEM) and 0 for reading past the end (149-152; LIST_END, so     *)
(* that the loop shown there, "while (ListGetElement(...))", never ends).  *)
(***************************************************************************)
EXTENDS Integers, SequencesExt

CONSTANTS MAX_LISTS, MAX_NODES, Values

VARIABLES
    contents,   \* [Lists -> Seq(Values)]
    order,      \* "LIST_SORTED", "LIST_UNSORTED", or "none" for no list
    code,       \* what the last call that answers one returned
    element     \* the element last read

vars == <<contents, order, code, element>>

Lists == 0 .. (MAX_LISTS - 1)

LIST_NO_MEM      == 0
LIST_NO_ERR      == 1
LIST_END         == 2
LIST_NO_ELEM     == 3
LIST_ELEM_EXISTS == 4

\* How many elements there are in all the lists.
Total == Cardinality(UNION {{l} \X DOMAIN contents[l] : l \in Lists})

\* List l becomes the increasing sequence of its elements and v.
InsertSorted(l, v) ==
    /\ contents'[l] \in Seq(Values)
    /\ IsSorted(contents'[l], <)
    /\ ToSet(contents'[l]) = ToSet(contents[l]) \cup {v}
    /\ contents' = [contents EXCEPT ![l] = contents'[l]]

Init ==
    /\ contents = [l \in Lists |-> <<>>]
    /\ order = [l \in Lists |-> "none"]
    /\ code = LIST_NO_ERR
    /\ element = 0

Create(l, ord) ==
    /\ order[l] = "none"
    /\ order' = [order EXCEPT ![l] = ord]
    /\ UNCHANGED <<contents, code, element>>

\* A repeated element of a sorted list is ignored; any other is refused when
\* the lists are full.  An unsorted list takes the new element in front.
Insert(l, v) ==
    /\ order[l] # "none"
    /\ UNCHANGED <<order, element>>
    /\ \/ /\ order[l] = "LIST_SORTED" /\ Contains(contents[l], v)
          /\ code' = LIST_ELEM_EXISTS
          /\ UNCHANGED contents
       \/ /\ ~(order[l] = "LIST_SORTED" /\ Contains(contents[l], v))
          /\ Total = MAX_NODES
          /\ code' = LIST_NO_MEM
          /\ UNCHANGED contents
       \/ /\ ~(order[l] = "LIST_SORTED" /\ Contains(contents[l], v))
          /\ Total < MAX_NODES
          /\ code' = LIST_NO_ERR
          /\ IF order[l] = "LIST_SORTED" THEN InsertSorted(l, v)
             ELSE contents' = [contents EXCEPT ![l] = <<v>> \o @]

\* Removes the first occurrence, if there is one.
Delete(l, v) ==
    /\ order[l] # "none"
    /\ contents' = [contents EXCEPT ![l] = RemoveFirst(@, v)]
    /\ code' = IF Contains(contents[l], v) THEN LIST_NO_ERR ELSE LIST_NO_ELEM
    /\ UNCHANGED <<order, element>>

TakeFirst(l) ==
    /\ order[l] # "none"
    /\ contents' = [contents EXCEPT ![l] = IF @ = <<>> THEN @ ELSE Tail(@)]
    /\ code' = IF contents[l] = <<>> THEN LIST_END ELSE LIST_NO_ERR
    /\ UNCHANGED <<order, element>>

\* One step of an iteration: it changes no list, and gives an element of this
\* one or says that the end is reached.
Read(l) ==
    /\ order[l] # "none"
    /\ \/ code' = LIST_NO_ERR /\ element' \in ToSet(contents[l])
       \/ code' = LIST_END /\ UNCHANGED element
    /\ UNCHANGED <<contents, order>>

Destroy(l) ==
    /\ order[l] # "none"
    /\ contents' = [contents EXCEPT ![l] = <<>>]
    /\ order' = [order EXCEPT ![l] = "none"]
    /\ UNCHANGED <<code, element>>

Next ==
    \E l \in Lists :
        \/ \E ord \in {"LIST_SORTED", "LIST_UNSORTED"} : Create(l, ord)
        \/ \E v \in Values : Insert(l, v) \/ Delete(l, v)
        \/ TakeFirst(l)
        \/ Read(l)
        \/ Destroy(l)

Spec == Init /\ [][Next]_vars
=============================================================================
