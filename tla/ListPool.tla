------------------------------- MODULE ListPool -------------------------------
(***************************************************************************)
(* The list library (src/fs/list.c): singly linked lists built from three  *)
(* static pools.  A pointer is an index into its pool, NIL is the null     *)
(* pointer; contents of freed entries stay where they are.  Elements are   *)
(* integers compared as integers.                                          *)
(***************************************************************************)
EXTENDS Integers, Sequences, FiniteSetsExt, Functions

CONSTANTS
    MAX_LISTS,  \* entries of lists (80)
    MAX_NODES,  \* entries of nodes, and of elements (20)
    Values      \* what the lists hold

ASSUME ListPoolAssumption ==
    /\ MAX_LISTS \in Nat /\ MAX_NODES \in Nat
    /\ Values \subseteq Int

VARIABLES
    lists,      \* [busy, nodes (first node), current (cursor), order]
    nodes,      \* [busy, element (index into elements), tail]
    elements,   \* [busy, element (the value)]
    result      \* what the last call returned: [code, element]

pools == <<lists, nodes, elements>>
vars  == <<lists, nodes, elements, result>>

Lists  == 0 .. (MAX_LISTS - 1)
Nodes  == 0 .. (MAX_NODES - 1)
NIL    == -1
Orders == {"LIST_SORTED", "LIST_UNSORTED"}

LIST_NO_MEM      == 0
LIST_NO_ERR      == 1
LIST_END         == 2
LIST_NO_ELEM     == 3
LIST_ELEM_EXISTS == 4

Returns(code) == result' = [result EXCEPT !.code = code]

\* The free entry a scan of a pool finds.
IsFirstFree(i, pool) ==
    ~pool[i].busy /\ \A j \in DOMAIN pool : ~pool[j].busy => i <= j

-----------------------------------------------------------------------------
(* Walking a chain *)

\* The nodes reached from the header by following tail (a chain that runs in
\* circles shows as one that is too long).
Chain(l) ==
    LET from[k \in 0 .. (MAX_NODES + 1)] ==
            [n \in Nodes \cup {NIL} |->
                IF k = 0 \/ n = NIL THEN <<>>
                ELSE <<n>> \o from[k - 1][nodes[n].tail]]
    IN  from[MAX_NODES + 1][lists[l].nodes]

ValueOf(n) == elements[nodes[n].element].element

StepsOver_Sorted(l, n, v) == ValueOf(n) < v  \* mutant: order not looked at

\* ListFindNode steps over smaller elements, and over larger ones too when the
\* list is unsorted; Stop is the position it stops at.
StepsOver(l, n, v) ==
    \/ ValueOf(n) < v
    \/ ValueOf(n) > v /\ lists[l].order = "LIST_UNSORTED"

Stop(l, v) ==
    LET c == Chain(l)
    IN  Min({Len(c) + 1} \cup {k \in DOMAIN c : ~StepsOver(l, c[k], v)})

ListFindNode(l, v) ==
    Stop(l, v) <= Len(Chain(l)) /\ ValueOf(Chain(l)[Stop(l, v)]) = v

\* The node before that position, or NIL for the header: *result.
Before(l, v) == IF Stop(l, v) = 1 THEN NIL ELSE Chain(l)[Stop(l, v) - 1]

\* Make `to' the successor of `aux', or the first node when aux is NIL.
LinkAfter(l, aux, to, lists1, nodes1) ==
    /\ lists' = IF aux = NIL THEN [lists1 EXCEPT ![l].nodes = to] ELSE lists1
    /\ nodes' = IF aux = NIL THEN nodes1 ELSE [nodes1 EXCEPT ![aux].tail = to]

Freed(pool, S) == [i \in DOMAIN pool |->
                      IF i \in S THEN [pool[i] EXCEPT !.busy = FALSE]
                      ELSE pool[i]]

ElementsOf_None(S) == {}  \* mutant: free_element missing

\* What free_element is called on when the nodes in S go.
ElementsOf(S) == {nodes[n].element : n \in S}

-----------------------------------------------------------------------------
(* The operations *)

NewList(l, order) ==
    /\ IsFirstFree(l, lists)
    /\ lists' = [lists EXCEPT ![l] = [busy |-> TRUE, nodes |-> NIL,
                                      current |-> NIL, order |-> order]]
    /\ UNCHANGED <<nodes, elements, result>>

\* The position the new element follows: after what sorts before it, or first.
InsertAfter(l, v) ==
    IF lists[l].order = "LIST_SORTED" THEN Before(l, v) ELSE NIL

SuccessorOf_Head(l, aux) == lists[l].nodes  \* mutant: aux not looked at

SuccessorOf(l, aux) == IF aux = NIL THEN lists[l].nodes ELSE nodes[aux].tail

ListInsert(l, v) ==
    /\ lists[l].busy
    /\ \/ /\ lists[l].order = "LIST_SORTED" /\ ListFindNode(l, v)
          /\ Returns(LIST_ELEM_EXISTS)
          /\ UNCHANGED pools
       \/ /\ ~(lists[l].order = "LIST_SORTED" /\ ListFindNode(l, v))
          /\ \A n \in Nodes : nodes[n].busy
          /\ Returns(LIST_NO_MEM)
          /\ UNCHANGED pools
       \/ /\ ~(lists[l].order = "LIST_SORTED" /\ ListFindNode(l, v))
          /\ \E n, e \in Nodes :
               /\ IsFirstFree(n, nodes)
               /\ IsFirstFree(e, elements)
               /\ LinkAfter(l, InsertAfter(l, v), n, lists,
                      [nodes EXCEPT ![n] =
                          [busy |-> TRUE, element |-> e,
                           tail |-> SuccessorOf(l, InsertAfter(l, v))]])
               /\ elements' = [elements EXCEPT ![e] =
                                   [busy |-> TRUE, element |-> v]]
          /\ Returns(LIST_NO_ERR)

CursorAfterDelete_Stays(l, borrar) == lists  \* mutant: cursor not moved

\* A cursor on the node that goes moves to the next one.
CursorAfterDelete(l, borrar) ==
    [lists EXCEPT ![l].current = IF @ = borrar THEN nodes[borrar].tail ELSE @]

ListDelete(l, v) ==
    /\ lists[l].busy
    /\ \/ /\ ~ListFindNode(l, v)
          /\ Returns(LIST_NO_ELEM)
          /\ UNCHANGED pools
       \/ /\ ListFindNode(l, v)
          /\ LET borrar == Chain(l)[Stop(l, v)] IN
               /\ LinkAfter(l, Before(l, v), nodes[borrar].tail,
                            CursorAfterDelete(l, borrar),
                            Freed(nodes, {borrar}))
               /\ elements' = Freed(elements, ElementsOf({borrar}))
          /\ Returns(LIST_NO_ERR)

\* Used by sem_post.  The cursor is left on the node that is freed.
ListRemoveFirst(l) ==
    /\ lists[l].busy
    /\ \/ /\ lists[l].nodes = NIL
          /\ Returns(LIST_END)
          /\ UNCHANGED pools
       \/ /\ lists[l].nodes # NIL
          /\ LET first == lists[l].nodes IN
               /\ lists' = [lists EXCEPT ![l].nodes = nodes[first].tail,
                                         ![l].current = first]
               /\ nodes' = Freed(nodes, {first})
               /\ elements' = Freed(elements, ElementsOf({first}))
          /\ Returns(LIST_NO_ERR)

ListToBegin(l) ==
    /\ lists[l].busy
    /\ lists' = [lists EXCEPT ![l].current = lists[l].nodes]
    /\ UNCHANGED <<nodes, elements, result>>

ListGetElement(l) ==
    /\ lists[l].busy
    /\ UNCHANGED <<nodes, elements>>
    /\ \/ /\ lists[l].current = NIL
          /\ Returns(LIST_END)
          /\ UNCHANGED lists
       \/ /\ lists[l].current # NIL
          /\ result' = [code |-> LIST_NO_ERR,
                        element |-> ValueOf(lists[l].current)]
          /\ lists' = [lists EXCEPT ![l].current = nodes[@].tail]

\* Every node and element of the list, then the list.  The header keeps the
\* empty chain: a search through a dangling pointer to it finds nothing.
FreeList(l) ==
    /\ lists[l].busy
    /\ lists' = [lists EXCEPT ![l].nodes = NIL, ![l].busy = FALSE]
    /\ nodes' = Freed(nodes, Range(Chain(l)))
    /\ elements' = Freed(elements, ElementsOf(Range(Chain(l))))
    /\ UNCHANGED result

-----------------------------------------------------------------------------

\* Static storage: everything is zero, that is, free.
Init ==
    /\ lists = [l \in Lists |-> [busy |-> FALSE, nodes |-> NIL,
                                 current |-> NIL, order |-> "LIST_SORTED"]]
    /\ nodes = [n \in Nodes |-> [busy |-> FALSE, element |-> NIL, tail |-> NIL]]
    /\ elements = [e \in Nodes |-> [busy |-> FALSE, element |-> 0]]
    /\ result = [code |-> LIST_NO_ERR, element |-> 0]

\* The cursor is on the list or past its end.  Clients rewind with ListToBegin
\* before they read (semaphore.c:425): a cursor off its list is not followed.
OnList(l) == lists[l].current \in Range(Chain(l)) \cup {NIL}

Next ==
    \E l \in Lists :
        \/ \E order \in Orders : NewList(l, order)
        \/ \E v \in Values : ListInsert(l, v) \/ ListDelete(l, v)
        \/ ListRemoveFirst(l)
        \/ ListToBegin(l)
        \/ OnList(l) /\ ListGetElement(l)
        \/ FreeList(l)

Spec == Init /\ [][Next]_vars

-----------------------------------------------------------------------------
(* Properties *)

\* The lists share the nodes in use between them: no chain meets itself or
\* another, none runs into a free node, a freed list holds nothing, and no node
\* is lost.  One wrong link in ListInsert or ListDelete would hand a node to
\* two semaphores, or leak one of the 20 for good.
ChainsDoNotMeet ==
    /\ \A l \in Lists : IsInjective(Chain(l))
    /\ \A l, k \in Lists : l # k => Range(Chain(l)) \cap Range(Chain(k)) = {}
BusyNodesAreChained ==
    {n \in Nodes : nodes[n].busy}
        = UNION {Range(Chain(l)) : l \in {k \in Lists : lists[k].busy}}
FreedListsAreEmpty ==
    \A l \in Lists : ~lists[l].busy => Chain(l) = <<>>
NodesArePartitioned ==
    ChainsDoNotMeet /\ BusyNodesAreChained /\ FreedListsAreEmpty

\* Each node in use has an element slot of its own and no other slot is taken,
\* so that ListInsert, having found a node, never fails for want of an element.
NodesOwnElements ==
    LET used == {n \in Nodes : nodes[n].busy} IN
    /\ {nodes[n].element : n \in used} = {e \in Nodes : elements[e].busy}
    /\ \A n, m \in used : nodes[n].element = nodes[m].element => n = m

\* The linked lists implement sequences: an insertion, a removal, or a step of
\* an iteration, and the search that precedes it, does to the chain what
\* BoundedLists says of the contents, and answers the code of list.h:11-15 that
\* tells which case it was (not the 0 and 1 that the comments at list.h:73-75,
\* 89-91 and 149-152 announce for a repeated element, an absent one and the end).
Contents(l) == LET c == Chain(l) IN [k \in DOMAIN c |-> ValueOf(c[k])]
Promise == INSTANCE BoundedLists WITH
               contents <- [l \in Lists |-> Contents(l)],
               order    <- [l \in Lists |-> IF lists[l].busy
                                            THEN lists[l].order ELSE "none"],
               code     <- result.code,
               element  <- result.element
ListsAreSequences == Promise!Spec

\* Deleting elements does not throw an iteration off its list: the cursor, if
\* it was on the list or past its end, still is after ListDelete.
CursorSurvivesDelete ==
    [][\A l \in Lists, v \in Values :
         OnList(l) /\ ListDelete(l, v) => OnList(l)']_vars
=============================================================================
