------------------------------ MODULE MCListPool ------------------------------
(***************************************************************************)
(* Model checking of ListPool.  Nothing reads what a free entry still      *)
(* contains, or an earlier result: states that differ only there are       *)
(* explored once.                                                          *)
(***************************************************************************)
EXTENDS ListPool

Used(pool) == {i \in DOMAIN pool : pool[i].busy}

View == <<Restrict(lists, Used(lists)), Restrict(nodes, Used(nodes)),
          Restrict(elements, Used(elements))>>
=============================================================================
