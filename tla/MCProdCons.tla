----------------------------- MODULE MCProdCons -----------------------------
(***************************************************************************)
(* What the report says of prod_cons on the emulator that the server does  *)
(* not keep.                                                               *)
(***************************************************************************)
EXTENDS ProdCons

\* informe.tex:212, "por cada caracter que se ingrese (incluido ENTER) se le
\* estara indicando que consuma (o produzca, segun sea el caso) un elemento":
\* once the users stop typing, every call has been served.
EveryCharacterIsServed == <>[]AllServed
=============================================================================
