--------------------------- MODULE ListPool_proofs ---------------------------
(***************************************************************************)
(* The linked lists of list.c, for every number of lists, nodes and values:*)
(* no operation loses a node or an element, or hands one to two lists.     *)
(*                                                                         *)
(* Chain is a recursive walk.  What it returns is found by induction over  *)
(* sets of numbers, and from then on a chain is a path: a sequence of      *)
(* nodes whose links lead from each one to the next.  The operations are   *)
(* an insertion into a path and a removal from one, at any position.       *)
(***************************************************************************)
EXTENDS ListPool, FiniteSetTheorems, FunctionTheorems, TLAPS

Links == Nodes \cup {NIL}

-----------------------------------------------------------------------------
(***************************************************************************)
(* Induction, and the walk.                                                *)
(***************************************************************************)

LEMMA LeastNumber ==
    ASSUME NEW S, S \subseteq Nat, S # {}
    PROVE  \E m \in S : \A n \in S : m <= n
<1> DEFINE R == OpToRel(<, Nat)
<1>1. IsWellFoundedOn(R, Nat)
  BY NatLessThanWellFounded
<1>2. \A x, y \in Nat : y < x => <<y, x>> \in R
  BY DEF OpToRel
<1> HIDE DEF R
<1>3. PICK x \in S : \A y \in S : ~(<<y, x>> \in R)
  BY <1>1, WFMin, Zenon
<1>4. \A y \in S : ~(y < x)
  BY <1>2, <1>3, Zenon
<1>5. \A y \in S : x <= y
  BY <1>4
<1> QED BY <1>5

LEMMA Induction ==
    ASSUME NEW S, S \subseteq Nat, 0 \in S, \A n \in S : n + 1 \in S
    PROVE  S = Nat
<1> SUFFICES ASSUME S # Nat PROVE FALSE
  OBVIOUS
<1>1. PICK m \in Nat \ S : \A n \in Nat \ S : m <= n
  BY LeastNumber
<1>2. m - 1 \in Nat /\ m - 1 \in S
  BY <1>1
<1>3. (m - 1) + 1 \in S
  BY <1>2
<1> QED BY <1>1, <1>3

\* The function Chain uses: the nodes found in k steps from n.
IsWalk(nds, K, f) ==
    f = [k \in 0 .. K |->
           [n \in Links |-> IF k = 0 \/ n = NIL THEN <<>>
                            ELSE <<n>> \o f[k - 1][nds[n].tail]]]

WalkOf(nds, h) ==
    LET from[k \in 0 .. (MAX_NODES + 1)] ==
            [n \in Nodes \cup {NIL} |->
                IF k = 0 \/ n = NIL THEN <<>>
                ELSE <<n>> \o from[k - 1][nds[n].tail]]
    IN  from[MAX_NODES + 1][h]

LEMMA WalkExists ==
    ASSUME NEW nds, NEW K \in Nat
    PROVE  \E f : IsWalk(nds, K, f)
<1> DEFINE S == {j \in Nat : \E f : IsWalk(nds, j, f)}
<1>1. 0 \in S
  <2> DEFINE f == [k \in 0 .. 0 |-> [n \in Links |-> <<>>]]
  <2>1. IsWalk(nds, 0, f)
    BY DEF IsWalk
  <2> QED BY <2>1
<1>2. ASSUME NEW j \in S PROVE j + 1 \in S
  <2>1. PICK f : IsWalk(nds, j, f)
    OBVIOUS
  <2> DEFINE G(k) == [n \in Links |-> IF k = 0 \/ n = NIL THEN <<>>
                                      ELSE <<n>> \o f[k - 1][nds[n].tail]]
             g == [k \in 0 .. (j + 1) |-> G(k)]
  <2>2. \A k \in 0 .. j : f[k] = G(k)
    BY <2>1 DEF IsWalk
  <2>3. \A k \in 0 .. (j + 1) : g[k] = G(k)
    OBVIOUS
  <2>4. \A k \in 0 .. j : g[k] = f[k]
    <3> HIDE DEF G, g
    <3>1. \A k \in 0 .. j : k \in 0 .. (j + 1)
      OBVIOUS
    <3> QED BY <2>2, <2>3, <3>1
  <2>5. \A k \in 0 .. (j + 1) : k = 0 \/ k - 1 \in 0 .. j
    OBVIOUS
  <2> HIDE DEF g
  <2>6. \A k \in 0 .. (j + 1) :
           G(k) = [n \in Links |-> IF k = 0 \/ n = NIL THEN <<>>
                                   ELSE <<n>> \o g[k - 1][nds[n].tail]]
    BY <2>4, <2>5
  <2>7. IsWalk(nds, j + 1, g)
    BY <2>6 DEF IsWalk, g
  <2> QED BY <2>7
<1>3. S = Nat
  <2>1. S \subseteq Nat
    OBVIOUS
  <2> HIDE DEF S
  <2> QED BY <1>1, <1>2, <2>1, Induction
<1> QED BY <1>3

LEMMA WalkIsWalk ==
    ASSUME NEW nds
    PROVE  \E f : /\ IsWalk(nds, MAX_NODES + 1, f)
                  /\ \A h : WalkOf(nds, h) = f[MAX_NODES + 1][h]
<1> DEFINE f == CHOOSE g : IsWalk(nds, MAX_NODES + 1, g)
<1>1. IsWalk(nds, MAX_NODES + 1, f)
  <2>1. MAX_NODES + 1 \in Nat
    BY ListPoolAssumption
  <2> QED BY <2>1, WalkExists
<1>2. \A h : WalkOf(nds, h) = f[MAX_NODES + 1][h]
  BY DEF WalkOf, IsWalk, Links
<1> HIDE DEF f
<1> QED BY <1>1, <1>2

-----------------------------------------------------------------------------
(***************************************************************************)
(* Paths.                                                                  *)
(***************************************************************************)

\* The node at position k of a path, NIL behind its end.
At(c, k) == IF k \in 1 .. Len(c) THEN c[k] ELSE NIL

IsPath(nds, h, c) ==
    /\ c \in Seq(Nodes) /\ IsInjective(c)
    /\ h = At(c, 1)
    /\ \A k \in 1 .. Len(c) : nds[c[k]].tail = At(c, k + 1)

LEMMA SameSequence ==
    ASSUME NEW S, NEW s \in Seq(S), NEW t \in Seq(S), Len(s) = Len(t),
           \A k \in 1 .. Len(s) : s[k] = t[k]
    PROVE  s = t
<1>1. s = [k \in 1 .. Len(s) |-> s[k]] /\ t = [k \in 1 .. Len(t) |-> t[k]]
  OBVIOUS
<1>2. [k \in 1 .. Len(s) |-> s[k]] = [k \in 1 .. Len(t) |-> t[k]]
  OBVIOUS
<1> QED BY <1>1, <1>2

LEMMA Concatenation ==
    ASSUME NEW S, NEW s \in Seq(S), NEW t \in Seq(S)
    PROVE  s \o t \in Seq(S) /\ Len(s \o t) = Len(s) + Len(t)
OBVIOUS

\* What is left of a path from position i on.
From(c, i) == [k \in 1 .. (Len(c) - i + 1) |-> c[i + k - 1]]

LEMMA FromFacts ==
    ASSUME NEW c \in Seq(Nodes)
    PROVE  /\ From(c, Len(c) + 1) = <<>>
           /\ From(c, 1) = c
           /\ \A i \in 1 .. Len(c) : <<c[i]>> \o From(c, i + 1) = From(c, i)
<1>1. Len(c) \in Nat /\ DOMAIN c = 1 .. Len(c) /\ c \in [1 .. Len(c) -> Nodes]
  OBVIOUS
<1>2. ASSUME NEW i \in 1 .. (Len(c) + 1)
      PROVE  /\ From(c, i) \in Seq(Nodes)
             /\ Len(From(c, i)) = Len(c) - i + 1
             /\ \A k \in 1 .. (Len(c) - i + 1) : From(c, i)[k] = c[i + k - 1]
  <2>1. Len(c) - i + 1 \in Nat
    BY <1>1
  <2>2. \A k \in 1 .. (Len(c) - i + 1) : i + k - 1 \in 1 .. Len(c)
    BY <1>1
  <2>3. From(c, i) \in [1 .. (Len(c) - i + 1) -> Nodes]
    BY <1>1, <2>2 DEF From
  <2> QED BY <2>1, <2>3 DEF From
<1>3. From(c, Len(c) + 1) = <<>>
  <2>1. Len(c) + 1 \in 1 .. (Len(c) + 1)
    BY <1>1
  <2> QED BY <1>1, <1>2, <2>1
<1>4. From(c, 1) = c
  <2>1. 1 \in 1 .. (Len(c) + 1) /\ Len(c) - 1 + 1 = Len(c)
    BY <1>1
  <2>2. /\ From(c, 1) \in Seq(Nodes) /\ Len(From(c, 1)) = Len(c)
        /\ \A k \in 1 .. Len(c) : From(c, 1)[k] = c[1 + k - 1]
    BY <1>2, <2>1
  <2>3. \A k \in 1 .. Len(c) : From(c, 1)[k] = c[k]
    BY <2>2
  <2> QED BY <2>2, <2>3, SameSequence
<1>5. ASSUME NEW i \in 1 .. Len(c)
      PROVE  <<c[i]>> \o From(c, i + 1) = From(c, i)
  <2> DEFINE s == From(c, i + 1)
             t == From(c, i)
  <2>1. i \in 1 .. (Len(c) + 1) /\ i + 1 \in 1 .. (Len(c) + 1) /\ c[i] \in Nodes
    BY <1>1
  <2>2. /\ s \in Seq(Nodes) /\ Len(s) = Len(c) - i
        /\ \A k \in 1 .. (Len(c) - i) : s[k] = c[i + k]
    <3>1. /\ s \in Seq(Nodes) /\ Len(s) = Len(c) - (i + 1) + 1
          /\ \A k \in 1 .. (Len(c) - (i + 1) + 1) : s[k] = c[(i + 1) + k - 1]
      BY <1>2, <2>1
    <3>2. Len(c) - (i + 1) + 1 = Len(c) - i
      BY <1>1
    <3>3. \A k \in 1 .. (Len(c) - i) : (i + 1) + k - 1 = i + k
      OBVIOUS
    <3> HIDE DEF s
    <3> QED BY <3>1, <3>2, <3>3
  <2>3. /\ t \in Seq(Nodes) /\ Len(t) = Len(c) - i + 1
        /\ \A k \in 1 .. (Len(c) - i + 1) : t[k] = c[i + k - 1]
    BY <1>2, <2>1
  <2> HIDE DEF s, t
  <2>4. <<c[i]>> \o s \in Seq(Nodes) /\ Len(<<c[i]>> \o s) = Len(c) - i + 1
    <3>1. <<c[i]>> \in Seq(Nodes) /\ Len(<<c[i]>>) = 1
      BY <2>1
    <3>2. <<c[i]>> \o s \in Seq(Nodes) /\ Len(<<c[i]>> \o s) = 1 + Len(s)
      BY <2>2, <3>1, Concatenation
    <3> QED BY <1>1, <2>2, <3>2
  <2>5. ASSUME NEW k \in 1 .. (Len(c) - i + 1) PROVE (<<c[i]>> \o s)[k] = t[k]
    <3>1. CASE k = 1
      BY <1>1, <2>1, <2>2, <2>3, <3>1
    <3>2. CASE k # 1
      <4>1. k - 1 \in 1 .. (Len(c) - i)
        BY <1>1, <3>2
      <4>2. (<<c[i]>> \o s)[k] = s[k - 1]
        BY <1>1, <2>1, <2>2, <3>2, <4>1
      <4> QED BY <1>1, <2>2, <2>3, <4>1, <4>2
    <3> QED BY <3>1, <3>2
  <2>6. <<c[i]>> \o s = t
    BY <2>3, <2>4, <2>5, SameSequence
  <2> QED BY <2>6 DEF s, t
<1> QED BY <1>3, <1>4, <1>5

\* A path without repetitions is no longer than there are nodes.
LEMMA PathLength ==
    ASSUME NEW c \in Seq(Nodes), IsInjective(c)
    PROVE  Len(c) <= MAX_NODES
<1>1. Len(c) \in Nat /\ DOMAIN c = 1 .. Len(c) /\ c \in [1 .. Len(c) -> Range(c)]
  BY DEF Range
<1>2. c \in Bijection(1 .. Len(c), Range(c))
  BY <1>1 DEF Bijection, Injection, Surjection, IsInjective, Range
<1>3. ExistsBijection(1 .. Len(c), Range(c))
  BY <1>2 DEF ExistsBijection
<1>4. Cardinality(Range(c)) = Len(c)
  BY <1>1, <1>3, FS_CountingElements
<1>5. IsFiniteSet(Nodes) /\ Cardinality(Nodes) = MAX_NODES
  <2>1. 0 \in Int /\ MAX_NODES - 1 \in Int /\ MAX_NODES \in Nat
    BY ListPoolAssumption
  <2>2. /\ IsFiniteSet(0 .. (MAX_NODES - 1))
        /\ Cardinality(0 .. (MAX_NODES - 1)) =
             IF 0 > MAX_NODES - 1 THEN 0 ELSE (MAX_NODES - 1) - 0 + 1
    BY <2>1, FS_Interval
  <2> QED BY <2>1, <2>2 DEF Nodes
<1>6. Range(c) \subseteq Nodes
  BY <1>1 DEF Range
<1>7. Cardinality(Range(c)) <= Cardinality(Nodes)
  BY <1>5, <1>6, FS_Subset
<1> QED BY <1>4, <1>5, <1>7

\* The walk returns the path that starts where it does.
LEMMA WalkIsPath ==
    ASSUME NEW nds, NEW h, NEW c, IsPath(nds, h, c)
    PROVE  WalkOf(nds, h) = c
<1> DEFINE K == MAX_NODES + 1
           L == Len(c)
<1>1. c \in Seq(Nodes) /\ L \in Nat /\ K \in Nat /\ L <= K /\ NIL \notin Nodes
      /\ \A k \in 1 .. L : c[k] \in Nodes
  <2>1. c \in Seq(Nodes) /\ IsInjective(c)
    BY DEF IsPath
  <2>2. L <= MAX_NODES
    BY <2>1, PathLength
  <2> QED BY <2>1, <2>2, ListPoolAssumption DEF Nodes, NIL
<1>2. PICK f : IsWalk(nds, K, f) /\ \A g : WalkOf(nds, g) = f[K][g]
  BY WalkIsWalk
<1> HIDE DEF K
<1>3. ASSUME NEW k \in 0 .. K, NEW n \in Links
      PROVE  f[k][n] = IF k = 0 \/ n = NIL THEN <<>> ELSE <<n>> \o f[k - 1][nds[n].tail]
  <2>1. f[k] = [m \in Links |-> IF k = 0 \/ m = NIL THEN <<>>
                                ELSE <<m>> \o f[k - 1][nds[m].tail]]
    BY <1>2 DEF IsWalk
  <2> QED BY <2>1
<1> DEFINE S == {j \in Nat : j <= L => \A k \in 0 .. K : j <= k =>
                               f[k][At(c, L - j + 1)] = From(c, L - j + 1)}
<1>4. 0 \in S
  <2>1. At(c, L - 0 + 1) = NIL /\ L - 0 + 1 = L + 1
    BY <1>1 DEF At
  <2>2. \A k \in 0 .. K : f[k][NIL] = <<>>
    BY <1>3 DEF Links
  <2>3. From(c, L + 1) = <<>>
    BY <1>1, FromFacts
  <2> QED BY <1>1, <2>1, <2>2, <2>3
<1>5. ASSUME NEW j \in S PROVE j + 1 \in S
  <2> SUFFICES ASSUME j + 1 <= L, NEW k \in 0 .. K, j + 1 <= k
               PROVE  f[k][At(c, L - (j + 1) + 1)] = From(c, L - (j + 1) + 1)
    BY <1>1
  <2> DEFINE i == L - j
  <2>1. /\ j \in Nat /\ i \in 1 .. L /\ L - (j + 1) + 1 = i /\ L - j + 1 = i + 1
        /\ k - 1 \in 0 .. K /\ j <= k - 1 /\ k # 0 /\ j <= L
    BY <1>1
  <2>2. f[k - 1][At(c, i + 1)] = From(c, i + 1)
    BY <2>1
  <2>3. At(c, i) = c[i] /\ c[i] \in Links /\ c[i] # NIL
    BY <1>1, <2>1 DEF At, Links
  <2>4. nds[c[i]].tail = At(c, i + 1)
    BY <2>1 DEF IsPath
  <2>5. f[k][c[i]] = <<c[i]>> \o From(c, i + 1)
    BY <1>3, <2>1, <2>2, <2>3, <2>4
  <2>6. <<c[i]>> \o From(c, i + 1) = From(c, i)
    BY <1>1, <2>1, FromFacts
  <2> QED BY <2>1, <2>3, <2>5, <2>6
<1>6. L \in S
  <2>1. S \subseteq Nat
    OBVIOUS
  <2> HIDE DEF S
  <2> QED BY <1>1, <1>4, <1>5, <2>1, Induction
<1>7. f[K][At(c, 1)] = From(c, 1)
  <2>1. L - L + 1 = 1 /\ K \in 0 .. K
    BY <1>1
  <2> QED BY <1>1, <1>6, <2>1
<1> QED BY <1>1, <1>2, <1>7, FromFacts DEF IsPath

-----------------------------------------------------------------------------
(***************************************************************************)
(* A node goes into a path behind position p, or position p goes.          *)
(***************************************************************************)

Ins(c, p, n) == [k \in 1 .. (Len(c) + 1) |-> IF k <= p THEN c[k]
                                            ELSE IF k = p + 1 THEN n ELSE c[k - 1]]
Del(c, p)    == [k \in 1 .. (Len(c) - 1) |-> IF k < p THEN c[k] ELSE c[k + 1]]

LEMMA InsFacts ==
    ASSUME NEW S, NEW c \in Seq(S), NEW p \in 0 .. Len(c), NEW n \in S
    PROVE  /\ Ins(c, p, n) \in Seq(S) /\ Len(Ins(c, p, n)) = Len(c) + 1
           /\ \A k \in 1 .. (Len(c) + 1) :
                Ins(c, p, n)[k] = IF k <= p THEN c[k]
                                  ELSE IF k = p + 1 THEN n ELSE c[k - 1]
<1>1. Len(c) \in Nat /\ \A k \in 1 .. Len(c) : c[k] \in S
  OBVIOUS
<1>2. \A k \in 1 .. (Len(c) + 1) : /\ k <= p => k \in 1 .. Len(c)
                                   /\ ~(k <= p) /\ k # p + 1 => k - 1 \in 1 .. Len(c)
  BY <1>1
<1>3. Ins(c, p, n) \in [1 .. (Len(c) + 1) -> S]
  BY <1>1, <1>2 DEF Ins
<1> QED BY <1>1, <1>3 DEF Ins

LEMMA DelFacts ==
    ASSUME NEW S, NEW c \in Seq(S), NEW p \in 1 .. Len(c)
    PROVE  /\ Del(c, p) \in Seq(S) /\ Len(Del(c, p)) = Len(c) - 1
           /\ \A k \in 1 .. (Len(c) - 1) :
                Del(c, p)[k] = IF k < p THEN c[k] ELSE c[k + 1]
<1>1. Len(c) \in Nat /\ \A k \in 1 .. Len(c) : c[k] \in S
  OBVIOUS
<1>2. \A k \in 1 .. (Len(c) - 1) : k \in 1 .. Len(c) /\ k + 1 \in 1 .. Len(c)
  BY <1>1
<1>3. Del(c, p) \in [1 .. (Len(c) - 1) -> S] /\ Len(c) - 1 \in Nat
  BY <1>1, <1>2 DEF Del
<1> QED BY <1>1, <1>3 DEF Del

LEMMA InsRange ==
    ASSUME NEW c \in Seq(Nodes), NEW p \in 0 .. Len(c), NEW n \in Nodes,
           IsInjective(c), n \notin Range(c)
    PROVE  /\ Range(Ins(c, p, n)) = Range(c) \cup {n}
           /\ IsInjective(Ins(c, p, n))
<1> DEFINE d == Ins(c, p, n)
<1>1. /\ DOMAIN c = 1 .. Len(c) /\ DOMAIN d = 1 .. (Len(c) + 1) /\ Len(c) \in Nat
      /\ \A k \in 1 .. (Len(c) + 1) :
           d[k] = IF k <= p THEN c[k] ELSE IF k = p + 1 THEN n ELSE c[k - 1]
  <2>1. d \in Seq(Nodes) /\ Len(d) = Len(c) + 1
    BY InsFacts
  <2>2. DOMAIN d = 1 .. (Len(c) + 1)
    BY <2>1
  <2>3. DOMAIN c = 1 .. Len(c) /\ Len(c) \in Nat
    OBVIOUS
  <2>4. \A k \in 1 .. (Len(c) + 1) :
          d[k] = IF k <= p THEN c[k] ELSE IF k = p + 1 THEN n ELSE c[k - 1]
    BY DEF Ins
  <2> HIDE DEF d
  <2> QED BY <2>2, <2>3, <2>4, Zenon
<1> HIDE DEF d
<1>2. \A k \in 1 .. (Len(c) + 1) :
        \/ k = p + 1 /\ d[k] = n
        \/ k < p + 1 /\ k \in 1 .. Len(c) /\ d[k] = c[k]
        \/ k > p + 1 /\ k - 1 \in 1 .. Len(c) /\ d[k] = c[k - 1]
  BY <1>1
<1>3. \A k \in 1 .. Len(c) : c[k] # n
  BY <1>1 DEF Range
<1>4. IsInjective(d)
  <2> SUFFICES ASSUME NEW a \in 1 .. (Len(c) + 1), NEW b \in 1 .. (Len(c) + 1),
                      d[a] = d[b]
               PROVE  a = b
    BY <1>1 DEF IsInjective
  <2> DEFINE Old(k) == IF k < p + 1 THEN k ELSE k - 1
  <2>1. \A j, k \in 1 .. Len(c) : c[j] = c[k] => j = k
    BY <1>1 DEF IsInjective
  <2>2. \A k \in 1 .. (Len(c) + 1) :
          IF k = p + 1 THEN d[k] = n ELSE Old(k) \in 1 .. Len(c) /\ d[k] = c[Old(k)]
    BY <1>1, <1>2
  <2>3. a # p + 1 /\ b # p + 1 /\ Old(a) = Old(b) => a = b
    BY <1>1
  <2> HIDE DEF Old
  <2> QED BY <1>3, <2>1, <2>2, <2>3
<1>5. Range(d) \subseteq Range(c) \cup {n}
  BY <1>1, <1>2 DEF Range
<1>6. n \in Range(d)
  <2>1. p + 1 \in 1 .. (Len(c) + 1) /\ d[p + 1] = n
    BY <1>1
  <2> QED BY <1>1, <2>1 DEF Range
<1>7. ASSUME NEW k \in 1 .. Len(c) PROVE c[k] \in Range(d)
  <2>1. CASE k <= p
    <3>1. k \in 1 .. (Len(c) + 1) /\ d[k] = c[k]
      BY <1>1, <2>1
    <3> QED BY <1>1, <3>1 DEF Range
  <2>2. CASE k > p
    <3>1. k + 1 \in 1 .. (Len(c) + 1) /\ d[k + 1] = c[k]
      BY <1>1, <2>2
    <3> QED BY <1>1, <3>1 DEF Range
  <2> QED BY <1>1, <2>1, <2>2
<1>8. Range(c) \subseteq Range(d)
  BY <1>1, <1>7 DEF Range
<1>9. Range(d) = Range(c) \cup {n}
  BY <1>5, <1>6, <1>8
<1> QED BY <1>4, <1>9 DEF d

LEMMA DelRange ==
    ASSUME NEW c \in Seq(Nodes), NEW p \in 1 .. Len(c), IsInjective(c)
    PROVE  /\ Range(Del(c, p)) = Range(c) \ {c[p]}
           /\ IsInjective(Del(c, p))
<1> DEFINE d == Del(c, p)
<1>1. /\ DOMAIN c = 1 .. Len(c) /\ DOMAIN d = 1 .. (Len(c) - 1) /\ Len(c) \in Nat
      /\ \A k \in 1 .. (Len(c) - 1) : d[k] = IF k < p THEN c[k] ELSE c[k + 1]
  <2>1. d \in Seq(Nodes) /\ Len(d) = Len(c) - 1
    BY DelFacts
  <2>2. DOMAIN d = 1 .. (Len(c) - 1)
    BY <2>1
  <2>3. DOMAIN c = 1 .. Len(c) /\ Len(c) \in Nat
    OBVIOUS
  <2> QED BY <2>2, <2>3, DelFacts
<1> HIDE DEF d
<1>2. \A k \in 1 .. (Len(c) - 1) :
        \/ k < p /\ k \in 1 .. Len(c) /\ d[k] = c[k]
        \/ k >= p /\ k + 1 \in 1 .. Len(c) /\ d[k] = c[k + 1]
  BY <1>1
<1>3. \A j, k \in 1 .. Len(c) : c[j] = c[k] => j = k
  BY <1>1 DEF IsInjective
<1>4. IsInjective(d)
  <2> SUFFICES ASSUME NEW a \in 1 .. (Len(c) - 1), NEW b \in 1 .. (Len(c) - 1),
                      d[a] = d[b]
               PROVE  a = b
    BY <1>1 DEF IsInjective
  <2> DEFINE Old(k) == IF k < p THEN k ELSE k + 1
  <2>1. \A k \in 1 .. (Len(c) - 1) : Old(k) \in 1 .. Len(c) /\ d[k] = c[Old(k)]
    BY <1>1, <1>2
  <2>2. Old(a) = Old(b) => a = b
    BY <1>1
  <2> HIDE DEF Old
  <2> QED BY <1>3, <2>1, <2>2
<1>5. \A k \in 1 .. (Len(c) - 1) : d[k] \in Range(c) /\ d[k] # c[p]
  <2> TAKE k \in 1 .. (Len(c) - 1)
  <2>1. CASE k < p
    <3>1. k \in 1 .. Len(c) /\ d[k] = c[k] /\ k # p
      BY <1>1, <1>2, <2>1
    <3> QED BY <1>1, <1>3, <3>1 DEF Range
  <2>2. CASE k >= p
    <3>1. k + 1 \in 1 .. Len(c) /\ d[k] = c[k + 1] /\ k + 1 # p
      BY <1>1, <1>2, <2>2
    <3> QED BY <1>1, <1>3, <3>1 DEF Range
  <2> QED BY <1>1, <2>1, <2>2
<1>6. ASSUME NEW k \in 1 .. Len(c), k # p PROVE c[k] \in Range(d)
  <2>1. CASE k < p
    <3>1. k \in 1 .. (Len(c) - 1) /\ d[k] = c[k]
      BY <1>1, <2>1
    <3> QED BY <1>1, <3>1 DEF Range
  <2>2. CASE k > p
    <3>1. k - 1 \in 1 .. (Len(c) - 1) /\ d[k - 1] = c[k]
      BY <1>1, <2>2
    <3> QED BY <1>1, <3>1 DEF Range
  <2> QED BY <1>1, <1>6, <2>1, <2>2
<1>7. Range(d) = Range(c) \ {c[p]}
  BY <1>1, <1>5, <1>6 DEF Range
<1> QED BY <1>4, <1>7 DEF d

\* The links as ListInsert leaves them.
LEMMA InsertPath ==
    ASSUME NEW nds, NEW h, NEW c, IsPath(nds, h, c),
           NEW p \in 0 .. Len(c), NEW n \in Nodes, n \notin Range(c),
           NEW nds2, nds2[n].tail = At(c, p + 1),
           \A k \in 1 .. Len(c) :
              nds2[c[k]].tail = IF k = p THEN n ELSE nds[c[k]].tail,
           NEW h2, h2 = IF p = 0 THEN n ELSE h
    PROVE  IsPath(nds2, h2, Ins(c, p, n))
<1> DEFINE d == Ins(c, p, n)
<1>1. c \in Seq(Nodes) /\ IsInjective(c) /\ Len(c) \in Nat
  BY DEF IsPath
<1>2. d \in Seq(Nodes) /\ IsInjective(d) /\ Len(d) = Len(c) + 1
  BY <1>1, InsFacts, InsRange
<1>3. \A k \in 1 .. (Len(c) + 1) :
        d[k] = IF k <= p THEN c[k] ELSE IF k = p + 1 THEN n ELSE c[k - 1]
  BY DEF Ins
<1>4. h = At(c, 1) /\ \A k \in 1 .. Len(c) : nds[c[k]].tail = At(c, k + 1)
  BY DEF IsPath
<1> HIDE DEF d
<1>5. h2 = At(d, 1)
  <2>1. CASE p = 0
    BY <1>1, <1>2, <1>3, <2>1 DEF At
  <2>2. CASE p # 0
    BY <1>1, <1>2, <1>3, <1>4, <2>2 DEF At
  <2> QED BY <2>1, <2>2
<1>6. ASSUME NEW k \in 1 .. (Len(c) + 1) PROVE nds2[d[k]].tail = At(d, k + 1)
  <2>1. CASE k < p
    <3>1. d[k] = c[k] /\ k \in 1 .. Len(c) /\ k # p /\ k + 1 \in 1 .. Len(c)
      BY <1>1, <1>3, <2>1
    <3>2. d[k + 1] = c[k + 1] /\ k + 1 \in 1 .. Len(d)
      BY <1>1, <1>2, <1>3, <2>1
    <3> QED BY <1>4, <3>1, <3>2 DEF At
  <2>2. CASE k = p
    <3>1. d[k] = c[k] /\ k \in 1 .. Len(c) /\ d[k + 1] = n /\ k + 1 \in 1 .. Len(d)
      BY <1>1, <1>2, <1>3, <2>2
    <3> QED BY <2>2, <3>1 DEF At
  <2>3. CASE k = p + 1
    <3>1. d[k] = n
      BY <1>1, <1>3, <2>3
    <3>2. At(d, k + 1) = At(c, p + 1)
      BY <1>1, <1>2, <1>3, <2>3 DEF At
    <3> QED BY <3>1, <3>2
  <2>4. CASE k > p + 1
    <3>1. d[k] = c[k - 1] /\ k - 1 \in 1 .. Len(c) /\ k - 1 # p /\ (k - 1) + 1 = k
      BY <1>1, <1>3, <2>4
    <3>2. At(d, k + 1) = At(c, k)
      BY <1>1, <1>2, <1>3, <2>4 DEF At
    <3> QED BY <1>4, <3>1, <3>2
  <2> QED BY <1>1, <2>1, <2>2, <2>3, <2>4
<1> QED BY <1>2, <1>5, <1>6 DEF IsPath, d

\* The links as ListDelete and ListRemoveFirst leave them.
LEMMA DeletePath ==
    ASSUME NEW nds, NEW h, NEW c, IsPath(nds, h, c), NEW p \in 1 .. Len(c), NEW nds2,
           \A k \in 1 .. Len(c) :
              nds2[c[k]].tail = IF k = p - 1 THEN At(c, p + 1) ELSE nds[c[k]].tail,
           NEW h2, h2 = IF p = 1 THEN At(c, 2) ELSE h
    PROVE  IsPath(nds2, h2, Del(c, p))
<1> DEFINE d == Del(c, p)
<1>1. c \in Seq(Nodes) /\ IsInjective(c) /\ Len(c) \in Nat
  BY DEF IsPath
<1>2. d \in Seq(Nodes) /\ IsInjective(d) /\ Len(d) = Len(c) - 1
  BY <1>1, DelFacts, DelRange
<1>3. \A k \in 1 .. (Len(c) - 1) : d[k] = IF k < p THEN c[k] ELSE c[k + 1]
  BY <1>1, DelFacts, Zenon
<1>4. h = At(c, 1) /\ \A k \in 1 .. Len(c) : nds[c[k]].tail = At(c, k + 1)
  BY DEF IsPath
<1> HIDE DEF d
<1>5. h2 = At(d, 1)
  <2>1. CASE p = 1
    BY <1>1, <1>2, <1>3, <2>1 DEF At
  <2>2. CASE p # 1
    BY <1>1, <1>2, <1>3, <1>4, <2>2 DEF At
  <2> QED BY <2>1, <2>2
<1>6. ASSUME NEW k \in 1 .. (Len(c) - 1) PROVE nds2[d[k]].tail = At(d, k + 1)
  <2>1. CASE k < p - 1
    <3>1. d[k] = c[k] /\ k \in 1 .. Len(c) /\ k # p - 1
      BY <1>1, <1>3, <2>1
    <3>2. At(d, k + 1) = At(c, k + 1)
      BY <1>1, <1>2, <1>3, <2>1 DEF At
    <3> QED BY <1>4, <3>1, <3>2
  <2>2. CASE k = p - 1
    <3>1. d[k] = c[k] /\ k \in 1 .. Len(c)
      BY <1>1, <1>3, <2>2
    <3>2. At(d, k + 1) = At(c, p + 1)
      BY <1>1, <1>2, <1>3, <2>2 DEF At
    <3> QED BY <2>2, <3>1, <3>2
  <2>3. CASE k > p - 1
    <3>1. d[k] = c[k + 1] /\ k + 1 \in 1 .. Len(c) /\ k + 1 # p - 1
      BY <1>1, <1>3, <2>3
    <3>2. At(d, k + 1) = At(c, (k + 1) + 1)
      BY <1>1, <1>2, <1>3, <2>3 DEF At
    <3> QED BY <1>4, <3>1, <3>2
  <2> QED BY <1>1, <2>1, <2>2, <2>3
<1> QED BY <1>2, <1>5, <1>6 DEF IsPath, d

-----------------------------------------------------------------------------
(***************************************************************************)
(* The inductive invariant: some paths, one for each list, share the nodes *)
(* in use between them; and each of these has an element.                  *)
(***************************************************************************)

ListRecord    == [busy : BOOLEAN, nodes : Links, current : Links, order : Orders]
NodeRecord    == [busy : BOOLEAN, element : Links, tail : Links]
ElementRecord == [busy : BOOLEAN, element : Int]

PoolTypeOK ==
    /\ lists \in [Lists -> ListRecord]
    /\ nodes \in [Nodes -> NodeRecord]
    /\ elements \in [Nodes -> ElementRecord]

Partition(ls, nds, cs) ==
    /\ \A l \in Lists : IsPath(nds, ls[l].nodes, cs[l])
    /\ \A l, k \in Lists : l # k => Range(cs[l]) \cap Range(cs[k]) = {}
    /\ \A n \in Nodes :
         nds[n].busy <=> \E l \in Lists : ls[l].busy /\ n \in Range(cs[l])
    /\ \A l \in Lists : ~ls[l].busy => cs[l] = <<>>

Owned(nds, els) ==
    /\ \A n \in Nodes : nds[n].busy => nds[n].element \in Nodes /\ els[nds[n].element].busy
    /\ \A e \in Nodes : els[e].busy => \E n \in Nodes : nds[n].busy /\ nds[n].element = e
    /\ \A n, m \in Nodes :
         nds[n].busy /\ nds[m].busy /\ nds[n].element = nds[m].element => n = m

ListInv ==
    /\ PoolTypeOK
    /\ \E cs \in [Lists -> Seq(Nodes)] : Partition(lists, nodes, cs)
    /\ Owned(nodes, elements)

LEMMA ChainIsPath ==
    ASSUME NEW cs, Partition(lists, nodes, cs), NEW l \in Lists
    PROVE  Chain(l) = cs[l]
<1>1. Chain(l) = WalkOf(nodes, lists[l].nodes)
  BY DEF Chain, WalkOf
<1>2. IsPath(nodes, lists[l].nodes, cs[l])
  BY DEF Partition
<1> QED BY <1>1, <1>2, WalkIsPath

LEMMA ChainIsPathAfter ==
    ASSUME NEW cs, Partition(lists', nodes', cs), NEW l \in Lists
    PROVE  Chain(l)' = cs[l]
<1>1. Chain(l)' = WalkOf(nodes', lists'[l].nodes)
  BY DEF Chain, WalkOf
<1>2. IsPath(nodes', lists'[l].nodes, cs[l])
  BY DEF Partition
<1> QED BY <1>1, <1>2, WalkIsPath

LEMMA EmptyPath ==
    ASSUME NEW nds, NEW h
    PROVE  /\ IsPath(nds, h, <<>>) <=> h = NIL
           /\ Range(<<>>) = {}
<1>1. <<>> \in Seq(Nodes) /\ Len(<<>>) = 0 /\ 1 .. 0 = {}
  OBVIOUS
<1>2. IsInjective(<<>>) /\ Range(<<>>) = {}
  BY DEF IsInjective, Range
<1> QED BY <1>1, <1>2 DEF IsPath, At

LEMMA SamePath ==
    ASSUME NEW nds, NEW h, NEW c, IsPath(nds, h, c), NEW nds2,
           \A n \in Range(c) : nds2[n].tail = nds[n].tail
    PROVE  IsPath(nds2, h, c)
<1>1. \A k \in 1 .. Len(c) : c[k] \in Range(c)
  BY DEF IsPath, Range
<1> QED BY <1>1 DEF IsPath

LEMMA PathNodes ==
    ASSUME NEW nds, NEW h, NEW c, IsPath(nds, h, c)
    PROVE  Range(c) \subseteq Nodes
BY DEF IsPath, Range

\* A step that changes one list: its new path takes no node of another list,
\* and the nodes that enter or leave it are marked so.
LEMMA EditStep ==
    ASSUME NEW cs \in [Lists -> Seq(Nodes)], Partition(lists, nodes, cs),
           NEW l \in Lists, NEW c, IsPath(nodes', lists'[l].nodes, c),
           \A k \in Lists \ {l} : lists'[k] = lists[k],
           \A n \in Nodes \ (Range(cs[l]) \cup Range(c)) : nodes'[n] = nodes[n],
           \A n \in Range(c) : nodes'[n].busy,
           \A n \in Range(cs[l]) \ Range(c) : ~nodes'[n].busy,
           \A n \in Range(c) \ Range(cs[l]) : ~nodes[n].busy,
           lists'[l].busy \/ c = <<>>
    PROVE  /\ [cs EXCEPT ![l] = c] \in [Lists -> Seq(Nodes)]
           /\ Partition(lists', nodes', [cs EXCEPT ![l] = c])
<1> DEFINE ds == [cs EXCEPT ![l] = c]
<1>1. c \in Seq(Nodes) /\ Range(c) \subseteq Nodes
  BY PathNodes DEF IsPath
<1>2. /\ ds \in [Lists -> Seq(Nodes)] /\ ds[l] = c
      /\ \A k \in Lists \ {l} : ds[k] = cs[k]
  BY <1>1
<1> HIDE DEF ds
<1>3. ASSUME NEW k \in Lists, NEW n \in Range(cs[k]) PROVE nodes[n].busy /\ n \in Nodes
  <2>1. n \in Nodes
    BY PathNodes DEF Partition
  <2>2. lists[k].busy
    BY EmptyPath DEF Partition
  <2> QED BY <2>1, <2>2 DEF Partition
<1>4. \A k \in Lists \ {l} : Range(cs[k]) \cap Range(cs[l]) = {}
  BY DEF Partition
<1>5. \A k \in Lists \ {l} : Range(cs[k]) \cap Range(c) = {}
  BY <1>3, <1>4
<1>6. \A k \in Lists : IsPath(nodes', lists'[k].nodes, ds[k])
  <2> TAKE k \in Lists
  <2>1. CASE k = l
    BY <1>2, <2>1
  <2>2. CASE k # l
    <3>1. IsPath(nodes, lists[k].nodes, cs[k]) /\ lists'[k] = lists[k]
      BY <2>2 DEF Partition
    <3>2. \A n \in Range(cs[k]) : nodes'[n] = nodes[n]
      BY <1>3, <1>4, <1>5, <2>2
    <3> QED BY <1>2, <2>2, <3>1, <3>2, SamePath
  <2> QED BY <2>1, <2>2
<1>7. \A j, k \in Lists : j # k => Range(ds[j]) \cap Range(ds[k]) = {}
  <2>1. \A j, k \in Lists : j # k => Range(cs[j]) \cap Range(cs[k]) = {}
    BY DEF Partition
  <2> TAKE j, k \in Lists
  <2>2. CASE j = l
    BY <1>2, <1>5, <2>2
  <2>3. CASE k = l
    BY <1>2, <1>5, <2>3
  <2>4. CASE j # l /\ k # l
    <3>1. ds[j] = cs[j] /\ ds[k] = cs[k]
      BY <1>2, <2>4
    <3> QED BY <2>1, <3>1
  <2> QED BY <2>2, <2>3, <2>4
<1>8. ASSUME NEW n \in Nodes
      PROVE  nodes'[n].busy <=> \E k \in Lists : lists'[k].busy /\ n \in Range(ds[k])
  <2>1. CASE n \in Range(c)
    <3>1. lists'[l].busy
      BY <2>1, EmptyPath
    <3> QED BY <1>2, <2>1, <3>1
  <2>2. CASE n \notin Range(c) /\ n \in Range(cs[l])
    BY <1>2, <1>4, <2>2
  <2>3. CASE n \notin Range(c) /\ n \notin Range(cs[l])
    <3>1. nodes'[n] = nodes[n]
      BY <2>3
    <3>2. nodes[n].busy <=> \E k \in Lists : lists[k].busy /\ n \in Range(cs[k])
      BY DEF Partition
    <3>3. \A k \in Lists : (lists'[k].busy /\ n \in Range(ds[k])) <=>
                          (lists[k].busy /\ n \in Range(cs[k]))
      BY <1>2, <2>3
    <3> QED BY <3>1, <3>2, <3>3
  <2> QED BY <2>1, <2>2, <2>3
<1>9. \A k \in Lists : ~lists'[k].busy => ds[k] = <<>>
  BY <1>2 DEF Partition
<1> QED BY <1>2, <1>6, <1>7, <1>8, <1>9 DEF Partition, ds

\* A node and an element are taken.
LEMMA TakeStep ==
    ASSUME Owned(nodes, elements), NEW n \in Nodes, NEW e \in Nodes,
           ~nodes[n].busy, ~elements[e].busy, nodes'[n].busy, nodes'[n].element = e,
           \A m \in Nodes \ {n} : /\ nodes'[m].busy <=> nodes[m].busy
                                  /\ nodes'[m].element = nodes[m].element,
           elements'[e].busy, \A d \in Nodes \ {e} : elements'[d] = elements[d]
    PROVE  Owned(nodes', elements')
BY DEF Owned

\* Nodes are given back with their elements.
LEMMA GiveBackStep ==
    ASSUME Owned(nodes, elements), NEW S \in SUBSET Nodes,
           \A m \in S : nodes[m].busy /\ ~nodes'[m].busy,
           \A m \in Nodes \ S : nodes'[m].busy <=> nodes[m].busy,
           \A m \in Nodes : nodes'[m].element = nodes[m].element,
           \A d \in ElementsOf(S) : ~elements'[d].busy,
           \A d \in Nodes \ ElementsOf(S) : elements'[d] = elements[d]
    PROVE  Owned(nodes', elements')
<1>1. \A d : d \in ElementsOf(S) <=> \E m \in S : nodes[m].element = d
  BY DEF ElementsOf
<1>2. \A m \in Nodes : nodes'[m].busy <=> nodes[m].busy /\ m \notin S
  OBVIOUS
<1>3. \A d \in Nodes : elements'[d].busy <=> elements[d].busy /\ d \notin ElementsOf(S)
  OBVIOUS
<1>4. ASSUME NEW m \in Nodes, nodes'[m].busy
      PROVE  nodes'[m].element \in Nodes /\ elements'[nodes'[m].element].busy
  <2>1. nodes[m].busy /\ m \notin S
    BY <1>2, <1>4
  <2>2. nodes[m].element \in Nodes /\ elements[nodes[m].element].busy
    BY <2>1 DEF Owned
  <2>3. nodes[m].element \notin ElementsOf(S)
    BY <1>1, <2>1 DEF Owned
  <2> QED BY <1>3, <2>2, <2>3
<1>5. ASSUME NEW d \in Nodes, elements'[d].busy
      PROVE  \E m \in Nodes : nodes'[m].busy /\ nodes'[m].element = d
  <2>1. elements[d].busy /\ d \notin ElementsOf(S)
    BY <1>3, <1>5
  <2>2. PICK m \in Nodes : nodes[m].busy /\ nodes[m].element = d
    BY <2>1 DEF Owned
  <2> QED BY <1>1, <1>2, <2>1, <2>2
<1>6. ASSUME NEW m \in Nodes, NEW k \in Nodes, nodes'[m].busy, nodes'[k].busy,
             nodes'[m].element = nodes'[k].element
      PROVE  m = k
  <2>1. /\ nodes[m].busy /\ nodes[k].busy
        /\ nodes[m].element = nodes[k].element
    BY <1>2, <1>6
  <2> QED BY <2>1 DEF Owned
<1> QED BY <1>4, <1>5, <1>6 DEF Owned

-----------------------------------------------------------------------------
(***************************************************************************)
(* Every operation keeps the invariant.                                    *)
(***************************************************************************)

\* What a step does to the chains, to the values and to the lists.
Becomes(l, c) == Chain(l)' = c /\ \A k \in Lists \ {l} : Chain(k)' = Chain(k)

ValuesStay == \A m \in Nodes : nodes[m].busy => ValueOf(m)' = ValueOf(m)

KindsStay == \A k \in Lists : /\ lists'[k].busy = lists[k].busy
                              /\ lists'[k].order = lists[k].order

LEMMA ChainBecomes ==
    ASSUME NEW cs \in [Lists -> Seq(Nodes)], Partition(lists, nodes, cs),
           NEW l \in Lists, NEW c, Partition(lists', nodes', [cs EXCEPT ![l] = c])
    PROVE  Becomes(l, c)
<1>1. PICK ds : ds = [cs EXCEPT ![l] = c]
  OBVIOUS
<1>2. ds[l] = c /\ \A k \in Lists \ {l} : ds[k] = cs[k]
  BY <1>1
<1>3. \A k \in Lists : Chain(k)' = ds[k]
  BY <1>1, ChainIsPathAfter
<1>4. \A k \in Lists : Chain(k) = cs[k]
  BY ChainIsPath
<1> QED BY <1>2, <1>3, <1>4 DEF Becomes

LEMMA InvariantAfter ==
    ASSUME PoolTypeOK', NEW cs \in [Lists -> Seq(Nodes)],
           Partition(lists', nodes', cs), Owned(nodes', elements')
    PROVE  ListInv'
BY DEF ListInv, Partition, Owned

LEMMA SamePools ==
    ASSUME ListInv, UNCHANGED pools
    PROVE  ListInv'
BY DEF ListInv, PoolTypeOK, Partition, Owned, pools

\* ListFindNode stops at an element or behind the last one.
LEMMA StopFacts ==
    ASSUME NEW l, NEW v, NEW c \in Seq(Nodes), Chain(l) = c
    PROVE  /\ Stop(l, v) \in 1 .. (Len(c) + 1)
           /\ \A k \in 1 .. Len(c) : k < Stop(l, v) => StepsOver(l, c[k], v)
           /\ Stop(l, v) <= Len(c) => ~StepsOver(l, c[Stop(l, v)], v)
<1> DEFINE S == {Len(c) + 1} \cup {k \in DOMAIN c : ~StepsOver(l, c[k], v)}
<1>1. S \subseteq 1 .. (Len(c) + 1) /\ S # {} /\ S \subseteq Nat
  OBVIOUS
<1>2. \A k \in 1 .. Len(c) : k \in S <=> ~StepsOver(l, c[k], v)
  OBVIOUS
<1>3. Stop(l, v) = Min(S)
  BY DEF Stop
<1> HIDE DEF S
<1>4. \E m \in S : \A n \in S : m <= n
  BY <1>1, LeastNumber
<1>5. Min(S) \in S /\ \A n \in S : Min(S) <= n
  BY <1>4 DEF Min
<1>6. PICK m : m = Stop(l, v)
  OBVIOUS
<1>7. m \in S /\ m \in 1 .. (Len(c) + 1) /\ \A n \in S : m <= n
  BY <1>1, <1>3, <1>5, <1>6
<1>8. Len(c) \in Nat
  OBVIOUS
<1>9. \A k \in 1 .. Len(c) : k < m => StepsOver(l, c[k], v)
  BY <1>2, <1>7
<1>10. m <= Len(c) => ~StepsOver(l, c[m], v)
  BY <1>2, <1>7, <1>8
<1> QED BY <1>6, <1>7, <1>9, <1>10

LEMMA LinkFacts ==
    ASSUME NEW l \in Lists, NEW aux \in Links, NEW to \in Links,
           NEW lists1 \in [Lists -> ListRecord], NEW nodes1 \in [Nodes -> NodeRecord],
           LinkAfter(l, aux, to, lists1, nodes1)
    PROVE  /\ lists' \in [Lists -> ListRecord] /\ nodes' \in [Nodes -> NodeRecord]
           /\ \A k \in Lists \ {l} : lists'[k] = lists1[k]
           /\ lists'[l].nodes = IF aux = NIL THEN to ELSE lists1[l].nodes
           /\ lists'[l].busy = lists1[l].busy
           /\ lists'[l].current = lists1[l].current
           /\ lists'[l].order = lists1[l].order
           /\ \A m \in Nodes \ {aux} : nodes'[m] = nodes1[m]
           /\ \A m \in Nodes : /\ nodes'[m].busy = nodes1[m].busy
                               /\ nodes'[m].element = nodes1[m].element
                               /\ nodes'[m].tail = IF m = aux THEN to
                                                   ELSE nodes1[m].tail
<1>1. NIL \notin Nodes
  BY DEF Nodes, NIL
<1>2. CASE aux = NIL
  <2>1. lists' = [lists1 EXCEPT ![l].nodes = to] /\ nodes' = nodes1
    BY <1>2 DEF LinkAfter
  <2>2. lists' \in [Lists -> ListRecord]
    BY <2>1 DEF ListRecord
  <2> QED BY <1>1, <1>2, <2>1, <2>2 DEF ListRecord
<1>3. CASE aux # NIL
  <2>1. lists' = lists1 /\ nodes' = [nodes1 EXCEPT ![aux].tail = to] /\ aux \in Nodes
    BY <1>3 DEF LinkAfter, Links
  <2>2. nodes' \in [Nodes -> NodeRecord]
    BY <2>1 DEF NodeRecord
  <2> QED BY <1>3, <2>1, <2>2 DEF NodeRecord
<1> QED BY <1>2, <1>3

LEMMA PathFacts ==
    ASSUME NEW cs \in [Lists -> Seq(Nodes)], Partition(lists, nodes, cs), NEW l \in Lists
    PROVE  LET c == cs[l] IN
           /\ IsPath(nodes, lists[l].nodes, c) /\ Chain(l) = c
           /\ lists[l].nodes = At(c, 1) /\ IsInjective(c) /\ Len(c) \in Nat
           /\ \A k \in 1 .. Len(c) : c[k] \in Nodes /\ nodes[c[k]].tail = At(c, k + 1)
<1>1. IsPath(nodes, lists[l].nodes, cs[l])
  BY DEF Partition
<1>2. Chain(l) = cs[l]
  BY ChainIsPath
<1>3. \A k \in 1 .. Len(cs[l]) : cs[l][k] \in Nodes
  OBVIOUS
<1> QED BY <1>1, <1>2, <1>3 DEF IsPath

LEMMA NewListStep ==
    ASSUME ListInv, NEW l \in Lists, NEW order \in Orders, NewList(l, order)
    PROVE  ListInv'
<1>1. PICK cs \in [Lists -> Seq(Nodes)] : Partition(lists, nodes, cs)
  BY DEF ListInv
<1>2. /\ lists' = [lists EXCEPT ![l] = [busy |-> TRUE, nodes |-> NIL,
                                       current |-> NIL, order |-> order]]
      /\ nodes' = nodes /\ elements' = elements /\ ~lists[l].busy
  BY DEF NewList, IsFirstFree
<1>3. PoolTypeOK'
  BY <1>2 DEF ListInv, PoolTypeOK, ListRecord, Links
<1>4. cs[l] = <<>> /\ Range(cs[l]) = {} /\ Range(<<>>) = {}
  BY <1>1, <1>2, EmptyPath DEF Partition
<1>5. /\ lists'[l].nodes = NIL /\ \A k \in Lists \ {l} : lists'[k] = lists[k]
  BY <1>2 DEF ListInv, PoolTypeOK
<1>6. IsPath(nodes', lists'[l].nodes, <<>>)
  BY <1>5, EmptyPath
<1>7. /\ [cs EXCEPT ![l] = <<>>] \in [Lists -> Seq(Nodes)]
      /\ Partition(lists', nodes', [cs EXCEPT ![l] = <<>>])
  BY <1>1, <1>2, <1>4, <1>5, <1>6, EditStep
<1>8. Owned(nodes', elements')
  BY <1>2 DEF ListInv
<1> QED BY <1>3, <1>7, <1>8, InvariantAfter

\* A step that moves a cursor only.
LEMMA CursorStep ==
    ASSUME ListInv, NEW l \in Lists, NEW n \in Links,
           lists' = [lists EXCEPT ![l].current = n], UNCHANGED <<nodes, elements>>
    PROVE  ListInv'
<1>1. PICK cs \in [Lists -> Seq(Nodes)] : Partition(lists, nodes, cs)
  BY DEF ListInv
<1>2. lists \in [Lists -> ListRecord]
  BY DEF ListInv, PoolTypeOK
<1>3. /\ lists' \in [Lists -> ListRecord]
      /\ \A k \in Lists : lists'[k].nodes = lists[k].nodes /\ lists'[k].busy = lists[k].busy
  BY <1>2 DEF ListRecord
<1>4. PoolTypeOK'
  BY <1>3 DEF ListInv, PoolTypeOK
<1>5. Partition(lists', nodes', cs)
  BY <1>1, <1>3 DEF Partition
<1>6. Owned(nodes', elements')
  BY DEF ListInv
<1> QED BY <1>4, <1>5, <1>6, InvariantAfter

\* What an insertion does: the new node follows what sorts before it.
LEMMA InsertEffect ==
    ASSUME ListInv, NEW l \in Lists, NEW v \in Values, ListInsert(l, v),
           ~UNCHANGED pools
    PROVE  /\ ListInv' /\ ValuesStay /\ KindsStay
           /\ \E p \in 0 .. Len(Chain(l)), n \in Nodes :
                /\ p = IF lists[l].order = "LIST_SORTED" THEN Stop(l, v) - 1 ELSE 0
                /\ Becomes(l, Ins(Chain(l), p, n)) /\ ~nodes[n].busy
                /\ ValueOf(n)' = v
<1>1. PICK cs \in [Lists -> Seq(Nodes)] : Partition(lists, nodes, cs)
  BY DEF ListInv
<1>2. PICK c \in Seq(Nodes) : c = cs[l]
  OBVIOUS
<1>3. /\ IsPath(nodes, lists[l].nodes, c) /\ Chain(l) = c
      /\ lists[l].nodes = At(c, 1) /\ IsInjective(c) /\ Len(c) \in Nat
      /\ \A k \in 1 .. Len(c) : c[k] \in Nodes /\ nodes[c[k]].tail = At(c, k + 1)
  BY <1>1, <1>2, PathFacts
<1>4. PICK aux : aux = InsertAfter(l, v)
  OBVIOUS
<1>5. PICK n \in Nodes, e \in Nodes :
        /\ ~nodes[n].busy /\ ~elements[e].busy
        /\ LinkAfter(l, aux, n, lists,
               [nodes EXCEPT ![n] = [busy |-> TRUE, element |-> e,
                                     tail |-> SuccessorOf(l, aux)]])
        /\ elements' = [elements EXCEPT ![e] = [busy |-> TRUE, element |-> v]]
  BY <1>4 DEF ListInsert, IsFirstFree
<1>6. PICK p \in 0 .. Len(c) :
         /\ aux = IF p = 0 THEN NIL ELSE c[p]
         /\ p = IF lists[l].order = "LIST_SORTED" THEN Stop(l, v) - 1 ELSE 0
  <2>1. CASE lists[l].order # "LIST_SORTED"
    BY <1>3, <1>4, <2>1 DEF InsertAfter
  <2>2. CASE lists[l].order = "LIST_SORTED"
    <3>1. Stop(l, v) \in 1 .. (Len(c) + 1)
      BY <1>3, StopFacts
    <3>2. aux = IF Stop(l, v) = 1 THEN NIL ELSE c[Stop(l, v) - 1]
      BY <1>3, <1>4, <2>2 DEF InsertAfter, Before
    <3>3. Stop(l, v) - 1 \in 0 .. Len(c) /\ (Stop(l, v) - 1 = 0 <=> Stop(l, v) = 1)
      BY <1>3, <3>1
    <3> QED BY <2>2, <3>2, <3>3
  <2> QED BY <2>1, <2>2
<1>7. /\ p # 0 => p \in 1 .. Len(c) /\ c[p] \in Nodes
      /\ aux \in Links /\ NIL \notin Nodes
  <2>1. p # 0 => p \in 1 .. Len(c)
    BY <1>3
  <2>2. NIL \notin Nodes
    BY DEF Nodes, NIL
  <2> QED BY <1>3, <1>6, <2>1, <2>2 DEF Links
<1>8. SuccessorOf(l, aux) = At(c, p + 1) /\ At(c, p + 1) \in Links
  <2>1. CASE p = 0
    BY <1>3, <1>6, <2>1 DEF SuccessorOf, At, Links
  <2>2. CASE p # 0
    <3>1. aux = c[p] /\ aux # NIL /\ nodes[c[p]].tail = At(c, p + 1)
      BY <1>3, <1>6, <1>7, <2>2
    <3>2. At(c, p + 1) \in Links
      BY <1>3 DEF At, Links
    <3> QED BY <3>1, <3>2 DEF SuccessorOf
  <2> QED BY <2>1, <2>2
<1>9. PICK nodes1 : nodes1 = [nodes EXCEPT ![n] =
                       [busy |-> TRUE, element |-> e, tail |-> At(c, p + 1)]]
  OBVIOUS
<1>10. /\ nodes1 \in [Nodes -> NodeRecord] /\ lists \in [Lists -> ListRecord]
       /\ nodes1[n].busy /\ nodes1[n].element = e /\ nodes1[n].tail = At(c, p + 1)
       /\ \A m \in Nodes \ {n} : nodes1[m] = nodes[m]
  BY <1>8, <1>9 DEF ListInv, PoolTypeOK, NodeRecord, Links
<1>11. LinkAfter(l, aux, n, lists, nodes1)
  BY <1>5, <1>8, <1>9
<1>12. n \in Links
  BY DEF Links
<1>13. /\ lists' \in [Lists -> ListRecord] /\ nodes' \in [Nodes -> NodeRecord]
       /\ \A k \in Lists \ {l} : lists'[k] = lists[k]
       /\ lists'[l].nodes = IF aux = NIL THEN n ELSE lists[l].nodes
       /\ lists'[l].busy = lists[l].busy /\ lists'[l].order = lists[l].order
       /\ \A m \in Nodes \ {aux} : nodes'[m] = nodes1[m]
       /\ \A m \in Nodes : /\ nodes'[m].busy = nodes1[m].busy
                           /\ nodes'[m].element = nodes1[m].element
                           /\ nodes'[m].tail = IF m = aux THEN n ELSE nodes1[m].tail
  BY <1>7, <1>10, <1>11, <1>12, LinkFacts
<1>14. lists[l].busy
  BY DEF ListInsert
<1>15. \A m \in Range(c) : nodes[m].busy /\ m \in Nodes
  BY <1>1, <1>2, <1>3, <1>14, PathNodes DEF Partition
<1>16. n \notin Range(c) /\ \A k \in 1 .. Len(c) : c[k] \in Range(c) /\ c[k] # n
  <2>1. n \notin Range(c)
    BY <1>5, <1>15
  <2>2. \A k \in 1 .. Len(c) : c[k] \in Range(c)
    BY DEF Range
  <2> QED BY <2>1, <2>2
<1>17. aux # n
  BY <1>6, <1>7, <1>16
<1>18. nodes'[n].tail = At(c, p + 1)
  BY <1>10, <1>13, <1>17
<1>19. \A k \in 1 .. Len(c) :
         nodes'[c[k]].tail = IF k = p THEN n ELSE nodes[c[k]].tail
  <2> TAKE k \in 1 .. Len(c)
  <2>1. c[k] \in Nodes /\ c[k] # n /\ nodes1[c[k]] = nodes[c[k]]
    BY <1>3, <1>10, <1>16
  <2>2. c[k] = aux <=> k = p
    BY <1>3, <1>6, <1>7 DEF IsInjective
  <2> QED BY <1>13, <2>1, <2>2
<1>20. lists'[l].nodes = IF p = 0 THEN n ELSE lists[l].nodes
  BY <1>6, <1>7, <1>13
<1>21. IsPath(nodes', lists'[l].nodes, Ins(c, p, n))
  <2>1. IsPath(nodes, lists[l].nodes, c) /\ n \notin Range(c)
    BY <1>3, <1>16
  <2> QED BY <2>1, <1>18, <1>19, <1>20, InsertPath, Zenon
<1>22. Range(Ins(c, p, n)) = Range(c) \cup {n}
  BY <1>3, <1>16, InsRange
<1>23. \A m \in Nodes \ (Range(c) \cup {n}) : nodes'[m] = nodes[m]
  <2>1. \A m \in Nodes \ (Range(c) \cup {n}) : m # aux /\ m # n
    BY <1>6, <1>7, <1>16
  <2> QED BY <1>10, <1>13, <2>1
<1>24. \A m \in Range(c) \cup {n} : nodes'[m].busy
  BY <1>10, <1>13, <1>15
<1>25. /\ [cs EXCEPT ![l] = Ins(c, p, n)] \in [Lists -> Seq(Nodes)]
       /\ Partition(lists', nodes', [cs EXCEPT ![l] = Ins(c, p, n)])
  <2> DEFINE d == Ins(c, p, n)
  <2>1. Range(cs[l]) \cup Range(d) = Range(c) \cup {n}
    BY <1>2, <1>22
  <2>2. Range(cs[l]) \ Range(d) = {} /\ Range(d) \ Range(cs[l]) \subseteq {n}
    BY <1>2, <1>22
  <2>3. \A m \in Nodes \ (Range(cs[l]) \cup Range(d)) : nodes'[m] = nodes[m]
    BY <1>23, <2>1
  <2>4. \A m \in Range(d) : nodes'[m].busy
    BY <1>22, <1>24
  <2>5. \A m \in Range(d) \ Range(cs[l]) : ~nodes[m].busy
    BY <1>5, <2>2
  <2>6. lists'[l].busy
    BY <1>13, <1>14
  <2> HIDE DEF d
  <2>7. IsPath(nodes', lists'[l].nodes, d)
    BY <1>21 DEF d
  <2>8. /\ [cs EXCEPT ![l] = d] \in [Lists -> Seq(Nodes)]
        /\ Partition(lists', nodes', [cs EXCEPT ![l] = d])
    BY <1>1, <1>13, <2>2, <2>3, <2>4, <2>5, <2>6, <2>7, EditStep
  <2> QED BY <2>8 DEF d
<1>26. Owned(nodes', elements')
  <2>1. elements'[e].busy
    BY <1>5 DEF ListInv, PoolTypeOK
  <2>2. \A d \in Nodes \ {e} : elements'[d] = elements[d]
    BY <1>5 DEF ListInv, PoolTypeOK
  <2>3. nodes'[n].busy
    BY <1>10, <1>13
  <2>4. nodes'[n].element = e
    BY <1>10, <1>13
  <2>5. \A m \in Nodes \ {n} : /\ nodes'[m].busy <=> nodes[m].busy
                               /\ nodes'[m].element = nodes[m].element
    BY <1>10, <1>13
  <2>6. Owned(nodes, elements)
    BY DEF ListInv
  <2>7. ~nodes[n].busy
    BY <1>5
  <2>8. ~elements[e].busy
    BY <1>5
  <2> QED BY <2>1, <2>2, <2>3, <2>4, <2>5, <2>6, <2>7, <2>8, TakeStep, Zenon
<1>27. PoolTypeOK'
  <2>1. elements' \in [Nodes -> ElementRecord]
    BY <1>5, ListPoolAssumption DEF ListInv, PoolTypeOK, ElementRecord
  <2> QED BY <1>13, <2>1 DEF PoolTypeOK
<1>28. ListInv'
  BY <1>25, <1>26, <1>27, InvariantAfter
<1>29. ValuesStay /\ ValueOf(n)' = v
  <2>1. elements'[e].element = v /\ \A d \in Nodes \ {e} : elements'[d] = elements[d]
    BY <1>5 DEF ListInv, PoolTypeOK
  <2>2. nodes'[n].element = e
    BY <1>10, <1>13
  <2>3. ASSUME NEW m \in Nodes, nodes[m].busy PROVE ValueOf(m)' = ValueOf(m)
    <3>1. m # n /\ nodes'[m].element = nodes[m].element
      BY <1>5, <1>10, <1>13, <2>3
    <3>2. nodes[m].element \in Nodes \ {e}
      BY <1>5, <2>3 DEF ListInv, Owned
    <3> QED BY <2>1, <3>1, <3>2 DEF ValueOf
  <2> QED BY <2>1, <2>2, <2>3 DEF ValueOf, ValuesStay
<1>30. KindsStay
  BY <1>13 DEF KindsStay
<1>31. Becomes(l, Ins(c, p, n))
  BY <1>1, <1>25, ChainBecomes
<1> QED BY <1>3, <1>5, <1>6, <1>28, <1>29, <1>30, <1>31

LEMMA InsertStep ==
    ASSUME ListInv, NEW l \in Lists, NEW v \in Values, ListInsert(l, v)
    PROVE  ListInv'
<1>1. CASE UNCHANGED pools
  BY <1>1, SamePools
<1>2. CASE ~UNCHANGED pools
  BY <1>2, InsertEffect
<1> QED BY <1>1, <1>2

\* A pool after some of its entries are freed.
LEMMA FreedFacts ==
    ASSUME NEW S, PoolTypeOK
    PROVE  /\ Freed(nodes, S) \in [Nodes -> NodeRecord]
           /\ \A m \in Nodes : /\ Freed(nodes, S)[m].busy <=> nodes[m].busy /\ m \notin S
                               /\ Freed(nodes, S)[m].element = nodes[m].element
                               /\ Freed(nodes, S)[m].tail = nodes[m].tail
                               /\ m \notin S => Freed(nodes, S)[m] = nodes[m]
           /\ Freed(elements, S) \in [Nodes -> ElementRecord]
           /\ \A d \in Nodes : /\ d \in S => ~Freed(elements, S)[d].busy
                               /\ Freed(elements, S)[d].element = elements[d].element
                               /\ d \notin S => Freed(elements, S)[d] = elements[d]
<1>1. nodes \in [Nodes -> NodeRecord] /\ DOMAIN nodes = Nodes
  BY DEF PoolTypeOK
<1>2. elements \in [Nodes -> ElementRecord] /\ DOMAIN elements = Nodes
  BY DEF PoolTypeOK
<1>3. ASSUME NEW m \in Nodes
      PROVE  /\ Freed(nodes, S)[m] \in NodeRecord
             /\ Freed(nodes, S)[m].busy <=> nodes[m].busy /\ m \notin S
             /\ Freed(nodes, S)[m].element = nodes[m].element
             /\ Freed(nodes, S)[m].tail = nodes[m].tail
             /\ m \notin S => Freed(nodes, S)[m] = nodes[m]
  <2>1. Freed(nodes, S)[m] = IF m \in S THEN [nodes[m] EXCEPT !.busy = FALSE] ELSE nodes[m]
    BY <1>1 DEF Freed
  <2>2. nodes[m] \in NodeRecord
    BY <1>1
  <2> QED BY <2>1, <2>2 DEF NodeRecord
<1>4. ASSUME NEW d \in Nodes
      PROVE  /\ Freed(elements, S)[d] \in ElementRecord
             /\ d \in S => ~Freed(elements, S)[d].busy
             /\ Freed(elements, S)[d].element = elements[d].element
             /\ d \notin S => Freed(elements, S)[d] = elements[d]
  <2>1. Freed(elements, S)[d]
           = IF d \in S THEN [elements[d] EXCEPT !.busy = FALSE] ELSE elements[d]
    BY <1>2 DEF Freed
  <2>2. elements[d] \in ElementRecord
    BY <1>2
  <2> QED BY <2>1, <2>2 DEF ElementRecord
<1>5. Freed(nodes, S) \in [Nodes -> NodeRecord]
  BY <1>1, <1>3 DEF Freed
<1>6. Freed(elements, S) \in [Nodes -> ElementRecord]
  BY <1>2, <1>4 DEF Freed
<1> QED BY <1>3, <1>4, <1>5, <1>6

\* Nodes S leave list l, whose path becomes c, with their elements.
LEMMA RemovalStep ==
    ASSUME ListInv, NEW cs \in [Lists -> Seq(Nodes)], Partition(lists, nodes, cs),
           NEW l \in Lists, lists[l].busy, NEW S, S \subseteq Range(cs[l]),
           NEW c, IsPath(nodes', lists'[l].nodes, c), Range(c) = Range(cs[l]) \ S,
           lists' \in [Lists -> ListRecord], nodes' \in [Nodes -> NodeRecord],
           \A k \in Lists \ {l} : lists'[k] = lists[k],
           lists'[l].busy \/ c = <<>>,
           \A n \in Nodes : /\ nodes'[n].busy <=> nodes[n].busy /\ n \notin S
                            /\ nodes'[n].element = nodes[n].element,
           \A n \in Nodes \ Range(cs[l]) : nodes'[n] = nodes[n],
           elements' = Freed(elements, ElementsOf(S))
    PROVE  ListInv' /\ ValuesStay /\ Becomes(l, c)
<1>1. IsPath(nodes, lists[l].nodes, cs[l]) /\ Range(cs[l]) \subseteq Nodes
  BY PathNodes DEF Partition
<1>2. \A n \in Range(cs[l]) : nodes[n].busy
  BY <1>1 DEF Partition
<1>3. /\ \A n \in Nodes \ (Range(cs[l]) \cup Range(c)) : nodes'[n] = nodes[n]
      /\ \A n \in Range(c) : nodes'[n].busy
      /\ \A n \in Range(cs[l]) \ Range(c) : ~nodes'[n].busy
      /\ \A n \in Range(c) \ Range(cs[l]) : ~nodes[n].busy
  BY <1>1, <1>2
<1>4. /\ [cs EXCEPT ![l] = c] \in [Lists -> Seq(Nodes)]
      /\ Partition(lists', nodes', [cs EXCEPT ![l] = c])
  BY <1>3, EditStep
<1>5. PoolTypeOK /\ Owned(nodes, elements)
  BY DEF ListInv
<1>6. PoolTypeOK'
  BY <1>5, FreedFacts DEF PoolTypeOK
<1>7. Owned(nodes', elements')
  <2>1. S \in SUBSET Nodes
    BY <1>1
  <2>2. \A m \in S : nodes[m].busy /\ ~nodes'[m].busy
    BY <1>1, <1>2
  <2>3. \A m \in Nodes \ S : nodes'[m].busy <=> nodes[m].busy
    OBVIOUS
  <2>4. \A d \in Nodes : /\ d \in ElementsOf(S) => ~elements'[d].busy
                         /\ d \notin ElementsOf(S) => elements'[d] = elements[d]
    BY <1>5, FreedFacts
  <2>5. \A d \in ElementsOf(S) : d \in Nodes
    BY <1>5, <2>1, <2>2 DEF ElementsOf, Owned
  <2>6. /\ \A d \in ElementsOf(S) : ~elements'[d].busy
        /\ \A d \in Nodes \ ElementsOf(S) : elements'[d] = elements[d]
    BY <2>4, <2>5
  <2>7. \A m \in Nodes : nodes'[m].element = nodes[m].element
    OBVIOUS
  <2> QED BY <1>5, <2>1, <2>2, <2>3, <2>6, <2>7, GiveBackStep
<1>8. ListInv'
  BY <1>4, <1>6, <1>7, InvariantAfter
<1>9. ValuesStay
  <2>1. \A d \in Nodes : elements'[d].element = elements[d].element
    BY <1>5, FreedFacts
  <2>2. \A m \in Nodes : nodes[m].busy => nodes[m].element \in Nodes
    BY <1>5 DEF Owned
  <2> QED BY <2>1, <2>2 DEF ValuesStay, ValueOf
<1>10. Becomes(l, c)
  BY <1>4, ChainBecomes
<1> QED BY <1>8, <1>9, <1>10

LEMMA RemoveFirstEffect ==
    ASSUME ListInv, NEW l \in Lists, ListRemoveFirst(l), ~UNCHANGED pools
    PROVE  /\ ListInv' /\ ValuesStay /\ KindsStay
           /\ 1 \in 1 .. Len(Chain(l)) /\ Becomes(l, Del(Chain(l), 1))
<1>1. PICK cs \in [Lists -> Seq(Nodes)] : Partition(lists, nodes, cs)
  BY DEF ListInv
<1>2. PICK c \in Seq(Nodes) : c = cs[l]
  OBVIOUS
<1>3. /\ IsPath(nodes, lists[l].nodes, c)
      /\ lists[l].nodes = At(c, 1) /\ IsInjective(c) /\ Len(c) \in Nat
      /\ \A k \in 1 .. Len(c) : c[k] \in Nodes /\ nodes[c[k]].tail = At(c, k + 1)
  BY <1>1, <1>2, PathFacts
<1>4. PICK first : first = lists[l].nodes
  OBVIOUS
<1>5. /\ first # NIL /\ lists[l].busy
      /\ lists' = [lists EXCEPT ![l].nodes = nodes[first].tail, ![l].current = first]
      /\ nodes' = Freed(nodes, {first})
      /\ elements' = Freed(elements, ElementsOf({first}))
  BY <1>4 DEF ListRemoveFirst
<1>6. 1 \in 1 .. Len(c) /\ first = c[1] /\ nodes[first].tail = At(c, 2)
  <2>1. 1 \in 1 .. Len(c) /\ At(c, 1) = c[1]
    BY <1>3, <1>4, <1>5 DEF At
  <2>2. 1 + 1 = 2
    OBVIOUS
  <2> QED BY <1>3, <1>4, <2>1, <2>2
<1>7. first \in Nodes /\ At(c, 2) \in Links /\ first \in Links
  BY <1>3, <1>6 DEF At, Links
<1>8. /\ lists' \in [Lists -> ListRecord]
      /\ lists'[l].nodes = At(c, 2)
      /\ lists'[l].busy = lists[l].busy /\ lists'[l].order = lists[l].order
      /\ \A k \in Lists \ {l} : lists'[k] = lists[k]
  BY <1>5, <1>6, <1>7 DEF ListInv, PoolTypeOK, ListRecord
<1>9. PoolTypeOK
  BY DEF ListInv
<1>10. /\ nodes' \in [Nodes -> NodeRecord]
       /\ \A m \in Nodes : /\ nodes'[m].busy <=> nodes[m].busy /\ m \notin {first}
                           /\ nodes'[m].element = nodes[m].element
                           /\ nodes'[m].tail = nodes[m].tail
                           /\ m \notin {first} => nodes'[m] = nodes[m]
  <2>1. PICK S : S = {first}
    OBVIOUS
  <2>2. nodes' = Freed(nodes, S)
    BY <1>5, <2>1
  <2>3. /\ nodes' \in [Nodes -> NodeRecord]
        /\ \A m \in Nodes : /\ nodes'[m].busy <=> nodes[m].busy /\ m \notin S
                            /\ nodes'[m].element = nodes[m].element
                            /\ nodes'[m].tail = nodes[m].tail
                            /\ m \notin S => nodes'[m] = nodes[m]
    BY <1>9, <2>2, FreedFacts
  <2> QED BY <2>1, <2>3
<1>11. \A k \in 1 .. Len(c) :
         nodes'[c[k]].tail = IF k = 1 - 1 THEN At(c, 1 + 1) ELSE nodes[c[k]].tail
  BY <1>3, <1>10
<1>12. lists'[l].nodes = IF 1 = 1 THEN At(c, 2) ELSE lists[l].nodes
  BY <1>8
<1>13. IsPath(nodes', lists'[l].nodes, Del(c, 1))
  BY <1>3, <1>6, <1>11, <1>12, DeletePath
<1>14. Range(Del(c, 1)) = Range(c) \ {first} /\ {first} \subseteq Range(c)
  <2>1. first \in Range(c)
    BY <1>6 DEF Range
  <2> QED BY <1>3, <1>6, <2>1, DelRange
<1>15. \A n \in Nodes \ Range(cs[l]) : nodes'[n] = nodes[n]
  BY <1>2, <1>10, <1>14
<1>16. \A m \in Nodes : /\ nodes'[m].busy <=> nodes[m].busy /\ m \notin {first}
                        /\ nodes'[m].element = nodes[m].element
  BY <1>10
<1>17. PICK S, d : S = {first} /\ d = Del(c, 1)
  OBVIOUS
<1>18. /\ lists[l].busy /\ lists'[l].busy /\ nodes' \in [Nodes -> NodeRecord]
       /\ S \subseteq Range(cs[l]) /\ Range(d) = Range(cs[l]) \ S
  BY <1>2, <1>5, <1>8, <1>10, <1>14, <1>17
<1>19. /\ elements' = Freed(elements, ElementsOf(S))
       /\ IsPath(nodes', lists'[l].nodes, d)
  BY <1>5, <1>13, <1>17
<1>20. \A n \in Nodes : /\ nodes'[n].busy <=> nodes[n].busy /\ n \notin S
                        /\ nodes'[n].element = nodes[n].element
  BY <1>16, <1>17
<1>21. ListInv' /\ ValuesStay /\ Becomes(l, d)
  BY <1>1, <1>8, <1>15, <1>18, <1>19, <1>20, RemovalStep, Zenon
<1>22. KindsStay
  BY <1>8 DEF KindsStay
<1> QED BY <1>1, <1>2, <1>6, <1>17, <1>21, <1>22, PathFacts

LEMMA RemoveFirstStep ==
    ASSUME ListInv, NEW l \in Lists, ListRemoveFirst(l)
    PROVE  ListInv'
<1>1. CASE UNCHANGED pools
  BY <1>1, SamePools
<1>2. CASE ~UNCHANGED pools
  BY <1>2, RemoveFirstEffect
<1> QED BY <1>1, <1>2

LEMMA FreeListStep ==
    ASSUME ListInv, NEW l \in Lists, FreeList(l)
    PROVE  ListInv' /\ ValuesStay /\ Becomes(l, <<>>)
<1>1. PICK cs \in [Lists -> Seq(Nodes)] : Partition(lists, nodes, cs)
  BY DEF ListInv
<1>2. PICK S : S = Range(cs[l])
  OBVIOUS
<1>3. /\ lists[l].busy
      /\ lists' = [lists EXCEPT ![l].nodes = NIL, ![l].busy = FALSE]
      /\ nodes' = Freed(nodes, S) /\ elements' = Freed(elements, ElementsOf(S))
  BY <1>1, <1>2, ChainIsPath DEF FreeList
<1>4. PoolTypeOK
  BY DEF ListInv
<1>5. /\ lists' \in [Lists -> ListRecord] /\ lists'[l].nodes = NIL
      /\ \A k \in Lists \ {l} : lists'[k] = lists[k]
  BY <1>3, <1>4 DEF PoolTypeOK, ListRecord, Links
<1>6. /\ nodes' \in [Nodes -> NodeRecord]
      /\ \A m \in Nodes : /\ nodes'[m].busy <=> nodes[m].busy /\ m \notin S
                          /\ nodes'[m].element = nodes[m].element
                          /\ m \notin S => nodes'[m] = nodes[m]
  BY <1>3, <1>4, FreedFacts
<1>7. IsPath(nodes', lists'[l].nodes, <<>>) /\ Range(<<>>) = Range(cs[l]) \ S
  BY <1>2, <1>5, EmptyPath
<1>8. \A n \in Nodes \ Range(cs[l]) : nodes'[n] = nodes[n]
  BY <1>2, <1>6
<1>9. \A m \in Nodes : /\ nodes'[m].busy <=> nodes[m].busy /\ m \notin S
                       /\ nodes'[m].element = nodes[m].element
  BY <1>6
<1>10. lists[l].busy /\ nodes' \in [Nodes -> NodeRecord] /\ S \subseteq Range(cs[l])
  BY <1>2, <1>3, <1>6
<1>11. elements' = Freed(elements, ElementsOf(S))
  BY <1>3
<1> QED BY <1>1, <1>5, <1>7, <1>8, <1>9, <1>10, <1>11, RemovalStep, Zenon

\* What a deletion does to the path, and where it leaves the cursor.
LEMMA DeleteEffect ==
    ASSUME ListInv, NEW l \in Lists, NEW v \in Values, ListDelete(l, v),
           ~UNCHANGED pools
    PROVE  /\ ListInv' /\ ValuesStay /\ KindsStay
           /\ Stop(l, v) \in 1 .. Len(Chain(l))
           /\ Becomes(l, Del(Chain(l), Stop(l, v)))
           /\ lists'[l].current =
                IF lists[l].current = Chain(l)[Stop(l, v)] THEN At(Chain(l), Stop(l, v) + 1)
                ELSE lists[l].current
<1> PICK cs \in [Lists -> Seq(Nodes)] : Partition(lists, nodes, cs)
  BY DEF ListInv
<1>1. PICK c \in Seq(Nodes) : c = cs[l]
  OBVIOUS
<1>2. /\ IsPath(nodes, lists[l].nodes, c) /\ Chain(l) = c
      /\ lists[l].nodes = At(c, 1) /\ IsInjective(c) /\ Len(c) \in Nat
      /\ \A k \in 1 .. Len(c) : c[k] \in Nodes /\ nodes[c[k]].tail = At(c, k + 1)
  BY <1>1, PathFacts
<1>3. PICK p : p = Stop(l, v)
  OBVIOUS
<1>4. p \in 1 .. Len(c)
  <2>1. p \in 1 .. (Len(c) + 1)
    BY <1>2, <1>3, StopFacts
  <2>2. p <= Len(c)
    BY <1>2, <1>3 DEF ListDelete, ListFindNode
  <2> QED BY <1>2, <2>1, <2>2
<1>5. PICK borrar : borrar = c[p]
  OBVIOUS
<1>6. PICK aux : aux = IF p = 1 THEN NIL ELSE c[p - 1]
  OBVIOUS
<1>7. PICK to : to = At(c, p + 1)
  OBVIOUS
<1>8. /\ borrar \in Nodes /\ nodes[borrar].tail = to /\ NIL \notin Nodes
      /\ p # 1 => p - 1 \in 1 .. Len(c) /\ aux = c[p - 1]
      /\ aux \in Links /\ to \in Links
  <2>1. borrar \in Nodes /\ nodes[borrar].tail = to
    BY <1>2, <1>4, <1>5, <1>7
  <2>2. NIL \notin Nodes
    BY DEF Nodes, NIL
  <2>3. p # 1 => p - 1 \in 1 .. Len(c)
    BY <1>2, <1>4
  <2>4. aux \in Links
    BY <1>2, <1>6, <2>3 DEF Links
  <2>5. to \in Links
    BY <1>2, <1>7 DEF Links, At
  <2> QED BY <1>6, <2>1, <2>2, <2>3, <2>4, <2>5
<1>9. PICK lists1, nodes1 : lists1 = CursorAfterDelete(l, borrar)
                            /\ nodes1 = Freed(nodes, {borrar})
  OBVIOUS
<1>10. /\ LinkAfter(l, aux, to, lists1, nodes1)
       /\ elements' = Freed(elements, ElementsOf({borrar}))
       /\ lists[l].busy
  <2>1. Before(l, v) = aux /\ Chain(l)[Stop(l, v)] = borrar
    BY <1>2, <1>3, <1>5, <1>6 DEF Before
  <2> QED BY <1>8, <1>9, <2>1 DEF ListDelete
<1>11. PoolTypeOK
  BY DEF ListInv
<1>12. /\ lists1 \in [Lists -> ListRecord]
       /\ \A k \in Lists \ {l} : lists1[k] = lists[k]
       /\ lists1[l].nodes = lists[l].nodes /\ lists1[l].busy = lists[l].busy
       /\ lists1[l].order = lists[l].order
       /\ lists1[l].current = IF lists[l].current = borrar THEN to ELSE lists[l].current
  <2>1. lists1 = [lists EXCEPT ![l].current =
                     IF lists[l].current = borrar THEN to ELSE lists[l].current]
    BY <1>8, <1>9 DEF CursorAfterDelete
  <2> QED BY <1>8, <1>11, <2>1 DEF PoolTypeOK, ListRecord
<1>13. /\ nodes1 \in [Nodes -> NodeRecord]
       /\ \A m \in Nodes : /\ nodes1[m].busy <=> nodes[m].busy /\ m \notin {borrar}
                           /\ nodes1[m].element = nodes[m].element
                           /\ nodes1[m].tail = nodes[m].tail
                           /\ m \notin {borrar} => nodes1[m] = nodes[m]
  BY <1>9, <1>11, FreedFacts
<1>14. /\ lists' \in [Lists -> ListRecord] /\ nodes' \in [Nodes -> NodeRecord]
       /\ \A k \in Lists \ {l} : lists'[k] = lists1[k]
       /\ lists'[l].nodes = IF aux = NIL THEN to ELSE lists1[l].nodes
       /\ lists'[l].busy = lists1[l].busy
       /\ lists'[l].current = lists1[l].current
       /\ lists'[l].order = lists1[l].order
       /\ \A m \in Nodes \ {aux} : nodes'[m] = nodes1[m]
       /\ \A m \in Nodes : /\ nodes'[m].busy = nodes1[m].busy
                           /\ nodes'[m].element = nodes1[m].element
                           /\ nodes'[m].tail = IF m = aux THEN to ELSE nodes1[m].tail
  <2>1. /\ aux \in Links /\ to \in Links /\ LinkAfter(l, aux, to, lists1, nodes1)
        /\ lists1 \in [Lists -> ListRecord] /\ nodes1 \in [Nodes -> NodeRecord]
    BY <1>8, <1>10, <1>12, <1>13
  <2> QED BY <2>1, LinkFacts
<1>15. /\ \A k \in Lists \ {l} : lists'[k] = lists[k]
       /\ lists'[l].busy
       /\ lists'[l].current = IF lists[l].current = borrar THEN to ELSE lists[l].current
  BY <1>10, <1>12, <1>14
<1>16. PICK d, S : d = Del(c, p) /\ S = {borrar}
  OBVIOUS
<1>17. IsPath(nodes', lists'[l].nodes, d)
  <2>1. \A k \in 1 .. Len(c) :
          nodes'[c[k]].tail = IF k = p - 1 THEN At(c, p + 1) ELSE nodes[c[k]].tail
    <3> TAKE k \in 1 .. Len(c)
    <3>1. c[k] = aux <=> k = p - 1
      BY <1>2, <1>4, <1>6, <1>8 DEF IsInjective
    <3> QED BY <1>2, <1>7, <1>13, <1>14, <3>1
  <2>2. At(c, p + 1) = At(c, 2) \/ p # 1
    OBVIOUS
  <2>3. lists'[l].nodes = IF p = 1 THEN At(c, 2) ELSE lists[l].nodes
    BY <1>2, <1>6, <1>7, <1>8, <1>12, <1>14, <2>2
  <2>4. IsPath(nodes', lists'[l].nodes, Del(c, p))
    BY <1>2, <1>4, <2>1, <2>3, DeletePath
  <2> QED BY <1>16, <2>4
<1>18. borrar \in Range(c) /\ aux \in Range(c) \cup {NIL}
  BY <1>4, <1>5, <1>6, <1>8 DEF Range
<1>19. Range(d) = Range(cs[l]) \ S /\ S \subseteq Range(cs[l])
  BY <1>1, <1>2, <1>4, <1>5, <1>16, <1>18, DelRange
<1>20. \A n \in Nodes \ Range(cs[l]) : nodes'[n] = nodes[n]
  <2>1. \A n \in Nodes \ Range(cs[l]) : n # aux /\ n \notin {borrar}
    BY <1>1, <1>8, <1>18
  <2> QED BY <1>13, <1>14, <2>1
<1>21. \A n \in Nodes : /\ nodes'[n].busy <=> nodes[n].busy /\ n \notin S
                        /\ nodes'[n].element = nodes[n].element
  BY <1>13, <1>14, <1>16
<1>22. elements' = Freed(elements, ElementsOf(S))
  BY <1>10, <1>16
<1>23. lists' \in [Lists -> ListRecord] /\ nodes' \in [Nodes -> NodeRecord]
       /\ lists[l].busy
  BY <1>10, <1>14
<1>24. ListInv' /\ ValuesStay /\ Becomes(l, d)
  BY <1>15, <1>17, <1>19, <1>20, <1>21, <1>22, <1>23, RemovalStep, Zenon
<1>25. KindsStay
  BY <1>12, <1>14, <1>15 DEF KindsStay
<1> QED BY <1>2, <1>3, <1>4, <1>5, <1>7, <1>15, <1>16, <1>24, <1>25

LEMMA DeleteStep ==
    ASSUME ListInv, NEW l \in Lists, NEW v \in Values, ListDelete(l, v)
    PROVE  ListInv'
<1>1. CASE UNCHANGED pools
  BY <1>1, SamePools
<1>2. CASE ~UNCHANGED pools
  BY <1>2, DeleteEffect
<1> QED BY <1>1, <1>2

LEMMA ListInvInit ==
    Init => ListInv
<1> SUFFICES ASSUME Init PROVE ListInv
  OBVIOUS
<1>1. PoolTypeOK
  BY DEF Init, PoolTypeOK, ListRecord, NodeRecord, ElementRecord, Links, Orders
<1>2. Owned(nodes, elements)
  BY DEF Init, Owned
<1> DEFINE cs == [l \in Lists |-> <<>>]
<1>3. cs \in [Lists -> Seq(Nodes)] /\ \A l \in Lists : cs[l] = <<>>
  OBVIOUS
<1>4. \A l \in Lists : ~lists[l].busy /\ lists[l].nodes = NIL
  BY DEF Init
<1>5. \A n \in Nodes : ~nodes[n].busy
  BY DEF Init
<1> HIDE DEF cs
<1>6. \A l \in Lists : IsPath(nodes, lists[l].nodes, cs[l]) /\ Range(cs[l]) = {}
  BY <1>3, <1>4, EmptyPath
<1>7. Partition(lists, nodes, cs)
  BY <1>3, <1>4, <1>5, <1>6 DEF Partition
<1> QED BY <1>1, <1>2, <1>3, <1>7 DEF ListInv

LEMMA ListInvStep ==
    ListInv /\ [Next]_vars => ListInv'
<1> SUFFICES ASSUME ListInv, [Next]_vars PROVE ListInv'
  OBVIOUS
<1>1. CASE UNCHANGED vars
  BY <1>1, SamePools DEF vars, pools
<1>2. ASSUME NEW l \in Lists, NEW order \in Orders, NewList(l, order) PROVE ListInv'
  BY <1>2, NewListStep
<1>3. ASSUME NEW l \in Lists, NEW v \in Values, ListInsert(l, v) PROVE ListInv'
  BY <1>3, InsertStep
<1>4. ASSUME NEW l \in Lists, NEW v \in Values, ListDelete(l, v) PROVE ListInv'
  BY <1>4, DeleteStep
<1>5. ASSUME NEW l \in Lists, ListRemoveFirst(l) PROVE ListInv'
  BY <1>5, RemoveFirstStep
<1>6. ASSUME NEW l \in Lists, ListToBegin(l) PROVE ListInv'
  <2>1. lists[l].nodes \in Links
    BY DEF ListInv, PoolTypeOK, ListRecord
  <2>2. /\ lists' = [lists EXCEPT ![l].current = lists[l].nodes]
        /\ UNCHANGED <<nodes, elements>>
    BY <1>6 DEF ListToBegin
  <2> QED BY <2>1, <2>2, CursorStep
<1>7. ASSUME NEW l \in Lists, ListGetElement(l) PROVE ListInv'
  <2>1. CASE UNCHANGED lists
    BY <1>7, <2>1, SamePools DEF ListGetElement, pools
  <2>2. CASE ~UNCHANGED lists
    <3>1. /\ lists[l].current # NIL /\ UNCHANGED <<nodes, elements>>
          /\ lists' = [lists EXCEPT ![l].current = nodes[@].tail]
      BY <1>7, <2>2 DEF ListGetElement
    <3>2. lists[l].current \in Nodes
      BY <3>1 DEF ListInv, PoolTypeOK, ListRecord, Links
    <3>3. nodes[lists[l].current].tail \in Links
      BY <3>2 DEF ListInv, PoolTypeOK, NodeRecord
    <3>4. lists' = [lists EXCEPT ![l].current = nodes[lists[l].current].tail]
      BY <3>1 DEF ListInv, PoolTypeOK
    <3> QED BY <3>1, <3>3, <3>4, CursorStep
  <2> QED BY <2>1, <2>2
<1>8. ASSUME NEW l \in Lists, FreeList(l) PROVE ListInv'
  BY <1>8, FreeListStep
<1> QED BY <1>1, <1>2, <1>3, <1>4, <1>5, <1>6, <1>7, <1>8 DEF Next

LEMMA ListInvHolds ==
    Spec => []ListInv
BY ListInvInit, ListInvStep, PTL DEF Spec

-----------------------------------------------------------------------------
(***************************************************************************)
(* The theorems.                                                           *)
(***************************************************************************)

\* Whatever is inserted, deleted, taken from the head or freed, in whatever
\* order and in pools of whatever size: no chain meets itself or another, the
\* nodes in use are exactly those on the chains of the lists in use, and a
\* freed list is empty.
THEOREM ListsShareTheNodes == Spec => []NodesArePartitioned
<1>1. ListInv => NodesArePartitioned
  <2> SUFFICES ASSUME ListInv PROVE NodesArePartitioned
    OBVIOUS
  <2>1. PICK cs \in [Lists -> Seq(Nodes)] : Partition(lists, nodes, cs)
    BY DEF ListInv
  <2>2. \A l \in Lists : Chain(l) = cs[l] /\ IsInjective(cs[l])
    BY <2>1, PathFacts
  <2>3. \A l \in Lists : Range(cs[l]) \subseteq Nodes
    BY <2>1, PathNodes DEF Partition
  <2>4. ChainsDoNotMeet
    <3>1. \A l, k \in Lists : l # k => Range(cs[l]) \cap Range(cs[k]) = {}
      BY <2>1 DEF Partition
    <3> QED BY <2>2, <3>1 DEF ChainsDoNotMeet
  <2>5. BusyNodesAreChained
    <3>1. \A n \in Nodes :
            nodes[n].busy <=> \E l \in Lists : lists[l].busy /\ n \in Range(cs[l])
      BY <2>1 DEF Partition
    <3>2. \A n : n \in UNION {Range(Chain(l)) : l \in {k \in Lists : lists[k].busy}}
                <=> \E l \in Lists : lists[l].busy /\ n \in Range(Chain(l))
      OBVIOUS
    <3>3. \A l \in Lists : Range(Chain(l)) = Range(cs[l])
      BY <2>2
    <3> QED BY <2>3, <3>1, <3>2, <3>3 DEF BusyNodesAreChained
  <2>6. FreedListsAreEmpty
    BY <2>1, <2>2 DEF Partition, FreedListsAreEmpty
  <2> QED BY <2>4, <2>5, <2>6 DEF NodesArePartitioned
<1> QED BY <1>1, ListInvHolds, PTL

\* Each node in use has an element of its own and no other element is taken:
\* ListInsert never finds a free node and no free element.
THEOREM ElementsFollowNodes == Spec => []NodesOwnElements
<1>1. ListInv => NodesOwnElements
  BY DEF ListInv, Owned, NodesOwnElements
<1> QED BY <1>1, ListInvHolds, PTL

\* ListDelete leaves an iteration that is on its list on its list.
THEOREM DeletesKeepTheCursor == Spec => CursorSurvivesDelete
<1>1. ASSUME ListInv, NEW l \in Lists, NEW v \in Values, OnList(l), ListDelete(l, v)
      PROVE  OnList(l)'
  <2>1. CASE UNCHANGED pools
    <3>1. Chain(l)' = Chain(l)
      BY <2>1 DEF Chain, pools
    <3> QED BY <1>1, <2>1, <3>1 DEF OnList, pools
  <2>2. CASE ~UNCHANGED pools
    <3>1. PICK c : c = Chain(l)
      OBVIOUS
    <3>2. PICK p : p = Stop(l, v)
      OBVIOUS
    <3>3. /\ p \in 1 .. Len(c)
          /\ lists'[l].current = IF lists[l].current = c[p] THEN At(c, p + 1)
                                 ELSE lists[l].current
      BY <1>1, <2>2, <3>1, <3>2, DeleteEffect
    <3>4. c \in Seq(Nodes) /\ Chain(l) = c /\ IsInjective(c)
      BY <1>1, <3>1, PathFacts DEF ListInv, IsPath
    <3>5. Chain(l)' = Del(c, p)
      BY <1>1, <2>2, <3>1, <3>2, DeleteEffect DEF Becomes
    <3>6. Range(Del(c, p)) = Range(c) \ {c[p]}
      BY <3>3, <3>4, DelRange
    <3>7. lists[l].current \in Range(c) \cup {NIL}
      BY <1>1, <3>4 DEF OnList
    <3>8. At(c, p + 1) \in Range(Del(c, p)) \cup {NIL}
      <4>1. CASE p + 1 \in 1 .. Len(c)
        <5>1. c[p + 1] \in Range(c) /\ At(c, p + 1) = c[p + 1]
          BY <4>1 DEF Range, At
        <5>2. c[p + 1] # c[p]
          BY <3>3, <3>4, <4>1 DEF IsInjective
        <5> QED BY <3>6, <5>1, <5>2
      <4>2. CASE p + 1 \notin 1 .. Len(c)
        BY <4>2 DEF At
      <4> QED BY <4>1, <4>2
    <3>9. lists'[l].current \in Range(Del(c, p)) \cup {NIL}
      BY <3>3, <3>6, <3>7, <3>8
    <3> QED BY <3>5, <3>9 DEF OnList
  <2> QED BY <2>1, <2>2
<1>2. ListInv /\ [Next]_vars =>
        [\A l \in Lists, v \in Values : OnList(l) /\ ListDelete(l, v) => OnList(l)']_vars
  BY <1>1
<1> QED BY <1>2, ListInvHolds, PTL DEF Spec, CursorSurvivesDelete

-----------------------------------------------------------------------------
(***************************************************************************)
(* The lists implement sequences: what the chains hold.                    *)
(***************************************************************************)

Increasing(s) == \A i, j \in 1 .. Len(s) : i < j => s[i] < s[j]

SequenceInv ==
    /\ ListInv
    /\ result \in [code : Int, element : Int]
    /\ \A n \in Nodes : nodes[n].busy => ValueOf(n) \in Values
    /\ \A l \in Lists : lists[l].busy /\ lists[l].order = "LIST_SORTED"
                       => Increasing(Contents(l))

LEMMA ChainFacts ==
    ASSUME ListInv, NEW l \in Lists
    PROVE  /\ Chain(l) \in Seq(Nodes) /\ IsInjective(Chain(l))
           /\ Len(Chain(l)) \in Nat /\ DOMAIN Chain(l) = 1 .. Len(Chain(l))
           /\ \A k \in 1 .. Len(Chain(l)) : Chain(l)[k] \in Nodes /\ nodes[Chain(l)[k]].busy
           /\ ~lists[l].busy => Chain(l) = <<>>
           /\ lists[l].nodes = At(Chain(l), 1)
<1>1. PICK cs \in [Lists -> Seq(Nodes)] : Partition(lists, nodes, cs)
  BY DEF ListInv
<1>2. PICK c \in Seq(Nodes) : c = cs[l]
  OBVIOUS
<1>3. Chain(l) = c /\ IsInjective(c) /\ lists[l].nodes = At(c, 1)
  BY <1>1, <1>2, PathFacts
<1>4. Len(c) \in Nat /\ DOMAIN c = 1 .. Len(c) /\ \A k \in 1 .. Len(c) : c[k] \in Nodes
  OBVIOUS
<1>5. ~lists[l].busy => c = <<>>
  BY <1>1, <1>2 DEF Partition
<1>6. ASSUME NEW k \in 1 .. Len(c) PROVE nodes[c[k]].busy
  <2>1. c # <<>> /\ c[k] \in Range(cs[l])
    BY <1>2, <1>4 DEF Range
  <2> QED BY <1>1, <1>4, <1>5, <2>1 DEF Partition
<1> QED BY <1>3, <1>4, <1>5, <1>6

LEMMA ContentsFacts ==
    ASSUME SequenceInv, NEW l \in Lists
    PROVE  /\ Contents(l) \in Seq(Values) /\ Len(Contents(l)) = Len(Chain(l))
           /\ Len(Contents(l)) \in Nat
           /\ \A k \in 1 .. Len(Contents(l)) : /\ Contents(l)[k] = ValueOf(Chain(l)[k])
                                               /\ Contents(l)[k] \in Values
                                               /\ Contents(l)[k] \in Int
<1>1. PICK c : c = Chain(l)
  OBVIOUS
<1>2. /\ Len(c) \in Nat /\ DOMAIN c = 1 .. Len(c)
      /\ \A k \in 1 .. Len(c) : c[k] \in Nodes /\ nodes[c[k]].busy
  BY <1>1, ChainFacts DEF SequenceInv
<1>3. \A k \in 1 .. Len(c) : ValueOf(c[k]) \in Values
  BY <1>2 DEF SequenceInv
<1>4. Contents(l) = [k \in 1 .. Len(c) |-> ValueOf(c[k])]
  BY <1>1, <1>2 DEF Contents
<1>5. Contents(l) \in Seq(Values) /\ Len(Contents(l)) = Len(c)
  BY <1>2, <1>3, <1>4
<1>6. \A k \in 1 .. Len(c) : Contents(l)[k] = ValueOf(c[k]) /\ Contents(l)[k] \in Values
  BY <1>3, <1>4
<1>7. Values \subseteq Int
  BY ListPoolAssumption
<1> QED BY <1>1, <1>2, <1>5, <1>6, <1>7

\* Where the search stops, and that it finds what is there.
LEMMA FindFacts ==
    ASSUME SequenceInv, NEW l \in Lists, lists[l].busy, NEW v \in Values,
           NEW s, s = Contents(l), NEW p, p = Stop(l, v)
    PROVE  /\ p \in 1 .. (Len(s) + 1)
           /\ ListFindNode(l, v) <=> \E k \in 1 .. Len(s) : s[k] = v
           /\ ListFindNode(l, v) => /\ p \in 1 .. Len(s) /\ s[p] = v
                                    /\ \A k \in 1 .. Len(s) : k < p => s[k] # v
           /\ lists[l].order = "LIST_SORTED" /\ ~ListFindNode(l, v) =>
                \A k \in 1 .. Len(s) : IF k < p THEN s[k] < v ELSE v < s[k]
<1>1. PICK c : c = Chain(l)
  OBVIOUS
<1>2. /\ c \in Seq(Nodes) /\ Len(c) = Len(s) /\ Len(s) \in Nat
      /\ \A k \in 1 .. Len(s) : s[k] = ValueOf(c[k]) /\ s[k] \in Int
  BY <1>1, ChainFacts, ContentsFacts DEF SequenceInv
<1>3. v \in Int
  BY ListPoolAssumption
<1>4. /\ p \in 1 .. (Len(s) + 1)
      /\ \A k \in 1 .. Len(s) : k < p => StepsOver(l, c[k], v)
      /\ p <= Len(s) => ~StepsOver(l, c[p], v)
  BY <1>1, <1>2, StopFacts
<1>5. ListFindNode(l, v) <=> p \in 1 .. Len(s) /\ s[p] = v
  <2>1. ListFindNode(l, v) <=> p <= Len(c) /\ ValueOf(c[p]) = v
    BY <1>1 DEF ListFindNode
  <2>2. p <= Len(c) <=> p \in 1 .. Len(s)
    BY <1>2, <1>4
  <2> QED BY <1>2, <2>1, <2>2
<1>6. CASE lists[l].order = "LIST_SORTED"
  <2>1. \A k \in 1 .. Len(s) : k < p => s[k] < v
    BY <1>2, <1>3, <1>4, <1>6 DEF StepsOver
  <2>2. p \in 1 .. Len(s) => v <= s[p]
    BY <1>2, <1>3, <1>4 DEF StepsOver
  <2>3. \A i, j \in 1 .. Len(s) : i < j => s[i] < s[j]
    BY <1>6 DEF SequenceInv, Increasing
  <2>4. \A k \in 1 .. Len(s) : k >= p => p \in 1 .. Len(s) /\ (k = p \/ s[p] < s[k])
    BY <1>2, <1>4, <2>3
  <2>5. \A k \in 1 .. Len(s) : k < p => s[k] # v
    BY <1>2, <1>3, <2>1
  <2>6. ASSUME NEW k \in 1 .. Len(s), s[k] = v PROVE p \in 1 .. Len(s) /\ s[p] = v
    <3>1. ~(k < p)
      BY <2>5, <2>6
    <3>2. k >= p
      BY <1>4, <3>1
    <3>3. p \in 1 .. Len(s) /\ (k = p \/ s[p] < s[k]) /\ v <= s[p]
      BY <2>2, <2>4, <3>2
    <3> QED BY <1>2, <1>3, <2>6, <3>3
  <2>7. ASSUME ~ListFindNode(l, v), NEW k \in 1 .. Len(s)
        PROVE  IF k < p THEN s[k] < v ELSE v < s[k]
    <3>1. CASE k < p
      BY <2>1, <3>1
    <3>2. CASE ~(k < p)
      <4>1. p \in 1 .. Len(s) /\ (k = p \/ s[p] < s[k]) /\ v <= s[p]
        BY <1>4, <2>2, <2>4, <3>2
      <4>2. s[p] # v
        BY <1>5, <2>7, <4>1
      <4>3. s[p] \in Int /\ s[k] \in Int
        BY <1>2, <4>1
      <4> QED BY <1>3, <3>2, <4>1, <4>2, <4>3
    <3> QED BY <3>1, <3>2
  <2> QED BY <1>4, <1>5, <2>5, <2>6, <2>7
<1>7. CASE lists[l].order # "LIST_SORTED"
  <2>1. lists[l].order = "LIST_UNSORTED"
    BY <1>7 DEF SequenceInv, ListInv, PoolTypeOK, ListRecord, Orders
  <2>2. \A k \in 1 .. Len(s) : k < p => s[k] # v
    BY <1>2, <1>3, <1>4 DEF StepsOver
  <2>3. p \in 1 .. Len(s) => s[p] = v
    BY <1>2, <1>3, <1>4, <2>1 DEF StepsOver
  <2>4. ASSUME NEW k \in 1 .. Len(s), s[k] = v PROVE p \in 1 .. Len(s)
    BY <1>2, <1>4, <2>2, <2>4
  <2> QED BY <1>4, <1>5, <1>7, <2>2, <2>3, <2>4
<1> QED BY <1>6, <1>7

-----------------------------------------------------------------------------
(***************************************************************************)
(* What a step does to the contents, and what the library of sequences     *)
(* calls it.                                                               *)
(***************************************************************************)

LEMMA ContentsAfter ==
    ASSUME NEW l, NEW c, Chain(l)' = c
    PROVE  Contents(l)' = [k \in DOMAIN c |-> ValueOf(c[k])']
BY DEF Contents

LEMMA OthersStay ==
    ASSUME ListInv, ValuesStay, NEW l \in Lists, NEW c, Becomes(l, c)
    PROVE  \A k \in Lists \ {l} : Contents(k)' = Contents(k)
<1> SUFFICES ASSUME NEW k \in Lists \ {l} PROVE Contents(k)' = Contents(k)
  OBVIOUS
<1>1. PICK d : d = Chain(k)
  OBVIOUS
<1>2. Chain(k)' = d
  BY <1>1 DEF Becomes
<1>3. Contents(k)' = [j \in DOMAIN d |-> ValueOf(d[j])']
  BY <1>2, ContentsAfter
<1>4. Contents(k) = [j \in DOMAIN d |-> ValueOf(d[j])]
  BY <1>1 DEF Contents
<1>5. \A j \in DOMAIN d : d[j] \in Nodes /\ nodes[d[j]].busy
  BY <1>1, ChainFacts
<1>6. \A j \in DOMAIN d : ValueOf(d[j])' = ValueOf(d[j])
  BY <1>5 DEF ValuesStay
<1> QED BY <1>3, <1>4, <1>6

LEMMA ContentsInserted ==
    ASSUME SequenceInv, ValuesStay, NEW l \in Lists, NEW n \in Nodes, NEW v \in Values,
           NEW p \in 0 .. Len(Chain(l)), Becomes(l, Ins(Chain(l), p, n)), ValueOf(n)' = v
    PROVE  Contents(l)' = Ins(Contents(l), p, v)
<1>1. PICK c, d, s : c = Chain(l) /\ d = Ins(c, p, n) /\ s = Contents(l)
  OBVIOUS
<1>2. /\ c \in Seq(Nodes) /\ Len(c) \in Nat /\ Len(s) = Len(c)
      /\ \A k \in 1 .. Len(c) : /\ c[k] \in Nodes /\ nodes[c[k]].busy
                                /\ s[k] = ValueOf(c[k])
  BY <1>1, ChainFacts, ContentsFacts DEF SequenceInv
<1>3. /\ DOMAIN d = 1 .. (Len(c) + 1)
      /\ \A k \in 1 .. (Len(c) + 1) :
           d[k] = IF k <= p THEN c[k] ELSE IF k = p + 1 THEN n ELSE c[k - 1]
  BY <1>1 DEF Ins
<1>4. Contents(l)' = [k \in DOMAIN d |-> ValueOf(d[k])']
  BY <1>1, ContentsAfter DEF Becomes
<1>5. \A k \in 1 .. Len(c) : ValueOf(c[k])' = s[k]
  BY <1>2 DEF ValuesStay
<1>6. ASSUME NEW k \in 1 .. (Len(c) + 1)
      PROVE  ValueOf(d[k])' = IF k <= p THEN s[k] ELSE IF k = p + 1 THEN v ELSE s[k - 1]
  <2>1. p \in 0 .. Len(c)
    BY <1>1
  <2>2. CASE k <= p
    <3>1. k \in 1 .. Len(c) /\ d[k] = c[k]
      BY <1>2, <1>3, <2>1, <2>2
    <3> QED BY <1>5, <2>2, <3>1
  <2>3. CASE k = p + 1
    <3>1. ~(k <= p) /\ d[k] = n
      BY <1>2, <1>3, <2>1, <2>3
    <3> QED BY <2>3, <3>1
  <2>4. CASE ~(k <= p) /\ k # p + 1
    <3>1. k - 1 \in 1 .. Len(c) /\ d[k] = c[k - 1]
      BY <1>2, <1>3, <2>1, <2>4
    <3> QED BY <1>5, <2>4, <3>1
  <2> QED BY <2>2, <2>3, <2>4
<1> QED BY <1>1, <1>2, <1>3, <1>4, <1>6 DEF Ins

LEMMA ContentsDeleted ==
    ASSUME SequenceInv, ValuesStay, NEW l \in Lists,
           NEW p \in 1 .. Len(Chain(l)), Becomes(l, Del(Chain(l), p))
    PROVE  Contents(l)' = Del(Contents(l), p)
<1>1. PICK c, d, s : c = Chain(l) /\ d = Del(c, p) /\ s = Contents(l)
  OBVIOUS
<1>2. /\ c \in Seq(Nodes) /\ Len(c) \in Nat /\ Len(s) = Len(c)
      /\ \A k \in 1 .. Len(c) : /\ c[k] \in Nodes /\ nodes[c[k]].busy
                                /\ s[k] = ValueOf(c[k])
  BY <1>1, ChainFacts, ContentsFacts DEF SequenceInv
<1>3. /\ DOMAIN d = 1 .. (Len(c) - 1)
      /\ \A k \in 1 .. (Len(c) - 1) : d[k] = IF k < p THEN c[k] ELSE c[k + 1]
  BY <1>1 DEF Del
<1>4. Contents(l)' = [k \in DOMAIN d |-> ValueOf(d[k])']
  BY <1>1, ContentsAfter DEF Becomes
<1>5. \A k \in 1 .. Len(c) : ValueOf(c[k])' = s[k]
  BY <1>2 DEF ValuesStay
<1>6. ASSUME NEW k \in 1 .. (Len(c) - 1)
      PROVE  ValueOf(d[k])' = IF k < p THEN s[k] ELSE s[k + 1]
  <2>1. CASE k < p
    <3>1. k \in 1 .. Len(c) /\ d[k] = c[k]
      BY <1>2, <1>3, <2>1
    <3> QED BY <1>5, <2>1, <3>1
  <2>2. CASE ~(k < p)
    <3>1. k + 1 \in 1 .. Len(c) /\ d[k] = c[k + 1]
      BY <1>2, <1>3, <2>2
    <3> QED BY <1>5, <2>2, <3>1
  <2> QED BY <2>1, <2>2
<1> QED BY <1>1, <1>2, <1>3, <1>4, <1>6 DEF Del

\* Insertion in front, and behind what is smaller.
LEMMA InsertedInFront ==
    ASSUME NEW s \in Seq(Values), NEW v \in Values
    PROVE  Ins(s, 0, v) = <<v>> \o s
<1>1. Len(s) \in Nat /\ 0 \in 0 .. Len(s) /\ <<v>> \in Seq(Values) /\ Len(<<v>>) = 1
  OBVIOUS
<1>2. PICK d : d = Ins(s, 0, v)
  OBVIOUS
<1>3. /\ d \in Seq(Values) /\ Len(d) = Len(s) + 1
      /\ \A k \in 1 .. (Len(s) + 1) :
           d[k] = IF k <= 0 THEN s[k] ELSE IF k = 0 + 1 THEN v ELSE s[k - 1]
  <2>1. d \in Seq(Values) /\ Len(d) = Len(s) + 1
    BY <1>1, <1>2, InsFacts
  <2> QED BY <1>2, <2>1 DEF Ins
<1>4. <<v>> \o s \in Seq(Values) /\ Len(<<v>> \o s) = 1 + Len(s)
  BY <1>1, Concatenation
<1>5. ASSUME NEW k \in 1 .. (Len(s) + 1) PROVE d[k] = (<<v>> \o s)[k]
  <2>1. CASE k = 1
    BY <1>1, <1>3, <2>1
  <2>2. CASE k # 1
    <3>1. k - 1 \in 1 .. Len(s) /\ ~(k <= 0)
      BY <1>1, <2>2
    <3>2. (<<v>> \o s)[k] = s[k - 1]
      BY <1>1, <2>2, <3>1
    <3> QED BY <1>3, <2>2, <3>1, <3>2
  <2> QED BY <2>1, <2>2
<1>6. d = <<v>> \o s
  BY <1>1, <1>3, <1>4, <1>5, SameSequence
<1> QED BY <1>2, <1>6

LEMMA InsertedInOrder ==
    ASSUME NEW s \in Seq(Values), NEW v \in Values, NEW p \in 0 .. Len(s),
           Increasing(s), \A k \in 1 .. Len(s) : IF k < p + 1 THEN s[k] < v ELSE v < s[k]
    PROVE  /\ Ins(s, p, v) \in Seq(Values) /\ Increasing(Ins(s, p, v))
           /\ {Ins(s, p, v)[k] : k \in DOMAIN Ins(s, p, v)}
                = {s[k] : k \in DOMAIN s} \cup {v}
<1>1. PICK d : d = Ins(s, p, v)
  OBVIOUS
<1>2. /\ d \in Seq(Values) /\ Len(d) = Len(s) + 1 /\ Len(s) \in Nat
      /\ DOMAIN d = 1 .. (Len(s) + 1) /\ DOMAIN s = 1 .. Len(s)
  BY <1>1, InsFacts
<1>3. \A k \in 1 .. (Len(s) + 1) :
        \/ k = p + 1 /\ d[k] = v
        \/ k < p + 1 /\ k \in 1 .. Len(s) /\ d[k] = s[k] /\ s[k] < v
        \/ k > p + 1 /\ k - 1 \in 1 .. Len(s) /\ d[k] = s[k - 1] /\ v < s[k - 1]
  BY <1>1, <1>2 DEF Ins
<1>4. v \in Int /\ \A k \in 1 .. Len(s) : s[k] \in Int
  <2>1. \A k \in 1 .. Len(s) : s[k] \in Values
    OBVIOUS
  <2>2. Values \subseteq Int
    BY ListPoolAssumption
  <2> QED BY <2>1, <2>2
<1>5. \A i, j \in 1 .. Len(s) : i < j => s[i] < s[j]
  BY DEF Increasing
<1>6. ASSUME NEW i \in 1 .. (Len(s) + 1), NEW j \in 1 .. (Len(s) + 1), i < j
      PROVE  d[i] < d[j]
  <2>1. CASE i = p + 1
    BY <1>2, <1>3, <1>4, <1>6, <2>1
  <2>2. CASE j = p + 1
    BY <1>2, <1>3, <1>4, <1>6, <2>2
  <2>3. CASE j < p + 1
    BY <1>2, <1>3, <1>5, <1>6, <2>3
  <2>4. CASE i > p + 1
    <3>1. /\ i - 1 \in 1 .. Len(s) /\ j - 1 \in 1 .. Len(s) /\ i - 1 < j - 1
          /\ d[i] = s[i - 1] /\ d[j] = s[j - 1]
      BY <1>2, <1>3, <1>6, <2>4
    <3> QED BY <1>5, <3>1
  <2>5. CASE i < p + 1 /\ j > p + 1
    <3>1. /\ i \in 1 .. Len(s) /\ j - 1 \in 1 .. Len(s)
          /\ d[i] = s[i] /\ d[j] = s[j - 1] /\ s[i] < v /\ v < s[j - 1]
      BY <1>2, <1>3, <2>5
    <3> QED BY <1>4, <3>1
  <2> QED BY <1>2, <1>6, <2>1, <2>2, <2>3, <2>4, <2>5
<1>7. \A k \in DOMAIN d : d[k] \in {s[j] : j \in DOMAIN s} \cup {v}
  BY <1>2, <1>3
<1>8. v \in {d[k] : k \in DOMAIN d}
  <2>1. p + 1 \in DOMAIN d /\ d[p + 1] = v
    BY <1>2, <1>3
  <2> QED BY <2>1
<1>9. ASSUME NEW j \in DOMAIN s PROVE s[j] \in {d[k] : k \in DOMAIN d}
  <2>1. CASE j < p + 1
    <3>1. j \in DOMAIN d /\ d[j] = s[j]
      BY <1>2, <1>3, <2>1
    <3> QED BY <3>1
  <2>2. CASE ~(j < p + 1)
    <3>1. j + 1 \in DOMAIN d /\ d[j + 1] = s[(j + 1) - 1] /\ (j + 1) - 1 = j
      BY <1>2, <1>3, <2>2
    <3> QED BY <3>1
  <2> QED BY <2>1, <2>2
<1>10. {d[k] : k \in DOMAIN d} = {s[k] : k \in DOMAIN s} \cup {v}
  BY <1>7, <1>8, <1>9
<1>11. Increasing(d)
  BY <1>2, <1>6 DEF Increasing
<1> QED BY <1>1, <1>2, <1>10, <1>11

LEMMA DeletedInOrder ==
    ASSUME NEW s \in Seq(Values), NEW p \in 1 .. Len(s), Increasing(s)
    PROVE  Increasing(Del(s, p))
<1>1. PICK d : d = Del(s, p)
  OBVIOUS
<1>2. /\ Len(d) = Len(s) - 1 /\ Len(s) \in Nat
      /\ \A k \in 1 .. (Len(s) - 1) : d[k] = IF k < p THEN s[k] ELSE s[k + 1]
  <2>1. Len(d) = Len(s) - 1
    BY <1>1, DelFacts
  <2> QED BY <1>1, <2>1 DEF Del
<1> DEFINE Old(k) == IF k < p THEN k ELSE k + 1
<1>3. \A k \in 1 .. (Len(s) - 1) : Old(k) \in 1 .. Len(s) /\ d[k] = s[Old(k)]
  BY <1>2
<1>4. \A i, j \in 1 .. (Len(s) - 1) : i < j => Old(i) < Old(j)
  BY <1>2
<1> HIDE DEF Old
<1>5. Increasing(d)
  BY <1>2, <1>3, <1>4 DEF Increasing
<1> QED BY <1>1, <1>5

\* A deletion is what the library of sequences calls RemoveAt, or Tail.
LEMMA DeletedIsRemoved ==
    ASSUME NEW s \in Seq(Values), NEW p \in 1 .. Len(s)
    PROVE  /\ Del(s, p) = SubSeq(s, 1, p - 1) \o SubSeq(s, p + 1, Len(s))
           /\ Del(s, 1) = Tail(s)
<1>1. Len(s) \in Nat /\ \A k \in 1 .. Len(s) : s[k] \in Values
  OBVIOUS
<1>2. ASSUME NEW q \in 1 .. Len(s)
      PROVE  /\ Del(s, q) \in Seq(Values) /\ Len(Del(s, q)) = Len(s) - 1
             /\ \A k \in 1 .. (Len(s) - 1) : Del(s, q)[k] = IF k < q THEN s[k] ELSE s[k + 1]
  <2>1. Del(s, q) \in Seq(Values) /\ Len(Del(s, q)) = Len(s) - 1
    BY DelFacts
  <2> QED BY <2>1 DEF Del
<1>3. PICK a, b, d : /\ a = SubSeq(s, 1, p - 1) /\ b = SubSeq(s, p + 1, Len(s))
                     /\ d = Del(s, p)
  OBVIOUS
<1>4. /\ a \in Seq(Values) /\ Len(a) = p - 1
      /\ \A k \in 1 .. (p - 1) : a[k] = s[k]
  BY <1>1, <1>3
<1>5. /\ b \in Seq(Values) /\ Len(b) = Len(s) - p
      /\ \A k \in 1 .. (Len(s) - p) : b[k] = s[p + k]
  BY <1>1, <1>3
<1>6. a \o b \in Seq(Values) /\ Len(a \o b) = Len(s) - 1
  <2>1. a \o b \in Seq(Values) /\ Len(a \o b) = Len(a) + Len(b)
    BY <1>4, <1>5, Concatenation
  <2> QED BY <1>1, <1>4, <1>5, <2>1
<1>7. /\ d \in Seq(Values) /\ Len(d) = Len(s) - 1
      /\ \A k \in 1 .. (Len(s) - 1) : d[k] = IF k < p THEN s[k] ELSE s[k + 1]
  BY <1>2, <1>3
<1>8. ASSUME NEW k \in 1 .. (Len(s) - 1) PROVE d[k] = (a \o b)[k]
  <2>1. CASE k < p
    <3>1. k \in 1 .. (p - 1) /\ (a \o b)[k] = a[k]
      BY <1>1, <1>4, <1>5, <2>1
    <3> QED BY <1>4, <1>7, <2>1, <3>1
  <2>2. CASE ~(k < p)
    <3>1. /\ k - (p - 1) \in 1 .. (Len(s) - p) /\ p + (k - (p - 1)) = k + 1
          /\ (a \o b)[k] = b[k - (p - 1)]
      BY <1>1, <1>4, <1>5, <2>2
    <3> QED BY <1>5, <1>7, <2>2, <3>1
  <2> QED BY <2>1, <2>2
<1>9. d = a \o b
  BY <1>6, <1>7, <1>8, SameSequence
<1>10. Del(s, 1) = Tail(s)
  <2>1. 1 \in 1 .. Len(s) /\ s # <<>>
    BY <1>1
  <2>2. PICK t : t = Tail(s)
    OBVIOUS
  <2>3. /\ t \in Seq(Values) /\ Len(t) = Len(s) - 1
        /\ \A k \in 1 .. (Len(s) - 1) : t[k] = s[k + 1]
    BY <2>1, <2>2
  <2>4. PICK e : e = Del(s, 1)
    OBVIOUS
  <2>5. /\ e \in Seq(Values) /\ Len(e) = Len(s) - 1
        /\ \A k \in 1 .. (Len(s) - 1) : e[k] = IF k < 1 THEN s[k] ELSE s[k + 1]
    BY <1>2, <2>1, <2>4
  <2>6. \A k \in 1 .. (Len(s) - 1) : e[k] = t[k]
    BY <2>3, <2>5
  <2>7. e = t
    BY <2>3, <2>5, <2>6, SameSequence
  <2> QED BY <2>2, <2>4, <2>7
<1> QED BY <1>3, <1>9, <1>10

-----------------------------------------------------------------------------
(***************************************************************************)
(* The refinement.                                                         *)
(***************************************************************************)

Busy == {n \in Nodes : nodes[n].busy}

\* As many elements as nodes in use: the lists are full when no node is free.
LEMMA TotalCountsNodes ==
    ASSUME ListInv
    PROVE  /\ Promise!Total \in Nat /\ Promise!Total <= MAX_NODES
           /\ Promise!Total = MAX_NODES <=> \A n \in Nodes : nodes[n].busy
<1>1. PICK P : P = UNION {{l} \X DOMAIN Contents(l) : l \in Lists}
  OBVIOUS
<1>2. Promise!Total = Cardinality(P)
  <2>1. \A l \in Lists : [k \in Lists |-> Contents(k)][l] = Contents(l)
    OBVIOUS
  <2>2. UNION {{l} \X DOMAIN ([k \in Lists |-> Contents(k)][l]) : l \in Lists} = P
    BY <1>1, <2>1
  <2>3. Promise!Total = Promise!Cardinality(P)
    BY <2>2 DEF Promise!Total, Promise!Lists, Lists
  <2>4. Promise!Cardinality(P) = Cardinality(P)
    BY DEF Promise!Cardinality, Cardinality
  <2> QED BY <2>3, <2>4
<1>3. \A l \in Lists : DOMAIN Contents(l) = 1 .. Len(Chain(l))
  BY ChainFacts DEF Contents
<1>4. \A x \in P : \E l \in Lists : \E k \in 1 .. Len(Chain(l)) : x = <<l, k>>
  BY <1>1, <1>3
<1>5. \A l \in Lists : \A k \in 1 .. Len(Chain(l)) : <<l, k>> \in P
  BY <1>1, <1>3
<1>6. PICK f : f = [x \in P |-> Chain(x[1])[x[2]]]
  OBVIOUS
<1>7. \A l \in Lists : \A k \in 1 .. Len(Chain(l)) : f[<<l, k>>] = Chain(l)[k]
  BY <1>5, <1>6
<1>8. PICK cs \in [Lists -> Seq(Nodes)] : Partition(lists, nodes, cs)
  BY DEF ListInv
<1>9. \A l \in Lists : Chain(l) = cs[l]
  BY <1>8, ChainIsPath
<1>10. f \in [P -> Busy]
  <2>1. ASSUME NEW x \in P PROVE f[x] \in Busy
    <3>1. PICK l \in Lists : \E k \in 1 .. Len(Chain(l)) : x = <<l, k>>
      BY <1>4
    <3>2. PICK k \in 1 .. Len(Chain(l)) : x = <<l, k>>
      BY <3>1
    <3> QED BY <1>7, <3>2, ChainFacts DEF Busy
  <2> QED BY <1>6, <2>1
<1>11. ASSUME NEW x \in P, NEW y \in P, f[x] = f[y] PROVE x = y
  <2>1. PICK l \in Lists : \E k \in 1 .. Len(Chain(l)) : x = <<l, k>>
    BY <1>4
  <2>2. PICK k \in 1 .. Len(Chain(l)) : x = <<l, k>>
    BY <2>1
  <2>3. PICK m \in Lists : \E j \in 1 .. Len(Chain(m)) : y = <<m, j>>
    BY <1>4
  <2>4. PICK j \in 1 .. Len(Chain(m)) : y = <<m, j>>
    BY <2>3
  <2>5. Chain(l)[k] = Chain(m)[j]
    BY <1>7, <1>11, <2>2, <2>4
  <2>6. Chain(l)[k] \in Range(cs[l]) /\ Chain(m)[j] \in Range(cs[m])
    BY <1>9, ChainFacts DEF Range
  <2>7. l = m
    BY <1>8, <2>5, <2>6 DEF Partition
  <2>8. k = j
    BY <2>5, <2>7, ChainFacts DEF IsInjective
  <2> QED BY <2>2, <2>4, <2>7, <2>8
<1>12. ASSUME NEW n \in Busy PROVE \E x \in P : f[x] = n
  <2>1. PICK l \in Lists : n \in Range(cs[l])
    BY <1>8 DEF Partition, Busy
  <2>2. PICK k \in 1 .. Len(Chain(l)) : Chain(l)[k] = n
    BY <1>9, <2>1, ChainFacts DEF Range
  <2> QED BY <1>5, <1>7, <2>2
<1>13. f \in Bijection(P, Busy)
  BY <1>10, <1>11, <1>12 DEF Bijection, Injection, Surjection, IsInjective
<1>14. IsFiniteSet(Nodes) /\ Cardinality(Nodes) = MAX_NODES
  <2>1. 0 \in Int /\ MAX_NODES - 1 \in Int /\ MAX_NODES \in Nat
    BY ListPoolAssumption
  <2>2. /\ IsFiniteSet(0 .. (MAX_NODES - 1))
        /\ Cardinality(0 .. (MAX_NODES - 1)) =
             IF 0 > MAX_NODES - 1 THEN 0 ELSE (MAX_NODES - 1) - 0 + 1
    BY <2>1, FS_Interval
  <2> QED BY <2>1, <2>2 DEF Nodes
<1>15. /\ IsFiniteSet(Busy) /\ Cardinality(Busy) <= MAX_NODES
       /\ Cardinality(Busy) = MAX_NODES => Busy = Nodes
  BY <1>14, FS_Subset DEF Busy
<1>16. Cardinality(P) = Cardinality(Busy)
  <2>1. ExistsBijection(P, Busy)
    BY <1>13 DEF ExistsBijection
  <2>2. ExistsBijection(Busy, P)
    BY <2>1, Fun_ExistsBijSymmetric
  <2> QED BY <1>15, <2>2, FS_Bijection
<1>17. Cardinality(Busy) \in Nat
  BY <1>15, FS_CardinalityType
<1>18. Busy = Nodes <=> \A n \in Nodes : nodes[n].busy
  BY DEF Busy
<1> QED BY <1>2, <1>14, <1>15, <1>16, <1>17, <1>18

LEMMA SequenceAfter ==
    ASSUME ListInv', result' \in [code : Int, element : Int],
           \A l \in Lists : Contents(l)' \in Seq(Values),
           \A l \in Lists : lists'[l].busy /\ lists'[l].order = "LIST_SORTED"
                             => Increasing(Contents(l)')
    PROVE  SequenceInv'
<1>1. ASSUME NEW n \in Nodes, nodes'[n].busy PROVE ValueOf(n)' \in Values
  <2>1. PICK cs \in [Lists -> Seq(Nodes)] : Partition(lists', nodes', cs)
    BY DEF ListInv, Partition
  <2>2. PICK l \in Lists : n \in Range(cs[l])
    BY <1>1, <2>1 DEF Partition
  <2>3. PICK c \in Seq(Nodes) : c = cs[l]
    OBVIOUS
  <2>4. Chain(l)' = c
    BY <2>1, <2>3, ChainIsPathAfter
  <2>5. Contents(l)' = [k \in DOMAIN c |-> ValueOf(c[k])']
    BY <2>4, ContentsAfter
  <2>6. PICK k \in DOMAIN c : c[k] = n
    BY <2>2, <2>3 DEF Range
  <2>7. PICK s \in Seq(Values) : s = Contents(l)'
    OBVIOUS
  <2>8. k \in DOMAIN s /\ s[k] = ValueOf(n)'
    BY <2>5, <2>6, <2>7
  <2>9. s[k] \in Values
    BY <2>8
  <2> QED BY <2>8, <2>9
<1>2. \A l \in Lists : (lists[l].busy /\ lists[l].order = "LIST_SORTED"
                           => Increasing(Contents(l)))'
  BY DEF Increasing
<1> QED BY <1>1, <1>2 DEF SequenceInv

\* A step that changes one list.
LEMMA OneListChanges ==
    ASSUME SequenceInv, ListInv', ValuesStay, NEW l \in Lists, NEW c, Becomes(l, c),
           result' \in [code : Int, element : Int],
           \A k \in Lists \ {l} : lists'[k].busy = lists[k].busy /\ lists'[k].order = lists[k].order,
           Contents(l)' \in Seq(Values),
           lists'[l].busy /\ lists'[l].order = "LIST_SORTED" => Increasing(Contents(l)')
    PROVE  /\ SequenceInv'
           /\ [k \in Lists |-> Contents(k)]'
                = [[k \in Lists |-> Contents(k)] EXCEPT ![l] = Contents(l)']
<1>1. \A k \in Lists \ {l} : Contents(k)' = Contents(k)
  BY OthersStay DEF SequenceInv
<1>2. \A k \in Lists : Contents(k)' \in Seq(Values)
  BY <1>1, ContentsFacts
<1>3. \A k \in Lists : lists'[k].busy /\ lists'[k].order = "LIST_SORTED"
                        => Increasing(Contents(k)')
  <2>1. \A k \in Lists \ {l} : lists[k].busy /\ lists[k].order = "LIST_SORTED"
                                => Increasing(Contents(k))
    BY DEF SequenceInv
  <2>2. \A k \in Lists \ {l} : lists'[k].busy /\ lists'[k].order = "LIST_SORTED"
                                => Increasing(Contents(k)')
    BY <1>1, <2>1
  <2> QED BY <2>2
<1>4. SequenceInv'
  BY <1>2, <1>3, SequenceAfter
<1>5. [k \in Lists |-> Contents(k)]'
        = [[k \in Lists |-> Contents(k)] EXCEPT ![l] = Contents(l)']
  BY <1>1
<1> QED BY <1>4, <1>5

AllContents == [l \in Lists |-> Contents(l)]
Kinds       == [l \in Lists |-> IF lists[l].busy THEN lists[l].order ELSE "none"]

\* The state of the abstract lists, for the steps that change some of it only.
LEMMA KindsAreKept ==
    ASSUME KindsStay
    PROVE  Kinds' = Kinds
BY DEF KindsStay, Kinds

LEMMA KindsFacts ==
    ASSUME SequenceInv, NEW l \in Lists
    PROVE  /\ Kinds[l] # "none" <=> lists[l].busy
           /\ lists[l].busy => Kinds[l] = lists[l].order
           /\ Kinds \in [Lists -> Orders \cup {"none"}]
           /\ AllContents \in [Lists -> Seq(Values)] /\ AllContents[l] = Contents(l)
<1>1. \A k \in Lists : lists[k].order \in Orders
  BY DEF SequenceInv, ListInv, PoolTypeOK, ListRecord
<1>2. AllContents \in [Lists -> Seq(Values)]
  BY ContentsFacts DEF AllContents
<1> QED BY <1>1, <1>2 DEF Kinds, AllContents, Orders

LEMMA AnswerFacts ==
    ASSUME SequenceInv, NEW c \in Int, Returns(c)
    PROVE  /\ result' \in [code : Int, element : Int]
           /\ result'.code = c /\ result'.element = result.element
BY DEF SequenceInv, Returns

LEMMA PoolsUnchanged ==
    ASSUME SequenceInv, UNCHANGED pools, result' \in [code : Int, element : Int]
    PROVE  SequenceInv' /\ AllContents' = AllContents /\ Kinds' = Kinds
<1>1. /\ lists' = lists /\ nodes' = nodes /\ elements' = elements
  BY DEF pools
<1>2. ListInv'
  BY SamePools DEF SequenceInv
<1>3. \A l \in Lists : Contents(l)' = Contents(l)
  BY <1>1 DEF Contents, Chain, ValueOf
<1>4. AllContents' = AllContents /\ Kinds' = Kinds
  BY <1>1, <1>3 DEF AllContents, Kinds
<1>5. \A l \in Lists : Contents(l)' \in Seq(Values)
  BY <1>3, ContentsFacts
<1>6. \A l \in Lists : lists'[l].busy /\ lists'[l].order = "LIST_SORTED"
                        => Increasing(Contents(l)')
  BY <1>1, <1>3 DEF SequenceInv
<1> QED BY <1>2, <1>4, <1>5, <1>6, SequenceAfter

LEMMA InsertImplements ==
    ASSUME SequenceInv, NEW l \in Lists, NEW v \in Values, ListInsert(l, v)
    PROVE  SequenceInv' /\ Promise!Insert(l, v)
<1>1. PICK s \in Seq(Values) : s = Contents(l)
  BY ContentsFacts
<1>2. /\ lists[l].busy /\ Kinds[l] # "none" /\ Kinds[l] = lists[l].order
      /\ AllContents[l] = s
  BY <1>1, KindsFacts DEF ListInsert
<1>3. ListFindNode(l, v) <=> \E k \in 1 .. Len(s) : s[k] = v
  BY <1>1, <1>2, FindFacts
<1>4. Promise!Contains(AllContents[l], v) <=> ListFindNode(l, v)
  BY <1>2, <1>3 DEF Promise!Contains
<1>5. CASE /\ lists[l].order = "LIST_SORTED" /\ ListFindNode(l, v)
           /\ Returns(LIST_ELEM_EXISTS) /\ UNCHANGED pools
  <2>1. /\ result' \in [code : Int, element : Int]
        /\ result'.code = Promise!LIST_ELEM_EXISTS /\ result'.element = result.element
    BY <1>5, AnswerFacts DEF LIST_ELEM_EXISTS, Promise!LIST_ELEM_EXISTS
  <2>2. SequenceInv' /\ AllContents' = AllContents /\ Kinds' = Kinds
    BY <1>5, <2>1, PoolsUnchanged
  <2> QED BY <1>2, <1>4, <1>5, <2>1, <2>2 DEF Promise!Insert, AllContents, Kinds
<1>6. CASE /\ ~(lists[l].order = "LIST_SORTED" /\ ListFindNode(l, v))
           /\ \A n \in Nodes : nodes[n].busy
           /\ Returns(LIST_NO_MEM) /\ UNCHANGED pools
  <2>1. /\ result' \in [code : Int, element : Int]
        /\ result'.code = Promise!LIST_NO_MEM /\ result'.element = result.element
    BY <1>6, AnswerFacts DEF LIST_NO_MEM, Promise!LIST_NO_MEM
  <2>2. SequenceInv' /\ AllContents' = AllContents /\ Kinds' = Kinds
    BY <1>6, <2>1, PoolsUnchanged
  <2>3. Promise!Total = MAX_NODES
    BY <1>6, TotalCountsNodes DEF SequenceInv
  <2> QED BY <1>2, <1>4, <1>6, <2>1, <2>2, <2>3 DEF Promise!Insert, AllContents, Kinds
<1>7. CASE /\ ~(lists[l].order = "LIST_SORTED" /\ ListFindNode(l, v))
           /\ \E n \in Nodes : ~nodes[n].busy
           /\ Returns(LIST_NO_ERR) /\ ~UNCHANGED pools
  <2>1. /\ result' \in [code : Int, element : Int]
        /\ result'.code = Promise!LIST_NO_ERR /\ result'.element = result.element
    BY <1>7, AnswerFacts DEF LIST_NO_ERR, Promise!LIST_NO_ERR
  <2>2. Promise!Total < MAX_NODES
    BY <1>7, TotalCountsNodes, ListPoolAssumption DEF SequenceInv
  <2>3. /\ ListInv' /\ ValuesStay /\ KindsStay
    BY <1>7, InsertEffect DEF SequenceInv
  <2>4. PICK p \in 0 .. Len(Chain(l)), n \in Nodes :
                /\ p = IF lists[l].order = "LIST_SORTED" THEN Stop(l, v) - 1 ELSE 0
                /\ Becomes(l, Ins(Chain(l), p, n))
                /\ ValueOf(n)' = v
    BY <1>7, InsertEffect DEF SequenceInv
  <2>5. Contents(l)' = Ins(s, p, v)
    BY <1>1, <2>3, <2>4, ContentsInserted
  <2>6. p \in 0 .. Len(s)
    BY <1>1, ContentsFacts
  <2>7. Ins(s, p, v) \in Seq(Values)
    BY <2>6, InsFacts
  <2>8. ASSUME lists[l].order = "LIST_SORTED"
        PROVE  /\ Increasing(Ins(s, p, v))
               /\ {Ins(s, p, v)[k] : k \in DOMAIN Ins(s, p, v)}
                     = {s[k] : k \in DOMAIN s} \cup {v}
    <3>1. p + 1 = Stop(l, v)
      BY <2>4, <2>8, FindFacts, <1>1, <1>2
    <3>2. \A k \in 1 .. Len(s) : IF k < p + 1 THEN s[k] < v ELSE v < s[k]
      BY <1>1, <1>2, <1>7, <2>8, <3>1, FindFacts
    <3>3. Increasing(s)
      BY <1>1, <1>2, <2>8 DEF SequenceInv
    <3> QED BY <2>6, <3>2, <3>3, InsertedInOrder
  <2>9. lists'[l].busy = lists[l].busy /\ lists'[l].order = lists[l].order
    BY <2>3 DEF KindsStay
  <2>10. /\ SequenceInv'
         /\ [k \in Lists |-> Contents(k)]'
              = [[k \in Lists |-> Contents(k)] EXCEPT ![l] = Contents(l)']
    <3>1. PICK c : c = Ins(Chain(l), p, n)
      OBVIOUS
    <3>2. Becomes(l, c)
      BY <2>4, <3>1
    <3>3. lists'[l].busy /\ lists'[l].order = "LIST_SORTED" => Increasing(Contents(l)')
      BY <2>5, <2>8, <2>9
    <3>4. Contents(l)' \in Seq(Values)
      BY <2>5, <2>7
    <3>5. \A k \in Lists \ {l} :
            lists'[k].busy = lists[k].busy /\ lists'[k].order = lists[k].order
      BY <2>3 DEF KindsStay
    <3> QED BY <2>1, <2>3, <3>2, <3>3, <3>4, <3>5, OneListChanges
  <2>11. Kinds' = Kinds
    BY <2>3, KindsAreKept
  <2>12. AllContents' = [AllContents EXCEPT ![l] = Ins(s, p, v)] /\ AllContents'[l] = Ins(s, p, v)
    BY <2>5, <2>10 DEF AllContents
  <2>13. CASE lists[l].order = "LIST_SORTED"
    <3>1. PICK d : d = Ins(s, p, v)
      OBVIOUS
    <3>2. Promise!IsSorted(d, <)
      BY <2>8, <2>13, <3>1 DEF Promise!IsSorted, Increasing
    <3>3. Promise!ToSet(d) = Promise!ToSet(AllContents[l]) \cup {v}
      <4>1. Promise!ToSet(d) = {d[k] : k \in DOMAIN d}
        BY DEF Promise!ToSet
      <4>2. Promise!ToSet(s) = {s[k] : k \in DOMAIN s}
        BY DEF Promise!ToSet
      <4>3. {d[k] : k \in DOMAIN d} = {s[k] : k \in DOMAIN s} \cup {v}
        BY <2>8, <2>13, <3>1
      <4> QED BY <1>2, <4>1, <4>2, <4>3, Zenon
    <3>4. /\ AllContents'[l] \in Seq(Values) /\ Promise!IsSorted(AllContents'[l], <)
          /\ Promise!ToSet(AllContents'[l]) = Promise!ToSet(AllContents[l]) \cup {v}
          /\ AllContents' = [AllContents EXCEPT ![l] = AllContents'[l]]
      BY <2>7, <2>12, <3>1, <3>2, <3>3
    <3>5. Promise!InsertSorted(l, v)
      BY <3>4 DEF Promise!InsertSorted, AllContents
    <3> QED BY <1>2, <1>4, <1>7, <2>1, <2>2, <2>10, <2>11, <2>13, <3>5
            DEF Promise!Insert, AllContents, Kinds
  <2>14. CASE lists[l].order # "LIST_SORTED"
    <3>1. p = 0 /\ Ins(s, 0, v) = <<v>> \o s
      BY <2>4, <2>14, InsertedInFront
    <3>2. AllContents' = [AllContents EXCEPT ![l] = <<v>> \o AllContents[l]]
      BY <1>2, <2>12, <3>1
    <3> QED BY <1>2, <1>4, <1>7, <2>1, <2>2, <2>10, <2>11, <2>14, <3>2
            DEF Promise!Insert, AllContents, Kinds
  <2> QED BY <2>13, <2>14
<1>8. \/ /\ lists[l].order = "LIST_SORTED" /\ ListFindNode(l, v)
         /\ Returns(LIST_ELEM_EXISTS) /\ UNCHANGED pools
      \/ /\ ~(lists[l].order = "LIST_SORTED" /\ ListFindNode(l, v))
         /\ \A n \in Nodes : nodes[n].busy
         /\ Returns(LIST_NO_MEM) /\ UNCHANGED pools
      \/ /\ ~(lists[l].order = "LIST_SORTED" /\ ListFindNode(l, v))
         /\ \E n \in Nodes : ~nodes[n].busy
         /\ Returns(LIST_NO_ERR) /\ ~UNCHANGED pools
  <2>1. ASSUME NEW e \in Nodes, ~elements[e].busy,
               elements' = [elements EXCEPT ![e] = [busy |-> TRUE, element |-> v]]
        PROVE  ~UNCHANGED pools
    BY <2>1 DEF SequenceInv, ListInv, PoolTypeOK, pools
  <2> QED BY <2>1 DEF ListInsert, IsFirstFree
<1> QED BY <1>5, <1>6, <1>7, <1>8

\* A deletion at position p, by ListDelete or ListRemoveFirst.
LEMMA DeletionKeeps ==
    ASSUME SequenceInv, NEW l \in Lists, NEW p \in 1 .. Len(Chain(l)),
           ListInv', ValuesStay, KindsStay, Becomes(l, Del(Chain(l), p)),
           result' \in [code : Int, element : Int]
    PROVE  /\ SequenceInv' /\ Kinds' = Kinds
           /\ AllContents' = [AllContents EXCEPT ![l] = Del(Contents(l), p)]
<1>1. PICK s \in Seq(Values) : s = Contents(l)
  BY ContentsFacts
<1>2. p \in 1 .. Len(s)
  BY <1>1, ContentsFacts
<1>3. Contents(l)' = Del(s, p)
  BY <1>1, ContentsDeleted
<1>4. Del(s, p) \in Seq(Values)
  BY <1>2, DelFacts
<1>5. lists'[l].busy /\ lists'[l].order = "LIST_SORTED" => Increasing(Contents(l)')
  <2>1. lists[l].busy /\ lists[l].order = "LIST_SORTED" => Increasing(s)
    BY <1>1 DEF SequenceInv
  <2>2. Increasing(s) => Increasing(Del(s, p))
    BY <1>2, DeletedInOrder
  <2> QED BY <1>3, <2>1, <2>2 DEF KindsStay
<1>6. Kinds' = Kinds
  BY KindsAreKept
<1>7. /\ SequenceInv'
      /\ [k \in Lists |-> Contents(k)]'
           = [[k \in Lists |-> Contents(k)] EXCEPT ![l] = Contents(l)']
  <2>1. PICK c : c = Del(Chain(l), p)
    OBVIOUS
  <2>2. Becomes(l, c)
    BY <2>1
  <2>3. Contents(l)' \in Seq(Values)
    BY <1>3, <1>4
  <2>4. \A k \in Lists \ {l} :
          lists'[k].busy = lists[k].busy /\ lists'[k].order = lists[k].order
    BY DEF KindsStay
  <2> QED BY <1>5, <2>2, <2>3, <2>4, OneListChanges
<1> QED BY <1>1, <1>3, <1>6, <1>7 DEF AllContents

\* RemoveFirst of the library removes the first occurrence.
LEMMA RemoveFirstFacts ==
    ASSUME NEW s \in Seq(Values), NEW v
    PROVE  /\ (\A k \in 1 .. Len(s) : s[k] # v) => Promise!RemoveFirst(s, v) = s
           /\ \A p \in 1 .. Len(s) :
                s[p] = v /\ (\A k \in 1 .. Len(s) : k < p => s[k] # v)
                => Promise!RemoveFirst(s, v) = Del(s, p)
<1>1. (\A k \in 1 .. Len(s) : s[k] # v) => Promise!RemoveFirst(s, v) = s
  BY DEF Promise!RemoveFirst
<1>2. ASSUME NEW p \in 1 .. Len(s), s[p] = v, \A k \in 1 .. Len(s) : k < p => s[k] # v
      PROVE  Promise!RemoveFirst(s, v) = Del(s, p)
  <2>1. PICK I : I = {i \in 1 .. Len(s) : s[i] = v}
    OBVIOUS
  <2>2. p \in I /\ Len(s) \in Nat /\ \A i \in I : i \in 1 .. Len(s) /\ ~(i < p)
    BY <1>2, <2>1
  <2>3. \A i \in I : p <= i /\ i \in Int
    BY <2>2
  <2>4. Promise!Min(I) = p
    <3>1. Promise!Min(I) \in I /\ \A i \in I : Promise!Min(I) <= i
      BY <2>2, <2>3 DEF Promise!Min
    <3>2. PICK m : m = Promise!Min(I)
      OBVIOUS
    <3>3. m \in Int /\ p \in Int /\ m <= p /\ p <= m
      BY <2>2, <2>3, <3>1, <3>2
    <3> QED BY <3>2, <3>3
  <2>5. Promise!SelectInSeq(s, LAMBDA w : w = v) = p
    BY <2>1, <2>2, <2>4 DEF Promise!SelectInSeq
  <2>6. Promise!RemoveFirst(s, v) = SubSeq(s, 1, p - 1) \o SubSeq(s, p + 1, Len(s))
    BY <1>2, <2>1, <2>2, <2>4 DEF Promise!RemoveFirst, Promise!RemoveAt, Promise!SelectInSeq
  <2> QED BY <2>6, DeletedIsRemoved
<1> QED BY <1>1, <1>2

LEMMA DeleteImplements ==
    ASSUME SequenceInv, NEW l \in Lists, NEW v \in Values, ListDelete(l, v)
    PROVE  SequenceInv' /\ Promise!Delete(l, v)
<1>1. PICK s \in Seq(Values) : s = Contents(l)
  BY ContentsFacts
<1>2. lists[l].busy /\ Kinds[l] # "none" /\ AllContents[l] = s
  BY <1>1, KindsFacts DEF ListDelete
<1>3. PICK p : p = Stop(l, v)
  OBVIOUS
<1>4. /\ ListFindNode(l, v) <=> \E k \in 1 .. Len(s) : s[k] = v
      /\ ListFindNode(l, v) => /\ p \in 1 .. Len(s) /\ s[p] = v
                               /\ \A k \in 1 .. Len(s) : k < p => s[k] # v
  BY <1>1, <1>2, <1>3, FindFacts
<1>5. Promise!Contains(AllContents[l], v) <=> ListFindNode(l, v)
  BY <1>2, <1>4 DEF Promise!Contains
<1>6. CASE ~ListFindNode(l, v)
  <2>1. Returns(LIST_NO_ELEM) /\ UNCHANGED pools
    BY <1>6 DEF ListDelete
  <2>2. /\ result' \in [code : Int, element : Int]
        /\ result'.code = Promise!LIST_NO_ELEM /\ result'.element = result.element
    BY <2>1, AnswerFacts DEF LIST_NO_ELEM, Promise!LIST_NO_ELEM
  <2>3. SequenceInv' /\ AllContents' = AllContents /\ Kinds' = Kinds
    BY <2>1, <2>2, PoolsUnchanged
  <2>4. Promise!RemoveFirst(s, v) = s
    BY <1>4, <1>6, RemoveFirstFacts
  <2>5. AllContents' = [AllContents EXCEPT ![l] = Promise!RemoveFirst(AllContents[l], v)]
    BY <1>2, <2>3, <2>4 DEF AllContents
  <2> QED BY <1>2, <1>5, <1>6, <2>2, <2>3, <2>5 DEF Promise!Delete, AllContents, Kinds
<1>7. CASE ListFindNode(l, v)
  <2>1. Returns(LIST_NO_ERR)
    BY <1>7 DEF ListDelete
  <2>2. /\ result' \in [code : Int, element : Int]
        /\ result'.code = Promise!LIST_NO_ERR /\ result'.element = result.element
    BY <2>1, AnswerFacts DEF LIST_NO_ERR, Promise!LIST_NO_ERR
  <2>3. ListInv /\ ~UNCHANGED pools
    <3>1. PICK c : c = Chain(l)
      OBVIOUS
    <3>2. /\ p \in 1 .. Len(c) /\ c[p] \in Nodes /\ nodes[c[p]].busy /\ PoolTypeOK
          /\ nodes[c[p]].element \in Nodes /\ elements[nodes[c[p]].element].busy
      <4>1. ListInv
        BY DEF SequenceInv
      <4>2. p \in 1 .. Len(c)
        BY <1>1, <1>4, <1>7, <3>1, ContentsFacts
      <4>3. c[p] \in Nodes /\ nodes[c[p]].busy
        BY <3>1, <4>1, <4>2, ChainFacts
      <4> QED BY <4>1, <4>2, <4>3 DEF ListInv, Owned
    <3>3. PICK S : S = ElementsOf({c[p]})
      OBVIOUS
    <3>4. elements' = Freed(elements, S) /\ nodes[c[p]].element \in S
      BY <1>3, <1>7, <3>1, <3>3 DEF ListDelete, ElementsOf
    <3>5. ~elements'[nodes[c[p]].element].busy
      BY <3>2, <3>4, FreedFacts
    <3> QED BY <3>2, <3>5 DEF SequenceInv, pools
  <2>4. /\ ListInv' /\ ValuesStay /\ KindsStay
        /\ p \in 1 .. Len(Chain(l)) /\ Becomes(l, Del(Chain(l), p))
    BY <1>3, <2>3, DeleteEffect
  <2>5. /\ SequenceInv' /\ Kinds' = Kinds
        /\ AllContents' = [AllContents EXCEPT ![l] = Del(s, p)]
    BY <1>1, <2>2, <2>4, DeletionKeeps
  <2>6. Promise!RemoveFirst(s, v) = Del(s, p)
    BY <1>4, <1>7, RemoveFirstFacts
  <2>7. AllContents' = [AllContents EXCEPT ![l] = Promise!RemoveFirst(AllContents[l], v)]
    BY <1>2, <2>5, <2>6
  <2> QED BY <1>2, <1>5, <1>7, <2>2, <2>5, <2>7 DEF Promise!Delete, AllContents, Kinds
<1> QED BY <1>6, <1>7

LEMMA RemoveFirstImplements ==
    ASSUME SequenceInv, NEW l \in Lists, ListRemoveFirst(l)
    PROVE  SequenceInv' /\ Promise!TakeFirst(l)
<1>1. PICK s \in Seq(Values) : s = Contents(l)
  BY ContentsFacts
<1>2. lists[l].busy /\ Kinds[l] # "none" /\ AllContents[l] = s
  BY <1>1, KindsFacts DEF ListRemoveFirst
<1>3. PICK c : c = Chain(l)
  OBVIOUS
<1>4. /\ ListInv /\ Len(s) = Len(c) /\ Len(c) \in Nat /\ lists[l].nodes = At(c, 1)
      /\ \A k \in 1 .. Len(c) : c[k] \in Nodes
  BY <1>1, <1>3, ChainFacts, ContentsFacts DEF SequenceInv
<1>5. lists[l].nodes = NIL <=> s = <<>>
  <2>1. NIL \notin Nodes
    BY DEF NIL, Nodes
  <2>2. lists[l].nodes = NIL <=> Len(c) = 0
    BY <1>4, <2>1 DEF At
  <2>3. s = <<>> <=> Len(s) = 0
    OBVIOUS
  <2> QED BY <1>4, <2>2, <2>3
<1>6. CASE lists[l].nodes = NIL
  <2>1. Returns(LIST_END) /\ UNCHANGED pools
    BY <1>6 DEF ListRemoveFirst
  <2>2. /\ result' \in [code : Int, element : Int]
        /\ result'.code = Promise!LIST_END /\ result'.element = result.element
    BY <2>1, AnswerFacts DEF LIST_END, Promise!LIST_END
  <2>3. SequenceInv' /\ AllContents' = AllContents /\ Kinds' = Kinds
    BY <2>1, <2>2, PoolsUnchanged
  <2>4. AllContents' = [AllContents EXCEPT ![l] = IF AllContents[l] = <<>> THEN AllContents[l]
                                                ELSE Tail(AllContents[l])]
    BY <1>2, <1>5, <1>6, <2>3 DEF AllContents
  <2> QED BY <1>2, <1>5, <1>6, <2>2, <2>3, <2>4 DEF Promise!TakeFirst, AllContents, Kinds
<1>7. CASE lists[l].nodes # NIL
  <2>1. Returns(LIST_NO_ERR)
    BY <1>7 DEF ListRemoveFirst
  <2>2. /\ result' \in [code : Int, element : Int]
        /\ result'.code = Promise!LIST_NO_ERR /\ result'.element = result.element
    BY <2>1, AnswerFacts DEF LIST_NO_ERR, Promise!LIST_NO_ERR
  <2>3. ~UNCHANGED pools
    <3>1. PICK n : n = lists[l].nodes
      OBVIOUS
    <3>2. n \in Nodes /\ nodes[n].busy
      <4>1. 1 \in 1 .. Len(c) /\ n = c[1]
        BY <1>4, <1>7, <3>1 DEF At
      <4> QED BY <1>3, <1>4, <4>1, ChainFacts
    <3>3. nodes' = Freed(nodes, {n}) /\ PoolTypeOK
      BY <1>4, <1>7, <3>1 DEF ListRemoveFirst, ListInv
    <3>4. ~nodes'[n].busy
      BY <3>2, <3>3, FreedFacts
    <3> QED BY <3>2, <3>4 DEF pools
  <2>4. /\ ListInv' /\ ValuesStay /\ KindsStay
        /\ 1 \in 1 .. Len(Chain(l)) /\ Becomes(l, Del(Chain(l), 1))
    BY <1>4, <2>3, RemoveFirstEffect
  <2>5. /\ SequenceInv' /\ Kinds' = Kinds
        /\ AllContents' = [AllContents EXCEPT ![l] = Del(s, 1)]
    BY <1>1, <2>2, <2>4, DeletionKeeps
  <2>6. Del(s, 1) = Tail(s)
    BY <1>3, <1>4, <2>4, DeletedIsRemoved
  <2>7. AllContents' = [AllContents EXCEPT ![l] = IF AllContents[l] = <<>> THEN AllContents[l]
                                                ELSE Tail(AllContents[l])]
    BY <1>2, <1>5, <1>7, <2>5, <2>6
  <2> QED BY <1>2, <1>5, <1>7, <2>2, <2>5, <2>7 DEF Promise!TakeFirst, AllContents, Kinds
<1> QED BY <1>6, <1>7

LEMMA NewListImplements ==
    ASSUME SequenceInv, NEW l \in Lists, NEW order \in Orders, NewList(l, order)
    PROVE  SequenceInv' /\ Promise!Create(l, order)
<1>1. /\ lists' = [lists EXCEPT ![l] = [busy |-> TRUE, nodes |-> NIL,
                                       current |-> NIL, order |-> order]]
      /\ nodes' = nodes /\ elements' = elements /\ result' = result /\ ~lists[l].busy
  BY DEF NewList, IsFirstFree
<1>2. ListInv /\ ListInv' /\ lists \in [Lists -> ListRecord]
  BY NewListStep DEF SequenceInv, ListInv, PoolTypeOK
<1>3. /\ \A k \in Lists \ {l} : lists'[k] = lists[k]
      /\ lists'[l].nodes = NIL /\ lists'[l].busy /\ lists'[l].order = order
  BY <1>1, <1>2
<1>4. Becomes(l, <<>>)
  <2>1. PICK cs \in [Lists -> Seq(Nodes)] : Partition(lists', nodes', cs)
    BY <1>2 DEF ListInv, Partition
  <2>2. IsPath(nodes', NIL, <<>>)
    BY EmptyPath
  <2>3. Chain(l)' = WalkOf(nodes', NIL)
    BY <1>3 DEF Chain, WalkOf
  <2>4. WalkOf(nodes', NIL) = <<>>
    BY <2>2, WalkIsPath
  <2>5. \A k \in Lists \ {l} : Chain(k)' = Chain(k)
    BY <1>1, <1>3 DEF Chain
  <2> QED BY <2>3, <2>4, <2>5 DEF Becomes
<1>5. ValuesStay
  BY <1>1 DEF ValuesStay, ValueOf
<1>6. Chain(l) = <<>> /\ Contents(l) = <<>>
  BY <1>1, <1>2, ChainFacts DEF Contents
<1>7. Contents(l)' = <<>>
  BY <1>4, ContentsAfter DEF Becomes
<1>8. Contents(l)' \in Seq(Values) /\ Increasing(Contents(l)')
  BY <1>7 DEF Increasing
<1>9. result' \in [code : Int, element : Int]
  BY <1>1 DEF SequenceInv
<1>10. /\ SequenceInv'
       /\ [k \in Lists |-> Contents(k)]'
            = [[k \in Lists |-> Contents(k)] EXCEPT ![l] = Contents(l)']
  <2>1. PICK c : c = <<>>
    OBVIOUS
  <2>2. Becomes(l, c)
    BY <1>4, <2>1
  <2> QED BY <1>2, <1>3, <1>5, <1>8, <1>9, <2>2, OneListChanges
<1>11. AllContents' = AllContents
  BY <1>6, <1>7, <1>10 DEF AllContents
<1>12. Kinds' = [Kinds EXCEPT ![l] = order] /\ Kinds[l] = "none"
  BY <1>1, <1>2, <1>3 DEF Kinds
<1> QED BY <1>1, <1>10, <1>11, <1>12 DEF Promise!Create, AllContents, Kinds

LEMMA FreeListImplements ==
    ASSUME SequenceInv, NEW l \in Lists, FreeList(l)
    PROVE  SequenceInv' /\ Promise!Destroy(l)
<1>1. /\ lists' = [lists EXCEPT ![l].nodes = NIL, ![l].busy = FALSE]
      /\ result' = result /\ lists[l].busy
  BY DEF FreeList
<1>2. ListInv' /\ ValuesStay /\ Becomes(l, <<>>) /\ lists \in [Lists -> ListRecord]
  BY FreeListStep DEF SequenceInv, ListInv, PoolTypeOK
<1>3. /\ \A k \in Lists \ {l} : lists'[k] = lists[k]
      /\ ~lists'[l].busy
  BY <1>1, <1>2 DEF ListRecord
<1>4. Contents(l)' = <<>>
  BY <1>2, ContentsAfter DEF Becomes
<1>5. Contents(l)' \in Seq(Values) /\ Increasing(Contents(l)')
  BY <1>4 DEF Increasing
<1>6. result' \in [code : Int, element : Int]
  BY <1>1 DEF SequenceInv
<1>7. /\ SequenceInv'
      /\ [k \in Lists |-> Contents(k)]'
           = [[k \in Lists |-> Contents(k)] EXCEPT ![l] = Contents(l)']
  <2>1. PICK c : c = <<>>
    OBVIOUS
  <2>2. Becomes(l, c)
    BY <1>2, <2>1
  <2> QED BY <1>2, <1>3, <1>5, <1>6, <2>2, OneListChanges
<1>8. AllContents' = [AllContents EXCEPT ![l] = <<>>]
  BY <1>4, <1>7 DEF AllContents
<1>9. Kinds' = [Kinds EXCEPT ![l] = "none"]
  BY <1>2, <1>3 DEF Kinds
<1>10. Kinds[l] # "none"
  BY <1>1, KindsFacts
<1> QED BY <1>1, <1>7, <1>8, <1>9, <1>10 DEF Promise!Destroy, AllContents, Kinds

\* Moving a cursor changes no list.
LEMMA CursorKeeps ==
    ASSUME SequenceInv, NEW l \in Lists, NEW n,
           lists' = [lists EXCEPT ![l].current = n], UNCHANGED <<nodes, elements>>,
           ListInv', result' \in [code : Int, element : Int]
    PROVE  SequenceInv' /\ AllContents' = AllContents /\ Kinds' = Kinds
<1>1. lists \in [Lists -> ListRecord]
  BY DEF SequenceInv, ListInv, PoolTypeOK
<1>2. \A k \in Lists : /\ lists'[k].nodes = lists[k].nodes /\ lists'[k].busy = lists[k].busy
                       /\ lists'[k].order = lists[k].order
  BY <1>1 DEF ListRecord
<1>3. \A k \in Lists : Contents(k)' = Contents(k)
  <2> SUFFICES ASSUME NEW k \in Lists PROVE Contents(k)' = Contents(k)
    OBVIOUS
  <2>1. PICK c : c = Chain(k)
    OBVIOUS
  <2>2. Chain(k) = WalkOf(nodes, lists[k].nodes)
    BY DEF Chain, WalkOf
  <2>3. Chain(k)' = WalkOf(nodes', lists'[k].nodes)
    BY DEF Chain, WalkOf
  <2>4. nodes' = nodes /\ elements' = elements /\ lists'[k].nodes = lists[k].nodes
    BY <1>2
  <2>5. Chain(k)' = c
    BY <2>1, <2>2, <2>3, <2>4
  <2>6. Contents(k)' = [j \in DOMAIN c |-> ValueOf(c[j])']
    BY <2>5, ContentsAfter
  <2>7. \A m : ValueOf(m)' = ValueOf(m)
    BY <2>4 DEF ValueOf
  <2> QED BY <2>1, <2>6, <2>7 DEF Contents
<1>4. AllContents' = AllContents /\ Kinds' = Kinds
  BY <1>2, <1>3 DEF AllContents, Kinds
<1>5. \A k \in Lists : Contents(k)' \in Seq(Values)
  BY <1>3, ContentsFacts
<1>6. \A k \in Lists : lists'[k].busy /\ lists'[k].order = "LIST_SORTED"
                        => Increasing(Contents(k)')
  BY <1>2, <1>3 DEF SequenceInv
<1> QED BY <1>4, <1>5, <1>6, SequenceAfter

LEMMA ToBeginImplements ==
    ASSUME SequenceInv, NEW l \in Lists, ListToBegin(l)
    PROVE  SequenceInv' /\ Promise!vars' = Promise!vars
<1>1. PICK n : n = lists[l].nodes
  OBVIOUS
<1>2. /\ lists' = [lists EXCEPT ![l].current = n]
      /\ nodes' = nodes /\ elements' = elements /\ result' = result
  BY <1>1 DEF ListToBegin
<1>3. n \in Links
  BY <1>1 DEF SequenceInv, ListInv, PoolTypeOK, ListRecord
<1>4. ListInv' /\ result' \in [code : Int, element : Int]
  BY <1>2, <1>3, CursorStep DEF SequenceInv
<1>5. SequenceInv' /\ AllContents' = AllContents /\ Kinds' = Kinds
  BY <1>2, <1>4, CursorKeeps
<1> QED BY <1>2, <1>5 DEF Promise!vars, AllContents, Kinds

LEMMA GetElementImplements ==
    ASSUME SequenceInv, NEW l \in Lists, OnList(l), ListGetElement(l)
    PROVE  SequenceInv' /\ Promise!Read(l)
<1>1. nodes' = nodes /\ elements' = elements /\ lists[l].busy
  BY DEF ListGetElement
<1>4. Kinds[l] # "none"
  BY <1>1, KindsFacts
<1>2. CASE lists[l].current = NIL
  <2>1. Returns(LIST_END) /\ UNCHANGED pools
    BY <1>1, <1>2 DEF ListGetElement, pools
  <2>2. /\ result' \in [code : Int, element : Int]
        /\ result'.code = Promise!LIST_END /\ result'.element = result.element
    BY <2>1, AnswerFacts DEF LIST_END, Promise!LIST_END
  <2>3. SequenceInv' /\ AllContents' = AllContents /\ Kinds' = Kinds
    BY <2>1, <2>2, PoolsUnchanged
  <2> QED BY <1>4, <2>2, <2>3 DEF Promise!Read, AllContents, Kinds
<1>3. CASE lists[l].current # NIL
  <2>1. PICK m : m = lists[l].current
    OBVIOUS
  <2>2. PICK n : n = nodes[m].tail
    OBVIOUS
  <2>3. lists \in [Lists -> ListRecord] /\ nodes \in [Nodes -> NodeRecord]
    BY DEF SequenceInv, ListInv, PoolTypeOK
  <2>4. /\ result' = [code |-> LIST_NO_ERR, element |-> ValueOf(m)]
        /\ lists' = [lists EXCEPT ![l].current = n]
    BY <1>3, <2>1, <2>2, <2>3 DEF ListGetElement
  <2>5. m \in Nodes /\ nodes[m].busy
    <3>1. m \in Range(Chain(l))
      BY <1>3, <2>1 DEF OnList
    <3> QED BY <3>1, ChainFacts DEF Range, SequenceInv
  <2>6. ValueOf(m) \in Int
    BY <2>5, ListPoolAssumption DEF SequenceInv
  <2>7. /\ result' \in [code : Int, element : Int]
        /\ result'.code = Promise!LIST_NO_ERR /\ result'.element = ValueOf(m)
    BY <2>4, <2>6 DEF LIST_NO_ERR, Promise!LIST_NO_ERR
  <2>8. n \in Links
    BY <2>2, <2>3, <2>5 DEF NodeRecord
  <2>9. ListInv'
    BY <1>1, <2>4, <2>8, CursorStep DEF SequenceInv
  <2>10. SequenceInv' /\ AllContents' = AllContents /\ Kinds' = Kinds
    BY <1>1, <2>4, <2>7, <2>9, CursorKeeps
  <2>11. ValueOf(m) \in Promise!ToSet(AllContents[l])
    <3>1. PICK c : c = Chain(l)
      OBVIOUS
    <3>2. PICK k \in DOMAIN c : m = c[k]
      BY <1>3, <2>1, <3>1 DEF OnList, Range
    <3>3. AllContents[l] = [j \in DOMAIN c |-> ValueOf(c[j])]
      BY <3>1 DEF AllContents, Contents
    <3> QED BY <3>2, <3>3 DEF Promise!ToSet
  <2> QED BY <1>4, <2>7, <2>10, <2>11 DEF Promise!Read, AllContents, Kinds
<1> QED BY <1>2, <1>3

LEMMA SequenceInvInit ==
    Init => SequenceInv /\ Promise!Init
<1> SUFFICES ASSUME Init PROVE SequenceInv /\ Promise!Init
  OBVIOUS
<1>1. ListInv
  BY ListInvInit
<1>2. \A l \in Lists : ~lists[l].busy
  BY DEF Init
<1>3. \A l \in Lists : Chain(l) = <<>>
  BY <1>1, <1>2, ChainFacts
<1>4. \A l \in Lists : Contents(l) = <<>>
  BY <1>3 DEF Contents
<1>5. result = [code |-> 1, element |-> 0]
  BY DEF Init, LIST_NO_ERR
<1>6. \A n \in Nodes : ~nodes[n].busy
  BY DEF Init
<1>7. SequenceInv
  BY <1>1, <1>2, <1>5, <1>6 DEF SequenceInv
<1>8. Promise!Lists = Lists
  BY DEF Promise!Lists, Lists
<1>9. Promise!Init
  BY <1>2, <1>4, <1>5, <1>8 DEF Promise!Init, Promise!LIST_NO_ERR
<1> QED BY <1>7, <1>9

LEMMA StepImplements ==
    SequenceInv /\ [Next]_vars => SequenceInv' /\ [Promise!Next]_(Promise!vars)
<1> SUFFICES ASSUME SequenceInv, [Next]_vars
             PROVE  SequenceInv' /\ (Promise!Next \/ Promise!vars' = Promise!vars)
  OBVIOUS
<1>1. Promise!Lists = Lists
  BY DEF Promise!Lists, Lists
<1>2. CASE UNCHANGED vars
  <2>1. UNCHANGED pools /\ result' = result
    BY <1>2 DEF vars, pools
  <2>2. result' \in [code : Int, element : Int]
    BY <2>1 DEF SequenceInv
  <2>3. SequenceInv' /\ AllContents' = AllContents /\ Kinds' = Kinds
    BY <2>1, <2>2, PoolsUnchanged
  <2> QED BY <2>1, <2>3 DEF Promise!vars, AllContents, Kinds
<1>3. ASSUME NEW l \in Lists, NEW order \in Orders, NewList(l, order)
      PROVE  SequenceInv' /\ Promise!Next
  BY <1>1, <1>3, NewListImplements DEF Promise!Next, Orders
<1>4. ASSUME NEW l \in Lists, NEW v \in Values, ListInsert(l, v)
      PROVE  SequenceInv' /\ Promise!Next
  BY <1>1, <1>4, InsertImplements DEF Promise!Next
<1>5. ASSUME NEW l \in Lists, NEW v \in Values, ListDelete(l, v)
      PROVE  SequenceInv' /\ Promise!Next
  BY <1>1, <1>5, DeleteImplements DEF Promise!Next
<1>6. ASSUME NEW l \in Lists, ListRemoveFirst(l) PROVE SequenceInv' /\ Promise!Next
  BY <1>1, <1>6, RemoveFirstImplements DEF Promise!Next
<1>7. ASSUME NEW l \in Lists, OnList(l), ListGetElement(l)
      PROVE  SequenceInv' /\ Promise!Next
  BY <1>1, <1>7, GetElementImplements DEF Promise!Next
<1>8. ASSUME NEW l \in Lists, FreeList(l) PROVE SequenceInv' /\ Promise!Next
  BY <1>1, <1>8, FreeListImplements DEF Promise!Next
<1> QED BY <1>2, <1>3, <1>4, <1>5, <1>6, <1>7, <1>8, ToBeginImplements DEF Next

\* The linked lists implement the sequences of BoundedLists, in pools of any
\* size: an insertion puts an element into its place, or in front, and is
\* refused exactly when it is there already or all nodes are in use; a deletion
\* removes the first occurrence; a step of an iteration gives an element of its
\* list or the end.  Each answers the code of list.h:11-15 that names the case;
\* that is not what list.h:73-75, 89-91 and 149-152 say of a repeated element,
\* an absent one and the end, where list.c differs from these comments.
THEOREM ListsImplementSequences == Spec => ListsAreSequences
<1>1. Init => SequenceInv /\ Promise!Init
  BY SequenceInvInit
<1>2. SequenceInv /\ [Next]_vars => SequenceInv' /\ [Promise!Next]_(Promise!vars)
  BY StepImplements
<1> QED BY <1>1, <1>2, PTL DEF Spec, ListsAreSequences, Promise!Spec
=============================================================================
