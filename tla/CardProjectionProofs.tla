-------------------------- MODULE CardProjectionProofs --------------------------
(***************************************************************************)
(* What the card walk serves, refuses and names, for responses of any size *)
(* and shape, any labels, floors and readers.                              *)
(***************************************************************************)
EXTENDS CardProjection, FiniteSetTheorems, TLAPS

--------------------------------------------------------------------------------
(* Naturals.                                                                *)

\* A set of naturals that is not empty has a least element.
LEMMA LeastNat ==
    ASSUME NEW T, T \subseteq Nat, T # {}
    PROVE  \E m \in T : \A n \in T : m <= n
PROOF
<1> DEFINE R == StrictSubsetOrdering(Nat)
           Up == {1..n : n \in T}
<1>1. IsWellFoundedOn(R, FiniteSubsetsOf(Nat))
    BY FS_StrictSubsetOrderingWellFounded
<1>2. \A n \in Nat : 1..n \in FiniteSubsetsOf(Nat)
    BY FS_Interval DEF FiniteSubsetsOf
<1>3. Up \subseteq FiniteSubsetsOf(Nat) /\ Up # {}
    BY <1>2
<1>4. \E x \in Up : \A y \in Up : ~(<<y, x>> \in R)
  <2> HIDE DEF R, Up
  <2> QED
      BY <1>1, <1>3, WFMin
<1>5. PICK m \in T : \A n \in T : ~(<<1..n, 1..m>> \in R)
    BY <1>4
<1>6. ASSUME NEW n \in T, n < m PROVE FALSE
  <2>1. 1..n \subseteq 1..m /\ m \in 1..m /\ m \notin 1..n
      BY <1>6
  <2>2. 1..n # 1..m
      BY <2>1
  <2>3. <<1..n, 1..m>> \in R
      BY <2>1, <2>2 DEF StrictSubsetOrdering
  <2> QED
      BY <1>5, <2>3
<1> QED
    BY <1>6

\* Induction, over the set of the naturals a property holds for.
LEMMA NatInd ==
    ASSUME NEW G, 0 \in G, \A n \in Nat : n \in G => n + 1 \in G
    PROVE  Nat \subseteq G
PROOF
<1> SUFFICES ASSUME NEW k \in Nat \ G PROVE FALSE
    OBVIOUS
<1> DEFINE T == Nat \ G
<1>1. PICK m \in T : \A n \in T : m <= n
  <2>1. T \subseteq Nat /\ T # {}
      OBVIOUS
  <2> HIDE DEF T
  <2> QED
      BY <2>1, LeastNat
<1>2. m # 0 /\ m - 1 \in Nat
    OBVIOUS
<1>3. m - 1 \in G
    BY <1>1, <1>2
<1> QED
    BY <1>2, <1>3

\* The largest element of a set is the one Max chooses.
LEMMA MaxIs ==
    ASSUME NEW S \in SUBSET Nat, NEW c \in S, \A y \in S : c >= y
    PROVE  Max(S) = c
PROOF
<1>1. Max(S) \in S /\ \A y \in S : Max(S) >= y
    BY DEF Max
<1>2. Max(S) >= c /\ c >= Max(S) /\ Max(S) \in Nat /\ c \in Nat
    BY <1>1
<1> QED
    BY <1>2

\* Of two naturals it is the greater.
LEMMA MaxOfTwo ==
    ASSUME NEW a \in Nat, NEW b \in Nat
    PROVE  Max({a, b}) = IF a >= b THEN a ELSE b
PROOF
<1>1. CASE a >= b
    BY <1>1, MaxIs
<1>2. CASE ~(a >= b)
    BY <1>2, MaxIs
<1> QED
    BY <1>1, <1>2

--------------------------------------------------------------------------------
(* Paths.                                                                   *)

\* The tree is one a response can have, and nothing of it changes.
Tree ==
    /\ parent \in Forests
    /\ label \in [Nodes -> Labels \cup {NoLabel, Unreadable}]
    /\ unary \in BOOLEAN /\ floor \in Floors /\ reader \in Readers

\* f is PathTo up to the node k.
IsPath(f, k) == f = [n \in 0..k |-> IF n = 0 THEN {} ELSE {n} \cup f[parent[n]]]

\* A node comes after what encloses it.
LEMMA Parents ==
    ASSUME Tree, NEW n \in Nodes
    PROVE  n \in Nat /\ n > 0 /\ Size \in Nat /\ parent[n] \in 0..Size /\ parent[n] < n
PROOF
    BY CardAssumption DEF Tree, Forests, Nodes

\* The recursion of PathTo reaches every node.
LEMMA PathExists ==
    ASSUME Tree
    PROVE  IsPath(PathTo, Size)
PROOF
<1> DEFINE G == {k \in Nat : k <= Size => \E f : IsPath(f, k)}
<1>1. 0 \in G
  <2> DEFINE f == [n \in 0..0 |-> {}]
  <2>1. IsPath(f, 0)
      BY DEF IsPath
  <2> QED
      BY <2>1
<1>2. ASSUME NEW k \in Nat, k \in G PROVE k + 1 \in G
  <2> SUFFICES ASSUME k + 1 <= Size PROVE \E g : IsPath(g, k + 1)
      OBVIOUS
  <2>0. Size \in Nat
      BY CardAssumption
  <2>1. PICK f : IsPath(f, k)
      BY <1>2, <2>0
  <2> DEFINE g == [n \in 0..(k + 1) |-> IF n = k + 1 THEN {n} \cup f[parent[n]] ELSE f[n]]
  <2>2. ASSUME NEW n \in 0..(k + 1)
        PROVE  g[n] = IF n = 0 THEN {} ELSE {n} \cup g[parent[n]]
    <3>1. CASE n = 0
      <4>1. f[0] = {}
          BY <2>1 DEF IsPath
      <4> QED
          BY <3>1, <4>1
    <3>2. CASE n # 0
      <4>1. n \in Nodes /\ parent[n] \in 0..k /\ parent[n] # k + 1
          BY <2>0, <3>2, Parents DEF Nodes
      <4>2. g[parent[n]] = f[parent[n]]
          BY <4>1
      <4>3. CASE n = k + 1
          BY <3>2, <4>2, <4>3
      <4>4. CASE n # k + 1
        <5>1. n \in 0..k
            BY <4>4
        <5>2. f[n] = {n} \cup f[parent[n]]
            BY <2>1, <3>2, <5>1 DEF IsPath
        <5> QED
            BY <3>2, <4>2, <4>4, <5>2
      <4> QED
          BY <4>3, <4>4
    <3> QED
        BY <3>1, <3>2
  <2>3. g = [n \in 0..(k + 1) |-> g[n]]
      OBVIOUS
  <2>4. IsPath(g, k + 1)
    <3> HIDE DEF g
    <3> QED
        BY <2>2, <2>3 DEF IsPath
  <2> QED
      BY <2>4
<1>3. Size \in G
  <2> HIDE DEF G
  <2> QED
      BY <1>1, <1>2, NatInd, CardAssumption
<1>4. \E f : IsPath(f, Size)
    BY <1>3
<1> QED
    BY <1>4 DEF PathTo, IsPath

\* What encloses a node is the node and what encloses its parent.
LEMMA Path ==
    ASSUME Tree
    PROVE  /\ PathTo[0] = {}
           /\ \A n \in Nodes : PathTo[n] = {n} \cup PathTo[parent[n]]
PROOF
<1>1. PathTo = [n \in 0..Size |-> IF n = 0 THEN {} ELSE {n} \cup PathTo[parent[n]]]
    BY PathExists DEF IsPath
<1>2. 0 \in 0..Size /\ \A n \in Nodes : n \in 0..Size /\ n # 0
    BY CardAssumption DEF Nodes
<1> DEFINE f == PathTo
<1> HIDE DEF f
<1>3. \A n \in 0..Size : f[n] = IF n = 0 THEN {} ELSE {n} \cup f[parent[n]]
    BY <1>1 DEF f
<1>4. f[0] = {} /\ \A n \in Nodes : f[n] = {n} \cup f[parent[n]]
    BY <1>2, <1>3
<1> QED
    BY <1>4 DEF f

\* Nothing that encloses a node comes after it.
LEMMA PathBelow ==
    ASSUME Tree, NEW n \in Nodes
    PROVE  PathTo[n] \subseteq 1..n
PROOF
<1> DEFINE T == {m \in Nodes : ~(PathTo[m] \subseteq 1..m)}
<1> SUFFICES ASSUME T # {} PROVE FALSE
    OBVIOUS
<1>1. T \subseteq Nat
    BY DEF Nodes
<1>2. PICK m \in T : \A k \in T : m <= k
  <2> HIDE DEF T
  <2> QED
      BY <1>1, LeastNat
<1>3. parent[m] \in 0..Size /\ parent[m] < m /\ m \in Nat /\ m > 0
    BY Parents
<1>4. PathTo[m] = {m} \cup PathTo[parent[m]]
    BY Path
<1>5. PathTo[parent[m]] \subseteq 1..parent[m]
  <2>1. CASE parent[m] = 0
      BY <2>1, Path
  <2>2. CASE parent[m] # 0
    <3>1. parent[m] \in Nodes /\ parent[m] \notin T
        BY <1>1, <1>2, <1>3, <2>2 DEF Nodes
    <3> QED
        BY <3>1
  <2> QED
      BY <2>1, <2>2
<1>6. PathTo[m] \subseteq 1..m
    BY <1>3, <1>4, <1>5
<1> QED
    BY <1>6

\* What encloses an enclosing node encloses the node.
LEMMA PathWithin ==
    ASSUME Tree, NEW n \in Nodes
    PROVE  \A x \in PathTo[n] : x \in Nodes /\ PathTo[x] \subseteq PathTo[n]
PROOF
<1> DEFINE Within(m) == \A x \in PathTo[m] : x \in Nodes /\ PathTo[x] \subseteq PathTo[m]
           T == {m \in Nodes : ~Within(m)}
<1> SUFFICES ASSUME T # {} PROVE FALSE
    OBVIOUS
<1>1. T \subseteq Nat
    BY DEF Nodes
<1>2. PICK m \in T : \A k \in T : m <= k
  <2> HIDE DEF T
  <2> QED
      BY <1>1, LeastNat
<1>3. parent[m] \in 0..Size /\ parent[m] < m /\ m \in Nat /\ m > 0
    BY Parents
<1>4. PathTo[m] = {m} \cup PathTo[parent[m]]
    BY Path
<1>5. Within(parent[m])
  <2>1. CASE parent[m] = 0
      BY <2>1, Path
  <2>2. CASE parent[m] # 0
    <3>1. parent[m] \in Nodes /\ parent[m] \notin T
        BY <1>1, <1>2, <1>3, <2>2 DEF Nodes
    <3> QED
        BY <3>1
  <2> QED
      BY <2>1, <2>2
<1>6. Within(m)
    BY <1>4, <1>5
<1> QED
    BY <1>6

\* A node encloses itself, and is in the subtree of what encloses it.
LEMMA PathSelf ==
    ASSUME Tree, NEW n \in Nodes
    PROVE  /\ n \in PathTo[n]
           /\ parent[n] # 0 => parent[n] \in Nodes /\ parent[n] \in PathTo[n]
PROOF
<1>1. n \in PathTo[n]
    BY Path
<1>2. ASSUME parent[n] # 0 PROVE parent[n] \in Nodes /\ parent[n] \in PathTo[n]
  <2>1. parent[n] \in Nodes
      BY <1>2, Parents DEF Nodes
  <2>2. parent[n] \in PathTo[parent[n]]
      BY <2>1, Path
  <2> QED
      BY <2>1, <2>2, Path
<1> QED
    BY <1>1, <1>2

\* Nodes that follow a node's younger sibling and hang below it are its own.
LEMMA Follows ==
    ASSUME Tree, NEW q \in Nodes, NEW m \in Nodes,
           \A j \in (q + 1)..(m - 1) : parent[j] >= q,
           NEW k \in q..(m - 1)
    PROVE  q \in PathTo[k]
PROOF
<1> DEFINE T == {j \in q..(m - 1) : q \notin PathTo[j]}
<1> SUFFICES ASSUME T # {} PROVE FALSE
    OBVIOUS
<1>0. q \in Nat /\ m \in Nat /\ q > 0 /\ \A j \in q..(m - 1) : j \in Nodes /\ j \in Nat
    BY CardAssumption DEF Nodes
<1>1. PICK j \in T : \A i \in T : j <= i
  <2>1. T \subseteq Nat
      BY <1>0
  <2> HIDE DEF T
  <2> QED
      BY <2>1, LeastNat
<1>2. j # q
    BY PathSelf
<1>3. parent[j] >= q /\ parent[j] < j /\ parent[j] \in 0..Size /\ j \in Nodes
    BY <1>0, <1>2, Parents
<1>4. parent[j] \in q..(m - 1) /\ parent[j] \notin T /\ parent[j] # 0
    BY <1>0, <1>1, <1>3
<1>5. parent[j] \in PathTo[j] /\ q \in PathTo[parent[j]]
    BY <1>3, <1>4, PathSelf
<1> QED
    BY <1>3, <1>5, PathWithin

\* A subtree is numbered without a gap: document order.
LEMMA Contiguous ==
    ASSUME Tree, NEW n \in Nodes, NEW y \in PathTo[n], NEW l \in Nodes, y <= l, l <= n
    PROVE  y \in PathTo[l]
PROOF
<1> DEFINE Whole(m) == \A x \in PathTo[m], k \in Nodes : x <= k /\ k <= m => x \in PathTo[k]
           T == {m \in Nodes : ~Whole(m)}
<1> SUFFICES ASSUME T # {} PROVE FALSE
    OBVIOUS
<1>1. T \subseteq Nat
    BY DEF Nodes
<1>2. PICK m \in T : \A k \in T : m <= k
  <2> HIDE DEF T
  <2> QED
      BY <1>1, LeastNat
<1>3. PICK x \in PathTo[m], k \in Nodes : x <= k /\ k <= m /\ x \notin PathTo[k]
    BY <1>2
<1> HIDE DEF Whole
<1>4. \A i \in Nodes : i < m => Whole(i)
    BY <1>1, <1>2
<1> HIDE DEF T
<1> USE DEF Whole
<1>5. m \in Nodes /\ m \in Nat /\ m > 0 /\ x \in Nodes /\ x \in Nat /\ x \in 1..m
  <2>1. m \in Nodes /\ m \in Nat /\ m > 0
      BY <1>2, Parents DEF T
  <2>2. x \in Nodes /\ x \in 1..m
      BY <1>3, <2>1, PathBelow, PathWithin
  <2> QED
      BY <2>1, <2>2
<1> DEFINE p == parent[m]
<1>6. x # m /\ k # m /\ k \in Nat /\ k < m
  <2>1. k \in Nat
      BY DEF Nodes
  <2>2. k # m
      BY <1>3, <1>5
  <2>3. x # m
      BY <1>3, <1>5, <2>1, <2>2
  <2> QED
      BY <1>3, <1>5, <2>1, <2>2, <2>3
<1>7. x \in PathTo[p] /\ p # 0 /\ p \in Nodes /\ p < m /\ p \in Nat
  <2>1. x \in PathTo[p]
      BY <1>3, <1>5, <1>6, Path
  <2>2. p # 0
      BY <2>1, Path
  <2> QED
      BY <2>1, <2>2, <1>5, Parents DEF Nodes
<1>8. x <= p /\ PathTo[x] \subseteq PathTo[p]
    BY <1>5, <1>7, PathBelow, PathWithin
<1>9. p < k
  <2>1. CASE k <= p
    <3>1. x <= k /\ Whole(p)
        BY <1>3, <1>4, <1>7
    <3> QED
        BY <1>3, <1>7, <2>1, <3>1
  <2> QED
      BY <1>6, <1>7, <2>1
<1>10. PICK q \in 1..(m - 1) : parent[q] = p /\ \A j \in (q + 1)..(m - 1) : parent[j] >= q
  <2>1. m > 1 /\ p # m - 1
      BY <1>5, <1>6, <1>7, <1>9
  <2> QED
      BY <1>5, <2>1 DEF Tree, Forests
<1>11. q \in Nodes /\ q < m /\ q \in Nat /\ p \in PathTo[q] /\ p < q
  <2>1. q \in Nodes
      BY <1>5, <1>10, CardAssumption DEF Nodes
  <2> QED
      BY <1>5, <1>7, <1>10, <2>1, PathSelf, Parents
<1>12. p \in PathTo[k]
  <2>1. CASE k <= q
    <3>1. p <= k /\ Whole(q)
        BY <1>4, <1>6, <1>7, <1>9, <1>11
    <3> QED
        BY <1>3, <1>11, <2>1, <3>1
  <2>2. CASE k > q
    <3>1. k \in q..(m - 1)
        BY <1>5, <1>6, <1>11, <2>2
    <3>2. q \in PathTo[k]
        BY <1>5, <1>10, <1>11, <3>1, Follows
    <3> QED
        BY <1>3, <1>11, <3>2, PathWithin
  <2> QED
      BY <1>6, <1>11, <2>1, <2>2
<1> QED
    BY <1>3, <1>7, <1>12, PathWithin

\* What the walk skips behind a node it withholds is the subtree, no less and
\* no more.
LEMMA Subtrees ==
    ASSUME Tree, NEW n \in Nodes
    PROVE  /\ Max(Subtree(n)) \in Nodes
           /\ n <= Max(Subtree(n))
           /\ Subtree(n) = n..Max(Subtree(n))
PROOF
<1> DEFINE S == Subtree(n)
           T == {k \in Nat : \A y \in S : y <= k}
<1>0. Size \in Nat /\ n \in Nat /\ n > 0 /\ Nodes = 1..Size
    BY CardAssumption DEF Nodes
<1>1. n \in S /\ \A y \in S : y \in Nodes /\ y \in Nat /\ n <= y
    BY <1>0, PathSelf, PathBelow DEF Subtree
<1>2. Size \in T
    BY <1>0, <1>1
<1>3. PICK u \in T : \A k \in T : u <= k
  <2> HIDE DEF T
  <2>1. T \subseteq Nat
      BY DEF T
  <2> QED
      BY <1>2, <2>1, LeastNat
<1>4. u \in S
  <2> SUFFICES ASSUME u \notin S PROVE FALSE
      OBVIOUS
  <2>1. u \in Nat /\ u >= 1 /\ u - 1 \in Nat
      BY <1>0, <1>1, <1>3
  <2>2. \A y \in S : y <= u - 1
      BY <1>1, <1>3, <2>1
  <2>3. u - 1 \in T
      BY <2>1, <2>2
  <2> QED
      BY <1>3, <2>1, <2>3
<1>5. Max(S) = u
  <2>1. S \in SUBSET Nat /\ \A y \in S : u >= y
      BY <1>1, <1>3
  <2> HIDE DEF S, T
  <2> QED
      BY <1>4, <2>1, MaxIs
<1>6. u \in Nodes /\ n <= u /\ n \in PathTo[u]
    BY <1>1, <1>4 DEF Subtree
<1>7. n..u \subseteq S
  <2> SUFFICES ASSUME NEW k \in n..u PROVE k \in S
      OBVIOUS
  <2>1. k \in Nodes /\ n <= k /\ k <= u
      BY <1>0, <1>6
  <2> QED
      BY <1>6, <2>1, Contiguous DEF Subtree
<1>8. S \subseteq n..u
    BY <1>0, <1>1, <1>3
<1> QED
    BY <1>5, <1>6, <1>7, <1>8

\* Between a node and one inside it there is a child of the first.
LEMMA ChildBetween ==
    ASSUME Tree, NEW n \in Nodes, NEW m \in Nodes, n \in PathTo[m], n # m
    PROVE  \E c \in Children(n) : c \in PathTo[m]
PROOF
<1> DEFINE T == {k \in PathTo[m] : n \in PathTo[k] /\ k # n}
<1>1. T \subseteq Nat /\ m \in T
    BY PathSelf, PathBelow
<1>2. PICK c \in T : \A k \in T : c <= k
  <2> HIDE DEF T
  <2> QED
      BY <1>1, LeastNat
<1>3. c \in Nodes /\ PathTo[c] \subseteq PathTo[m] /\ n \in PathTo[c] /\ c # n
    BY <1>2, PathWithin
<1>4. n \in PathTo[parent[c]] /\ parent[c] # 0
    BY <1>3, Path
<1>5. parent[c] \in PathTo[c] /\ parent[c] < c /\ parent[c] \in Nodes
    BY <1>3, <1>4, PathSelf, Parents
<1>6. parent[c] = n
  <2> SUFFICES ASSUME parent[c] # n PROVE FALSE
      OBVIOUS
  <2>1. parent[c] \in T
      BY <1>3, <1>4, <1>5
  <2>2. c <= parent[c]
      BY <1>2, <2>1
  <2> QED
      BY <1>3, <1>5, <2>2 DEF Nodes
<1> QED
    BY <1>2, <1>3, <1>6 DEF Children

--------------------------------------------------------------------------------
(* What a node asks for.                                                    *)

\* f is the floor inside each node up to k.
IsInside(f, k) ==
    f = [n \in 0..k |-> IF n = 0 THEN floor
                        ELSE IF HasLabel(n) THEN under(f[parent[n]], label[n])
                        ELSE f[parent[n]]]

\* The recursion of floorAt reaches every node (floorInside).
LEMMA InsideExists ==
    ASSUME Tree
    PROVE  \E f : IsInside(f, Size) /\ floorAt = [n \in Nodes |-> f[parent[n]]]
PROOF
<1> DEFINE G == {k \in Nat : k <= Size => \E f : IsInside(f, k)}
<1>1. 0 \in G
  <2> DEFINE f == [n \in 0..0 |-> floor]
  <2>1. IsInside(f, 0)
      BY DEF IsInside
  <2> QED
      BY <2>1
<1>2. ASSUME NEW k \in Nat, k \in G PROVE k + 1 \in G
  <2> SUFFICES ASSUME k + 1 <= Size PROVE \E g : IsInside(g, k + 1)
      OBVIOUS
  <2>0. Size \in Nat
      BY CardAssumption
  <2>1. PICK f : IsInside(f, k)
      BY <1>2, <2>0
  <2> DEFINE Turn(h, n) == IF HasLabel(n) THEN under(h[parent[n]], label[n]) ELSE h[parent[n]]
             g == [n \in 0..(k + 1) |-> IF n = k + 1 THEN Turn(f, n) ELSE f[n]]
  <2>2. ASSUME NEW n \in 0..(k + 1)
        PROVE  g[n] = IF n = 0 THEN floor ELSE Turn(g, n)
    <3>1. CASE n = 0
      <4>1. f[0] = floor
          BY <2>1 DEF IsInside
      <4> QED
          BY <3>1, <4>1
    <3>2. CASE n # 0
      <4>1. n \in Nodes /\ parent[n] \in 0..k /\ parent[n] # k + 1
          BY <2>0, <3>2, Parents DEF Nodes
      <4>2. g[parent[n]] = f[parent[n]]
          BY <4>1
      <4>3. Turn(g, n) = Turn(f, n)
        <5> HIDE DEF g
        <5> QED
            BY <4>2
      <4>4. CASE n = k + 1
        <5>1. g[n] = Turn(f, n)
            BY <4>4
        <5> QED
            BY <3>2, <4>3, <5>1
      <4>5. CASE n # k + 1
        <5>1. n \in 0..k
            BY <4>5
        <5>2. f[n] = Turn(f, n)
            BY <2>1, <3>2, <5>1 DEF IsInside
        <5>3. g[n] = f[n]
            BY <4>5
        <5> QED
            BY <3>2, <4>3, <5>2, <5>3
      <4> QED
          BY <4>4, <4>5
    <3> QED
        BY <3>1, <3>2
  <2>3. g = [n \in 0..(k + 1) |-> g[n]]
      OBVIOUS
  <2>4. IsInside(g, k + 1)
    <3> HIDE DEF g
    <3> QED
        BY <2>2, <2>3 DEF IsInside
  <2> QED
      BY <2>4
<1>3. Size \in G
  <2> HIDE DEF G
  <2> QED
      BY <1>1, <1>2, NatInd, CardAssumption
<1> DEFINE chosen == CHOOSE f : IsInside(f, Size)
<1>4. IsInside(chosen, Size)
    BY <1>3
<1>5. floorAt = [n \in Nodes |-> chosen[parent[n]]]
    BY DEF floorAt, IsInside
<1> HIDE DEF chosen
<1> QED
    BY <1>4, <1>5

\* A clearance and compartments.
IsAccess(a) ==
    a.clearance \in Nat /\ a = [clearance |-> a.clearance, compartments |-> a.compartments]

\* The clearances and the compartments demanded on the way to a node, 0 for the
\* way to a card.
Cleared(n) == {floor.clearance} \cup {label[m].clearance : m \in {k \in PathTo[n] : HasLabel(k)}}
Shut(n) == floor.compartments \cup UNION {label[m].compartments : m \in {k \in PathTo[n] : HasLabel(k)}}

\* a sums up what is demanded on the way to n.
Sums(a, n) ==
    /\ IsAccess(a) /\ Cleared(n) \subseteq Nat
    /\ a.clearance \in Cleared(n) /\ \A y \in Cleared(n) : a.clearance >= y
    /\ a.compartments = Shut(n)

\* cardFloor.under is the sum of a floor and a label.
LEMMA UnderSums ==
    ASSUME NEW a, NEW l, IsAccess(a), IsAccess(l)
    PROVE  /\ IsAccess(under(a, l))
           /\ under(a, l).clearance = IF a.clearance >= l.clearance THEN a.clearance ELSE l.clearance
           /\ under(a, l).compartments = a.compartments \cup l.compartments
PROOF
<1>1. Max({a.clearance, l.clearance})
        = IF a.clearance >= l.clearance THEN a.clearance ELSE l.clearance
    BY MaxOfTwo DEF IsAccess
<1> QED
    BY <1>1 DEF under, IsAccess

\* The floor and every label say a clearance and compartments, and no more.
LEMMA Accesses ==
    ASSUME Tree
    PROVE  IsAccess(floor) /\ \A n \in Nodes : HasLabel(n) => IsAccess(label[n])
PROOF
    BY CardAssumption DEF Tree, HasLabel, IsAccess

\* One label at a time, the floors add up to what the whole path demands.
LEMMA InsideSums ==
    ASSUME Tree, NEW f, IsInside(f, Size), NEW r \in 0..Size
    PROVE  Sums(f[r], r)
PROOF
<1> DEFINE T == {n \in 0..Size : ~Sums(f[n], n)}
<1> SUFFICES ASSUME T # {} PROVE FALSE
    OBVIOUS
<1>0. Size \in Nat
    BY CardAssumption
<1>1. PICK n \in T : \A k \in T : n <= k
  <2>1. T \subseteq Nat
      BY <1>0
  <2> HIDE DEF T
  <2> QED
      BY <2>1, LeastNat
<1>2. n \in 0..Size /\ ~Sums(f[n], n)
    BY <1>1
<1>3. \A k \in 0..Size : k < n => Sums(f[k], k)
    BY <1>0, <1>1
<1> HIDE DEF T
<1>4. CASE n = 0
  <2>1. f[0] = floor
      BY <1>0 DEF IsInside
  <2>2. Cleared(0) = {floor.clearance} /\ Shut(0) = floor.compartments
      BY Path DEF Cleared, Shut
  <2> QED
      BY <1>2, <1>4, <2>1, <2>2, Accesses DEF Sums, IsAccess
<1>5. CASE n # 0
  <2> DEFINE p == parent[n]
  <2>1. n \in Nodes /\ p \in 0..Size /\ p < n
      BY <1>0, <1>2, <1>5, Parents DEF Nodes
  <2>2. PathTo[n] = {n} \cup PathTo[p]
      BY <2>1, Path
  <2>3. Sums(f[p], p)
      BY <1>3, <2>1
  <2>4. f[n] = IF HasLabel(n) THEN under(f[p], label[n]) ELSE f[p]
      BY <1>2, <1>5, Zenon DEF IsInside
  <2> HIDE DEF p
  <2>5. CASE HasLabel(n)
    <3>1. IsAccess(label[n]) /\ IsAccess(f[p])
        BY <2>1, <2>3, <2>5, Accesses DEF Sums
    <3>2. f[n] = under(f[p], label[n])
        BY <2>4, <2>5
    <3>3. /\ IsAccess(f[n])
          /\ f[n].clearance = IF f[p].clearance >= label[n].clearance THEN f[p].clearance
                              ELSE label[n].clearance
          /\ f[n].compartments = f[p].compartments \cup label[n].compartments
        BY <3>1, <3>2, UnderSums
    <3>4. Cleared(n) = Cleared(p) \cup {label[n].clearance}
        BY <2>2, <2>5 DEF Cleared
    <3>5. Shut(n) = Shut(p) \cup label[n].compartments
        BY <2>2, <2>5 DEF Shut
    <3>6. label[n].clearance \in Nat /\ f[p].clearance \in Nat
        BY <3>1 DEF IsAccess
    <3>7. Cleared(n) \subseteq Nat /\ f[n].clearance \in Cleared(n)
        BY <2>3, <3>3, <3>4, <3>6 DEF Sums
    <3>8. \A y \in Cleared(n) : f[n].clearance >= y
        BY <2>3, <3>3, <3>4, <3>6 DEF Sums
    <3> QED
        BY <1>2, <2>3, <3>3, <3>5, <3>7, <3>8 DEF Sums
  <2>6. CASE ~HasLabel(n)
    <3>1. f[n] = f[p] /\ {k \in PathTo[n] : HasLabel(k)} = {k \in PathTo[p] : HasLabel(k)}
        BY <2>2, <2>4, <2>6
    <3>2. Cleared(n) = Cleared(p) /\ Shut(n) = Shut(p)
        BY <3>1 DEF Cleared, Shut
    <3> QED
        BY <1>2, <2>3, <3>1, <3>2 DEF Sums
  <2> QED
      BY <2>5, <2>6
<1> QED
    BY <1>4, <1>5

\* A node needs what its floor and its own label demand, and its floor is what
\* its parent needs.
LEMMA Needed ==
    ASSUME Tree, NEW n \in Nodes
    PROVE  /\ IsAccess(floorAt[n]) /\ Sums(Needs(n), n)
           /\ HasLabel(n) => Needs(n) = under(floorAt[n], label[n])
           /\ ~HasLabel(n) => Needs(n) = floorAt[n]
           /\ floorAt[n] = IF parent[n] = 0 THEN floor ELSE Needs(parent[n])
PROOF
<1>1. PICK f : IsInside(f, Size) /\ floorAt = [k \in Nodes |-> f[parent[k]]]
    BY InsideExists
<1>2. ASSUME NEW k \in Nodes PROVE Needs(k) = f[k] /\ Sums(f[k], k)
  <2>1. Sums(f[k], k)
      BY <1>1, InsideSums DEF Nodes
  <2>2. Max(Cleared(k)) = f[k].clearance
      BY <2>1, MaxIs DEF Sums
  <2>3. Needs(k) = [clearance |-> Max(Cleared(k)), compartments |-> Shut(k)]
      BY DEF Needs, Cleared, Shut
  <2> QED
      BY <2>1, <2>2, <2>3 DEF Sums, IsAccess
<1>3. parent[n] \in 0..Size /\ (parent[n] # 0 => parent[n] \in Nodes) /\ floorAt[n] = f[parent[n]]
    BY <1>1, Parents DEF Nodes
<1>4. f[0] = floor
    BY <1>1, CardAssumption DEF IsInside
<1>5. f[n] = IF HasLabel(n) THEN under(f[parent[n]], label[n]) ELSE f[parent[n]]
  <2>1. n \in 0..Size /\ n # 0
      BY CardAssumption DEF Nodes
  <2> QED
      BY <1>1, <2>1, Zenon DEF IsInside
<1>6. IsAccess(f[parent[n]])
    BY <1>1, <1>3, InsideSums DEF Sums
<1> QED
    BY <1>2, <1>3, <1>4, <1>5, <1>6

\* validate refuses the labels that do not say what their path demands: a label
\* at or above its floor is the sum of the two.
LEMMA BelowIsLoose ==
    ASSUME Tree, NEW n \in Nodes
    PROVE  Below(n) <=> label[n] = Unreadable \/ (HasLabel(n) /\ label[n] # Needs(n))
PROOF
<1>1. CASE ~HasLabel(n)
    BY <1>1 DEF Below
<1>2. CASE HasLabel(n)
  <2> DEFINE a == floorAt[n]
             l == label[n]
  <2>1. IsAccess(a) /\ IsAccess(l) /\ Needs(n) = under(a, l)
      BY <1>2, Needed, Accesses
  <2> HIDE DEF a, l
  <2>2. /\ IsAccess(under(a, l))
        /\ under(a, l).clearance = IF a.clearance >= l.clearance THEN a.clearance ELSE l.clearance
        /\ under(a, l).compartments = a.compartments \cup l.compartments
      BY <2>1, UnderSums
  <2>3. admits(a, l) => under(a, l) = l
    <3> SUFFICES ASSUME admits(a, l) PROVE under(a, l) = l
        OBVIOUS
    <3>1. under(a, l).clearance = l.clearance
        BY <2>1, <2>2 DEF admits, IsAccess
    <3>2. under(a, l).compartments = l.compartments
        BY <2>2 DEF admits
    <3> QED
        BY <2>1, <2>2, <3>1, <3>2 DEF IsAccess
  <2>4. under(a, l) = l => admits(a, l)
    <3> SUFFICES ASSUME under(a, l) = l PROVE admits(a, l)
        OBVIOUS
    <3>1. l.clearance >= a.clearance
        BY <2>1, <2>2 DEF IsAccess
    <3>2. a.compartments \subseteq l.compartments
        BY <2>2
    <3> QED
        BY <3>1, <3>2 DEF admits
  <2>5. Needs(n) = l <=> admits(a, l)
      BY <2>1, <2>3, <2>4
  <2> QED
      BY <1>2, <2>5 DEF Below, a, l
<1> QED
    BY <1>1, <1>2

\* Under validated labels, the one the walk compares a reader with is the sum
\* of its path.
LEMMA ReachedIsDeserved ==
    ASSUME Tree, NEW n \in Nodes, ~Below(n)
    PROVE  reaches(n) <=> Deserves(n)
PROOF
<1>1. label[n] # Unreadable /\ (HasLabel(n) => label[n] = Needs(n))
    BY BelowIsLoose
<1>2. ~HasLabel(n) => floorAt[n] = Needs(n)
    BY Needed
<1>3. reader.compartments \subseteq Declared
    BY CardAssumption DEF Tree
<1> QED
    BY <1>1, <1>2, <1>3 DEF reaches, Deserves, admits

\* Who deserves a node deserves all that encloses it.
LEMMA DeservedUp ==
    ASSUME Tree, NEW n \in Nodes, Deserves(n), NEW x \in PathTo[n]
    PROVE  Deserves(x)
PROOF
<1>1. x \in Nodes /\ PathTo[x] \subseteq PathTo[n]
    BY PathWithin
<1>2. Sums(Needs(n), n) /\ Sums(Needs(x), x)
    BY <1>1, Needed
<1>3. Cleared(x) \subseteq Cleared(n) /\ Shut(x) \subseteq Shut(n)
    BY <1>1 DEF Cleared, Shut
<1>4. Needs(n).clearance >= Needs(x).clearance
    BY <1>2, <1>3 DEF Sums
<1>5. reader.clearance \in Nat /\ Needs(n).clearance \in Nat /\ Needs(x).clearance \in Nat
    BY <1>2, CardAssumption DEF Tree, Sums
<1>6. Needs(x).compartments \subseteq Needs(n).compartments
    BY <1>2, <1>3 DEF Sums
<1> QED
    BY <1>4, <1>5, <1>6 DEF Deserves, admits

--------------------------------------------------------------------------------
(* The walk.                                                                *)

\* The nodes being projected and their marks; the nodes open and listed.
Frames == [node : Nodes, mark : Nat]

Opened == {open[k].node : k \in 1..Len(open)}
Listed == {withheld[i] : i \in 1..Len(withheld)}

\* The outermost nodes removed.
Holes == {n \in Nodes \ alive : IsCard(n) \/ parent[n] \in alive}

\* The nodes that are served in the end.
Lives == {x \in Nodes : \E m \in Subtree(x) : Deserves(m) /\ (IsCard(m) \/ Children(m) = {})}

\* The nodes the reader deserves.
Deserving == {n \in Nodes : Deserves(n)}

\* The nodes the walk is done with.
Left(x) == x < next /\ x \notin Opened

\* Nothing moves before the tree is valid; the walk is over when step 8 is.
PhaseInv ==
    /\ phase \in {"validate", "invalid", "walk", "served", "gone"}
    /\ phase \in {"validate", "invalid"} =>
          /\ next = 1 /\ open = <<>> /\ withheld = <<>>
          /\ alive = Nodes /\ disclosed = [n \in Nodes |-> {}]
    /\ phase = "invalid" => \E n \in Nodes : Below(n)
    /\ phase \in {"walk", "served", "gone"} => \A n \in Nodes : ~Below(n)
    /\ phase \in {"served", "gone"} =>
          /\ next = Size + 1 /\ open = <<>>
          /\ phase = "gone" <=> unary /\ 1 \notin alive

\* The open nodes are a path from a card down, and hold all of what the walk
\* has passed since it entered them; what is to come hangs below them.
OpenInv ==
    /\ next \in 1..(Size + 1)
    /\ open \in Seq(Frames)
    /\ \A k \in 1..Len(open) :
          /\ open[k].node < next
          /\ parent[open[k].node] = IF k = 1 THEN 0 ELSE open[k - 1].node
          /\ \A j \in 1..Len(open) : j < k => open[j].node < open[k].node
          /\ PathTo[open[k].node] \subseteq Opened
          /\ \A y \in (open[k].node)..(next - 1) : open[k].node \in PathTo[y]
          /\ open[k].node \in Deserving
    /\ \A m \in next..Size : \A x \in PathTo[m] : x < next => x \in Opened

\* What the walk is done with is as it will be served, the rest is untouched.
AliveInv ==
    /\ alive \subseteq Nodes
    /\ \A x \in Nodes : x \in alive <=> (Left(x) => x \in Lives)

\* The list has the holes in document order, and those of an open node behind
\* its mark.
ListInv ==
    /\ withheld \in Seq(Nodes)
    /\ \A i, j \in 1..Len(withheld) : i < j => withheld[i] < withheld[j]
    /\ Listed = Holes
    /\ \A k \in 1..Len(open) :
          /\ open[k].mark <= Len(withheld)
          /\ \A i \in 1..Len(withheld) : i > open[k].mark <=> withheld[i] > open[k].node

\* A card the walk is done with names the holes inside it.
DisclosedInv ==
    /\ disclosed \in [Nodes -> SUBSET Nodes]
    /\ \A c \in Nodes : IsCard(c) =>
          disclosed[c] = IF Left(c) /\ c \in alive THEN Holes \cap Subtree(c) ELSE {}

\* The invariant of projectCards.
IInv == Tree /\ PhaseInv /\ OpenInv /\ AliveInv /\ ListInv /\ DisclosedInv

\* The response, its labels and its reader stay what they are.
LEMMA TreeKept ==
    ASSUME UNCHANGED tree
    PROVE  /\ Tree' <=> Tree
           /\ PathTo' = PathTo /\ Lives' = Lives /\ Deserving' = Deserving
           /\ \A n \in Nodes : /\ Below(n)' <=> Below(n)
                               /\ Deserves(n)' <=> Deserves(n)
                               /\ Subtree(n)' = Subtree(n)
PROOF
<1> USE DEF tree
<1>1. PathTo' = PathTo
    BY DEF PathTo
<1>2. floorAt' = floorAt
    BY DEF floorAt, HasLabel
<1>3. \A n \in Nodes : Deserves(n)' <=> Deserves(n)
    BY <1>1 DEF Deserves, Needs, HasLabel
<1>8. Deserving' = Deserving
    BY <1>3 DEF Deserving
<1>4. \A n \in Nodes : Subtree(n)' = Subtree(n)
    BY <1>1 DEF Subtree
<1>5. Lives' = Lives
    BY <1>1, <1>3, <1>4 DEF Lives, Subtree, Children, IsCard
<1>6. \A n \in Nodes : Below(n)' <=> Below(n)
    BY <1>2 DEF Below, HasLabel
<1>7. Tree' <=> Tree
    BY DEF Tree, Forests
<1> QED
    BY <1>1, <1>3, <1>4, <1>5, <1>6, <1>7, <1>8

\* What the walk left out of its subtree is not served either, and what is
\* served is served with all that encloses it.
LEMMA LivesUp ==
    ASSUME Tree, NEW x \in Lives, NEW y \in PathTo[x]
    PROVE  y \in Lives /\ Deserves(y)
PROOF
<1>1. PICK m \in Subtree(x) : Deserves(m) /\ (IsCard(m) \/ Children(m) = {})
    BY DEF Lives
<1>2. m \in Nodes /\ x \in PathTo[m] /\ x \in Nodes
    BY DEF Lives, Subtree
<1>3. y \in Nodes /\ y \in PathTo[m]
    BY <1>2, PathWithin
<1> QED
    BY <1>1, <1>2, <1>3, DeservedUp DEF Lives, Subtree

\* The last open node is open, and the last.
LEMMA LastOpen ==
    ASSUME Tree, OpenInv, open # <<>>
    PROVE  /\ Len(open) \in Nat /\ Len(open) \in 1..Len(open)
           /\ Last = open[Len(open)] /\ Last.node \in Nodes /\ Last.mark \in Nat
           /\ Last.node < next /\ Last.node \in Opened
           /\ Last.node \in Deserving
           /\ \A x \in Opened : x \in Nodes /\ x <= Last.node /\ x < next
           /\ \A y \in Last.node..(next - 1) : Last.node \in PathTo[y]
PROOF
<1>1. Len(open) \in Nat /\ Len(open) \in 1..Len(open)
    BY DEF OpenInv
<1>2. \A k \in 1..Len(open) : open[k].node \in Nodes /\ open[k].mark \in Nat
  <2>1. \A k \in 1..Len(open) : open[k] \in Frames
      BY DEF OpenInv
  <2> QED
      BY <2>1 DEF Frames
<1>3. \A x \in Opened : x \in Nodes /\ x <= Last.node /\ x < next
  <2> SUFFICES ASSUME NEW k \in 1..Len(open)
               PROVE  open[k].node <= Last.node /\ open[k].node < next
      BY <1>2 DEF Opened
  <2>1. \A j \in 1..Len(open) : open[j].node \in Nat
      BY <1>2 DEF Nodes
  <2>2. k = Len(open) \/ open[k].node < open[Len(open)].node
      BY <1>1 DEF OpenInv
  <2> QED
      BY <1>1, <2>1, <2>2 DEF OpenInv, Last
<1>4. /\ open[Len(open)].node < next /\ open[Len(open)].node \in Opened
      /\ open[Len(open)].node \in Deserving
      /\ \A y \in (open[Len(open)].node)..(next - 1) : open[Len(open)].node \in PathTo[y]
    BY <1>1 DEF OpenInv, Opened
<1> QED
    BY <1>1, <1>2, <1>3, <1>4 DEF Last

\* The node the walk enters hangs below the last open node.
LEMMA EnterAt ==
    ASSUME Tree, OpenInv, Entering
    PROVE  /\ next \in Nodes /\ next \in Nat /\ next \notin Opened
           /\ Opened \subseteq PathTo[next]
           /\ PathTo[next] \subseteq Opened \cup {next}
           /\ parent[next] = IF open = <<>> THEN 0 ELSE Last.node
PROOF
<1>1. next \in Nodes /\ next \in Nat
    BY CardAssumption DEF OpenInv, Entering, Nodes
<1>2. \A x \in PathTo[next] : x < next => x \in Opened
  <2>1. next \in next..Size
      BY <1>1, CardAssumption DEF Nodes
  <2> QED
      BY <2>1 DEF OpenInv
<1>3. PathTo[next] \subseteq Opened \cup {next}
  <2>1. \A x \in PathTo[next] : x = next \/ x < next
      BY <1>1, PathBelow
  <2> QED
      BY <1>2, <2>1
<1>4. CASE open = <<>>
  <2>1. Opened = {}
      BY <1>4 DEF Opened
  <2>2. parent[next] = 0
    <3> SUFFICES ASSUME parent[next] # 0 PROVE FALSE
        OBVIOUS
    <3>1. parent[next] \in PathTo[next] /\ parent[next] < next
        BY <1>1, PathSelf, Parents
    <3> QED
        BY <1>2, <2>1, <3>1
  <2> QED
      BY <1>1, <1>3, <1>4, <2>1, <2>2
<1>5. CASE open # <<>>
  <2>1. Last.node \in PathTo[next] /\ Last.node \in Nodes /\ Last.node < next
        /\ (\A x \in Opened : x \in Nodes /\ x <= Last.node /\ x < next)
      BY <1>5, LastOpen DEF Entering
  <2>2. parent[next] = Last.node
    <3>1. Last.node # next
        BY <1>1, <2>1
    <3>2. Last.node \in PathTo[parent[next]]
        BY <1>1, <2>1, <3>1, Path
    <3>3. parent[next] # 0
        BY <3>2, Path
    <3>4. parent[next] \in Nodes /\ parent[next] \in PathTo[next] /\ parent[next] < next
        BY <1>1, <3>3, PathSelf, Parents
    <3>5. parent[next] \in Opened /\ Last.node <= parent[next]
        BY <1>2, <3>2, <3>4, PathBelow
    <3> QED
        BY <2>1, <3>4, <3>5 DEF Nodes
  <2>3. Opened \subseteq PathTo[next]
    <3> SUFFICES ASSUME NEW k \in 1..Len(open) PROVE open[k].node \in PathTo[next]
        BY DEF Opened
    <3>1. open[k].node \in Nodes /\ open[k].node <= Last.node
        BY <2>1 DEF Opened
    <3>2. Last.node \in (open[k].node)..(next - 1)
        BY <1>1, <2>1, <3>1 DEF Nodes
    <3>3. open[k].node \in PathTo[Last.node]
        BY <3>2 DEF OpenInv
    <3> QED
        BY <1>1, <2>1, <3>3, PathWithin
  <2>4. next \notin Opened
      BY <1>1, <2>1
  <2> QED
      BY <1>1, <1>3, <1>5, <2>2, <2>3, <2>4
<1> QED
    BY <1>4, <1>5

\* The walk leaves a node when it has passed its whole subtree.
LEMMA LeaveAt ==
    ASSUME Tree, OpenInv, Leaving
    PROVE  /\ \A y \in Subtree(Last.node) : y \in Last.node..(next - 1)
           /\ \A y \in next..Size : Last.node \notin PathTo[y]
PROOF
<1>1. open # <<>>
    BY DEF Leaving
<1>2. Last.node \in Nodes /\ Last.node < next
    BY <1>1, LastOpen
<1>3. Size \in Nat /\ next \in Nat /\ next > 0
    BY CardAssumption DEF OpenInv
<1>4. ASSUME NEW y \in next..Size PROVE Last.node \notin PathTo[y]
  <2>1. next \in Nodes /\ y \in Nodes /\ next <= y /\ next <= Size
      BY <1>3 DEF Nodes
  <2>2. Last.node \notin PathTo[next]
      BY <2>1 DEF Leaving
  <2>3. Last.node <= next
      BY <1>2, <1>3 DEF Nodes
  <2> QED
      BY <2>1, <2>2, <2>3, Contiguous
<1>5. ASSUME NEW y \in Subtree(Last.node) PROVE y \in Last.node..(next - 1)
  <2>1. y \in Nodes /\ Last.node \in PathTo[y]
      BY DEF Subtree
  <2>2. Last.node <= y
      BY <2>1, PathBelow DEF Nodes
  <2>3. ~(y \in next..Size)
      BY <1>4, <2>1
  <2> QED
      BY <1>2, <1>3, <2>1, <2>2, <2>3 DEF Nodes
<1> QED
    BY <1>4, <1>5

\* Entering a node puts it at the end of the path (projectNode).
LEMMA EnterOpens ==
    ASSUME IInv, phase = "walk", Enter
    PROVE  /\ OpenInv' /\ Opened' = Opened \cup {next}
           /\ Len(open') = Len(open) + 1 /\ Len(open) \in Nat
           /\ open'[Len(open) + 1] = [node |-> next, mark |-> Len(withheld)]
           /\ \A k \in 1..Len(open) : open'[k] = open[k]
PROOF
<1> USE DEF IInv
<1> DEFINE f == [node |-> next, mark |-> Len(withheld)]
           n == Len(open)
<1>1. /\ Entering /\ reaches(next) /\ open' = Append(open, f) /\ next' = next + 1
      /\ UNCHANGED tree
    BY DEF Enter
<1>2. /\ next \in Nodes /\ next \in Nat /\ next \notin Opened
      /\ Opened \subseteq PathTo[next]
      /\ PathTo[next] \subseteq Opened \cup {next}
      /\ parent[next] = IF open = <<>> THEN 0 ELSE Last.node
    BY <1>1, EnterAt
<1>3. f \in Frames /\ f.node = next
    BY <1>2 DEF Frames, ListInv
<1> HIDE DEF f
<1>4. /\ open \in Seq(Frames) /\ open' \in Seq(Frames)
      /\ n \in Nat /\ Len(open') = n + 1
      /\ open'[n + 1] = f
      /\ \A k \in 1..n : open'[k] = open[k]
    BY <1>1, <1>3 DEF OpenInv
<1> HIDE DEF n
<1>5. \A k \in 1..(n + 1) : k \in Nat /\ (k \in 1..n \/ k = n + 1)
    BY <1>4
<1>6. Opened' = Opened \cup {next}
  <2>1. Opened' = {open'[k].node : k \in 1..(n + 1)}
      BY <1>4 DEF Opened
  <2>2. ASSUME NEW x PROVE x \in Opened' <=> x \in Opened \cup {next}
      BY <1>3, <1>4, <1>5, <2>1 DEF Opened, n
  <2> QED
      BY <2>2
<1>7. next \in Deserving
    BY <1>1, <1>2, ReachedIsDeserved DEF PhaseInv, Deserving
<1>8. PathTo' = PathTo /\ Deserving' = Deserving
    BY <1>1, TreeKept
<1>9. \A k \in 1..n : open[k].node \in Nodes /\ open[k].node \in Opened
  <2>1. \A k \in 1..n : open[k] \in Frames
      BY <1>4 DEF n
  <2> QED
      BY <2>1 DEF Frames, Opened, n
<1>10. ASSUME NEW k \in 1..(n + 1)
       PROVE  /\ open'[k].node < next'
              /\ parent[open'[k].node] = IF k = 1 THEN 0 ELSE open'[k - 1].node
              /\ \A j \in 1..(n + 1) : j < k => open'[j].node < open'[k].node
              /\ PathTo[open'[k].node] \subseteq Opened'
              /\ \A y \in (open'[k].node)..(next' - 1) : open'[k].node \in PathTo[y]
              /\ open'[k].node \in Deserving
  <2>1. CASE k \in 1..n
    <3>1. open'[k] = open[k] /\ open[k].node \in Nodes /\ open[k].node \in PathTo[next]
        BY <1>2, <1>4, <1>9, <2>1
    <3>2. /\ open[k].node < next
          /\ parent[open[k].node] = IF k = 1 THEN 0 ELSE open[k - 1].node
          /\ \A j \in 1..n : j < k => open[j].node < open[k].node
          /\ PathTo[open[k].node] \subseteq Opened
          /\ \A y \in (open[k].node)..(next - 1) : open[k].node \in PathTo[y]
          /\ open[k].node \in Deserving
        BY <2>1 DEF OpenInv, n
    <3>3. open[k].node < next'
        BY <1>1, <1>2, <3>1, <3>2 DEF Nodes
    <3>4. k # 1 => k - 1 \in 1..n /\ open'[k - 1] = open[k - 1]
        BY <1>4, <2>1
    <3>5. \A j \in 1..(n + 1) : j < k => j \in 1..n /\ open'[j] = open[j]
        BY <1>4, <1>5, <2>1
    <3>6. \A y \in (open[k].node)..(next' - 1) : open[k].node \in PathTo[y]
      <4>1. \A y \in (open[k].node)..(next' - 1) : y = next \/ y \in (open[k].node)..(next - 1)
          BY <1>1, <1>2, <3>1 DEF Nodes
      <4> QED
          BY <3>1, <3>2, <4>1
    <3> QED
        BY <1>6, <3>1, <3>2, <3>3, <3>4, <3>5, <3>6
  <2>2. CASE k = n + 1
    <3>1. open'[k] = f
        BY <1>4, <2>2
    <3>2. next < next'
        BY <1>1, <1>2
    <3>3. parent[next] = IF k = 1 THEN 0 ELSE open'[k - 1].node
      <4>1. CASE n = 0
          BY <1>2, <1>4, <2>2, <4>1 DEF n
      <4>2. CASE n # 0
        <5>1. open # <<>> /\ n \in 1..n /\ k # 1 /\ k - 1 = n
            BY <1>4, <2>2, <4>2 DEF n
        <5>2. Last = open[n]
            BY DEF Last, n
        <5> QED
            BY <1>2, <1>4, <5>1, <5>2
      <4> QED
          BY <4>1, <4>2
    <3>4. \A j \in 1..(n + 1) : j < k => open'[j].node < next
      <4>1. \A j \in 1..n : open[j].node < next
          BY DEF OpenInv, n
      <4> QED
          BY <1>4, <2>2, <4>1
    <3>5. \A y \in next..(next' - 1) : next \in PathTo[y]
      <4>1. \A y \in next..(next' - 1) : y = next
          BY <1>1, <1>2
      <4>2. next \in PathTo[next]
          BY <1>2, PathSelf
      <4> QED
          BY <4>1, <4>2
    <3> QED
        BY <1>2, <1>3, <1>6, <1>7, <3>1, <3>2, <3>3, <3>4, <3>5
  <2> QED
      BY <1>5, <2>1, <2>2
<1>11. next' \in 1..(Size + 1)
    BY <1>1, <1>2, CardAssumption DEF Nodes
<1>12. ASSUME NEW m \in next'..Size, NEW x \in PathTo[m], x < next'
       PROVE  x \in Opened'
  <2>1. m \in next..Size /\ m \in Nodes
      BY <1>1, <1>2, CardAssumption DEF Nodes
  <2>2. x \in Nodes
      BY <2>1, PathWithin
  <2>3. x = next \/ x < next
      BY <1>1, <1>2, <1>12, <2>2 DEF Nodes
  <2>4. x < next => x \in Opened
      BY <2>1 DEF OpenInv
  <2> QED
      BY <1>6, <2>3, <2>4
<1>13. parent' = parent
    BY <1>1 DEF tree
<1>14. OpenInv'
  <2>1. \A k \in 1..Len(open') :
          /\ open'[k].node < next'
          /\ parent'[open'[k].node] = IF k = 1 THEN 0 ELSE open'[k - 1].node
          /\ \A j \in 1..Len(open') : j < k => open'[j].node < open'[k].node
          /\ PathTo'[open'[k].node] \subseteq Opened'
          /\ \A y \in (open'[k].node)..(next' - 1) : open'[k].node \in PathTo'[y]
          /\ open'[k].node \in Deserving'
      BY <1>4, <1>8, <1>10, <1>13
  <2> QED
      BY <1>4, <1>8, <1>11, <1>12, <2>1 DEF OpenInv
<1> QED
    BY <1>4, <1>6, <1>14 DEF f, n

\* What lies from one natural up to before another.
LEMMA RangeEnd ==
    ASSUME NEW x \in Nat, NEW a \in Nat, NEW b \in Nat
    PROVE  /\ x \in a..(b - 1) <=> ~(x < a) /\ x < b
           /\ a < b => (x \notin a..(b - 1) => (x < b <=> x < a))
PROOF
    OBVIOUS

\* The front of a sequence.
LEMMA FrontOf ==
    ASSUME NEW S, NEW q \in Seq(S), NEW k \in 0..Len(q)
    PROVE  /\ SubSeq(q, 1, k) \in Seq(S) /\ Len(SubSeq(q, 1, k)) = k
           /\ \A i \in 1..k : SubSeq(q, 1, k)[i] = q[i]
PROOF
    OBVIOUS

\* A node that is withheld is passed with its whole subtree (projectNode).
LEMMA SkipOpens ==
    ASSUME IInv, EnterWithheld
    PROVE  /\ OpenInv' /\ Opened' = Opened
           /\ next \in Nodes /\ next < next'
           /\ Subtree(next) = next..(next' - 1)
PROOF
<1> USE DEF IInv
<1> DEFINE s == Max(Subtree(next))
<1>1. /\ Entering /\ next' = s + 1 /\ UNCHANGED <<tree, open>>
    BY DEF EnterWithheld
<1>2. /\ next \in Nodes /\ next \in Nat
      /\ Opened \subseteq PathTo[next]
    BY <1>1, EnterAt
<1>3. s \in Nodes /\ next <= s /\ Subtree(next) = next..s
    BY <1>2, Subtrees
<1> HIDE DEF s
<1>4. s \in Nat /\ next' \in Nat /\ next < next' /\ next' - 1 = s /\ next' \in 1..(Size + 1)
    BY <1>1, <1>2, <1>3, CardAssumption DEF Nodes
<1>5. Opened' = Opened
    BY <1>1 DEF Opened
<1>6. PathTo' = PathTo /\ Deserving' = Deserving /\ parent' = parent /\ open' = open
    BY <1>1, TreeKept DEF tree
<1>7. ASSUME NEW k \in 1..Len(open)
      PROVE  /\ open[k].node < next'
             /\ \A y \in (open[k].node)..(next' - 1) : open[k].node \in PathTo[y]
  <2>1. open[k].node < next /\ open[k].node \in Opened
        /\ \A y \in (open[k].node)..(next - 1) : open[k].node \in PathTo[y]
      BY DEF OpenInv, Opened
  <2>2. open[k].node \in PathTo[next] /\ open[k].node \in Nodes
      BY <1>2, <2>1, PathWithin
  <2>3. ASSUME NEW y \in next..s PROVE open[k].node \in PathTo[y]
    <3>1. y \in Nodes /\ next \in PathTo[y]
        BY <1>3 DEF Subtree
    <3> QED
        BY <2>2, <3>1, PathWithin
  <2>4. \A y \in (open[k].node)..s : y \in (open[k].node)..(next - 1) \/ y \in next..s
      BY <1>2, <1>4, <2>2 DEF Nodes
  <2>5. open[k].node < next'
      BY <1>2, <1>4, <2>1, <2>2 DEF Nodes
  <2> QED
      BY <1>4, <2>1, <2>3, <2>4, <2>5
<1>8. ASSUME NEW m \in next'..Size, NEW x \in PathTo[m], x < next'
      PROVE  x \in Opened
  <2>1. m \in next..Size /\ m \in Nodes /\ m \in Nat /\ m > s
      BY <1>2, <1>4, CardAssumption DEF Nodes
  <2>2. x \in Nodes /\ PathTo[x] \subseteq PathTo[m]
      BY <2>1, PathWithin
  <2>3. CASE x < next
    <3>1. \A z \in next..Size : \A w \in PathTo[z] : w < next => w \in Opened
        BY DEF OpenInv
    <3> QED
        BY <2>1, <2>3, <3>1
  <2>4. CASE x \in next..s
    <3>1. next \in PathTo[x]
        BY <1>3, <2>4 DEF Subtree
    <3>2. m \in Subtree(next)
        BY <2>1, <2>2, <3>1 DEF Subtree
    <3> QED
        BY <1>3, <1>4, <2>1, <3>2
  <2>5. x \in Nat /\ next' = s + 1
      BY <1>1, <2>2 DEF Nodes
  <2>6. x < next \/ x \in next..s
      BY <1>2, <1>4, <1>8, <2>5
  <2> QED
      BY <2>3, <2>4, <2>6
<1>9. OpenInv'
    BY <1>4, <1>5, <1>6, <1>7, <1>8 DEF OpenInv
<1> QED
    BY <1>2, <1>3, <1>4, <1>5, <1>9

\* Leaving a node takes it off the end of the path.
LEMMA LeaveOpens ==
    ASSUME IInv, Leaving, UNCHANGED <<tree, next>>,
           open' = SubSeq(open, 1, Len(open) - 1)
    PROVE  /\ OpenInv' /\ Opened' = Opened \ {Last.node}
           /\ Len(open) \in Nat /\ Len(open') = Len(open) - 1
           /\ \A k \in 1..Len(open') : open'[k] = open[k] /\ open[k].node < Last.node
                                       /\ k \in 1..Len(open)
PROOF
<1> USE DEF IInv
<1> DEFINE n == Len(open)
<1>1. open # <<>>
    BY DEF Leaving
<1>2. /\ n \in Nat /\ n \in 1..n /\ Last = open[n] /\ Last.node \in Nodes
      /\ Last.node < next
      /\ \A x \in Opened : x \in Nodes /\ x <= Last.node /\ x < next
    BY <1>1, LastOpen
<1>3. /\ open \in Seq(Frames) /\ open' \in Seq(Frames)
      /\ Len(open') = n - 1
      /\ \A k \in 1..(n - 1) : open'[k] = open[k]
  <2>1. open \in Seq(Frames)
      BY DEF OpenInv
  <2>2. n - 1 \in 0..n
      BY <1>2
  <2> QED
      BY <2>1, <2>2, FrontOf
<1> HIDE DEF n
<1>4. \A k \in 1..(n - 1) : /\ k \in 1..n /\ k \in Nat /\ k < n /\ k # n
                            /\ (k # 1 => k - 1 \in 1..(n - 1))
                            /\ \A j \in 1..(n - 1) : j \in 1..n
    BY <1>2
<1>5. \A k \in 1..(n - 1) : open[k].node < Last.node
    BY <1>2, <1>4 DEF OpenInv, n
<1>6. Opened' = Opened \ {Last.node}
  <2>1. Opened' = {open[k].node : k \in 1..(n - 1)}
      BY <1>3 DEF Opened
  <2>2. \A k \in 1..n : k \in 1..(n - 1) \/ k = n
      BY <1>2
  <2>3. ~(Last.node < Last.node)
      BY <1>2 DEF Nodes
  <2>4. ASSUME NEW x PROVE x \in Opened' <=> x \in Opened /\ x # Last.node
    <3>1. x \in Opened' => x \in Opened /\ x # Last.node
        BY <1>4, <1>5, <2>1, <2>3 DEF Opened, n
    <3>2. x \in Opened /\ x # Last.node => x \in Opened'
        BY <1>2, <2>1, <2>2 DEF Opened, n
    <3> QED
        BY <3>1, <3>2
  <2> QED
      BY <2>4
<1>7. PathTo' = PathTo /\ Deserving' = Deserving /\ parent' = parent /\ next' = next
    BY TreeKept DEF tree
<1>8. ASSUME NEW k \in 1..(n - 1)
      PROVE  /\ open'[k].node < next
             /\ parent[open'[k].node] = IF k = 1 THEN 0 ELSE open'[k - 1].node
             /\ \A j \in 1..(n - 1) : j < k => open'[j].node < open'[k].node
             /\ PathTo[open'[k].node] \subseteq Opened'
             /\ \A y \in (open'[k].node)..(next - 1) : open'[k].node \in PathTo[y]
             /\ open'[k].node \in Deserving
  <2>1. /\ open[k].node < next
        /\ parent[open[k].node] = IF k = 1 THEN 0 ELSE open[k - 1].node
        /\ \A j \in 1..n : j < k => open[j].node < open[k].node
        /\ PathTo[open[k].node] \subseteq Opened
        /\ \A y \in (open[k].node)..(next - 1) : open[k].node \in PathTo[y]
        /\ open[k].node \in Deserving
      BY <1>4 DEF OpenInv, n
  <2>2. open'[k] = open[k] /\ (k # 1 => open'[k - 1] = open[k - 1])
        /\ (\A j \in 1..(n - 1) : open'[j] = open[j])
      BY <1>3, <1>4
  <2>3. Last.node \notin PathTo[open[k].node]
    <3>1. open[k].node \in Nodes
        BY <2>1 DEF Deserving
    <3>2. \A x \in PathTo[open[k].node] : x <= open[k].node /\ x \in Nat
        BY <3>1, PathBelow
    <3> QED
        BY <1>2, <1>5, <3>1, <3>2 DEF Nodes
  <2> QED
      BY <1>4, <1>6, <2>1, <2>2, <2>3
<1>9. ASSUME NEW m \in next..Size, NEW x \in PathTo[m], x < next
      PROVE  x \in Opened'
  <2>1. x \in Opened
      BY <1>9 DEF OpenInv
  <2>2. Last.node \notin PathTo[m]
      BY LeaveAt
  <2> QED
      BY <1>6, <2>1, <2>2
<1>10. next \in 1..(Size + 1)
    BY DEF OpenInv
<1>11. OpenInv'
  <2>1. next' \in 1..(Size + 1) /\ open' \in Seq(Frames)
      BY <1>3, <1>7, <1>10
  <2>2. \A k \in 1..Len(open') :
            /\ open'[k].node < next'
            /\ parent'[open'[k].node] = IF k = 1 THEN 0 ELSE open'[k - 1].node
            /\ \A j \in 1..Len(open') : j < k => open'[j].node < open'[k].node
            /\ PathTo'[open'[k].node] \subseteq Opened'
            /\ \A y \in (open'[k].node)..(next' - 1) : open'[k].node \in PathTo'[y]
            /\ open'[k].node \in Deserving'
    <3>1. 1..Len(open') = 1..(n - 1)
        BY <1>3
    <3> QED
        BY <1>7, <1>8, <3>1
  <2>3. \A m \in next'..Size : \A x \in PathTo'[m] : x < next' => x \in Opened'
      BY <1>7, <1>9
  <2> QED
      BY <2>1, <2>2, <2>3 DEF OpenInv
<1> QED
    BY <1>2, <1>3, <1>4, <1>5, <1>6, <1>11 DEF n

--------------------------------------------------------------------------------
(* What is alive.                                                           *)

\* A node the reader does not deserve encloses none it does, so the walk may
\* skip its subtree (projectNode).
LEMMA SkipAlive ==
    ASSUME IInv, phase = "walk", EnterWithheld
    PROVE  AliveInv'
PROOF
<1> USE DEF IInv
<1>1. /\ OpenInv' /\ Opened' = Opened /\ next \in Nodes /\ next < next'
      /\ Subtree(next) = next..(next' - 1)
    BY SkipOpens
<1>2. alive' = alive \ Subtree(next) /\ ~reaches(next) /\ UNCHANGED tree
    BY DEF EnterWithheld, Withhold
<1>3. next' \in Nat /\ next \in Nat
    BY <1>1 DEF OpenInv
<1>4. ~Deserves(next)
    BY <1>1, <1>2, ReachedIsDeserved DEF PhaseInv
<1>5. \A x \in Subtree(next) : x \notin Lives
    BY <1>4, LivesUp DEF Subtree
<1>6. \A x \in Opened : x < next
  <2> SUFFICES ASSUME NEW k \in 1..Len(open) PROVE open[k].node < next
      BY DEF Opened
  <2> QED
      BY DEF OpenInv
<1>7. ASSUME NEW x \in Nodes PROVE x \in alive' <=> (x < next' /\ x \notin Opened' => x \in Lives)
  <2>1. x \in Nat
      BY DEF Nodes
  <2>2. CASE x \in Subtree(next)
    <3>1. x \in next..(next' - 1)
        BY <1>1, <2>2
    <3>2. x < next' /\ ~(x < next)
        BY <1>3, <2>1, <3>1, RangeEnd
    <3>3. x \notin Opened'
        BY <1>1, <1>6, <3>2
    <3> QED
        BY <1>2, <1>5, <2>2, <3>2, <3>3
  <2>3. CASE x \notin Subtree(next)
    <3>1. x < next' <=> x < next
      <4>1. ~(x \in next..(next' - 1))
          BY <1>1, <2>3
      <4>2. next < next'
          BY <1>1
      <4> QED
          BY <1>3, <2>1, <4>1, <4>2, RangeEnd
    <3> QED
        BY <1>1, <1>2, <2>3, <3>1 DEF AliveInv, Left
  <2> QED
      BY <2>2, <2>3
<1>8. Lives' = Lives
    BY <1>2, TreeKept
<1> QED
    BY <1>2, <1>7, <1>8 DEF AliveInv, Left

\* The children of a node the walk leaves have been decided.
LEMMA ChildrenDecided ==
    ASSUME IInv, Leaving, NEW c \in Children(Last.node)
    PROVE  c \in Subtree(Last.node) /\ (c \in alive <=> c \in Lives)
PROOF
<1> USE DEF IInv
<1>1. /\ open # <<>> /\ Last.node \in Nodes
      /\ \A x \in Opened : x <= Last.node
    BY LastOpen DEF Leaving
<1>2. c \in Nodes /\ parent[c] = Last.node /\ Last.node # 0
    BY <1>1 DEF Children, Nodes
<1>3. Last.node \in PathTo[c] /\ Last.node < c
    BY <1>2, PathSelf, Parents
<1>4. c \in Subtree(Last.node)
    BY <1>2, <1>3 DEF Subtree
<1>5. c \in Last.node..(next - 1)
    BY <1>4, LeaveAt
<1>6. Left(c)
  <2>1. next \in Nat /\ c \in Nat /\ Last.node \in Nat
      BY <1>1, <1>2 DEF OpenInv, Nodes
  <2>2. c < next
      BY <1>5, <2>1
  <2>3. c \notin Opened
    <3>1. ~(c <= Last.node)
        BY <1>3, <2>1
    <3> QED
        BY <1>1, <3>1
  <2> QED
      BY <2>2, <2>3 DEF Left
<1> QED
    BY <1>2, <1>4, <1>6 DEF AliveInv

\* Nothing in the subtree of a node that collapses is served, and a node that
\* does not is.
LEMMA Decided ==
    ASSUME IInv, Leaving
    PROVE  /\ Collapses(Last.node) /\ ~IsCard(Last.node) =>
                \A x \in Subtree(Last.node) : x \notin Lives
           /\ IsCard(Last.node) \/ ~Collapses(Last.node) => Last.node \in Lives
PROOF
<1> USE DEF IInv
<1> DEFINE n == Last.node
<1>1. n \in Nodes /\ n \in Deserving
    BY LastOpen DEF Leaving
<1>2. n \in PathTo[n]
    BY <1>1, PathSelf
<1>3. \A c \in Children(n) : c \in Subtree(n) /\ (c \in alive <=> c \in Lives)
    BY ChildrenDecided
<1> HIDE DEF n
<1>4. ASSUME Collapses(n), ~IsCard(n), NEW x \in Subtree(n), x \in Lives
      PROVE  FALSE
  <2>1. PICK m \in Subtree(x) : Deserves(m) /\ (IsCard(m) \/ Children(m) = {})
      BY <1>4 DEF Lives
  <2>2. m \in Nodes /\ x \in PathTo[m] /\ n \in PathTo[m] /\ n \in PathTo[x]
    <3>1. m \in Nodes /\ x \in PathTo[m] /\ n \in PathTo[x]
        BY <1>4, <2>1 DEF Subtree
    <3> QED
        BY <3>1, PathWithin
  <2>3. m # n
      BY <1>4, <2>1 DEF Collapses
  <2>4. ~IsCard(m)
    <3> SUFFICES ASSUME parent[m] = 0 PROVE FALSE
        BY DEF IsCard
    <3>1. PathTo[m] = {m}
        BY <2>2, Path
    <3> QED
        BY <2>2, <2>3, <3>1
  <2>5. \E c \in Children(n) : c \in PathTo[m]
      BY <1>1, <2>2, <2>3, ChildBetween
  <2>6. PICK c \in Children(n) : c \in PathTo[m]
      BY <2>5
  <2>7. c \in Lives
      BY <2>1, <2>2, <2>4, <2>6 DEF Lives, Subtree, Children
  <2>8. c \notin alive
      BY <1>4, <2>6 DEF Collapses
  <2> QED
      BY <1>3, <2>6, <2>7, <2>8
<1>5. ASSUME IsCard(n) PROVE n \in Lives
    BY <1>1, <1>2, <1>5 DEF Lives, Subtree, Deserving
<1>6. ASSUME ~Collapses(n) PROVE n \in Lives
  <2>1. CASE Children(n) = {}
      BY <1>1, <1>2, <2>1 DEF Lives, Subtree, Deserving
  <2>2. CASE Children(n) # {}
    <3>1. PICK c \in Children(n) : c \in alive
        BY <1>6, <2>2 DEF Collapses
    <3>2. c \in Lives /\ n \in PathTo[c]
        BY <1>3, <3>1 DEF Subtree
    <3> QED
        BY <3>2, LivesUp
  <2> QED
      BY <2>1, <2>2
<1> QED
    BY <1>4, <1>5, <1>6 DEF n

\* A node left alone is served, and one that collapses goes with nothing that
\* is.
LEMMA LeaveAlive ==
    ASSUME IInv, Leaving, UNCHANGED <<tree, next>>,
           open' = SubSeq(open, 1, Len(open) - 1),
           \/ alive' = alive /\ (IsCard(Last.node) \/ ~Collapses(Last.node))
           \/ alive' = alive \ Subtree(Last.node) /\ Collapses(Last.node) /\ ~IsCard(Last.node)
    PROVE  AliveInv'
PROOF
<1> USE DEF IInv
<1> DEFINE n == Last.node
<1>1. Opened' = Opened \ {n} /\ next' = next /\ Lives' = Lives
    BY LeaveOpens, TreeKept
<1>2. n \in Nodes /\ n \in Opened /\ n < next
    BY LastOpen DEF Leaving
<1>3. n \in Subtree(n)
    BY <1>2, PathSelf DEF Subtree
<1>4. n \in alive
    BY <1>2 DEF AliveInv, Left
<1>5. \/ alive' = alive /\ n \in Lives
      \/ alive' = alive \ Subtree(n) /\ \A x \in Subtree(n) : x \notin Lives
    BY Decided
<1>6. \A y \in Subtree(n) : y \in n..(next - 1)
    BY LeaveAt
<1>7. \A x \in Opened : x <= n
    BY LastOpen DEF Leaving
<1> HIDE DEF n
<1>8. ASSUME NEW x \in Nodes PROVE x \in alive' <=> (x < next /\ x \notin Opened' => x \in Lives)
  <2>1. x \in alive <=> (x < next /\ x \notin Opened => x \in Lives)
      BY DEF AliveInv, Left
  <2>2. CASE x = n
    <3>1. x < next /\ x \notin Opened'
        BY <1>1, <1>2, <2>2
    <3> QED
        BY <1>3, <1>4, <1>5, <2>2, <3>1
  <2>3. CASE x # n /\ x \in Subtree(n)
    <3>1. x \notin Opened /\ x < next
      <4>1. x \in Nat /\ n \in Nat /\ next \in Nat /\ x \in n..(next - 1)
          BY <1>2, <1>6, <2>3 DEF Nodes, OpenInv
      <4>2. ~(x <= n) /\ x < next
          BY <2>3, <4>1
      <4> QED
          BY <1>7, <4>2
    <3> QED
        BY <1>1, <1>5, <2>1, <2>3, <3>1
  <2>4. CASE x # n /\ x \notin Subtree(n)
    <3>1. x \in alive' <=> x \in alive
        BY <1>5, <2>4
    <3> QED
        BY <1>1, <2>1, <2>4, <3>1
  <2> QED
      BY <2>2, <2>3, <2>4
<1>9. alive' \subseteq Nodes
    BY <1>5 DEF AliveInv
<1> QED
    BY <1>1, <1>8, <1>9 DEF AliveInv, Left

--------------------------------------------------------------------------------
(* What is named.                                                           *)

\* A node that goes with all of its subtree is one hole in place of those in it.
LEMMA HolesAfter ==
    ASSUME Tree, NEW n \in Nodes, n \in alive, IsCard(n) \/ parent[n] \in alive,
           UNCHANGED tree, alive' = alive \ Subtree(n)
    PROVE  Holes' = (Holes \ Subtree(n)) \cup {n}
PROOF
<1>1. parent' = parent
    BY DEF tree
<1>2. \A y \in Nodes : y \in Subtree(n) <=> n \in PathTo[y]
    BY DEF Subtree
<1>3. ASSUME NEW y \in Nodes, y # n
      PROVE  y \in Subtree(n) <=> parent[y] \in Subtree(n)
  <2>1. PathTo[y] = {y} \cup PathTo[parent[y]]
      BY Path
  <2>2. CASE parent[y] = 0
      BY <1>2, <1>3, <2>1, <2>2, Path, CardAssumption DEF Subtree, Nodes
  <2>3. CASE parent[y] # 0
      BY <1>2, <1>3, <2>1, <2>3, PathSelf
  <2> QED
      BY <2>2, <2>3
<1>4. n \in Subtree(n) /\ parent[n] \notin Subtree(n)
  <2>1. parent[n] < n /\ \A y \in Subtree(n) : n <= y /\ y \in Nat
      BY Parents, PathBelow DEF Subtree
  <2>2. n \in Subtree(n)
      BY PathSelf DEF Subtree
  <2>3. n \in Nat /\ ~(n <= parent[n])
    <3>1. n \in Nat /\ parent[n] \in 0..Size
        BY Parents
    <3> QED
        BY <2>1, <3>1
  <2> QED
      BY <2>1, <2>2, <2>3
<1>5. \A y \in Nodes : IsCard(y) /\ y # n => y \notin Subtree(n)
  <2>1. 0 \notin Subtree(n)
      BY DEF Subtree, Nodes
  <2> QED
      BY <1>3, <2>1 DEF IsCard
<1>6. Holes' = {y \in Nodes \ alive' : IsCard(y) \/ parent[y] \in alive'}
    BY <1>1 DEF Holes, IsCard
<1>7. ASSUME NEW y \in Nodes
      PROVE  y \in Holes' <=> y \in (Holes \ Subtree(n)) \cup {n}
  <2>1. CASE y = n
      BY <1>4, <1>6, <2>1
  <2>2. CASE y # n /\ y \in Subtree(n)
      BY <1>3, <1>5, <1>6, <2>2
  <2>3. CASE y # n /\ y \notin Subtree(n)
      BY <1>3, <1>6, <2>3 DEF Holes
  <2> QED
      BY <2>1, <2>2, <2>3
<1> QED
    BY <1>6, <1>7 DEF Holes

\* What the walk has not reached, and what it is in, is no hole.
LEMMA HolesLeft ==
    ASSUME IInv
    PROVE  Holes \subseteq Nodes /\ \A x \in Holes : x \notin alive /\ Left(x)
PROOF
    BY DEF IInv, Holes, AliveInv

\* A new hole joins the end of the list (note).
LEMMA SkipList ==
    ASSUME IInv, phase = "walk", EnterWithheld
    PROVE  ListInv' /\ Holes' = Holes \cup {next}
PROOF
<1> USE DEF IInv
<1>1. /\ OpenInv' /\ Opened' = Opened /\ next \in Nodes /\ next < next'
      /\ Subtree(next) = next..(next' - 1)
    BY SkipOpens
<1>2. /\ withheld' = Append(withheld, next) /\ alive' = alive \ Subtree(next)
      /\ UNCHANGED tree /\ open' = open /\ Entering
    BY DEF EnterWithheld, Withhold
<1>3. next \in Nat /\ next' \in Nat
    BY <1>1 DEF OpenInv
<1>4. IsCard(next) \/ parent[next] \in alive
  <2>1. parent[next] = IF open = <<>> THEN 0 ELSE Last.node
      BY <1>2, EnterAt
  <2>2. open # <<>> => Last.node \in alive
      BY LastOpen DEF AliveInv, Left
  <2> QED
      BY <2>1, <2>2 DEF IsCard
<1>5. next \in alive
    BY <1>1, <1>3 DEF AliveInv, Left
<1>6. Holes \cap Subtree(next) = {}
  <2> SUFFICES ASSUME NEW x \in Holes, x \in Subtree(next) PROVE FALSE
      OBVIOUS
  <2>1. x \in Nat /\ x < next
      BY HolesLeft DEF Left, Nodes
  <2>2. x \in next..(next' - 1)
      BY <1>1
  <2> QED
      BY <1>3, <2>1, <2>2, RangeEnd
<1>7. Holes' = Holes \cup {next}
    BY <1>1, <1>2, <1>4, <1>5, <1>6, HolesAfter
<1> DEFINE l == Len(withheld)
<1>8. /\ withheld \in Seq(Nodes) /\ withheld' \in Seq(Nodes)
      /\ l \in Nat /\ Len(withheld') = l + 1
      /\ withheld'[l + 1] = next
      /\ \A i \in 1..l : withheld'[i] = withheld[i]
    BY <1>1, <1>2 DEF ListInv
<1> HIDE DEF l
<1>9. \A i \in 1..(l + 1) : i \in Nat /\ (i \in 1..l \/ i = l + 1)
    BY <1>8
<1>10. Listed' = Listed \cup {next}
  <2>1. Listed' = {withheld'[i] : i \in 1..(l + 1)} /\ l + 1 \in 1..(l + 1)
        /\ \A i \in 1..l : i \in 1..(l + 1)
      BY <1>8 DEF Listed
  <2>2. ASSUME NEW x PROVE x \in Listed' <=> x \in Listed \/ x = next
      BY <1>8, <1>9, <2>1 DEF Listed, l
  <2> QED
      BY <2>2
<1>11. \A i \in 1..l : withheld[i] \in Nat /\ withheld[i] < next
  <2>1. \A i \in 1..l : withheld[i] \in Holes
      BY DEF ListInv, Listed, l
  <2> QED
      BY <2>1, HolesLeft DEF Left, Nodes
<1>12. \A i, j \in 1..(l + 1) : i < j => withheld'[i] < withheld'[j]
  <2> SUFFICES ASSUME NEW i \in 1..(l + 1), NEW j \in 1..(l + 1), i < j
               PROVE  withheld'[i] < withheld'[j]
      OBVIOUS
  <2>1. i \in 1..l
      BY <1>8
  <2>2. CASE j \in 1..l
      BY <1>8, <2>1, <2>2 DEF ListInv, l
  <2>3. CASE j = l + 1
      BY <1>8, <1>11, <2>1, <2>3
  <2> QED
      BY <1>9, <2>2, <2>3
<1>13. ASSUME NEW k \in 1..Len(open)
       PROVE  /\ open[k].mark <= l + 1
              /\ \A i \in 1..(l + 1) : i > open[k].mark <=> withheld'[i] > open[k].node
  <2>1. /\ open[k].mark <= l
        /\ \A i \in 1..l : i > open[k].mark <=> withheld[i] > open[k].node
      BY DEF ListInv, l
  <2>2. open[k].mark \in Nat /\ open[k].node \in Nat /\ open[k].node < next
    <3>1. open[k] \in Frames /\ open[k].node < next
        BY DEF OpenInv
    <3> QED
        BY <3>1 DEF Frames, Nodes
  <2>3. l + 1 > open[k].mark /\ next > open[k].node /\ open[k].mark <= l + 1
      BY <1>3, <1>8, <2>1, <2>2
  <2> QED
      BY <1>8, <1>9, <2>1, <2>3
<1>14. ListInv'
    BY <1>2, <1>7, <1>8, <1>10, <1>12, <1>13 DEF ListInv
<1> QED
    BY <1>7, <1>14

\* A card the walk is done with holds nothing it has yet to come to.
LEMMA SkipDisclosed ==
    ASSUME IInv, phase = "walk", EnterWithheld
    PROVE  DisclosedInv'
PROOF
<1> USE DEF IInv
<1>1. /\ Opened' = Opened /\ next \in Nodes /\ next < next'
      /\ Subtree(next) = next..(next' - 1)
    BY SkipOpens
<1>2. /\ alive' = alive \ Subtree(next) /\ UNCHANGED <<tree, disclosed>> /\ Entering
    BY DEF EnterWithheld, Withhold
<1>3. next \in Nat /\ next' \in Nat
    BY SkipOpens DEF OpenInv
<1>4. Holes' = Holes \cup {next}
    BY SkipList
<1>5. PathTo' = PathTo /\ parent' = parent
    BY <1>2, TreeKept DEF tree
<1>6. ASSUME NEW c \in Nodes, IsCard(c)
      PROVE  disclosed[c] = IF c < next' /\ c \notin Opened' /\ c \in alive'
                            THEN {y \in Holes' : c \in PathTo[y]} ELSE {}
  <2>1. c \in Nat
      BY DEF Nodes
  <2>2. disclosed[c] = IF c < next /\ c \notin Opened /\ c \in alive
                       THEN {y \in Holes : c \in PathTo[y]} ELSE {}
    <3>1. Holes \cap Subtree(c) = {y \in Holes : c \in PathTo[y]}
        BY DEF Subtree, Holes
    <3> QED
        BY <1>6, <3>1 DEF DisclosedInv, Left
  <2>3. CASE c \in Subtree(next)
    <3>1. c \notin alive' /\ ~(c < next)
        BY <1>1, <1>2, <1>3, <2>1, <2>3, RangeEnd
    <3> QED
        BY <2>2, <3>1
  <2>4. CASE c \notin Subtree(next)
    <3>1. (c < next' <=> c < next) /\ (c \in alive' <=> c \in alive)
      <4>1. c \notin next..(next' - 1)
          BY <1>1, <2>4
      <4> QED
          BY <1>1, <1>2, <1>3, <2>1, <2>4, <4>1, RangeEnd
    <3>2. ASSUME c < next, c \notin Opened PROVE c \notin PathTo[next]
      <4>1. c # next
          BY <1>3, <2>1, <3>2
      <4> QED
          BY <1>2, <3>2, <4>1, EnterAt
    <3>3. c < next /\ c \notin Opened =>
              {y \in Holes' : c \in PathTo[y]} = {y \in Holes : c \in PathTo[y]}
        BY <1>4, <3>2
    <3> QED
        BY <1>1, <2>2, <3>1, <3>3
  <2> QED
      BY <2>3, <2>4
<1>7. disclosed \in [Nodes -> SUBSET Nodes]
    BY DEF DisclosedInv
<1>8. \A c \in Nodes : IsCard(c)' =>
          disclosed'[c] = IF c < next' /\ c \notin Opened' /\ c \in alive'
                          THEN {y \in Holes' : c \in PathTo'[y]} ELSE {}
    BY <1>2, <1>5, <1>6 DEF IsCard
<1> QED
    BY <1>2, <1>7, <1>8 DEF DisclosedInv, Left, Subtree, Holes

\* Entering a node names nothing and removes nothing.
LEMMA EnterNames ==
    ASSUME IInv, phase = "walk", Enter
    PROVE  AliveInv' /\ ListInv' /\ DisclosedInv'
PROOF
<1> USE DEF IInv
<1>1. /\ OpenInv' /\ Opened' = Opened \cup {next}
      /\ Len(open') = Len(open) + 1 /\ Len(open) \in Nat
      /\ open'[Len(open) + 1] = [node |-> next, mark |-> Len(withheld)]
      /\ \A k \in 1..Len(open) : open'[k] = open[k]
    BY EnterOpens
<1>2. /\ Entering /\ next' = next + 1 /\ UNCHANGED <<tree, withheld, alive, disclosed>>
    BY DEF Enter
<1>3. next \in Nat /\ next \in Nodes
    BY <1>2, EnterAt
<1>4. \A x \in Nodes : (x < next' /\ x \notin Opened') <=> (x < next /\ x \notin Opened)
  <2>1. \A x \in Nodes : x \in Nat
      BY DEF Nodes
  <2> QED
      BY <1>1, <1>2, <1>3, <2>1
<1>5. PathTo' = PathTo /\ Lives' = Lives /\ parent' = parent
    BY <1>2, TreeKept DEF tree
<1>6. AliveInv'
    BY <1>2, <1>4, <1>5 DEF AliveInv, Left
<1>7. Holes' = Holes /\ Listed' = Listed
    BY <1>2, <1>5 DEF Holes, IsCard, Listed
<1>8. DisclosedInv'
  <2>1. disclosed \in [Nodes -> SUBSET Nodes]
      BY DEF DisclosedInv
  <2>2. \A c \in Nodes : parent[c] = 0 =>
            disclosed[c] = IF c < next /\ c \notin Opened /\ c \in alive
                           THEN Holes \cap {m \in Nodes : c \in PathTo[m]} ELSE {}
      BY DEF DisclosedInv, Left, IsCard, Subtree
  <2>3. \A c \in Nodes : parent'[c] = 0 =>
            disclosed'[c] = IF c < next' /\ c \notin Opened' /\ c \in alive'
                            THEN Holes' \cap {m \in Nodes : c \in PathTo'[m]} ELSE {}
      BY <1>2, <1>4, <1>5, <1>7, <2>2
  <2> QED
      BY <1>2, <2>1, <2>3 DEF DisclosedInv, Left, IsCard, Subtree
<1>9. ListInv'
  <2>1. withheld \in Seq(Nodes) /\ Len(withheld) \in Nat
      BY DEF ListInv
  <2>2. \A i \in 1..Len(withheld) : withheld[i] \in Nat /\ withheld[i] < next /\ i \in Nat
    <3>1. \A i \in 1..Len(withheld) : withheld[i] \in Holes
        BY DEF ListInv, Listed
    <3> QED
        BY <3>1, HolesLeft DEF Left, Nodes
  <2>3. ASSUME NEW k \in 1..(Len(open) + 1)
        PROVE  /\ open'[k].mark <= Len(withheld)
               /\ \A i \in 1..Len(withheld) : i > open'[k].mark <=> withheld[i] > open'[k].node
    <3>1. CASE k \in 1..Len(open)
        BY <1>1, <3>1 DEF ListInv
    <3>2. CASE k = Len(open) + 1
      <4>1. open'[k].mark = Len(withheld) /\ open'[k].node = next
          BY <1>1, <3>2
      <4>2. \A i \in 1..Len(withheld) : ~(i > Len(withheld)) /\ ~(withheld[i] > next)
          BY <1>3, <2>1, <2>2
      <4> QED
          BY <2>1, <4>1, <4>2
    <3> QED
        BY <1>1, <3>1, <3>2
  <2> QED
      BY <1>1, <1>2, <1>7, <2>1, <2>3 DEF ListInv
<1> QED
    BY <1>6, <1>8, <1>9

\* What is listed behind the mark of the node the walk leaves is what is missing
\* of its subtree.
LEMMA Marked ==
    ASSUME IInv, Leaving
    PROVE  /\ \A x \in Holes : x > Last.node <=> x \in Subtree(Last.node)
           /\ Last.mark \in Nat /\ Last.mark <= Len(withheld)
           /\ \A i \in 1..Len(withheld) :
                /\ withheld[i] \in Holes /\ withheld[i] # Last.node
                /\ i > Last.mark <=> withheld[i] > Last.node
PROOF
<1> USE DEF IInv
<1>1. /\ Len(open) \in 1..Len(open) /\ Last = open[Len(open)]
      /\ Last.node \in Nodes /\ Last.mark \in Nat /\ Last.node \in Opened
      /\ \A y \in Last.node..(next - 1) : Last.node \in PathTo[y]
    BY LastOpen DEF Leaving
<1>2. ASSUME NEW x \in Holes
      PROVE  x # Last.node /\ (x > Last.node <=> x \in Subtree(Last.node))
  <2>1. x \in Nodes /\ x \in Nat /\ x < next /\ x \notin Opened
      BY HolesLeft DEF Left, Nodes
  <2>2. x # Last.node
      BY <1>1, <2>1
  <2>3. Last.node \in Nat /\ next \in Nat
      BY <1>1 DEF Nodes, OpenInv
  <2>4. x > Last.node => x \in Subtree(Last.node)
    <3> SUFFICES ASSUME x > Last.node PROVE x \in Subtree(Last.node)
        OBVIOUS
    <3>1. x \in Last.node..(next - 1)
        BY <2>1, <2>3
    <3> QED
        BY <1>1, <2>1, <3>1 DEF Subtree
  <2>5. x \in Subtree(Last.node) => x > Last.node
    <3> SUFFICES ASSUME Last.node \in PathTo[x] PROVE x > Last.node
        BY DEF Subtree
    <3>1. Last.node <= x
        BY <2>1, PathBelow
    <3> QED
        BY <2>1, <2>2, <2>3, <3>1
  <2> QED
      BY <2>2, <2>4, <2>5
<1>3. \A i \in 1..Len(withheld) : withheld[i] \in Holes
    BY DEF ListInv, Listed
<1>4. /\ Last.mark <= Len(withheld)
      /\ \A i \in 1..Len(withheld) : i > Last.mark <=> withheld[i] > Last.node
    BY <1>1 DEF ListInv
<1> QED
    BY <1>1, <1>2, <1>3, <1>4

\* The entries of the nodes still open stay behind their marks.
LEMMA LeaveList ==
    ASSUME IInv, Leaving, UNCHANGED <<tree, next, withheld, alive>>,
           open' = SubSeq(open, 1, Len(open) - 1)
    PROVE  ListInv' /\ Holes' = Holes
PROOF
<1> USE DEF IInv
<1>1. \A k \in 1..Len(open') : open'[k] = open[k] /\ k \in 1..Len(open)
    BY LeaveOpens
<1>2. Holes' = Holes /\ Listed' = Listed
    BY DEF Holes, IsCard, Listed, tree
<1>3. ListInv'
    BY <1>1, <1>2 DEF ListInv
<1> QED
    BY <1>2, <1>3

\* A card is left with the holes inside it on its Disclosure, and nothing else
\* is written (recordDisclosure).
LEMMA LeaveNames ==
    ASSUME IInv, Leave \/ LeaveCard
    PROVE  DisclosedInv'
PROOF
<1> USE DEF IInv
<1> DEFINE n == Last.node
           names == {withheld[i] : i \in (Last.mark + 1)..Len(withheld)}
<1>1. /\ Leaving /\ UNCHANGED <<tree, next, withheld, alive>>
      /\ open' = SubSeq(open, 1, Len(open) - 1)
      /\ \/ ~IsCard(n) /\ disclosed' = disclosed
         \/ IsCard(n) /\ disclosed' = [disclosed EXCEPT ![n] = disclosed[n] \cup names]
    BY DEF Leave, LeaveCard, recordDisclosure
<1>2. Opened' = Opened \ {n} /\ PathTo' = PathTo /\ parent' = parent
    BY <1>1, LeaveOpens, TreeKept DEF tree
<1>3. Holes' = Holes
    BY <1>1, LeaveList
<1>4. n \in Nodes /\ n \in Opened /\ n < next /\ n \in alive
    BY <1>1, LastOpen DEF Leaving, AliveInv, Left
<1>5. names = {y \in Holes : n \in PathTo[y]}
  <2>1. /\ \A x \in Holes : x > n <=> x \in Subtree(n)
        /\ Last.mark \in Nat
        /\ \A i \in 1..Len(withheld) : i > Last.mark <=> withheld[i] > n
      BY <1>1, Marked
  <2>2. Len(withheld) \in Nat /\ Holes = {withheld[i] : i \in 1..Len(withheld)}
      BY DEF ListInv, Listed
  <2>3. \A i : i \in (Last.mark + 1)..Len(withheld) <=> i \in 1..Len(withheld) /\ i > Last.mark
      BY <2>1, <2>2
  <2>4. names = {x \in Holes : x > n}
      BY <2>1, <2>2, <2>3
  <2>5. \A x \in Holes : x \in Subtree(n) <=> n \in PathTo[x]
      BY DEF Subtree, Holes
  <2> QED
      BY <2>1, <2>4, <2>5
<1>6. names \subseteq Nodes
    BY <1>5 DEF Holes
<1> HIDE DEF n, names
<1>7. disclosed \in [Nodes -> SUBSET Nodes] /\ disclosed' \in [Nodes -> SUBSET Nodes]
    BY <1>1, <1>4, <1>6 DEF DisclosedInv
<1>8. \A c \in Nodes : parent[c] = 0 =>
          disclosed[c] = IF c < next /\ c \notin Opened /\ c \in alive
                         THEN {y \in Holes : c \in PathTo[y]} ELSE {}
  <2>1. \A c \in Nodes : Holes \cap Subtree(c) = {y \in Holes : c \in PathTo[y]}
      BY DEF Holes, Subtree
  <2> QED
      BY <2>1 DEF DisclosedInv, Left, IsCard
<1>9. ASSUME NEW c \in Nodes, parent[c] = 0
      PROVE  disclosed'[c] = IF c < next /\ c \notin Opened' /\ c \in alive
                             THEN {y \in Holes : c \in PathTo[y]} ELSE {}
  <2>1. CASE c = n
    <3>1. disclosed[n] = {} /\ disclosed'[n] = disclosed[n] \cup names
        BY <1>1, <1>4, <1>7, <1>8, <1>9, <2>1 DEF IsCard
    <3> QED
        BY <1>2, <1>4, <1>5, <2>1, <3>1
  <2>2. CASE c # n
    <3>1. disclosed'[c] = disclosed[c]
        BY <1>1, <1>7, <2>2
    <3> QED
        BY <1>2, <1>8, <1>9, <2>2, <3>1
  <2> QED
      BY <2>1, <2>2
<1>10. \A c \in Nodes : parent'[c] = 0 =>
          disclosed'[c] = IF c < next' /\ c \notin Opened' /\ c \in alive'
                          THEN {y \in Holes' : c \in PathTo'[y]} ELSE {}
    BY <1>1, <1>2, <1>3, <1>9
<1> QED
  <2>1. \A c \in Nodes : (Holes \cap {m \in Nodes : c \in PathTo[m]})' = {y \in Holes' : c \in PathTo'[y]}
      BY DEF Holes
  <2> QED
      BY <1>7, <1>10, <2>1 DEF DisclosedInv, Left, IsCard, Subtree

\* The node that collapses is one hole in place of those in it.
LEMMA CollapseHoles ==
    ASSUME IInv, Collapse
    PROVE  /\ Holes' = (Holes \ Subtree(Last.node)) \cup {Last.node}
           /\ Last.node \in Nodes /\ ~IsCard(Last.node)
           /\ Len(open) > 1
PROOF
<1> USE DEF IInv
<1> DEFINE n == Last.node
           m == Len(open)
<1>1. /\ Leaving /\ ~IsCard(n) /\ UNCHANGED tree /\ alive' = alive \ Subtree(n)
    BY DEF Collapse, Withhold
<1>2. /\ m \in Nat /\ m \in 1..m /\ Last = open[m] /\ n \in Nodes /\ n \in Opened
    BY <1>1, LastOpen DEF Leaving
<1>3. parent[n] = IF m = 1 THEN 0 ELSE open[m - 1].node
    BY <1>2 DEF OpenInv
<1>4. m > 1 /\ m - 1 \in 1..m
  <2>1. m # 1
      BY <1>1, <1>3 DEF IsCard
  <2>2. m \in Nat /\ m >= 1
      BY <1>2
  <2> HIDE DEF m
  <2> QED
      BY <2>1, <2>2
<1>5. parent[n] \in Opened /\ parent[n] \in Nodes
  <2>1. parent[n] \in Opened
      BY <1>3, <1>4 DEF Opened
  <2> QED
      BY <1>1, <2>1, LastOpen DEF Leaving
<1>6. n \in alive /\ parent[n] \in alive
    BY <1>2, <1>5 DEF AliveInv, Left
<1> QED
    BY <1>1, <1>2, <1>4, <1>6, HolesAfter

\* What was listed before the node was entered stays, and the node replaces what
\* was listed behind its mark.
LEMMA CollapseEntries ==
    ASSUME IInv, Collapse
    PROVE  /\ withheld' \in Seq(Nodes)
           /\ Len(withheld') = Last.mark + 1 /\ Last.mark \in Nat
           /\ withheld'[Last.mark + 1] = Last.node
           /\ \A i \in 1..Last.mark : /\ withheld'[i] = withheld[i]
                                      /\ i \in 1..Len(withheld)
                                      /\ withheld[i] \in Holes
                                      /\ withheld[i] < Last.node
           /\ \A x \in Holes : x < Last.node => \E i \in 1..Last.mark : x = withheld[i]
PROOF
<1> USE DEF IInv
<1> DEFINE n == Last.node
           b == Last.mark
           kept == SubSeq(withheld, 1, b)
<1>1. Leaving /\ withheld' = Append(kept, n) /\ n \in Nodes
    BY LastOpen DEF Collapse, Withhold, Leaving
<1>2. /\ b \in Nat /\ b <= Len(withheld)
      /\ \A i \in 1..Len(withheld) : /\ withheld[i] \in Holes /\ withheld[i] # n
                                     /\ i > b <=> withheld[i] > n
    BY <1>1, Marked
<1>3. withheld \in Seq(Nodes) /\ Len(withheld) \in Nat /\ b \in 0..Len(withheld)
    BY <1>2 DEF ListInv
<1>4. kept \in Seq(Nodes) /\ Len(kept) = b /\ \A i \in 1..b : kept[i] = withheld[i]
    BY <1>3, FrontOf
<1> HIDE DEF kept
<1>5. /\ withheld' \in Seq(Nodes) /\ Len(withheld') = b + 1 /\ withheld'[b + 1] = n
      /\ \A i \in 1..b : withheld'[i] = withheld[i]
    BY <1>1, <1>2, <1>4
<1>6. n \in Nat /\ \A i \in 1..Len(withheld) : withheld[i] \in Nat
    BY <1>1, <1>2, HolesLeft DEF Nodes
<1> HIDE DEF n, b
<1>7. ASSUME NEW i \in 1..b PROVE i \in 1..Len(withheld) /\ withheld[i] < n
  <2>1. i \in 1..Len(withheld) /\ ~(i > b)
      BY <1>2, <1>3
  <2> QED
      BY <1>2, <1>6, <2>1
<1>8. ASSUME NEW x \in Holes, x < n PROVE \E i \in 1..b : x = withheld[i]
  <2>1. PICK i \in 1..Len(withheld) : x = withheld[i]
      BY DEF ListInv, Listed
  <2>2. i \in 1..b
      BY <1>2, <1>3, <1>6, <1>8, <2>1
  <2> QED
      BY <2>1, <2>2
<1> QED
    BY <1>2, <1>5, <1>7, <1>8 DEF n, b

\* A node that collapses leaves a list of the holes in document order.
LEMMA CollapseList ==
    ASSUME IInv, Collapse
    PROVE  ListInv'
PROOF
<1> USE DEF IInv
<1> DEFINE n == Last.node
           b == Last.mark
<1>1. /\ Leaving /\ UNCHANGED <<tree, next>> /\ open' = SubSeq(open, 1, Len(open) - 1)
    BY DEF Collapse
<1>2. /\ withheld' \in Seq(Nodes) /\ Len(withheld') = b + 1 /\ b \in Nat
      /\ withheld'[b + 1] = n
      /\ \A i \in 1..b : /\ withheld'[i] = withheld[i] /\ i \in 1..Len(withheld)
                         /\ withheld[i] \in Holes /\ withheld[i] < n
      /\ \A x \in Holes : x < n => \E i \in 1..b : x = withheld[i]
    BY CollapseEntries
<1>3. n \in Nodes /\ n \in Nat /\ Holes' = (Holes \ Subtree(n)) \cup {n}
    BY CollapseHoles DEF Nodes
<1>4. \A x \in Holes : x \in Nat /\ x # n /\ (x > n <=> x \in Subtree(n))
  <2>1. \A x \in Holes : x > n <=> x \in Subtree(n)
      BY <1>1, Marked
  <2>2. \A x \in Holes : \E i \in 1..Len(withheld) : x = withheld[i]
      BY DEF ListInv, Listed
  <2>3. \A i \in 1..Len(withheld) : withheld[i] # n
      BY <1>1, Marked
  <2> QED
      BY <2>1, <2>2, <2>3, HolesLeft DEF Nodes
<1>5. ASSUME NEW k \in 1..Len(open')
      PROVE  /\ open'[k] = open[k] /\ k \in 1..Len(open)
             /\ open[k].node < n /\ open[k].node \in Nat /\ open[k].mark \in Nat
  <2>1. open'[k] = open[k] /\ open[k].node < n /\ k \in 1..Len(open)
      BY <1>1, LeaveOpens
  <2>2. open[k] \in Frames
      BY <2>1 DEF OpenInv
  <2> QED
      BY <2>1, <2>2 DEF Frames, Nodes
<1>6. ASSUME NEW k \in 1..Len(open') PROVE open[k].mark <= b
  <2> SUFFICES ASSUME open[k].mark > b PROVE FALSE
      BY <1>2, <1>5
  <2>1. /\ open[k].mark <= Len(withheld)
        /\ \A i \in 1..Len(withheld) : i > open[k].mark <=> withheld[i] > open[k].node
      BY <1>5 DEF ListInv
  <2>2. Len(withheld) \in Nat /\ b \in Nat /\ open[k].mark \in Nat
      BY <1>2, <1>5 DEF ListInv
  <2> HIDE DEF b
  <2>3. open[k].mark \in 1..Len(withheld)
      BY <1>6, <2>1, <2>2
  <2>4. withheld[open[k].mark] > n /\ withheld[open[k].mark] \in Nat
      BY <1>1, <1>6, <2>3, Marked, HolesLeft DEF Nodes, b
  <2>5. withheld[open[k].mark] > open[k].node
      BY <1>3, <1>5, <2>4
  <2> QED
      BY <1>5, <2>1, <2>3, <2>5
<1> HIDE DEF n, b
<1>7. \A i \in 1..(b + 1) : i \in Nat /\ (i \in 1..b \/ i = b + 1)
    BY <1>2
<1>8. \A i \in 1..b : withheld[i] \in Nat
    BY <1>2, <1>4
<1>9. \A i, j \in 1..(b + 1) : i < j => withheld'[i] < withheld'[j]
  <2> SUFFICES ASSUME NEW i \in 1..(b + 1), NEW j \in 1..(b + 1), i < j
               PROVE  withheld'[i] < withheld'[j]
      OBVIOUS
  <2>1. i \in 1..b
      BY <1>2
  <2>2. CASE j \in 1..b
      BY <1>2, <2>1, <2>2 DEF ListInv
  <2>3. CASE j = b + 1
      BY <1>2, <2>1, <2>3
  <2> QED
      BY <1>7, <2>2, <2>3
<1>10. Listed' = Holes'
  <2>1. Listed' = {withheld'[i] : i \in 1..(b + 1)} /\ b + 1 \in 1..(b + 1)
        /\ \A i \in 1..b : i \in 1..(b + 1)
      BY <1>2 DEF Listed
  <2>2. ASSUME NEW i \in 1..(b + 1) PROVE withheld'[i] \in Holes'
    <3>1. CASE i \in 1..b
      <4>1. ~(withheld[i] > n)
          BY <1>2, <1>3, <1>8, <3>1
      <4> QED
          BY <1>2, <1>3, <1>4, <3>1, <4>1
    <3>2. CASE i = b + 1
        BY <1>2, <1>3, <3>2
    <3> QED
        BY <1>7, <3>1, <3>2
  <2>3. ASSUME NEW x \in Holes' PROVE \E i \in 1..(b + 1) : x = withheld'[i]
    <3>1. CASE x = n
        BY <1>2, <2>1, <3>1
    <3>2. CASE x \in Holes /\ x \notin Subtree(n)
      <4>1. x < n
          BY <1>3, <1>4, <3>2
      <4>2. PICK i \in 1..b : x = withheld[i]
          BY <1>2, <3>2, <4>1
      <4> QED
          BY <1>2, <2>1, <4>2
    <3> QED
        BY <1>3, <3>1, <3>2
  <2> QED
      BY <2>1, <2>2, <2>3
<1>11. ASSUME NEW k \in 1..Len(open')
       PROVE  /\ open'[k].mark <= b + 1
              /\ \A i \in 1..(b + 1) : i > open'[k].mark <=> withheld'[i] > open'[k].node
  <2>1. /\ open'[k] = open[k] /\ open[k].node < n /\ open[k].node \in Nat
        /\ open[k].mark \in Nat /\ open[k].mark <= b
      BY <1>5, <1>6
  <2>2. \A i \in 1..b : i > open[k].mark <=> withheld[i] > open[k].node
      BY <1>2, <1>5 DEF ListInv
  <2>3. b + 1 > open[k].mark /\ n > open[k].node /\ open[k].mark <= b + 1
      BY <1>2, <1>3, <2>1
  <2> QED
      BY <1>2, <1>7, <2>1, <2>2, <2>3
<1> QED
    BY <1>2, <1>9, <1>10, <1>11 DEF ListInv

\* A node that collapses is inside a card still open: the cards the walk is done
\* with keep their Disclosures.
LEMMA CollapseDisclosed ==
    ASSUME IInv, Collapse
    PROVE  DisclosedInv'
PROOF
<1> USE DEF IInv
<1> DEFINE n == Last.node
<1>1. /\ Leaving /\ UNCHANGED <<tree, next, disclosed>> /\ alive' = alive \ Subtree(n)
      /\ open' = SubSeq(open, 1, Len(open) - 1)
    BY DEF Collapse, Withhold
<1>2. Opened' = Opened \ {n} /\ PathTo' = PathTo /\ parent' = parent
    BY <1>1, LeaveOpens, TreeKept DEF tree
<1>3. /\ n \in Nodes /\ ~IsCard(n) /\ Holes' = (Holes \ Subtree(n)) \cup {n}
    BY CollapseHoles
<1>4. PathTo[n] \subseteq Opened
  <2>1. Len(open) \in 1..Len(open) /\ Last = open[Len(open)]
      BY <1>1, LastOpen DEF Leaving
  <2> QED
      BY <2>1 DEF OpenInv
<1> HIDE DEF n
<1>5. ASSUME NEW c \in Nodes, parent[c] = 0
      PROVE  c # n /\ c \notin Subtree(n) /\ (c \in PathTo[n] => c \in Opened)
  <2>1. PathTo[c] = {c}
      BY <1>5, Path
  <2>2. c # n
      BY <1>3, <1>5 DEF IsCard
  <2> QED
      BY <1>4, <2>1, <2>2 DEF Subtree
<1>6. ASSUME NEW c \in Nodes, parent[c] = 0, c < next, c \notin Opened
      PROVE  {y \in Holes' : c \in PathTo[y]} = {y \in Holes : c \in PathTo[y]}
  <2>1. c # n /\ c \notin Subtree(n) /\ c \notin PathTo[n]
      BY <1>5, <1>6
  <2>2. ASSUME NEW y \in Nodes, c \in PathTo[y], n \in PathTo[y] PROVE FALSE
    <3>1. c \in Nat /\ n \in Nat /\ y \in Nat /\ c <= y /\ n <= y
        BY <1>3, <2>2, PathBelow DEF Nodes
    <3>2. CASE c <= n
        BY <1>3, <2>1, <2>2, <3>1, <3>2, Contiguous
    <3>3. CASE n <= c
        BY <1>3, <2>1, <2>2, <3>1, <3>3, Contiguous DEF Subtree
    <3> QED
        BY <3>1, <3>2, <3>3
  <2>3. \A y \in Holes : c \in PathTo[y] => y \notin Subtree(n)
      BY <2>2 DEF Subtree
  <2> QED
      BY <1>3, <2>1, <2>3
<1>7. \A c \in Nodes : parent[c] = 0 =>
          disclosed[c] = IF c < next /\ c \notin Opened /\ c \in alive
                         THEN {y \in Holes : c \in PathTo[y]} ELSE {}
  <2>1. \A c \in Nodes : Holes \cap Subtree(c) = {y \in Holes : c \in PathTo[y]}
      BY DEF Holes, Subtree
  <2> QED
      BY <2>1 DEF DisclosedInv, Left, IsCard
<1>8. disclosed \in [Nodes -> SUBSET Nodes]
    BY DEF DisclosedInv
<1>9. \A c \in Nodes : parent'[c] = 0 =>
          disclosed'[c] = IF c < next' /\ c \notin Opened' /\ c \in alive'
                          THEN {y \in Holes' : c \in PathTo'[y]} ELSE {}
  <2> SUFFICES ASSUME NEW c \in Nodes, parent[c] = 0
               PROVE  disclosed[c] = IF c < next /\ c \notin Opened' /\ c \in alive'
                                     THEN {y \in Holes' : c \in PathTo[y]} ELSE {}
      BY <1>1, <1>2
  <2>1. (c \in alive' <=> c \in alive) /\ (c \in Opened' <=> c \in Opened)
      BY <1>1, <1>2, <1>5
  <2>2. c < next /\ c \notin Opened =>
            {y \in Holes' : c \in PathTo[y]} = {y \in Holes : c \in PathTo[y]}
      BY <1>6
  <2> QED
      BY <1>7, <2>1, <2>2
<1> QED
  <2>1. \A c \in Nodes : (Holes \cap {m \in Nodes : c \in PathTo[m]})' = {y \in Holes' : c \in PathTo'[y]}
      BY DEF Holes
  <2> QED
      BY <1>1, <1>8, <1>9, <2>1 DEF DisclosedInv, Left, IsCard, Subtree

--------------------------------------------------------------------------------
(* The walk's invariant.                                                    *)

\* The walk is in its phase until it has passed every node.
LEMMA WalkPhase ==
    ASSUME Tree, PhaseInv, UNCHANGED <<tree, phase>>, phase = "walk"
    PROVE  Tree' /\ PhaseInv'
PROOF
<1>1. Tree' /\ \A n \in Nodes : Below(n)' <=> Below(n)
    BY TreeKept
<1> QED
    BY <1>1 DEF PhaseInv

\* The validated tree is walked from its first node.
LEMMA ValidateKeeps ==
    ASSUME IInv, validate
    PROVE  IInv'
PROOF
<1> USE DEF IInv
<1>1. /\ phase = "validate" /\ UNCHANGED <<tree, walk>>
      /\ phase' = IF \E n \in Nodes : Below(n) THEN "invalid" ELSE "walk"
    BY DEF validate
<1>2. UNCHANGED <<tree, next, open, withheld, alive, disclosed>>
    BY <1>1 DEF walk
<1>3. /\ Tree' /\ PathTo' = PathTo /\ Lives' = Lives /\ Deserving' = Deserving
      /\ \A n \in Nodes : Below(n)' <=> Below(n)
    BY <1>1, TreeKept
<1>4. Opened' = Opened /\ Listed' = Listed /\ Holes' = Holes /\ parent' = parent
    BY <1>2 DEF Opened, Listed, Holes, IsCard, tree
<1>5. PhaseInv'
    BY <1>1, <1>2, <1>3 DEF PhaseInv
<1>6. OpenInv'
    BY <1>2, <1>3, <1>4 DEF OpenInv
<1>7. AliveInv'
    BY <1>2, <1>3, <1>4 DEF AliveInv, Left
<1>8. ListInv'
    BY <1>2, <1>4 DEF ListInv
<1>9. DisclosedInv'
    BY <1>2, <1>3, <1>4 DEF DisclosedInv, Left, IsCard, Subtree
<1> QED
    BY <1>3, <1>5, <1>6, <1>7, <1>8, <1>9

\* The step is over when nothing is open and nothing is to come.
LEMMA FinishKeeps ==
    ASSUME IInv, Finish
    PROVE  IInv'
PROOF
<1> USE DEF IInv
<1>1. /\ phase = "walk" /\ UNCHANGED <<tree, walk>> /\ next > Size /\ open = <<>>
      /\ phase' = IF unary /\ 1 \notin alive THEN "gone" ELSE "served"
    BY DEF Finish
<1>2. UNCHANGED <<tree, next, open, withheld, alive, disclosed>>
    BY <1>1 DEF walk
<1>3. /\ Tree' /\ PathTo' = PathTo /\ Lives' = Lives /\ Deserving' = Deserving
      /\ \A n \in Nodes : Below(n)' <=> Below(n)
    BY <1>1, TreeKept
<1>4. Opened' = Opened /\ Listed' = Listed /\ Holes' = Holes /\ parent' = parent
      /\ unary' = unary
    BY <1>2 DEF Opened, Listed, Holes, IsCard, tree
<1>5. next = Size + 1
    BY <1>1, CardAssumption DEF OpenInv
<1>6. PhaseInv'
    BY <1>1, <1>2, <1>3, <1>4, <1>5 DEF PhaseInv
<1>7. OpenInv'
    BY <1>2, <1>3, <1>4 DEF OpenInv
<1>8. AliveInv'
    BY <1>2, <1>3, <1>4 DEF AliveInv, Left
<1>9. ListInv'
    BY <1>2, <1>4 DEF ListInv
<1>10. DisclosedInv'
    BY <1>2, <1>3, <1>4 DEF DisclosedInv, Left, IsCard, Subtree
<1> QED
    BY <1>3, <1>6, <1>7, <1>8, <1>9, <1>10

\* The walk starts with every node there and none passed.
LEMMA InitKeeps ==
    ASSUME Init
    PROVE  IInv
PROOF
<1> USE DEF Init
<1>1. Tree
    BY DEF Tree
<1>2. Opened = {} /\ Listed = {} /\ Len(open) = 0 /\ Len(withheld) = 0
    BY DEF Opened, Listed
<1>3. Holes = {}
    BY DEF Holes
<1>4. \A x \in Nodes : ~Left(x)
    BY DEF Left, Nodes
<1>5. PhaseInv
    BY DEF PhaseInv
<1>6. OpenInv
  <2>1. next \in 1..(Size + 1) /\ open \in Seq(Frames)
      BY CardAssumption
  <2>2. ASSUME NEW m \in next..Size, NEW x \in PathTo[m] PROVE ~(x < next)
    <3>1. m \in Nodes
        BY <2>2 DEF Nodes
    <3>2. x \in 1..m
        BY <1>1, <3>1, PathBelow
    <3> QED
        BY <3>2
  <2> QED
      BY <1>2, <2>1, <2>2 DEF OpenInv
<1>7. AliveInv
    BY <1>4 DEF AliveInv
<1>8. ListInv
    BY <1>2, <1>3 DEF ListInv
<1>9. DisclosedInv
    BY <1>4 DEF DisclosedInv
<1> QED
    BY <1>1, <1>5, <1>6, <1>7, <1>8, <1>9 DEF IInv

\* No step of projectCards breaks the walk.
LEMMA StepKeeps ==
    ASSUME IInv, [Next]_vars
    PROVE  IInv'
PROOF
<1>1. CASE validate
    BY <1>1, ValidateKeeps
<1>2. CASE Enter
  <2>1. UNCHANGED <<tree, phase>> /\ phase = "walk"
      BY <1>2 DEF Enter, Entering
  <2> QED
      BY <1>2, <2>1, WalkPhase, EnterOpens, EnterNames DEF IInv
<1>3. CASE EnterWithheld
  <2>1. UNCHANGED <<tree, phase>> /\ phase = "walk"
      BY <1>3 DEF EnterWithheld, Entering
  <2> QED
      BY <1>3, <2>1, WalkPhase, SkipOpens, SkipAlive, SkipList, SkipDisclosed DEF IInv
<1>4. CASE Leave \/ LeaveCard
  <2>1. /\ UNCHANGED <<tree, phase, next, withheld, alive>> /\ phase = "walk" /\ Leaving
        /\ open' = SubSeq(open, 1, Len(open) - 1)
        /\ IsCard(Last.node) \/ ~Collapses(Last.node)
      BY <1>4 DEF Leave, LeaveCard, Leaving
  <2>2. Tree' /\ PhaseInv'
      BY <2>1, WalkPhase DEF IInv
  <2>3. OpenInv' /\ AliveInv' /\ ListInv'
      BY <2>1, LeaveOpens, LeaveAlive, LeaveList
  <2> QED
      BY <1>4, <2>2, <2>3, LeaveNames DEF IInv
<1>5. CASE Collapse
  <2>1. /\ UNCHANGED <<tree, phase, next>> /\ phase = "walk" /\ Leaving
        /\ open' = SubSeq(open, 1, Len(open) - 1)
        /\ alive' = alive \ Subtree(Last.node)
        /\ Collapses(Last.node) /\ ~IsCard(Last.node)
      BY <1>5 DEF Collapse, Withhold, Leaving
  <2>2. Tree' /\ PhaseInv'
      BY <2>1, WalkPhase DEF IInv
  <2>3. OpenInv' /\ AliveInv'
      BY <2>1, LeaveOpens, LeaveAlive
  <2> QED
      BY <1>5, <2>2, <2>3, CollapseList, CollapseDisclosed DEF IInv
<1>6. CASE Finish
    BY <1>6, FinishKeeps
<1>7. CASE UNCHANGED vars
  <2>1. UNCHANGED <<tree, phase, next, open, withheld, alive, disclosed>>
      BY <1>7 DEF vars, walk
  <2>2. /\ Tree' /\ PathTo' = PathTo /\ Lives' = Lives /\ Deserving' = Deserving
        /\ \A n \in Nodes : Below(n)' <=> Below(n)
      BY <2>1, TreeKept DEF IInv
  <2>3. Opened' = Opened /\ Listed' = Listed /\ Holes' = Holes /\ parent' = parent
        /\ unary' = unary
      BY <2>1 DEF Opened, Listed, Holes, IsCard, tree
  <2>4. PhaseInv'
      BY <2>1, <2>2, <2>3 DEF IInv, PhaseInv
  <2>5. OpenInv'
      BY <2>1, <2>2, <2>3 DEF IInv, OpenInv
  <2>6. AliveInv' /\ ListInv'
      BY <2>1, <2>2, <2>3 DEF IInv, AliveInv, ListInv, Left
  <2>7. DisclosedInv'
      BY <2>1, <2>2, <2>3 DEF IInv, DisclosedInv, Left, IsCard, Subtree
  <2> QED
      BY <2>2, <2>4, <2>5, <2>6, <2>7 DEF IInv
<1> QED
    BY <1>1, <1>2, <1>3, <1>4, <1>5, <1>6, <1>7 DEF Next

\* At every point of the walk the nodes it is done with are as the reader will
\* get them, the rest is untouched, the list names the holes in document order
\* and each card it is done with the holes of its own (projectCard,
\* projectNode, recordDisclosure).
THEOREM CardInvariant == Spec => []IInv
PROOF
<1> QED
    BY InitKeeps, StepKeeps, PTL DEF Spec

\* A card with a label below what encloses it is refused with nothing removed,
\* and no other card is (validate).
THEOREM RefusedBeforeRemoval == Spec => []RefusedWhole
PROOF
<1>1. ASSUME IInv PROVE RefusedWhole
  <2>1. (\E n \in Nodes : Below(n)) <=>
            \E n \in Nodes : label[n] = Unreadable \/ (HasLabel(n) /\ label[n] # Needs(n))
      BY <1>1, BelowIsLoose DEF IInv
  <2>2. phase # "validate" => ((phase = "invalid") <=> \E n \in Nodes : Below(n))
      BY <1>1 DEF IInv, PhaseInv
  <2>3. phase = "invalid" => alive = Nodes /\ withheld = <<>>
      BY <1>1 DEF IInv, PhaseInv
  <2> QED
      BY <2>1, <2>2, <2>3 DEF RefusedWhole
<1> QED
    BY <1>1, CardInvariant, PTL

\* What is served is every card and every innermost element whose path the
\* reader reaches, with what encloses them, and the unary answer is gone when
\* its card is: comparing one label at a time asks what the whole path asks
\* (projectNode).
THEOREM ServedAsReached == Spec => []ServedIsWhatIsReached
PROOF
<1>1. ASSUME IInv PROVE ServedIsWhatIsReached
  <2> USE <1>1 DEF IInv
  <2> DEFINE reached == {m \in Nodes : Deserves(m) /\ (IsCard(m) \/ Children(m) = {})}
             served == UNION {PathTo[n] : n \in reached}
  <2> SUFFICES ASSUME phase \in {"served", "gone"}
               PROVE  /\ alive = served
                      /\ (phase = "gone") = (unary /\ ~Deserves(1))
      BY DEF ServedIsWhatIsReached
  <2>1. /\ next = Size + 1 /\ open = <<>>
        /\ phase = "gone" <=> unary /\ 1 \notin alive
      BY DEF PhaseInv
  <2>2. \A x \in Nodes : Left(x)
    <3>1. Opened = {}
        BY <2>1 DEF Opened
    <3> QED
        BY <2>1, <3>1, CardAssumption DEF Left, Nodes
  <2>3. alive = Lives
      BY <2>2 DEF AliveInv, Lives
  <2>4. Lives = served
    <3>1. Lives = {x \in Nodes : \E m \in reached : x \in PathTo[m]}
        BY DEF Lives, Subtree
    <3>2. \A m \in reached : PathTo[m] \subseteq Nodes
        BY PathWithin
    <3> QED
        BY <3>1, <3>2
  <2>5. 1 \in Nodes /\ 1 \in PathTo[1] /\ parent[1] = 0
    <3>1. 1 \in Nodes
        BY CardAssumption DEF Nodes
    <3>2. parent[1] \in Nat /\ parent[1] < 1
        BY <3>1, Parents
    <3> QED
        BY <3>1, <3>2, PathSelf
  <2>6. 1 \in alive <=> Deserves(1)
    <3>1. Deserves(1) => 1 \in Lives
        BY <2>5 DEF Lives, Subtree, IsCard
    <3>2. 1 \in Lives => Deserves(1)
        BY <2>5, LivesUp
    <3> QED
        BY <2>3, <3>1, <3>2
  <2>7. (phase = "gone") <=> (unary /\ ~Deserves(1))
      BY <2>1, <2>6
  <2>8. (phase = "gone") \in BOOLEAN /\ (unary /\ ~Deserves(1)) \in BOOLEAN
      OBVIOUS
  <2> QED
      BY <2>3, <2>4, <2>7, <2>8
<1> QED
    BY <1>1, CardInvariant, PTL

\* A list in document order names each of its nodes once.
LEMMA ListedOnce ==
    ASSUME ListInv
    PROVE  Len(withheld) = Cardinality(Listed)
PROOF
<1> DEFINE l == Len(withheld)
           D == 1..l
           f == [i \in D |-> withheld[i]]
<1>1. l \in Nat /\ \A i \in D : withheld[i] \in Nat
  <2>1. withheld \in Seq(Nodes) /\ Nodes \subseteq Nat
      BY DEF ListInv, Nodes
  <2>2. l \in Nat /\ \A i \in D : withheld[i] \in Nodes
      BY <2>1
  <2> QED
      BY <2>1, <2>2
<1>2. \A i, j \in D : withheld[i] = withheld[j] => i = j
  <2> SUFFICES ASSUME NEW i \in D, NEW j \in D, withheld[i] = withheld[j], i # j
               PROVE  FALSE
      OBVIOUS
  <2>1. i < j \/ j < i
    <3>1. i \in Nat /\ j \in Nat
        BY <1>1
    <3> HIDE DEF D, l
    <3> QED
        BY <3>1
  <2>2. withheld[i] < withheld[j] \/ withheld[j] < withheld[i]
      BY <2>1 DEF ListInv
  <2> QED
      BY <1>1, <2>2
<1>3. f \in Bijection(D, Listed)
  <2>1. f \in [D -> Listed]
      BY DEF Listed
  <2>2. \A i, j \in D : f[i] = f[j] => i = j
      BY <1>2
  <2>3. \A x \in Listed : \E i \in D : f[i] = x
      BY DEF Listed
  <2> HIDE DEF f, D
  <2> QED
      BY <2>1, <2>2, <2>3, Zenon DEF Bijection, Injection, Surjection, IsInjective
<1>4. IsFiniteSet(D) /\ Cardinality(D) = l
  <2> HIDE DEF l
  <2>1. l \in Int /\ 1 \in Int /\ (IF 1 > l THEN 0 ELSE l - 1 + 1) = l
      BY <1>1
  <2> QED
      BY <2>1, FS_Interval
<1> HIDE DEF f, D
<1>5. ExistsBijection(D, Listed)
    BY <1>3 DEF ExistsBijection
<1>6. Cardinality(Listed) = Cardinality(D)
    BY <1>4, <1>5, FS_Bijection
<1> QED
    BY <1>4, <1>6

\* Every hole is accounted for once: the list names the outermost nodes removed,
\* a surviving card's Disclosure those inside it (note, recordDisclosure).
THEOREM HolesNamed == Spec => []EveryHoleIsNamed
PROOF
<1>1. ASSUME IInv PROVE EveryHoleIsNamed
  <2> USE <1>1 DEF IInv
  <2> SUFFICES ASSUME phase \in {"served", "gone"}
               PROVE  /\ Listed = Holes
                      /\ Len(withheld) = Cardinality(Holes)
                      /\ \A c \in Nodes : IsCard(c) =>
                            disclosed[c] = {n \in Holes : c \in alive /\ c \in PathTo[n]}
      BY DEF EveryHoleIsNamed, Listed, Holes
  <2>1. next = Size + 1 /\ open = <<>>
      BY DEF PhaseInv
  <2>2. \A x \in Nodes : Left(x)
    <3>1. Opened = {}
        BY <2>1 DEF Opened
    <3> QED
        BY <2>1, <3>1, CardAssumption DEF Left, Nodes
  <2>3. Listed = Holes /\ Len(withheld) = Cardinality(Holes)
      BY ListedOnce DEF ListInv
  <2>4. ASSUME NEW c \in Nodes, IsCard(c)
        PROVE  disclosed[c] = {n \in Holes : c \in alive /\ c \in PathTo[n]}
    <3>1. disclosed[c] = IF c \in alive THEN Holes \cap Subtree(c) ELSE {}
        BY <2>2, <2>4 DEF DisclosedInv
    <3>2. Holes \cap Subtree(c) = {n \in Holes : c \in PathTo[n]}
        BY DEF Subtree, Holes
    <3> QED
        BY <3>1, <3>2
  <2> QED
      BY <2>3, <2>4
<1> QED
    BY <1>1, CardInvariant, PTL
================================================================================
