---------------------------- MODULE CommonLemmas ----------------------------
(***************************************************************************)
(* Lemmas the proofs of several components rest on.  About containers and   *)
(* blocks: what the classes of a container are, how many there are, what is *)
(* known of the containers an operation is given, and which block of P + Q  *)
(* an object belongs to.  About links that never climb to a larger id, as   *)
(* in union_find.h: every node reaches one root.  And two facts about       *)
(* natural numbers the library states with an operator for a parameter.     *)
(***************************************************************************)
EXTENDS PartitionLattice, FiniteSetTheorems, TLAPS

(* The class of an object.                                                  *)
Cell(d, x) == Group(d, d[x].id)

(* The blocks of a container are the classes of its objects.                *)
LEMMA BlocksAreCells ==
    ASSUME NEW d
    PROVE  /\ Blocks(d) = {Cell(d, x) : x \in DOMAIN d}
           /\ \A x \in DOMAIN d : Cell(d, x) \in Blocks(d)
           /\ \A b \in Blocks(d) : \E x \in DOMAIN d : b = Cell(d, x)
           /\ UNION Blocks(d) = DOMAIN d
           /\ \A x \in DOMAIN d : x \in Cell(d, x) /\ Cell(d, x) \subseteq DOMAIN d
<1>1. \A x \in DOMAIN d : x \in Cell(d, x) /\ Cell(d, x) \subseteq DOMAIN d
  BY DEF Cell, Group
<1>2. Blocks(d) = {Cell(d, x) : x \in DOMAIN d}
  BY DEF Blocks, ClassIds, Cell
<1>3. UNION Blocks(d) = DOMAIN d
  BY <1>1, <1>2
<1> QED
  BY <1>1, <1>2, <1>3

(* Two classes are the same or have no object in common.                    *)
LEMMA CellsDisjoint ==
    ASSUME NEW d, NEW x \in DOMAIN d, NEW y \in DOMAIN d
    PROVE  /\ y \in Cell(d, x) <=> Together(d, x, y)
           /\ Cell(d, x) = Cell(d, y) <=> Together(d, x, y)
           /\ Cell(d, x) \cap Cell(d, y) # {} => Together(d, x, y)
BY DEF Cell, Group, Together

(* There are as many blocks as class ids.                                   *)
LEMMA BlocksCounted ==
    ASSUME NEW d, IsFiniteSet(DOMAIN d)
    PROVE  /\ IsFiniteSet(ClassIds(d))
           /\ Cardinality(ClassIds(d)) <= Cardinality(DOMAIN d)
           /\ IsFiniteSet(Blocks(d))
           /\ Cardinality(Blocks(d)) = Cardinality(ClassIds(d))
<1> DEFINE g == [x \in DOMAIN d |-> d[x].id]
           f == [c \in ClassIds(d) |-> Group(d, c)]
<1>1. g \in Surjection(DOMAIN d, ClassIds(d))
  BY DEF Surjection, ClassIds
<1>2. IsFiniteSet(ClassIds(d)) /\ Cardinality(ClassIds(d)) <= Cardinality(DOMAIN d)
  BY <1>1, FS_Surjection
<1>3. f \in Bijection(ClassIds(d), Blocks(d))
  <2>1. f \in [ClassIds(d) -> Blocks(d)]
        /\ \A b \in Blocks(d) : \E c \in ClassIds(d) : f[c] = b
    BY DEF Blocks
  <2>2. ASSUME NEW c1 \in ClassIds(d), NEW c2 \in ClassIds(d), f[c1] = f[c2]
        PROVE  c1 = c2
    BY <2>2 DEF ClassIds, Group
  <2> QED
    BY <2>1, <2>2 DEF Bijection, Injection, IsInjective, Surjection
<1> QED
  BY <1>2, <1>3, FS_Bijection DEF ExistsBijection

(* A finite set with two members has at least two.                          *)
LEMMA AtLeastTwo ==
    ASSUME NEW M, IsFiniteSet(M), NEW b \in M, NEW c \in M, b # c
    PROVE  Cardinality(M) >= 2
<1>1. Cardinality({b, c}) = 2
  <2>1. IsFiniteSet({b}) /\ Cardinality({b}) = 1
    BY FS_Singleton
  <2>2. {b, c} = {b} \cup {c} /\ c \notin {b}
    OBVIOUS
  <2> QED
    BY <2>1, <2>2, FS_AddElement
<1>2. {b, c} \in SUBSET M
  OBVIOUS
<1>3. Cardinality({b, c}) <= Cardinality(M) /\ Cardinality(M) \in Nat
  BY <1>2, FS_Subset, FS_CardinalityType
<1> QED
  BY <1>1, <1>3

-----------------------------------------------------------------------------
(* The class an operation creates for an object has the object's name.      *)
LEMMA NewClassId == ASSUME NEW x PROVE NewClass(x).id = x
BY DEF NewClass, Handle

(* Unsigned arithmetic is plain arithmetic below the width.                 *)
LEMMA WordSmall ==
    ASSUME NEW W \in Nat, NEW k \in Int, 0 <= k, k < W PROVE k % W = k
OBVIOUS

(* A container of an operand: each class is named by its smallest member,   *)
(* and its members share the handle of that name.                           *)
LEMMA CanonicalShape ==
    ASSUME NEW S, NEW d \in Canonical(S)
    PROVE  /\ DOMAIN d = S
           /\ \A x \in S :
                 /\ d[x].id \in S
                 /\ d[x].id <= x
                 /\ d[d[x].id] = d[x]
                 /\ d[x] = Handle(d[x].id, d[x].id)
<1>1. PICK f \in [S -> S] :
        /\ \A x \in S : f[x] <= x /\ f[f[x]] = f[x]
        /\ d = [x \in S |-> Handle(f[x], f[x])]
  BY DEF Canonical
<1> QED
  BY <1>1 DEF Handle

-----------------------------------------------------------------------------
(* A non-empty set of natural numbers has a least element.                  *)
LEMMA LeastElement ==
    ASSUME NEW T \in SUBSET Nat, T # {}
    PROVE  \E m \in T : \A n \in T : m <= n
<1> DEFINE I == {0..n : n \in T}
           R == StrictSubsetOrdering(Nat)
           F == FiniteSubsetsOf(Nat)
<1>1. I \subseteq F /\ I # {}
  <2>1. ASSUME NEW n \in T PROVE 0..n \in F
    <3>1. n \in Int /\ 0 \in Int /\ 0..n \subseteq Nat
      OBVIOUS
    <3>2. IsFiniteSet(0..n)
      BY <3>1, FS_Interval
    <3> QED
      BY <3>1, <3>2 DEF FiniteSubsetsOf
  <2> QED
    BY <2>1
<1>2. IsWellFoundedOn(R, F)
  BY FS_StrictSubsetOrderingWellFounded
<1>3. \E s \in I : \A t \in I : ~(<<t, s>> \in R)
  <2> HIDE DEF I, R, F
  <2> QED
    BY <1>1, <1>2, WFMin
<1>4. PICK m \in T : \A t \in I : ~(<<t, 0..m>> \in R)
  BY <1>3
<1>5. ASSUME NEW n \in T, n < m PROVE FALSE
  <2>1. 0..n \subseteq 0..m /\ 0..n # 0..m
    <3>1. m \in 0..m /\ m \notin 0..n
      BY <1>5
    <3> QED
      BY <1>5, <3>1
  <2>2. <<0..n, 0..m>> \in R
    BY <2>1 DEF StrictSubsetOrdering
  <2> QED
    BY <1>4, <2>2
<1> QED
  BY <1>5

-----------------------------------------------------------------------------
(* The objects that no closed set separates from x.                         *)
Inseparable(B, x) == {y \in UNION B : \A S \in Closed(B) : x \in S => y \in S}

(* P + Q has a block that holds every object inseparable from x, and no     *)
(* other: sets that no closed set cuts lie within a block of the join.      *)
LEMMA InseparableWithinJoin ==
    ASSUME NEW B, NEW C, NEW x \in UNION (B \cup C)
    PROVE  /\ Inseparable(B \cup C, x) \in Closed(B \cup C)
           /\ Inseparable(B \cup C, x) \in JoinBlocks(B, C)
<1> DEFINE D == B \cup C
           U == UNION D
           K == Inseparable(D, x)
<1>1. x \in K /\ K \subseteq U
  BY DEF Inseparable
<1>2. \A S \in Closed(D) : /\ S \subseteq U /\ S # {}
                           /\ \A b \in D : b \cap S # {} => b \subseteq S
  BY DEF Closed
<1>3. K \in Closed(D)
  <2>1. ASSUME NEW b \in D, b \cap K # {} PROVE b \subseteq K
    <3>1. PICK z \in b : z \in K
      BY <2>1
    <3>2. ASSUME NEW y \in b, NEW S \in Closed(D), x \in S PROVE y \in S
      <4>1. z \in S
        BY <3>1, <3>2 DEF Inseparable
      <4> QED
        BY <1>2, <3>2, <4>1
    <3>3. b \subseteq U
      OBVIOUS
    <3> QED
      BY <3>2, <3>3 DEF Inseparable
  <2> QED
    BY <1>1, <2>1 DEF Closed
<1>4. ASSUME NEW R \in Closed(D), R \subseteq K PROVE R = K
  <2>1. CASE x \in R
    BY <1>4, <2>1 DEF Inseparable
  <2>2. CASE x \notin R
    <3>1. U \ R \in Closed(D)
      <4>1. ASSUME NEW b \in D, b \cap (U \ R) # {} PROVE b \subseteq U \ R
        <5>1. b \subseteq U /\ ~(b \subseteq R)
          BY <4>1
        <5> QED
          BY <1>2, <1>4, <5>1
      <4>2. U \ R # {} /\ U \ R \in SUBSET U
        BY <1>1, <2>2
      <4> QED
        BY <4>1, <4>2 DEF Closed
    <3>2. K \subseteq U \ R
      <4>1. x \in U \ R
        BY <1>1, <2>2
      <4> QED
        BY <3>1, <4>1 DEF Inseparable
    <3>3. R # {}
      BY <1>2
    <3> QED
      BY <1>4, <3>2, <3>3
  <2> QED
    BY <2>1, <2>2
<1> QED
  BY <1>3, <1>4 DEF JoinBlocks

(* The blocks of P + Q are the sets of objects inseparable from an object.  *)
LEMMA JoinIsInseparable ==
    ASSUME NEW B, NEW C
    PROVE  JoinBlocks(B, C) = {Inseparable(B \cup C, x) : x \in UNION (B \cup C)}
<1>1. ASSUME NEW K \in JoinBlocks(B, C)
      PROVE  \E x \in UNION (B \cup C) : K = Inseparable(B \cup C, x)
  <2>1. K \in Closed(B \cup C) /\ \A R \in Closed(B \cup C) : R \subseteq K => R = K
    BY DEF JoinBlocks
  <2>2. PICK x \in UNION (B \cup C) : x \in K
    BY <2>1 DEF Closed
  <2>3. Inseparable(B \cup C, x) \subseteq K
    BY <2>1, <2>2 DEF Inseparable
  <2> QED
    BY <2>1, <2>3, InseparableWithinJoin
<1> QED
  BY <1>1, InseparableWithinJoin

(* A container holds P + Q when it ties together each block of either       *)
(* operand, and nothing a closed set separates.                             *)
LEMMA HoldsJoin ==
    ASSUME NEW B, NEW C, NEW d,
           DOMAIN d = UNION (B \cup C),
           \A b \in B \cup C : \A x, y \in b : Together(d, x, y),
           \A S \in Closed(B \cup C) : \A x, y \in DOMAIN d :
               Together(d, x, y) /\ x \in S => y \in S
    PROVE  Blocks(d) = JoinBlocks(B, C)
<1> DEFINE D == B \cup C
<1>1. ASSUME NEW x \in DOMAIN d PROVE Cell(d, x) = Inseparable(D, x)
  <2>1. Cell(d, x) \subseteq Inseparable(D, x)
    BY DEF Inseparable, Cell, Group, Together
  <2>2. Cell(d, x) \in Closed(D)
    <3>1. x \in Cell(d, x) /\ Cell(d, x) \in SUBSET UNION D
      BY DEF Cell, Group
    <3>2. ASSUME NEW b \in D, b \cap Cell(d, x) # {} PROVE b \subseteq Cell(d, x)
      <4>1. PICK z \in b : z \in DOMAIN d /\ Together(d, z, x)
        BY <3>2 DEF Cell, Group, Together
      <4>2. ASSUME NEW y \in b PROVE y \in Cell(d, x)
        <5>1. y \in DOMAIN d /\ Together(d, y, z)
          BY <4>1
        <5> QED
          BY <4>1, <5>1 DEF Cell, Group, Together
      <4> QED
        BY <4>2
    <3> QED
      BY <3>1, <3>2 DEF Closed
  <2>3. Inseparable(D, x) \subseteq Cell(d, x)
    <3>1. x \in Cell(d, x)
      BY DEF Cell, Group
    <3> QED
      BY <2>2, <3>1 DEF Inseparable
  <2> QED
    BY <2>1, <2>3
<1>2. Blocks(d) = {Cell(d, x) : x \in DOMAIN d}
  BY BlocksAreCells
<1> QED
  BY <1>1, <1>2, JoinIsInseparable

-----------------------------------------------------------------------------
(* The nodes reached from a by following the links f, a included.           *)
Reach(f, a) ==
    {c \in DOMAIN f :
        \A S \in SUBSET DOMAIN f :
            a \in S /\ (\A s \in S : f[s] \in S) => c \in S}

(* Links from numbers to numbers, none to a larger one.                     *)
Descending(f) ==
    /\ DOMAIN f \subseteq Nat
    /\ \A c \in DOMAIN f : f[c] \in DOMAIN f /\ f[c] <= c

(* Following the links stays within what is reached, and what is reached    *)
(* lies within every set of nodes that the links do not leave.              *)
LEMMA ReachClosed ==
    ASSUME NEW f, NEW a \in DOMAIN f, \A c \in DOMAIN f : f[c] \in DOMAIN f
    PROVE  /\ Reach(f, a) \subseteq DOMAIN f
           /\ a \in Reach(f, a)
           /\ \A c \in Reach(f, a) : f[c] \in Reach(f, a)
           /\ \A S \in SUBSET DOMAIN f :
                 a \in S /\ (\A s \in S : f[s] \in S) => Reach(f, a) \subseteq S
BY DEF Reach

(* Every node reaches exactly one root, the smallest node it reaches.       *)
LEMMA ReachRoot ==
    ASSUME NEW f, Descending(f), NEW a \in DOMAIN f
    PROVE  \E r \in Reach(f, a) :
              /\ f[r] = r
              /\ \A c \in Reach(f, a) : r <= c
              /\ \A c \in Reach(f, a) : f[c] = c => c = r
<1>1. /\ \A c \in DOMAIN f : f[c] \in DOMAIN f /\ f[c] <= c
      /\ DOMAIN f \subseteq Nat
  BY DEF Descending
<1>2. ASSUME NEW b \in DOMAIN f
      PROVE  /\ Reach(f, b) \subseteq DOMAIN f
             /\ b \in Reach(f, b)
             /\ \A c \in Reach(f, b) : f[c] \in Reach(f, b)
             /\ \A S \in SUBSET DOMAIN f :
                   b \in S /\ (\A s \in S : f[s] \in S) => Reach(f, b) \subseteq S
  BY <1>1, ReachClosed
<1>3. Reach(f, a) \in SUBSET Nat /\ Reach(f, a) # {}
  BY <1>1, <1>2
<1>4. PICK r \in Reach(f, a) : \A c \in Reach(f, a) : r <= c
  BY <1>3, LeastElement
<1>5. f[r] = r
  <2>1. f[r] \in Reach(f, a) /\ f[r] <= r /\ r \in Nat /\ f[r] \in Nat
    BY <1>1, <1>2, <1>3
  <2> QED
    BY <1>4, <2>1
<1>6. ASSUME NEW c \in Reach(f, a), f[c] = c PROVE c = r
  <2> DEFINE S == {s \in DOMAIN f : r \in Reach(f, s)}
  <2>1. ASSUME NEW s \in S PROVE f[s] \in S
    <3>1. s \in DOMAIN f /\ f[s] \in DOMAIN f /\ r \in Reach(f, s)
      BY <1>1
    <3>2. CASE s = r
      BY <1>5, <3>1, <3>2
    <3>3. CASE s # r
      <4> DEFINE V == {s} \cup Reach(f, f[s])
      <4>1. V \in SUBSET DOMAIN f /\ s \in V /\ \A v \in V : f[v] \in V
        BY <1>2, <3>1
      <4>2. r \in V
        <5> HIDE DEF V
        <5> QED
          BY <1>2, <3>1, <4>1
      <4> QED
        BY <3>1, <3>3, <4>2
    <3> QED
      BY <3>2, <3>3
  <2>2. S \in SUBSET DOMAIN f /\ a \in S
    OBVIOUS
  <2>3. c \in S
    <3> HIDE DEF S
    <3> QED
      BY <1>2, <2>1, <2>2
  <2>4. {c} \in SUBSET DOMAIN f /\ \A s \in {c} : f[s] \in {c}
    BY <1>2, <1>6
  <2>5. Reach(f, c) \subseteq {c}
    BY <1>2, <2>4
  <2> QED
    BY <2>3, <2>5
<1> QED
  BY <1>4, <1>5, <1>6

(* What a node reaches is itself and what its link reaches.                 *)
LEMMA ReachStep ==
    ASSUME NEW f, NEW a \in DOMAIN f, \A c \in DOMAIN f : f[c] \in DOMAIN f
    PROVE  Reach(f, a) = {a} \cup Reach(f, f[a])
<1>1. \A b \in DOMAIN f : /\ Reach(f, b) \subseteq DOMAIN f
                         /\ b \in Reach(f, b)
                         /\ \A c \in Reach(f, b) : f[c] \in Reach(f, b)
                         /\ \A S \in SUBSET DOMAIN f :
                               b \in S /\ (\A s \in S : f[s] \in S) => Reach(f, b) \subseteq S
  BY ReachClosed
<1>2. f[a] \in DOMAIN f
  OBVIOUS
<1>3. Reach(f, a) \subseteq {a} \cup Reach(f, f[a])
  <2> DEFINE V == {a} \cup Reach(f, f[a])
  <2>1. V \in SUBSET DOMAIN f /\ a \in V /\ \A v \in V : f[v] \in V
    BY <1>1, <1>2
  <2> HIDE DEF V
  <2>2. Reach(f, a) \subseteq V
    BY <1>1, <2>1
  <2> QED
    BY <2>2 DEF V
<1>4. Reach(f, f[a]) \subseteq Reach(f, a)
  <2>1. Reach(f, a) \in SUBSET DOMAIN f /\ f[a] \in Reach(f, a)
    BY <1>1
  <2> QED
    BY <1>1, <1>2, <2>1
<1> QED
  BY <1>1, <1>3, <1>4

(* What is reached from a node reached is reached.                          *)
LEMMA ReachTrans ==
    ASSUME NEW f, NEW a \in DOMAIN f, \A c \in DOMAIN f : f[c] \in DOMAIN f,
           NEW b \in Reach(f, a)
    PROVE  Reach(f, b) \subseteq Reach(f, a)
<1>1. /\ Reach(f, a) \in SUBSET DOMAIN f /\ b \in DOMAIN f
      /\ \A c \in Reach(f, a) : f[c] \in Reach(f, a)
  BY ReachClosed
<1> QED
  BY <1>1, ReachClosed

(* Nothing above a node is reached from it.                                 *)
LEMMA ReachBelow ==
    ASSUME NEW f, Descending(f), NEW a \in DOMAIN f, NEW c \in Reach(f, a)
    PROVE  c \in DOMAIN f /\ c <= a
<1> DEFINE S == {s \in DOMAIN f : s <= a}
<1>1. S \in SUBSET DOMAIN f /\ a \in S /\ \A s \in S : f[s] \in S
  BY DEF Descending
<1>2. \A d \in DOMAIN f : f[d] \in DOMAIN f
  BY DEF Descending
<1> HIDE DEF S
<1>3. Reach(f, a) \subseteq S
  BY <1>1, <1>2, ReachClosed
<1> QED
  BY <1>3 DEF S

(* Of two nodes reached from a third, one reaches the other.                *)
LEMMA ReachChain ==
    ASSUME NEW f, NEW a \in DOMAIN f, \A c \in DOMAIN f : f[c] \in DOMAIN f,
           NEW d \in Reach(f, a), NEW e \in Reach(f, a)
    PROVE  d \in Reach(f, e) \/ e \in Reach(f, d)
<1> DEFINE S == {s \in Reach(f, a) : e \in Reach(f, s) \/ s \in Reach(f, e)}
<1>1. /\ Reach(f, a) \subseteq DOMAIN f /\ a \in Reach(f, a)
      /\ \A c \in Reach(f, a) : f[c] \in Reach(f, a)
  BY ReachClosed
<1>2. ASSUME NEW s \in S PROVE f[s] \in S
  <2>1. s \in DOMAIN f /\ e \in DOMAIN f /\ s \in Reach(f, a) /\ f[s] \in Reach(f, a)
    BY <1>1
  <2>2. CASE s \in Reach(f, e)
    BY <2>1, <2>2, ReachClosed
  <2>3. CASE e \in Reach(f, s) /\ s \notin Reach(f, e)
    <3>1. e # s
      BY <2>1, <2>3, ReachClosed
    <3>2. e \in Reach(f, f[s])
      BY <2>1, <2>3, <3>1, ReachStep
    <3> QED
      BY <2>1, <3>2
  <2> QED
    BY <2>2, <2>3
<1>3. S \in SUBSET DOMAIN f /\ a \in S
  BY <1>1
<1> HIDE DEF S
<1>4. Reach(f, a) \subseteq S
  BY <1>2, <1>3, ReachClosed
<1> QED
  BY <1>4 DEF S

(* A node reached from another is the link of a node reached before it.     *)
LEMMA ReachPredecessor ==
    ASSUME NEW f, NEW a \in DOMAIN f, \A c \in DOMAIN f : f[c] \in DOMAIN f,
           NEW c \in Reach(f, a), c # a
    PROVE  \E d \in Reach(f, a) : d # c /\ f[d] = c
<1> SUFFICES ASSUME \A d \in Reach(f, a) : d # c => f[d] # c PROVE FALSE
  OBVIOUS
<1> DEFINE S == Reach(f, a) \ {c}
<1>1. S \in SUBSET DOMAIN f /\ a \in S /\ \A s \in S : f[s] \in S
  BY ReachClosed
<1> HIDE DEF S
<1>2. Reach(f, a) \subseteq S
  BY <1>1, ReachClosed
<1> QED
  BY <1>2 DEF S

(* Linking a root under another node leaves every path where it was.        *)
LEMMA ReachRelinked ==
    ASSUME NEW f, \A c \in DOMAIN f : f[c] \in DOMAIN f,
           NEW q \in DOMAIN f, f[q] = q, NEW g, DOMAIN g = DOMAIN f,
           \A c \in DOMAIN f : c # q => g[c] = f[c], NEW a \in DOMAIN f
    PROVE  Reach(f, a) \subseteq Reach(g, a)
<1>1. DOMAIN g = DOMAIN f /\ \A c \in DOMAIN f : c # q => g[c] = f[c]
  OBVIOUS
<1>2. /\ Reach(f, a) \subseteq DOMAIN f /\ a \in Reach(f, a)
      /\ \A c \in Reach(f, a) : f[c] \in Reach(f, a)
  BY ReachClosed
<1>3. ASSUME NEW S \in SUBSET DOMAIN f, a \in S, \A s \in S : g[s] \in S
      PROVE  Reach(f, a) \subseteq S
  <2> DEFINE T == S \cap Reach(f, a)
  <2>1. T \in SUBSET DOMAIN f /\ a \in T
    BY <1>2, <1>3
  <2>2. ASSUME NEW s \in T PROVE f[s] \in T
    BY <1>1, <1>2, <1>3
  <2> HIDE DEF T
  <2>3. Reach(f, a) \subseteq T
    BY <2>1, <2>2, ReachClosed
  <2> QED
    BY <2>3 DEF T
<1> QED
  BY <1>1, <1>2, <1>3 DEF Reach

=============================================================================
