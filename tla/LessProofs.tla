----------------------------- MODULE LessProofs -----------------------------
(***************************************************************************)
(* Theorems about Less, for every finite set of objects and every choice of *)
(* supports: counting shared pointers decides equality of classes, Less     *)
(* computes P - Q whatever ClassIds Q holds, and it implements the one-step *)
(* operation.                                                               *)
(*                                                                         *)
(* IInv says what the scan has recorded of the objects looked up: zt_ht has *)
(* one pair for each class met, the one of its first object, which by       *)
(* naming is the object the class is called after; to_keep has elements of  *)
(* the classes met that are to be kept, as far as the objects looked up can *)
(* tell.  Of the classes fragmented it says what the container holds in     *)
(* their place.                                                             *)
(***************************************************************************)
EXTENDS Less, CommonLemmas

(* The name of an object's class in P, and the ClassId it points at in Q.   *)
NameP(x) == left.data[x].id
HandleQ(x) == q.data[x]

LookedUp == 0..(i - 1)

(* The names of the classes with an element in to_keep.                     *)
KeptNames == {NameP(o) : o \in to_keep}

(* What is asked of the operands where a count has to tell.                 *)
Within == DOMAIN left.data \subseteq DOMAIN q.data

ScanInv ==
    /\ i \in Nat /\ i <= left.size
    /\ LookedUp \subseteq DOMAIN left.data \cap DOMAIN q.data
    /\ zt_ht = {<<left.data[o], HandleQ(NameP(o))>> : o \in LookedUp}
    /\ to_keep \subseteq LookedUp
    /\ \A o \in LookedUp :
          /\ HandleQ(o) # HandleQ(NameP(o)) => NameP(o) \in KeptNames
          /\ IsHeld(Cell(left.data, o), Pointers(q.data)) => NameP(o) \in KeptNames
    /\ Within => \A o \in to_keep : Kept(Cell(left.data, o), Pointers(q.data))

(* The object's class was looked up and has been fragmented.                *)
Broken(x) == NameP(x) \in LookedUp /\ NameP(x) \notin KeptNames \cup to_frag

FragmentInv ==
    /\ i = left.size
    /\ to_frag \subseteq {o \in LookedUp : NameP(o) = o /\ o \notin KeptNames}
    /\ DOMAIN acc.data = DOMAIN left.data
    /\ \A x \in DOMAIN left.data :
          acc.data[x] = IF Broken(x) /\ x # NameP(x)
                        THEN NewClass(x) ELSE left.data[x]
    /\ acc.nb \in Int
    /\ acc.nb - left.nb
          = Cardinality(ClassIds(acc.data)) - Cardinality(ClassIds(left.data))

IInv ==
    /\ left \in LeftOperands /\ q \in RightOperands
    /\ DOMAIN acc = {"size", "nb", "data"}
    /\ acc.size = left.size
    /\ ScanInv
    /\ pc \in {"scan", "undefined", "fragment", "done"}
    /\ pc \in {"scan", "undefined"} => acc = left
    /\ pc \in {"fragment", "done"} => FragmentInv
    /\ pc = "done" => to_frag = {}

-----------------------------------------------------------------------------
(* What is known of P.                                                      *)
LEMMA LeftShape ==
    ASSUME NEW P \in LeftOperands
    PROVE  /\ DOMAIN P = {"size", "nb", "data"}
           /\ P.size \in Nat /\ P.nb \in Int
           /\ DOMAIN P.data \subseteq Nat
           /\ IsFiniteSet(DOMAIN P.data)
           /\ \A x \in DOMAIN P.data :
                 /\ P.data[x].id \in DOMAIN P.data
                 /\ P.data[x].id <= x
                 /\ P.data[P.data[x].id] = P.data[x]
<1>1. PICK S \in Supports :
        \E d \in Canonical(S) : P \in AfterMeet(d) \cup AfterJoin(d)
  BY DEF LeftOperands
<1>2. PICK d \in Canonical(S) : P \in AfterMeet(d) \cup AfterJoin(d)
  BY <1>1
<1>3. DOMAIN d = S /\ S \subseteq Objects
  BY CanonicalShape, SupportsAssumption
<1>4. IsFiniteSet(S) /\ Cardinality(S) \in Nat /\ Cardinality(Objects) \in Nat
  BY <1>3, ObjectsAssumption, FS_Subset, FS_CardinalityType
<1>5. Cardinality(ClassIds(d)) \in Nat
  BY <1>3, <1>4, BlocksCounted, FS_CardinalityType
<1>6. /\ DOMAIN P = {"size", "nb", "data"}
      /\ P.data = d /\ P.size \in Nat /\ P.nb \in Int
  <2>1. CASE P \in AfterMeet(d)
    BY <1>4, <1>5, <2>1 DEF AfterMeet
  <2>2. CASE P \in AfterJoin(d)
    BY <1>3, <1>4, <1>5, <2>2 DEF AfterJoin
  <2> QED
    BY <1>2, <2>1, <2>2
<1>7. S \subseteq Nat
  BY <1>3, ObjectsAssumption
<1>8. \A x \in S : d[x].id \in S /\ d[x].id <= x /\ d[d[x].id] = d[x]
  BY CanonicalShape
<1> QED
  BY <1>3, <1>4, <1>6, <1>7, <1>8

(* The names in a container from the top constructor are those of one that  *)
(* was copied.                                                              *)
LEMMA TopBuiltNames ==
    ASSUME NEW S, NEW d \in TopBuilt(S)
    PROVE  \E c \in Canonical(S) : DOMAIN d = S /\ \A x \in S : d[x].id = c[x].id
<1>1. PICK c \in Canonical(S) :
        \E k \in {n \in 1..Cardinality(S) : 0..(n - 1) \subseteq Group(c, 0)} :
           d \in JoinedTo(c, k)
  BY DEF TopBuilt
<1>2. PICK k \in {n \in 1..Cardinality(S) : 0..(n - 1) \subseteq Group(c, 0)} :
        d \in JoinedTo(c, k)
  BY <1>1
<1>3. PICK h \in [Group(c, 0) -> 0..(k - 1)] :
        d = [x \in DOMAIN c |-> IF c[x].id = 0 THEN Handle(0, h[x]) ELSE c[x]]
  BY <1>2 DEF JoinedTo
<1>4. DOMAIN c = S
  BY CanonicalShape
<1>5. \A x \in S : d[x].id = c[x].id
  BY <1>3, <1>4 DEF Handle
<1> QED
  BY <1>3, <1>4, <1>5

(* What is known of Q: classes are named by their smallest member, but may  *)
(* be spread over several ClassIds.                                         *)
LEMMA RightShape ==
    ASSUME NEW Q \in RightOperands
    PROVE  /\ DOMAIN Q.data \subseteq Nat
           /\ IsFiniteSet(DOMAIN Q.data)
           /\ \A x \in DOMAIN Q.data :
                 /\ Q.data[x].id \in DOMAIN Q.data
                 /\ Q.data[x].id <= x
                 /\ Q.data[Q.data[x].id].id = Q.data[x].id
<1>1. PICK S \in Supports : \E d \in Canonical(S) \cup TopBuilt(S) : Q = PartitionOf(d)
  BY DEF RightOperands
<1>2. PICK d \in Canonical(S) \cup TopBuilt(S) : Q = PartitionOf(d)
  BY <1>1
<1>3. Q.data = d
  BY <1>2 DEF PartitionOf
<1>4. PICK c \in Canonical(S) : DOMAIN d = S /\ \A x \in S : d[x].id = c[x].id
  BY <1>2, TopBuiltNames, CanonicalShape
<1>5. S \subseteq Nat /\ IsFiniteSet(S)
  BY SupportsAssumption, ObjectsAssumption, FS_Subset
<1>6. \A x \in S : c[x].id \in S /\ c[x].id <= x /\ c[c[x].id] = c[x]
  BY CanonicalShape
<1> QED
  BY <1>3, <1>4, <1>5, <1>6

(* Objects of a class are in one class, and a class that holds its name is  *)
(* told by it; its elements are those that share its ClassId.               *)
LEMMA NamesTell ==
    ASSUME NEW P \in LeftOperands, NEW x \in DOMAIN P.data
    PROVE  /\ P.data[P.data[x].id].id = P.data[x].id
           /\ Cell(P.data, P.data[x].id) = Cell(P.data, x)
           /\ Holders(P.data, P.data[x]) = Cell(P.data, x)
           /\ \A y \in DOMAIN P.data :
                 P.data[x] = P.data[y] <=> P.data[x].id = P.data[y].id
BY LeftShape DEF Cell, Group, Holders

(* The ClassId an object points at, as a set of elements and an id.         *)
PointerOf(d, x) == [id |-> d[x].id, held |-> Holders(d, d[x])]

LEMMA PointersShape ==
    ASSUME NEW d, IsFiniteSet(DOMAIN d)
    PROVE  /\ IsFiniteSet(Pointers(d))
           /\ \A x \in DOMAIN d :
                 PointerOf(d, x) \in Pointers(d) /\ x \in PointerOf(d, x).held
           /\ \A t \in Pointers(d) : \E x \in DOMAIN d : t = PointerOf(d, x)
           /\ \A x, y \in DOMAIN d :
                 /\ y \in PointerOf(d, x).held <=> d[y] = d[x]
                 /\ PointerOf(d, x) = PointerOf(d, y) <=> d[x] = d[y]
<1>1. Pointers(d) = {PointerOf(d, x) : x \in DOMAIN d}
  BY DEF Pointers, PointerOf
<1>2. \A x, y \in DOMAIN d : y \in PointerOf(d, x).held <=> d[y] = d[x]
  BY DEF PointerOf, Holders
<1>3. ASSUME NEW x \in DOMAIN d, NEW y \in DOMAIN d
      PROVE  PointerOf(d, x) = PointerOf(d, y) <=> d[x] = d[y]
  <2>1. d[x] = d[y] => PointerOf(d, x) = PointerOf(d, y)
    BY DEF PointerOf
  <2>2. PointerOf(d, x) = PointerOf(d, y) => d[x] = d[y]
    BY <1>2
  <2> QED
    BY <2>1, <2>2
<1>4. IsFiniteSet(Pointers(d))
  <2> DEFINE g == [x \in DOMAIN d |-> PointerOf(d, x)]
  <2>1. g \in Surjection(DOMAIN d, Pointers(d))
    BY <1>1 DEF Surjection
  <2> QED
    BY <2>1, FS_Surjection
<1> QED
  BY <1>1, <1>2, <1>3, <1>4

(* Two or more is two different members.                                    *)
LEMMA TwoMembers ==
    ASSUME NEW M, IsFiniteSet(M)
    PROVE  Cardinality(M) >= 2 <=> \E b \in M : \E c \in M : b # c
<1>1. ASSUME NEW b \in M, NEW c \in M, b # c PROVE Cardinality(M) >= 2
  BY <1>1, AtLeastTwo
<1>2. ASSUME Cardinality(M) >= 2, \A b, c \in M : b = c PROVE FALSE
  <2>1. CASE M = {}
    BY <1>2, <2>1, FS_EmptySet
  <2>2. ASSUME NEW b \in M PROVE FALSE
    <3>1. M = {b}
      BY <1>2, <2>2
    <3> QED
      BY <1>2, <3>1, FS_Singleton
  <2> QED
    BY <2>1, <2>2
<1> QED
  BY <1>1, <1>2

(* The ClassIds of Q that a class meets are two or more if two of its       *)
(* objects point at different ones.                                         *)
LEMMA MeetsTwo ==
    ASSUME NEW d, IsFiniteSet(DOMAIN d), NEW b
    PROVE  Cardinality({t \in Pointers(d) : t.held \cap b # {}}) >= 2
              <=> \E x \in b \cap DOMAIN d : \E y \in b \cap DOMAIN d : d[x] # d[y]
<1> DEFINE M == {t \in Pointers(d) : t.held \cap b # {}}
<1>1. IsFiniteSet(M)
  <2>1. M \in SUBSET Pointers(d)
    OBVIOUS
  <2> QED
    BY <2>1, PointersShape, FS_Subset
<1>2. ASSUME NEW x \in b \cap DOMAIN d, NEW y \in b \cap DOMAIN d, d[x] # d[y]
      PROVE  \E t \in M : \E u \in M : t # u
  <2>1. PointerOf(d, x) \in M /\ PointerOf(d, y) \in M
    BY PointersShape
  <2>2. PointerOf(d, x) # PointerOf(d, y)
    BY <1>2, PointersShape
  <2> QED
    BY <2>1, <2>2
<1>3. ASSUME NEW t \in M, NEW u \in M, t # u
      PROVE  \E x \in b \cap DOMAIN d : \E y \in b \cap DOMAIN d : d[x] # d[y]
  <2>1. PICK x \in DOMAIN d : t = PointerOf(d, x)
    BY PointersShape
  <2>2. PICK y \in DOMAIN d : u = PointerOf(d, y)
    BY PointersShape
  <2>3. PICK v \in b : v \in PointerOf(d, x).held
    BY <2>1
  <2>4. PICK w \in b : w \in PointerOf(d, y).held
    BY <2>2
  <2>5. v \in DOMAIN d /\ w \in DOMAIN d
    BY <2>3, <2>4 DEF PointerOf, Holders
  <2>6. d[v] = d[x] /\ d[w] = d[y]
    BY <2>3, <2>4, <2>5, PointersShape
  <2>7. d[x] # d[y]
    BY <1>3, <2>1, <2>2, PointersShape
  <2> QED
    BY <2>5, <2>6, <2>7
<1>4. Cardinality(M) >= 2 <=> \E t \in M : \E u \in M : t # u
  <2> HIDE DEF M
  <2> QED
    BY <1>1, TwoMembers
<1> QED
  BY <1>2, <1>3, <1>4

(* When Q has one ClassId to a class, its ClassIds are its classes.         *)
LEMMA KeptIsSurvives ==
    ASSUME NEW Q \in RightOperands, WellShared(Q.data), NEW b
    PROVE  Kept(b, Pointers(Q.data)) <=> Survives(b, Blocks(Q.data))
<1> DEFINE d == Q.data
           M == {c \in Blocks(d) : c \cap b # {}}
<1>1. /\ IsFiniteSet(DOMAIN d)
      /\ \A x \in DOMAIN d : d[x].id \in DOMAIN d /\ d[d[x].id].id = d[x].id
  BY RightShape
<1>2. ASSUME NEW x \in DOMAIN d
      PROVE  PointerOf(d, x).held = Cell(d, x) /\ PointerOf(d, x).id \in Cell(d, x)
  BY <1>1 DEF PointerOf, Holders, Cell, Group, WellShared, Together
<1>3. IsHeld(b, Pointers(d)) <=> b \in Blocks(d)
  <2>1. ASSUME NEW t \in Pointers(d), t.held = b PROVE b \in Blocks(d)
    <3>1. PICK x \in DOMAIN d : t = PointerOf(d, x)
      BY <1>1, PointersShape
    <3>2. b = Cell(d, x)
      BY <1>2, <2>1, <3>1
    <3> QED
      BY <3>2, BlocksAreCells
  <2>2. ASSUME b \in Blocks(d) PROVE IsHeld(b, Pointers(d))
    <3>1. PICK x \in DOMAIN d : b = Cell(d, x)
      BY <2>2, BlocksAreCells
    <3>2. PointerOf(d, x) \in Pointers(d)
      BY <1>1, PointersShape
    <3> QED
      BY <1>2, <3>1, <3>2 DEF IsHeld
  <2> QED
    BY <2>1, <2>2 DEF IsHeld
<1>4. (\E x \in b \cap DOMAIN d : \E y \in b \cap DOMAIN d : d[x] # d[y])
         <=> \E c \in M : \E e \in M : c # e
  <2>1. ASSUME NEW x \in b \cap DOMAIN d, NEW y \in b \cap DOMAIN d, d[x] # d[y]
        PROVE  \E c \in M : \E e \in M : c # e
    <3>1. Cell(d, x) \in M /\ Cell(d, y) \in M
      BY BlocksAreCells
    <3>2. Cell(d, x) # Cell(d, y)
      BY <2>1, CellsDisjoint DEF WellShared
    <3> QED
      BY <3>1, <3>2
  <2>2. ASSUME NEW c \in M, NEW e \in M, c # e
        PROVE  \E x \in b \cap DOMAIN d : \E y \in b \cap DOMAIN d : d[x] # d[y]
    <3>1. PICK x \in b \cap DOMAIN d : c = Cell(d, x)
      <4>1. PICK v \in DOMAIN d : c = Cell(d, v)
        BY BlocksAreCells
      <4>2. PICK x \in b : x \in Cell(d, v)
        BY <4>1
      <4> QED
        BY <4>1, <4>2 DEF Cell, Group
    <3>2. PICK y \in b \cap DOMAIN d : e = Cell(d, y)
      <4>1. PICK v \in DOMAIN d : e = Cell(d, v)
        BY BlocksAreCells
      <4>2. PICK y \in b : y \in Cell(d, v)
        BY <4>1
      <4> QED
        BY <4>1, <4>2 DEF Cell, Group
    <3>3. d[x] # d[y]
      BY <2>2, <3>1, <3>2 DEF Cell
    <3> QED
      BY <3>3
  <2> QED
    BY <2>1, <2>2
<1>5. Cardinality(M) >= 2 <=> \E c \in M : \E e \in M : c # e
  <2>1. IsFiniteSet(M)
    <3>1. IsFiniteSet(Blocks(d)) /\ M \in SUBSET Blocks(d)
      BY <1>1, BlocksCounted
    <3> QED
      BY <3>1, FS_Subset
  <2> HIDE DEF M
  <2> QED
    BY <2>1, TwoMembers
<1>6. Cardinality({t \in Pointers(d) : t.held \cap b # {}}) >= 2
         <=> Cardinality(M) >= 2
  <2> HIDE DEF M, d
  <2> QED
    BY <1>1, <1>4, <1>5, MeetsTwo
<1> QED
  BY <1>3, <1>6 DEF Kept, Survives

(* A class of P with two objects that point at different ClassIds of Q is   *)
(* kept.                                                                    *)
LEMMA SpreadIsKept ==
    ASSUME NEW Q \in RightOperands, NEW b,
           NEW x \in b \cap DOMAIN Q.data, NEW y \in b \cap DOMAIN Q.data,
           Q.data[x] # Q.data[y]
    PROVE  Kept(b, Pointers(Q.data))
<1> DEFINE d == Q.data
<1>1. IsFiniteSet(DOMAIN d)
  BY RightShape
<1>2. \E u \in b \cap DOMAIN d : \E v \in b \cap DOMAIN d : d[u] # d[v]
  OBVIOUS
<1> HIDE DEF d
<1>3. Cardinality({t \in Pointers(d) : t.held \cap b # {}}) >= 2
  BY <1>1, <1>2, MeetsTwo
<1> QED
  BY <1>3 DEF Kept, d

(* If _size counts and the objects looked up are P's, they are all of P's.  *)
LEMMA LookedUpIsAll ==
    ASSUME left \in LeftOperands, SizeCounts,
           0..(left.size - 1) \subseteq DOMAIN left.data
    PROVE  DOMAIN left.data = 0..(left.size - 1)
<1> DEFINE n == left.size
<1>1. n \in Nat /\ IsFiniteSet(DOMAIN left.data) /\ n = Cardinality(DOMAIN left.data)
  BY LeftShape DEF SizeCounts
<1>2. Cardinality(0..(n - 1)) = n
  <2>1. n - 1 \in Int /\ 0 \in Int
    BY <1>1
  <2> HIDE DEF n
  <2> QED
    BY <1>1, <2>1, FS_Interval
<1> QED
  BY <1>1, <1>2, FS_Subset

LEMMA InitInv == Init => IInv
<1> SUFFICES ASSUME Init PROVE IInv
  OBVIOUS
<1>1. left.size \in Nat /\ DOMAIN acc = {"size", "nb", "data"}
  BY LeftShape DEF Init
<1>2. LookedUp = {}
  BY DEF LookedUp, Init
<1>3. ScanInv
  BY <1>1, <1>2 DEF ScanInv, Init
<1> QED
  BY <1>1, <1>3 DEF IInv, Init

-----------------------------------------------------------------------------
(* What zt_ht says of a class not met before: nothing, neither of it nor of *)
(* a class of Q with the same objects.                                      *)
LEMMA UseCountsAtFirst ==
    ASSUME IInv, pc = "scan", Found, Z \notin z_set
    PROVE  /\ UseCountOfZ = Cardinality(Cell(left.data, i))
           /\ UseCountOfT = Cardinality(Holders(q.data, T))
                               + Cardinality({pair \in zt_ht : pair[2] = T})
           /\ Cardinality(Cell(left.data, i)) \in Nat
           /\ Cardinality(Holders(q.data, T)) \in Nat
           /\ Cardinality({pair \in zt_ht : pair[2] = T}) \in Nat
<1>1. /\ acc = left /\ left \in LeftOperands /\ q \in RightOperands
      /\ i \in DOMAIN left.data /\ i \in DOMAIN q.data
  BY DEF IInv, Found
<1>2. {pair \in zt_ht : pair[1] = Z} = {} /\ z_set \cap {Z} = {}
  BY DEF z_set
<1>3. Cardinality(Cell(left.data, i)) \in Nat /\ Cardinality(Holders(q.data, T)) \in Nat
  <2>1. Cell(left.data, i) \in SUBSET DOMAIN left.data
        /\ Holders(q.data, T) \in SUBSET DOMAIN q.data
    BY DEF Cell, Group, Holders
  <2> QED
    BY <1>1, <2>1, LeftShape, RightShape, FS_Subset, FS_CardinalityType
<1>4. Cardinality({pair \in zt_ht : pair[2] = T}) \in Nat
  <2> DEFINE g == [o \in LookedUp |-> <<left.data[o], HandleQ(NameP(o))>>]
  <2>1. IsFiniteSet(LookedUp)
    <3>1. i - 1 \in Int /\ 0 \in Int
      BY DEF IInv, ScanInv
    <3> QED
      BY <3>1, FS_Interval DEF LookedUp
  <2>2. g \in Surjection(LookedUp, zt_ht)
    BY DEF IInv, ScanInv, Surjection
  <2>3. IsFiniteSet(zt_ht)
    BY <2>1, <2>2, FS_Surjection
  <2>4. {pair \in zt_ht : pair[2] = T} \in SUBSET zt_ht
    OBVIOUS
  <2> QED
    BY <2>3, <2>4, FS_Subset, FS_CardinalityType
<1>5. UseCountOfZ = Cardinality(Cell(left.data, i))
  <2>1. Holders(acc.data, Z) = Cell(left.data, i)
    BY <1>1, NamesTell DEF Z
  <2>2. UseCountOfZ = Cardinality(Cell(left.data, i)) + 0 + 0
    BY <1>2, <2>1, FS_EmptySet DEF UseCountOfZ
  <2> QED
    BY <1>3, <2>2
<1> QED
  BY <1>3, <1>4, <1>5 DEF UseCountOfT

(* At the first object of a class: if the names and the counts agree, the   *)
(* class is kept, for were it strictly inside what the ClassId of Q holds   *)
(* it would have fewer pointers; if the class is what a ClassId of Q with   *)
(* its name holds, they agree, for no pair of zt_ht can have that ClassId.  *)
LEMMA FirstMeeting ==
    ASSUME IInv, pc = "scan", Found, Z \notin z_set
    PROVE  /\ Cell(left.data, i) \subseteq DOMAIN q.data /\ SameClass =>
                  Kept(Cell(left.data, i), Pointers(q.data))
           /\ IsHeld(Cell(left.data, i), Pointers(q.data)) => SameClass
<1> DEFINE A == Cell(left.data, i)
           B == Holders(q.data, T)
           pairs == {pair \in zt_ht : pair[2] = T}
<1>1. /\ acc = left /\ left \in LeftOperands /\ q \in RightOperands /\ ScanInv
      /\ i \in DOMAIN left.data /\ i \in DOMAIN q.data
      /\ Z = left.data[i] /\ Z.id = NameP(i) /\ T = q.data[i]
  BY DEF IInv, Found, Z, T, NameP
<1>2. i \in A /\ i \in B /\ IsFiniteSet(B) /\ IsFiniteSet(A)
  <2>1. A \in SUBSET DOMAIN left.data /\ B \in SUBSET DOMAIN q.data
    BY DEF Cell, Group, Holders
  <2>2. IsFiniteSet(DOMAIN left.data) /\ IsFiniteSet(DOMAIN q.data)
    BY <1>1, LeftShape, RightShape
  <2>3. IsFiniteSet(B) /\ IsFiniteSet(A)
    BY <2>1, <2>2, FS_Subset
  <2> QED
    BY <1>1, <2>3 DEF Cell, Group, Holders
<1>3. /\ Z.id \in A /\ Z.id \in Nat
      /\ \A o \in A : o \in DOMAIN left.data /\ Z.id <= o /\ left.data[o] = Z
      /\ \A o \in DOMAIN left.data : NameP(o) \in A => left.data[o] = Z
  <2>1. ASSUME NEW o \in A
        PROVE  o \in DOMAIN left.data /\ Z.id <= o /\ left.data[o] = Z
    <3>1. o \in DOMAIN left.data /\ left.data[o].id = left.data[i].id
      BY DEF Cell, Group
    <3> QED
      BY <1>1, <3>1, NamesTell, LeftShape
  <2>2. Z.id \in A /\ Z.id \in Nat
    BY <1>1, NamesTell, LeftShape DEF Cell, Group
  <2>3. ASSUME NEW o \in DOMAIN left.data, NameP(o) \in A PROVE left.data[o] = Z
    <3>1. left.data[NameP(o)] = left.data[o]
      BY <1>1, LeftShape DEF NameP
    <3> QED
      BY <2>1, <2>3, <3>1
  <2> QED
    BY <2>1, <2>2, <2>3
<1>4. ASSUME A \subseteq DOMAIN q.data, SameClass PROVE Kept(A, Pointers(q.data))
  <2>1. Cardinality(A) = Cardinality(B) + Cardinality(pairs)
    BY <1>4, UseCountsAtFirst DEF SameClass
  <2>2. /\ Cardinality(A) \in Nat /\ Cardinality(B) \in Nat
        /\ Cardinality(pairs) \in Nat
    BY UseCountsAtFirst
  <2>3. CASE A \subseteq B
    <3>1. Cardinality(A) <= Cardinality(B)
          /\ (Cardinality(A) = Cardinality(B) => A = B)
      BY <1>2, <2>3, FS_Subset
    <3>2. Cardinality(A) = Cardinality(B)
      <4> HIDE DEF A, B, pairs
      <4> QED
        BY <2>1, <2>2, <3>1
    <3>3. PointerOf(q.data, i) \in Pointers(q.data)
      BY <1>1, RightShape, PointersShape
    <3>4. PointerOf(q.data, i).held = A /\ PointerOf(q.data, i).id \in A
      BY <1>1, <1>3, <1>4, <3>1, <3>2 DEF PointerOf, SameClass
    <3> QED
      BY <3>3, <3>4 DEF Kept, IsHeld
  <2>4. CASE ~(A \subseteq B)
    <3>1. PICK o \in A : o \notin B
      BY <2>4
    <3>2. o \in A \cap DOMAIN q.data /\ i \in A \cap DOMAIN q.data
      BY <1>1, <1>2, <1>4, <3>1
    <3>3. q.data[i] # q.data[o]
      BY <1>1, <3>1, <3>2 DEF Holders
    <3> HIDE DEF A
    <3> QED
      BY <1>1, <3>2, <3>3, SpreadIsKept
  <2> QED
    BY <2>3, <2>4
<1>5. ASSUME IsHeld(A, Pointers(q.data)) PROVE SameClass
  <2>1. A = B /\ T.id \in A
    <3>1. PICK t \in Pointers(q.data) : t.held = A /\ t.id \in A
      BY <1>5 DEF IsHeld
    <3>2. PICK o \in DOMAIN q.data : t = PointerOf(q.data, o)
      BY <1>1, RightShape, PointersShape
    <3>3. A = Holders(q.data, q.data[o]) /\ q.data[o].id \in A
      BY <3>1, <3>2 DEF PointerOf
    <3>4. q.data[i] = q.data[o]
      BY <1>2, <3>3 DEF Holders
    <3> QED
      BY <1>1, <3>3, <3>4
  <2>2. Z.id = T.id
    <3>1. Z.id <= T.id
      BY <1>3, <2>1
    <3>2. T.id <= Z.id
      <4>1. Z.id \in DOMAIN q.data /\ q.data[Z.id] = T
        BY <1>3, <2>1 DEF Holders
      <4> QED
        BY <1>1, <4>1, RightShape
    <3>3. T.id \in Nat
      BY <1>1, RightShape
    <3> QED
      BY <1>3, <3>1, <3>2, <3>3
  <2>3. pairs = {}
    <3>1. ASSUME NEW o \in LookedUp, HandleQ(NameP(o)) = T PROVE FALSE
      <4>1. o \in DOMAIN left.data /\ NameP(o) \in DOMAIN left.data
        BY <1>1, LeftShape DEF ScanInv, NameP
      <4>2. NameP(o) \in LookedUp
        BY <1>1, <3>1, <4>1, LeftShape DEF ScanInv, NameP, LookedUp
      <4>3. NameP(o) \in B
        BY <1>1, <3>1, <4>2 DEF ScanInv, Holders, HandleQ
      <4>4. left.data[o] = Z
        BY <1>3, <2>1, <4>1, <4>3
      <4>5. <<left.data[o], HandleQ(NameP(o))>> \in zt_ht
        BY <1>1, <3>1 DEF ScanInv
      <4> QED
        BY <4>4, <4>5 DEF z_set
    <3> QED
      BY <1>1, <3>1 DEF ScanInv
  <2>4. UseCountOfZ = UseCountOfT
    <3>1. Cardinality(pairs) = 0
      BY <2>3, FS_EmptySet
    <3> QED
      BY <2>1, <3>1, UseCountsAtFirst
  <2> QED
    BY <2>2, <2>4 DEF SameClass
<1> QED
  BY <1>4, <1>5

-----------------------------------------------------------------------------
(* What an insertion in to_keep adds to the names kept.                     *)
LEMMA RegisterKeeps ==
    ASSUME IInv, pc = "scan", i \in DOMAIN left.data
    PROVE  /\ Register(to_keep, i) \subseteq to_keep \cup {i}
           /\ {NameP(o) : o \in Register(to_keep, i)} = KeptNames \cup {NameP(i)}
<1>1. acc = left
  BY DEF IInv
<1>2. Register(to_keep, i) = IF \E x \in to_keep : NameP(x) = NameP(i)
                             THEN to_keep ELSE to_keep \cup {i}
  BY <1>1 DEF Register, NameP
<1> QED
  BY <1>2 DEF KeptNames

(* A step of the scan keeps what is said of the classes already kept, and   *)
(* of the objects already looked up.                                        *)
LEMMA LookupEffect ==
    ASSUME IInv, pc = "scan", Found, i < acc.size,
           left' = left, q' = q, i' = i + 1
    PROVE  /\ LookedUp' = LookedUp \cup {i}
           /\ i' \in Nat /\ i' <= left.size
           /\ LookedUp' \subseteq DOMAIN left.data \cap DOMAIN q.data
           /\ NameP(i) \in LookedUp' /\ NameP(NameP(i)) = NameP(i)
           /\ Z = left.data[i] /\ T = HandleQ(i)
           /\ Z \notin z_set => NameP(i) = i
           /\ Z \in z_set => \E o \in LookedUp : left.data[o] = left.data[i]
<1>1. /\ acc = left /\ left \in LeftOperands /\ ScanInv
      /\ i \in DOMAIN left.data /\ i \in DOMAIN q.data
      /\ Z = left.data[i] /\ T = HandleQ(i)
  BY DEF IInv, Found, Z, T, HandleQ
<1>2. i \in Nat /\ left.size \in Nat /\ i < left.size
  BY <1>1, LeftShape DEF ScanInv
<1>3. LookedUp' = LookedUp \cup {i} /\ i' \in Nat /\ i' <= left.size
  BY <1>2 DEF LookedUp
<1>4. LookedUp' \subseteq DOMAIN left.data \cap DOMAIN q.data
  BY <1>1, <1>3 DEF ScanInv
<1>5. /\ NameP(i) \in LookedUp' /\ NameP(NameP(i)) = NameP(i)
      /\ left.data[NameP(i)] = left.data[i]
  <2>1. NameP(i) \in Nat /\ NameP(i) <= i /\ left.data[NameP(i)] = left.data[i]
    BY <1>1, LeftShape DEF NameP
  <2>2. NameP(NameP(i)) = NameP(i)
    BY <2>1 DEF NameP
  <2> QED
    BY <1>2, <1>3, <2>1, <2>2 DEF LookedUp
<1>6. ASSUME NEW o \in LookedUp PROVE left.data[o] \in z_set
  <2>1. <<left.data[o], HandleQ(NameP(o))>> \in zt_ht
    BY <1>1 DEF ScanInv
  <2> QED
    BY <2>1 DEF z_set
<1>7. ASSUME Z \in z_set PROVE \E o \in LookedUp : left.data[o] = left.data[i]
  BY <1>1, <1>7 DEF z_set, ScanInv
<1>8. Z \notin z_set => NameP(i) = i
  <2>1. ASSUME NameP(i) # i PROVE Z \in z_set
    <3>1. NameP(i) \in LookedUp
      BY <1>3, <1>5, <2>1
    <3> QED
      BY <1>1, <1>5, <1>6, <3>1
  <2> QED
    BY <2>1
<1> QED
  BY <1>1, <1>3, <1>4, <1>5, <1>7, <1>8

LEMMA FirstOfClassInv == IInv /\ FirstOfClass => IInv'
<1> SUFFICES ASSUME IInv, FirstOfClass PROVE IInv'
  OBVIOUS
<1>1. /\ pc = "scan" /\ pc' = "scan" /\ Found /\ i < acc.size
      /\ left' = left /\ q' = q /\ acc' = acc /\ i' = i + 1
      /\ Z \notin z_set /\ ScanInv /\ to_frag' = to_frag
  BY DEF IInv, FirstOfClass, Lookup
<1>2. /\ LookedUp' = LookedUp \cup {i}
      /\ i' \in Nat /\ i' <= left.size
      /\ LookedUp' \subseteq DOMAIN left.data \cap DOMAIN q.data
      /\ Z = left.data[i] /\ T = HandleQ(i) /\ NameP(i) = i
  BY <1>1, LookupEffect
<1>3. /\ \A x : NameP(x)' = NameP(x) /\ HandleQ(x)' = HandleQ(x)
      /\ Within' <=> Within
  BY <1>1 DEF NameP, HandleQ, Within
<1>4. zt_ht' = zt_ht \cup {<<left.data[i], HandleQ(NameP(i))>>}
  BY <1>2 DEF FirstOfClass
<1>5. /\ to_keep' \subseteq to_keep \cup {i}
      /\ KeptNames' = IF SameClass THEN KeptNames \cup {NameP(i)} ELSE KeptNames
      /\ i \in to_keep' => SameClass \/ i \in to_keep
  <2>1. i \in DOMAIN left.data
    BY <1>1, <1>2
  <2>2. KeptNames' = {NameP(o) : o \in to_keep'}
    BY <1>3 DEF KeptNames
  <2>3. to_keep' = IF SameClass THEN Register(to_keep, i) ELSE to_keep
    BY DEF FirstOfClass
  <2> QED
    BY <1>1, <2>1, <2>2, <2>3, RegisterKeeps DEF KeptNames
<1>6. /\ Cell(left.data, i) \subseteq DOMAIN q.data /\ SameClass =>
             Kept(Cell(left.data, i), Pointers(q.data))
      /\ IsHeld(Cell(left.data, i), Pointers(q.data)) => SameClass
  BY <1>1, FirstMeeting
<1>7. zt_ht' = {<<left.data[o], HandleQ(NameP(o))>> : o \in LookedUp'}
  BY <1>1, <1>2, <1>4 DEF ScanInv
<1>8. to_keep' \subseteq LookedUp'
  BY <1>1, <1>2, <1>5 DEF ScanInv
<1>9. ASSUME NEW o \in LookedUp'
      PROVE  /\ HandleQ(o) # HandleQ(NameP(o)) => NameP(o) \in KeptNames'
             /\ IsHeld(Cell(left.data, o), Pointers(q.data)) =>
                    NameP(o) \in KeptNames'
  <2>1. CASE o \in LookedUp
    BY <1>1, <1>5, <2>1 DEF ScanInv
  <2>2. CASE o = i
    BY <1>2, <1>5, <1>6, <2>2
  <2> QED
    BY <1>2, <2>1, <2>2
<1>10. ASSUME Within, NEW o \in to_keep'
       PROVE  Kept(Cell(left.data, o), Pointers(q.data))
  <2>1. CASE o \in to_keep
    BY <1>1, <1>10, <2>1 DEF ScanInv
  <2>2. CASE o = i /\ SameClass
    <3>1. Cell(left.data, i) \subseteq DOMAIN q.data
      BY <1>10 DEF Cell, Group, Within
    <3> QED
      BY <1>6, <2>2, <3>1
  <2> QED
    BY <1>5, <2>1, <2>2
<1>11. ScanInv'
  BY <1>1, <1>2, <1>3, <1>7, <1>8, <1>9, <1>10 DEF ScanInv
<1> QED
  BY <1>1, <1>11 DEF IInv

LEMMA SecondMeetingInv == IInv /\ SecondMeeting => IInv'
<1> SUFFICES ASSUME IInv, SecondMeeting PROVE IInv'
  OBVIOUS
<1>1. /\ pc = "scan" /\ pc' = "scan" /\ Found /\ i < acc.size
      /\ left' = left /\ q' = q /\ acc' = acc /\ i' = i + 1
      /\ Z \in z_set /\ ScanInv /\ to_frag' = to_frag /\ zt_ht' = zt_ht
      /\ left \in LeftOperands /\ q \in RightOperands
  BY DEF IInv, SecondMeeting, Lookup
<1>2. /\ LookedUp' = LookedUp \cup {i}
      /\ i' \in Nat /\ i' <= left.size
      /\ LookedUp' \subseteq DOMAIN left.data \cap DOMAIN q.data
      /\ Z = left.data[i] /\ T = HandleQ(i)
      /\ NameP(i) \in LookedUp' /\ NameP(NameP(i)) = NameP(i)
      /\ \E o \in LookedUp : left.data[o] = left.data[i]
  BY <1>1, LookupEffect
<1>3. /\ \A x : NameP(x)' = NameP(x) /\ HandleQ(x)' = HandleQ(x)
      /\ Within' <=> Within
  BY <1>1 DEF NameP, HandleQ, Within
<1>4. /\ to_keep' \subseteq to_keep \cup {i}
      /\ KeptNames' = KeptNames \cup {NameP(i)}
  <2>1. i \in DOMAIN left.data
    BY <1>1, <1>2
  <2>2. KeptNames' = {NameP(o) : o \in to_keep'}
    BY <1>3 DEF KeptNames
  <2>3. to_keep' = Register(to_keep, i)
    BY DEF SecondMeeting
  <2> QED
    BY <1>1, <2>1, <2>2, <2>3, RegisterKeeps
<1>5. <<left.data[i], HandleQ(NameP(i))>> \in zt_ht
  <2>1. PICK o \in LookedUp : left.data[o] = left.data[i]
    BY <1>2
  <2>2. NameP(o) = NameP(i)
    BY <2>1 DEF NameP
  <2>3. <<left.data[o], HandleQ(NameP(o))>> \in zt_ht
    BY <1>1 DEF ScanInv
  <2> QED
    BY <2>1, <2>2, <2>3
<1>6. HandleQ(i) # HandleQ(NameP(i))
  BY <1>2, <1>5 DEF SecondMeeting
<1>7. Kept(Cell(left.data, i), Pointers(q.data))
  <2> DEFINE A == Cell(left.data, i)
             y == NameP(i)
  <2>1. i \in A \cap DOMAIN q.data /\ y \in A \cap DOMAIN q.data
    BY <1>1, <1>2 DEF Cell, Group, NameP
  <2>2. q.data[i] # q.data[y]
    BY <1>6 DEF HandleQ
  <2> HIDE DEF A, y
  <2> QED
    BY <1>1, <2>1, <2>2, SpreadIsKept DEF A
<1>8. zt_ht' = {<<left.data[o], HandleQ(NameP(o))>> : o \in LookedUp'}
  BY <1>1, <1>2, <1>5 DEF ScanInv
<1>9. to_keep' \subseteq LookedUp'
  BY <1>1, <1>2, <1>4 DEF ScanInv
<1>10. ASSUME NEW o \in LookedUp'
       PROVE  /\ HandleQ(o) # HandleQ(NameP(o)) => NameP(o) \in KeptNames'
              /\ IsHeld(Cell(left.data, o), Pointers(q.data)) =>
                     NameP(o) \in KeptNames'
  BY <1>1, <1>2, <1>4, <1>10 DEF ScanInv
<1>11. Within => \A o \in to_keep' : Kept(Cell(left.data, o), Pointers(q.data))
  BY <1>1, <1>4, <1>7 DEF ScanInv
<1>12. ScanInv'
  BY <1>1, <1>2, <1>3, <1>8, <1>9, <1>10, <1>11 DEF ScanInv
<1> QED
  BY <1>1, <1>12 DEF IInv

LEMMA KnownPairInv == IInv /\ KnownPair => IInv'
<1> SUFFICES ASSUME IInv, KnownPair PROVE IInv'
  OBVIOUS
<1>1. /\ pc = "scan" /\ pc' = "scan" /\ Found /\ i < acc.size
      /\ left' = left /\ q' = q /\ acc' = acc /\ i' = i + 1
      /\ ScanInv /\ to_frag' = to_frag /\ zt_ht' = zt_ht /\ to_keep' = to_keep
      /\ left \in LeftOperands /\ <<Z, T>> \in zt_ht
  BY DEF IInv, KnownPair, Lookup
<1>2. /\ LookedUp' = LookedUp \cup {i}
      /\ i' \in Nat /\ i' <= left.size
      /\ LookedUp' \subseteq DOMAIN left.data \cap DOMAIN q.data
      /\ Z = left.data[i] /\ T = HandleQ(i)
  BY <1>1, LookupEffect
<1>3. /\ \A x : NameP(x)' = NameP(x) /\ HandleQ(x)' = HandleQ(x)
      /\ Within' <=> Within
      /\ KeptNames' = KeptNames
  BY <1>1 DEF NameP, HandleQ, Within, KeptNames
<1>4. PICK o \in LookedUp :
        left.data[o] = left.data[i] /\ HandleQ(NameP(o)) = HandleQ(i)
  BY <1>1, <1>2 DEF ScanInv
<1>5. /\ NameP(o) = NameP(i)
      /\ <<left.data[i], HandleQ(NameP(i))>> = <<left.data[o], HandleQ(NameP(o))>>
  BY <1>4 DEF NameP
<1>6. zt_ht' = {<<left.data[x], HandleQ(NameP(x))>> : x \in LookedUp'}
  BY <1>1, <1>2, <1>5 DEF ScanInv
<1>7. Cell(left.data, o) = Cell(left.data, i)
  BY <1>4 DEF Cell
<1>8. ASSUME NEW x \in LookedUp'
      PROVE  /\ HandleQ(x) # HandleQ(NameP(x)) => NameP(x) \in KeptNames
             /\ IsHeld(Cell(left.data, x), Pointers(q.data)) =>
                    NameP(x) \in KeptNames
  <2>1. CASE x \in LookedUp
    BY <1>1, <2>1 DEF ScanInv
  <2>2. CASE x = i
    BY <1>1, <1>4, <1>5, <1>7, <2>2 DEF ScanInv
  <2> QED
    BY <1>2, <1>8, <2>1, <2>2
<1>9. to_keep' \subseteq LookedUp'
  BY <1>1, <1>2 DEF ScanInv
<1>10. ScanInv'
  BY <1>1, <1>2, <1>3, <1>6, <1>8, <1>9 DEF ScanInv
<1> QED
  BY <1>1, <1>10 DEF IInv

(* Steps that leave what was looked up and recorded as it is.               *)
LEMMA ScanKept ==
    ASSUME ScanInv, left' = left, q' = q, i' = i, zt_ht' = zt_ht, to_keep' = to_keep
    PROVE  ScanInv'
<1>1. /\ \A x : NameP(x)' = NameP(x) /\ HandleQ(x)' = HandleQ(x)
      /\ Within' <=> Within
      /\ LookedUp' = LookedUp /\ KeptNames' = KeptNames
  BY DEF NameP, HandleQ, Within, LookedUp, KeptNames
<1> QED
  BY <1>1 DEF ScanInv

LEMMA NotFoundInv == IInv /\ NotFound => IInv'
<1> SUFFICES ASSUME IInv, NotFound PROVE IInv'
  OBVIOUS
<1>1. ScanInv'
  BY ScanKept DEF IInv, NotFound
<1> QED
  BY <1>1 DEF IInv, NotFound, Lookup

LEMMA EndScanInv == IInv /\ EndScan => IInv'
<1> SUFFICES ASSUME IInv, EndScan PROVE IInv'
  OBVIOUS
<1>1. /\ acc = left /\ left \in LeftOperands /\ ScanInv /\ i = left.size
      /\ left' = left /\ q' = q /\ acc' = acc /\ i' = i /\ pc' = "fragment"
      /\ to_keep' = to_keep /\ zt_ht' = zt_ht /\ to_frag' = ToFragment
  BY DEF IInv, EndScan
<1>2. ScanInv'
  BY <1>1, ScanKept
<1>3. /\ \A x : NameP(x)' = NameP(x)
      /\ LookedUp' = LookedUp /\ KeptNames' = KeptNames
  BY <1>1 DEF NameP, LookedUp, KeptNames
<1>4. ASSUME NEW o \in LookedUp
      PROVE  /\ o \in Nat /\ NameP(o) \in Nat /\ NameP(o) <= o
             /\ NameP(o) \in LookedUp /\ NameP(NameP(o)) = NameP(o)
             /\ o \in DOMAIN left.data
  <2>1. o \in DOMAIN left.data
    BY <1>1 DEF ScanInv
  <2>2. o \in Nat /\ NameP(o) \in Nat /\ NameP(o) <= o
    BY <1>1, <2>1, LeftShape DEF NameP
  <2>3. NameP(NameP(o)) = NameP(o)
    BY <1>1, <2>1, NamesTell DEF NameP
  <2>4. NameP(o) \in LookedUp
    BY <1>1, <2>2 DEF LookedUp, ScanInv
  <2> QED
    BY <2>1, <2>2, <2>3, <2>4
<1>5. ToFragment = {o \in LookedUp : NameP(o) = o /\ o \notin KeptNames}
  <2>1. ASSUME NEW o \in LookedUp
        PROVE  (\A x \in 0..(o - 1) : acc.data[x].id # acc.data[o].id)
                  <=> NameP(o) = o
    <3>1. ASSUME NameP(o) # o PROVE \E x \in 0..(o - 1) : NameP(x) = NameP(o)
      <4>1. NameP(o) \in 0..(o - 1)
        BY <1>4, <3>1
      <4> QED
        BY <1>4, <4>1
    <3>2. ASSUME NameP(o) = o, NEW x \in 0..(o - 1) PROVE NameP(x) # o
      <4>1. x \in LookedUp
        BY <1>1 DEF LookedUp, ScanInv
      <4> QED
        BY <1>4, <3>2, <4>1
    <3> QED
      BY <1>1, <3>1, <3>2 DEF NameP
  <2>2. ASSUME NEW o \in LookedUp, NameP(o) = o
        PROVE  (\A x \in to_keep : acc.data[x].id # acc.data[o].id)
                  <=> o \notin KeptNames
    BY <1>1, <2>2 DEF KeptNames, NameP
  <2> QED
    BY <2>1, <2>2 DEF ToFragment, LookedUp
<1>6. ASSUME NEW x \in DOMAIN left.data PROVE ~Broken(x)'
  <2>1. ASSUME NameP(x) \in LookedUp, NameP(x) \notin KeptNames
        PROVE  NameP(x) \in ToFragment
    <3>1. NameP(NameP(x)) = NameP(x)
      BY <1>1, NamesTell DEF NameP
    <3> QED
      BY <1>5, <2>1, <3>1
  <2> QED
    BY <1>1, <1>3, <2>1 DEF Broken
<1>7. acc.nb \in Int /\ Cardinality(ClassIds(acc.data)) \in Nat
  BY <1>1, LeftShape, BlocksCounted, FS_CardinalityType
<1>8. acc.nb - left.nb
        = Cardinality(ClassIds(acc.data)) - Cardinality(ClassIds(left.data))
  BY <1>1, <1>7
<1>9. FragmentInv'
  BY <1>1, <1>3, <1>5, <1>6, <1>7, <1>8 DEF FragmentInv
<1> QED
  BY <1>1, <1>2, <1>9 DEF IInv

(* The class to fragment is still the class P had, and its members other    *)
(* than the one that names it become names not in use.                      *)
LEMMA FragmentEffect ==
    ASSUME IInv, NEW cid \in Objects, FragmentClass(cid)
    PROVE  /\ cid \in DOMAIN left.data /\ NameP(cid) = cid
           /\ DOMAIN acc'.data = DOMAIN left.data
           /\ \A x \in DOMAIN left.data :
                 acc'.data[x] = IF NameP(x) = cid /\ x # cid
                                THEN NewClass(x) ELSE acc.data[x]
           /\ acc'.nb \in Int
           /\ acc'.nb - left.nb
                 = Cardinality(ClassIds(acc'.data)) - Cardinality(ClassIds(left.data))
<1>1. /\ FragmentInv /\ left \in LeftOperands /\ cid \in to_frag
      /\ DOMAIN acc = {"size", "nb", "data"}
      /\ DOMAIN acc.data = DOMAIN left.data
  BY DEF IInv, FragmentClass, FragmentInv
<1>2. cid \in DOMAIN left.data /\ NameP(cid) = cid
  BY <1>1 DEF FragmentInv, IInv, ScanInv
<1>3. ASSUME NEW x \in DOMAIN left.data
      PROVE  acc.data[x].id = cid <=> NameP(x) = cid
  <2>1. CASE Broken(x) /\ x # NameP(x)
    <3>1. acc.data[x].id = x /\ NameP(x) # cid
      <4>1. acc.data[x] = NewClass(x)
        BY <1>1, <2>1 DEF FragmentInv
      <4> QED
        BY <1>1, <2>1, <4>1, NewClassId DEF Broken
    <3> QED
      BY <1>2, <2>1, <3>1
  <2>2. CASE ~(Broken(x) /\ x # NameP(x))
    BY <1>1, <2>2 DEF FragmentInv, NameP
  <2> QED
    BY <2>1, <2>2
<1>4. acc.data[cid].id = cid
  BY <1>2, <1>3
<1>5. /\ acc'.data = Fragment(acc.data, cid)
      /\ acc'.nb = acc.nb + FragmentCount(acc.data, cid)
  BY <1>1, <1>4 DEF FragmentClass
<1>6. /\ DOMAIN acc'.data = DOMAIN left.data
      /\ \A x \in DOMAIN left.data :
            acc'.data[x] = IF NameP(x) = cid /\ x # cid
                           THEN NewClass(x) ELSE acc.data[x]
  BY <1>1, <1>3, <1>5 DEF Fragment
<1> DEFINE A == ClassIds(acc.data)
           B == Group(acc.data, cid) \ {cid}
<1>7. ClassIds(acc'.data) = A \cup B
  <2>1. ASSUME NEW x \in DOMAIN left.data PROVE acc'.data[x].id \in A \cup B
    <3>1. CASE NameP(x) = cid /\ x # cid
      <4>1. acc'.data[x].id = x
        BY <1>6, <3>1, NewClassId
      <4> QED
        BY <1>1, <1>3, <3>1, <4>1 DEF Group, FragmentInv
    <3>2. CASE ~(NameP(x) = cid /\ x # cid)
      BY <1>1, <1>6, <3>2 DEF ClassIds, FragmentInv
    <3> QED
      BY <3>1, <3>2
  <2>2. ASSUME NEW y \in A PROVE y \in ClassIds(acc'.data)
    <3>1. PICK x \in DOMAIN left.data : y = acc.data[x].id
      BY <1>1, <2>2 DEF ClassIds, FragmentInv
    <3>2. CASE NameP(x) = cid /\ x # cid
      <4>1. y = cid /\ acc'.data[cid] = acc.data[cid]
        BY <1>2, <1>3, <1>6, <3>1, <3>2
      <4>2. acc.data[cid].id = cid
        BY <1>2, <1>3
      <4> QED
        BY <1>2, <1>6, <4>1, <4>2 DEF ClassIds
    <3>3. CASE ~(NameP(x) = cid /\ x # cid)
      BY <1>6, <3>1, <3>3 DEF ClassIds
    <3> QED
      BY <3>2, <3>3
  <2>3. ASSUME NEW y \in B PROVE y \in ClassIds(acc'.data)
    <3>1. y \in DOMAIN left.data /\ NameP(y) = cid /\ y # cid
      BY <1>1, <1>3, <2>3 DEF Group
    <3>2. acc'.data[y].id = y
      BY <1>6, <3>1, NewClassId
    <3> QED
      BY <1>6, <3>1, <3>2 DEF ClassIds
  <2>4. ClassIds(acc'.data) \subseteq A \cup B
    BY <1>6, <2>1 DEF ClassIds
  <2> HIDE DEF A, B
  <2> QED
    BY <2>2, <2>3, <2>4
<1>8. A \cap B = {}
  <2> SUFFICES ASSUME NEW x \in DOMAIN left.data, acc.data[x].id \in B
               PROVE  FALSE
    BY <1>1 DEF ClassIds, FragmentInv
  <2> DEFINE y == acc.data[x].id
  <2>1. y \in DOMAIN left.data /\ NameP(y) = cid /\ y # cid
    BY <1>1, <1>3 DEF Group, FragmentInv
  <2>2. CASE Broken(x) /\ x # NameP(x)
    <3>1. y = x
      <4>1. acc.data[x] = NewClass(x)
        BY <1>1, <2>2 DEF FragmentInv
      <4> QED
        BY <4>1, NewClassId
    <3> QED
      BY <1>1, <2>1, <2>2, <3>1 DEF Broken
  <2>3. CASE ~(Broken(x) /\ x # NameP(x))
    <3>1. y = NameP(x)
      BY <1>1, <2>3 DEF FragmentInv, NameP
    <3>2. NameP(y) = y
      BY <1>1, <3>1, NamesTell DEF NameP
    <3> QED
      BY <2>1, <3>2
  <2> QED
    BY <2>2, <2>3
<1>9. Cardinality(A \cup B) = Cardinality(A) + Cardinality(B)
      /\ Cardinality(A) \in Nat /\ Cardinality(B) \in Nat
  <2>1. IsFiniteSet(DOMAIN acc.data)
    BY <1>1, LeftShape
  <2>2. IsFiniteSet(A)
    BY <2>1, BlocksCounted
  <2>3. IsFiniteSet(B)
    <3>1. B \in SUBSET DOMAIN acc.data
      BY DEF Group
    <3> QED
      BY <2>1, <3>1, FS_Subset
  <2>4. Cardinality(A \cup B)
          = Cardinality(A) + Cardinality(B) - Cardinality(A \cap B)
    BY <2>2, <2>3, FS_Union
  <2>5. Cardinality(A \cap B) = 0
    BY <1>8, FS_EmptySet
  <2>6. Cardinality(A) \in Nat /\ Cardinality(B) \in Nat
    BY <2>2, <2>3, FS_CardinalityType
  <2> HIDE DEF A, B
  <2> QED
    BY <2>4, <2>5, <2>6
<1>10. acc'.nb \in Int
       /\ acc'.nb - left.nb
            = Cardinality(ClassIds(acc'.data)) - Cardinality(ClassIds(left.data))
  <2>1. /\ left.nb \in Int /\ acc.nb \in Int
        /\ Cardinality(ClassIds(left.data)) \in Nat
    BY <1>1, LeftShape, BlocksCounted, FS_CardinalityType DEF FragmentInv
  <2>2. acc.nb - left.nb = Cardinality(A) - Cardinality(ClassIds(left.data))
    BY <1>1 DEF FragmentInv
  <2>3. acc'.nb = acc.nb + Cardinality(B)
    BY <1>5 DEF FragmentCount
  <2>4. Cardinality(ClassIds(acc'.data)) = Cardinality(A) + Cardinality(B)
    BY <1>7, <1>9
  <2>5. Cardinality(A) \in Nat /\ Cardinality(B) \in Nat
    BY <1>9
  <2> HIDE DEF A, B
  <2> QED
    BY <2>1, <2>2, <2>3, <2>4, <2>5
<1> QED
  BY <1>2, <1>6, <1>10

LEMMA FragmentClassInv ==
    ASSUME NEW cid \in Objects
    PROVE  IInv /\ FragmentClass(cid) => IInv'
<1> SUFFICES ASSUME IInv, FragmentClass(cid) PROVE IInv'
  OBVIOUS
<1>1. /\ FragmentInv /\ left \in LeftOperands /\ ScanInv
      /\ DOMAIN acc = {"size", "nb", "data"} /\ pc = "fragment"
      /\ cid \in to_frag /\ to_frag' = to_frag \ {cid}
      /\ left' = left /\ q' = q /\ i' = i /\ zt_ht' = zt_ht
      /\ to_keep' = to_keep /\ pc' = pc
  BY DEF IInv, FragmentClass
<1>2. DOMAIN acc' = DOMAIN acc /\ acc'.size = acc.size
  BY <1>1 DEF FragmentClass
<1>3. ScanInv'
  BY <1>1, ScanKept
<1>4. /\ \A x : NameP(x)' = NameP(x)
      /\ LookedUp' = LookedUp /\ KeptNames' = KeptNames
  BY <1>1 DEF NameP, LookedUp, KeptNames
<1>5. cid \in LookedUp /\ NameP(cid) = cid /\ cid \notin KeptNames
  BY <1>1 DEF FragmentInv
<1>6. ASSUME NEW x \in DOMAIN left.data
      PROVE  Broken(x)' <=> Broken(x) \/ NameP(x) = cid
  BY <1>1, <1>4, <1>5 DEF Broken
<1>7. ASSUME NEW x \in DOMAIN left.data
      PROVE  acc'.data[x] = IF Broken(x)' /\ x # NameP(x)
                            THEN NewClass(x) ELSE left.data[x]
  <2>1. acc'.data[x] = IF NameP(x) = cid /\ x # cid
                       THEN NewClass(x) ELSE acc.data[x]
    BY FragmentEffect
  <2>2. acc.data[x] = IF Broken(x) /\ x # NameP(x)
                      THEN NewClass(x) ELSE left.data[x]
    BY <1>1 DEF FragmentInv
  <2> QED
    BY <1>6, <2>1, <2>2
<1>8. FragmentInv'
  <2>1. /\ DOMAIN acc'.data = DOMAIN left.data /\ acc'.nb \in Int
        /\ acc'.nb - left.nb
             = Cardinality(ClassIds(acc'.data)) - Cardinality(ClassIds(left.data))
    BY FragmentEffect
  <2>2. to_frag' \subseteq {o \in LookedUp : NameP(o) = o /\ o \notin KeptNames}
    BY <1>1 DEF FragmentInv
  <2>3. i' = left'.size
    BY <1>1 DEF FragmentInv
  <2> QED
    BY <1>1, <1>4, <1>7, <2>1, <2>2, <2>3 DEF FragmentInv
<1> QED
  BY <1>1, <1>2, <1>3, <1>8 DEF IInv

(* What is said of the classes fragmented does not depend on pc.            *)
LEMMA FragmentKept ==
    ASSUME FragmentInv, left' = left, acc' = acc, i' = i,
           to_keep' = to_keep, to_frag' = to_frag
    PROVE  FragmentInv'
<1>1. /\ \A x : NameP(x)' = NameP(x)
      /\ LookedUp' = LookedUp /\ KeptNames' = KeptNames
  BY DEF NameP, LookedUp, KeptNames
<1>2. \A x : Broken(x)' <=> Broken(x)
  BY <1>1 DEF Broken
<1> QED
  BY <1>1, <1>2 DEF FragmentInv

LEMMA FinishInv == IInv /\ Finish => IInv'
<1> SUFFICES ASSUME IInv, Finish PROVE IInv'
  OBVIOUS
<1>1. ScanInv'
  BY ScanKept DEF IInv, Finish
<1>2. FragmentInv'
  BY FragmentKept DEF IInv, Finish
<1> QED
  BY <1>1, <1>2 DEF IInv, Finish

LEMMA StutterInv == IInv /\ UNCHANGED vars => IInv'
<1> SUFFICES ASSUME IInv, UNCHANGED vars PROVE IInv'
  OBVIOUS
<1>1. ScanInv'
  BY ScanKept DEF IInv, vars
<1>2. FragmentInv => FragmentInv'
  BY FragmentKept DEF vars
<1> QED
  BY <1>1, <1>2 DEF IInv, vars

LEMMA StepInv == IInv /\ [Next]_vars => IInv'
BY FirstOfClassInv, SecondMeetingInv, KnownPairInv, NotFoundInv, EndScanInv,
   FragmentClassInv, FinishInv, StutterInv DEF Next

(* IInv holds throughout.                                                   *)
LEMMA Invariance == Spec => []IInv
BY InitInv, StepInv, PTL DEF Spec

-----------------------------------------------------------------------------
(* The number of shared pointers decides equality: where the scan meets a   *)
(* class of P for the first time, equal names and equal counts say that the *)
(* class is what a ClassId of Q holds or is spread over several, and such a *)
(* class is always recognised.                                              *)
THEOREM CountsDecide == Spec => []CountDecidesEquality
<1>1. IInv => CountDecidesEquality
  <2> SUFFICES ASSUME IInv, pc = "scan", i < acc.size, Found, Z \notin z_set
               PROVE  LET z == Holders(acc.data, Z)
                      IN  /\ z \subseteq DOMAIN q.data /\ SameClass =>
                                Kept(z, Pointers(q.data))
                          /\ IsHeld(z, Pointers(q.data)) => SameClass
    BY DEF CountDecidesEquality
  <2>1. acc = left /\ left \in LeftOperands /\ i \in DOMAIN left.data
    BY DEF IInv, Found
  <2>2. Holders(acc.data, Z) = Cell(left.data, i)
    BY <2>1, NamesTell DEF Z
  <2> QED
    BY <2>2, FirstMeeting
<1> QED
  BY <1>1, Invariance, PTL

(* When the scan is over and _size counts, the classes with an element in   *)
(* to_keep are those that P - Q keeps.                                      *)
LEMMA KeptAreSurvivors ==
    ASSUME IInv, pc \in {"fragment", "done"}, SizeCounts, NEW x \in DOMAIN left.data
    PROVE  /\ NameP(x) \in LookedUp
           /\ NameP(x) \in KeptNames <=> Kept(Cell(left.data, x), Pointers(q.data))
<1>1. /\ ScanInv /\ i = left.size /\ left \in LeftOperands /\ q \in RightOperands
  BY DEF IInv, FragmentInv
<1>2. DOMAIN left.data = LookedUp
  <2>1. 0..(left.size - 1) \subseteq DOMAIN left.data
    BY <1>1 DEF ScanInv, LookedUp
  <2> QED
    BY <1>1, <2>1, LookedUpIsAll DEF LookedUp
<1>3. Within /\ NameP(x) \in LookedUp
  BY <1>1, <1>2, LeftShape DEF ScanInv, Within, NameP
<1>4. ASSUME NameP(x) \in KeptNames
      PROVE  Kept(Cell(left.data, x), Pointers(q.data))
  <2>1. PICK o \in to_keep : NameP(x) = NameP(o)
    BY <1>4 DEF KeptNames
  <2>2. Cell(left.data, x) = Cell(left.data, o)
    BY <2>1 DEF Cell, NameP
  <2> QED
    BY <1>1, <1>3, <2>2 DEF ScanInv
<1>5. ASSUME Kept(Cell(left.data, x), Pointers(q.data))
      PROVE  NameP(x) \in KeptNames
  <2> DEFINE A == Cell(left.data, x)
  <2>1. CASE IsHeld(A, Pointers(q.data))
    BY <1>1, <1>2, <2>1 DEF ScanInv
  <2>2. CASE ~IsHeld(A, Pointers(q.data))
    <3>1. PICK v \in A \cap DOMAIN q.data :
            \E w \in A \cap DOMAIN q.data : q.data[v] # q.data[w]
      <4> HIDE DEF A
      <4>1. Cardinality({t \in Pointers(q.data) : t.held \cap A # {}}) >= 2
        BY <1>5, <2>2 DEF Kept, A
      <4> QED
        BY <1>1, <4>1, RightShape, MeetsTwo
    <3>2. PICK o \in A : HandleQ(o) # HandleQ(NameP(x))
      BY <3>1 DEF HandleQ
    <3>3. o \in LookedUp /\ NameP(o) = NameP(x)
      BY <1>2, <3>2 DEF Cell, Group, NameP
    <3> QED
      BY <1>1, <3>2, <3>3 DEF ScanInv
  <2> QED
    BY <2>1, <2>2
<1> QED
  BY <1>3, <1>4, <1>5

(* What the accumulator holds in the end: the members of a class fragmented *)
(* each under its own name, every other object where it was.                *)
LEMMA DoneCells ==
    ASSUME IInv, pc = "done"
    PROVE  /\ DOMAIN acc.data = DOMAIN left.data
           /\ \A x \in DOMAIN left.data :
                 /\ acc.data[x].id = IF Broken(x) THEN x ELSE NameP(x)
                 /\ Cell(acc.data, x) = IF Broken(x) THEN {x}
                                        ELSE Cell(left.data, x)
           /\ WellShared(acc.data)
<1>1. /\ FragmentInv /\ left \in LeftOperands
      /\ DOMAIN acc.data = DOMAIN left.data
  BY DEF IInv, FragmentInv
<1>2. ASSUME NEW x \in DOMAIN left.data
      PROVE  /\ NameP(x) \in DOMAIN left.data /\ NameP(NameP(x)) = NameP(x)
             /\ left.data[x] = left.data[NameP(x)]
             /\ Broken(NameP(x)) <=> Broken(x)
  <2>1. /\ NameP(x) \in DOMAIN left.data /\ NameP(NameP(x)) = NameP(x)
        /\ left.data[x] = left.data[NameP(x)]
    BY <1>1, LeftShape, NamesTell DEF NameP
  <2> QED
    BY <2>1 DEF Broken
<1>3. ASSUME NEW x \in DOMAIN left.data
      PROVE  acc.data[x].id = IF Broken(x) THEN x ELSE NameP(x)
  <2>1. CASE Broken(x) /\ x # NameP(x)
    <3>1. acc.data[x] = NewClass(x)
      BY <1>1, <2>1 DEF FragmentInv
    <3> QED
      BY <2>1, <3>1, NewClassId
  <2>2. CASE ~(Broken(x) /\ x # NameP(x))
    <3>1. acc.data[x].id = NameP(x)
      BY <1>1, <2>2 DEF FragmentInv, NameP
    <3> QED
      BY <2>2, <3>1
  <2> QED
    BY <2>1, <2>2
<1>4. ASSUME NEW x \in DOMAIN left.data, NEW y \in DOMAIN left.data
      PROVE  Together(acc.data, x, y)
               <=> IF Broken(x) THEN x = y ELSE NameP(x) = NameP(y)
  <2>1. acc.data[x].id = (IF Broken(x) THEN x ELSE NameP(x))
        /\ acc.data[y].id = (IF Broken(y) THEN y ELSE NameP(y))
    BY <1>3
  <2>2. NameP(x) = NameP(y) => (Broken(x) <=> Broken(y))
    BY DEF Broken
  <2>3. ASSUME Broken(x), ~Broken(y), x = NameP(y) PROVE FALSE
    BY <1>2, <2>3
  <2>4. ASSUME ~Broken(x), Broken(y), NameP(x) = y PROVE FALSE
    BY <1>2, <2>4
  <2> QED
    BY <2>1, <2>2, <2>3, <2>4 DEF Together
<1>5. ASSUME NEW x \in DOMAIN left.data
      PROVE  Cell(acc.data, x) = IF Broken(x) THEN {x} ELSE Cell(left.data, x)
  <2>1. Cell(acc.data, x) = {y \in DOMAIN left.data : Together(acc.data, x, y)}
    BY <1>1 DEF Cell, Group, Together
  <2>2. Cell(left.data, x) = {y \in DOMAIN left.data : NameP(x) = NameP(y)}
    BY DEF Cell, Group, NameP
  <2>3. CASE ~Broken(x)
    BY <1>4, <2>1, <2>2, <2>3
  <2>4. CASE Broken(x)
    <3>1. \A y \in DOMAIN left.data : Together(acc.data, x, y) <=> x = y
      BY <1>4, <2>4
    <3> QED
      BY <2>1, <2>4, <3>1
  <2> QED
    BY <2>3, <2>4
<1>6. ASSUME NEW x \in DOMAIN left.data, NEW y \in DOMAIN left.data,
             Together(acc.data, x, y)
      PROVE  acc.data[x] = acc.data[y]
  <2>1. CASE ~Broken(x)
    <3>1. NameP(x) = NameP(y)
      BY <1>4, <1>6, <2>1
    <3>2. left.data[x] = left.data[y] /\ ~Broken(y)
      BY <1>2, <2>1, <3>1 DEF Broken
    <3> QED
      BY <1>1, <2>1, <3>2 DEF FragmentInv
  <2>2. CASE Broken(x)
    BY <1>4, <1>6, <2>2
  <2> QED
    BY <2>1, <2>2
<1> QED
  BY <1>1, <1>3, <1>5, <1>6 DEF WellShared

(* Blocks that stay, and objects that are alone, make up what BreakUp says. *)
LEMMA CellsOfBreakUp ==
    ASSUME NEW d, NEW e, DOMAIN e = DOMAIN d, NEW K \in SUBSET Blocks(d),
           \A x \in DOMAIN d :
              Cell(e, x) = IF Cell(d, x) \in K THEN Cell(d, x) ELSE {x}
    PROVE  Blocks(e) = BreakUp(Blocks(d), K)
<1>1. ASSUME NEW b \in Blocks(e) PROVE b \in BreakUp(Blocks(d), K)
  <2>1. PICK x \in DOMAIN d : b = Cell(e, x)
    <3>1. Blocks(e) = {Cell(e, x) : x \in DOMAIN e}
      BY BlocksAreCells
    <3> QED
      BY <1>1, <3>1
  <2>2. Cell(d, x) \in Blocks(d) /\ x \in Cell(d, x)
    BY BlocksAreCells
  <2>3. CASE Cell(d, x) \in K
    BY <2>1, <2>3 DEF BreakUp
  <2>4. CASE Cell(d, x) \notin K
    <3>1. x \in UNION (Blocks(d) \ K) /\ b = {x}
      BY <2>1, <2>2, <2>4
    <3> QED
      BY <3>1 DEF BreakUp
  <2> QED
    BY <2>3, <2>4
<1>2. ASSUME NEW b \in K PROVE b \in Blocks(e)
  <2>1. PICK x \in DOMAIN d : b = Cell(d, x)
    BY BlocksAreCells
  <2>2. b = Cell(e, x)
    BY <2>1
  <2>3. Cell(e, x) \in Blocks(e)
    BY <2>1, BlocksAreCells
  <2> QED
    BY <2>2, <2>3
<1>3. ASSUME NEW x \in UNION (Blocks(d) \ K) PROVE {x} \in Blocks(e)
  <2>1. PICK c \in Blocks(d) : x \in c /\ c \notin K
    OBVIOUS
  <2>2. PICK y \in DOMAIN d : c = Cell(d, y)
    BY BlocksAreCells
  <2>3. x \in DOMAIN d /\ c = Cell(d, x)
    BY <2>1, <2>2 DEF Cell, Group
  <2>4. {x} = Cell(e, x)
    BY <2>1, <2>3
  <2>5. Cell(e, x) \in Blocks(e)
    BY <2>3, BlocksAreCells
  <2> QED
    BY <2>4, <2>5
<1> QED
  BY <1>1, <1>2, <1>3 DEF BreakUp

(* When Less returns, each class of P is intact or in single objects, named *)
(* by its smallest member, and _classes_nb moved with the classes; if _size *)
(* counts, the result is P - Q, of the ClassIds Q holds in any case and of  *)
(* Q's classes when there is one ClassId to each.                           *)
THEOREM LessCorrect == Spec => []LessIsLess
<1>1. IInv => LessIsLess
  <2> SUFFICES ASSUME IInv, pc = "done"
               PROVE  /\ \A b \in Blocks(left.data) :
                            b \in Blocks(acc.data)
                              \/ \A x \in b : {x} \in Blocks(acc.data)
                      /\ NamedByMin(acc.data) /\ WellShared(acc.data)
                      /\ acc.nb - left.nb = Cardinality(Blocks(acc.data))
                                              - Cardinality(Blocks(left.data))
                      /\ SizeCounts =>
                            /\ Blocks(acc.data) = LessByPointer(Blocks(left.data),
                                                                Pointers(q.data))
                            /\ WellShared(q.data) =>
                                  Blocks(acc.data) = LessBlocks(Blocks(left.data),
                                                                Blocks(q.data))
    BY DEF LessIsLess
  <2> DEFINE D == DOMAIN left.data
             B == Blocks(left.data)
  <2>1. /\ FragmentInv /\ left \in LeftOperands /\ q \in RightOperands
        /\ DOMAIN acc.data = D /\ IsFiniteSet(D) /\ to_frag = {}
    BY LeftShape DEF IInv, FragmentInv
  <2>2. ASSUME NEW b \in B
        PROVE  b \in Blocks(acc.data) \/ \A x \in b : {x} \in Blocks(acc.data)
    <3>1. PICK x \in D : b = Cell(left.data, x)
      BY BlocksAreCells
    <3>2. CASE ~Broken(x)
      <4>1. b = Cell(acc.data, x)
        BY <3>1, <3>2, DoneCells
      <4> QED
        BY <2>1, <4>1, BlocksAreCells
    <3>3. CASE Broken(x)
      <4>1. ASSUME NEW y \in b PROVE {y} \in Blocks(acc.data)
        <5>1. y \in D /\ NameP(y) = NameP(x)
          BY <3>1 DEF Cell, Group, NameP
        <5>2. Broken(y)
          BY <3>3, <5>1 DEF Broken
        <5>3. Cell(acc.data, y) = {y}
          BY <5>1, <5>2, DoneCells
        <5>4. Cell(acc.data, y) \in Blocks(acc.data)
          BY <2>1, <5>1, BlocksAreCells
        <5> QED
          BY <5>3, <5>4
      <4> QED
        BY <4>1
    <3> QED
      BY <3>2, <3>3
  <2>3. ASSUME SizeCounts
        PROVE  /\ Blocks(acc.data) = LessByPointer(B, Pointers(q.data))
               /\ WellShared(q.data) =>
                     Blocks(acc.data) = LessBlocks(B, Blocks(q.data))
    <3> DEFINE K == {b \in B : Kept(b, Pointers(q.data))}
    <3>1. ASSUME NEW x \in D
          PROVE  Cell(acc.data, x) = IF Cell(left.data, x) \in K
                                     THEN Cell(left.data, x) ELSE {x}
      <4>1. Cell(left.data, x) \in B
        BY BlocksAreCells
      <4>2. Broken(x) <=> ~Kept(Cell(left.data, x), Pointers(q.data))
        BY <2>1, <2>3, KeptAreSurvivors DEF Broken
      <4> QED
        BY <4>1, <4>2, DoneCells
    <3>2. Blocks(acc.data) = BreakUp(B, K)
      <4> DEFINE d == left.data
                 e == acc.data
      <4>1. K \in SUBSET Blocks(d) /\ DOMAIN e = DOMAIN d
        BY <2>1
      <4>2. \A x \in DOMAIN d :
               Cell(e, x) = IF Cell(d, x) \in K THEN Cell(d, x) ELSE {x}
        BY <3>1
      <4> HIDE DEF d, e, K
      <4>3. Blocks(e) = BreakUp(Blocks(d), K)
        BY <4>1, <4>2, CellsOfBreakUp
      <4> QED
        BY <4>3 DEF d, e
    <3>3. WellShared(q.data) => K = {b \in B : Survives(b, Blocks(q.data))}
      BY <2>1, KeptIsSurvives
    <3> QED
      BY <3>2, <3>3 DEF LessByPointer, LessBlocks
  <2>4. NamedByMin(acc.data)
    <3>1. ASSUME NEW x \in D
          PROVE  /\ acc.data[x].id \in D /\ acc.data[x].id <= x
                 /\ acc.data[acc.data[x].id].id = acc.data[x].id
      <4>1. /\ NameP(x) \in D /\ NameP(x) <= x /\ x \in Nat
            /\ NameP(NameP(x)) = NameP(x)
        BY <2>1, LeftShape, NamesTell DEF NameP
      <4>2. acc.data[x].id = IF Broken(x) THEN x ELSE NameP(x)
        BY DoneCells
      <4>3. acc.data[NameP(x)].id = NameP(x)
        BY <4>1, DoneCells
      <4> QED
        BY <4>1, <4>2, <4>3
    <3> QED
      BY <2>1, <3>1 DEF NamedByMin, Together
  <2>5. acc.nb - left.nb = Cardinality(Blocks(acc.data)) - Cardinality(B)
    BY <2>1, BlocksCounted DEF FragmentInv
  <2> QED
    BY <2>2, <2>3, <2>4, <2>5, DoneCells
<1> QED
  BY <1>1, Invariance, PTL

(* Less implements the one-step operation: its lookups and fragmentations   *)
(* are stuttering steps, its return delivers P - Q, and a run lost to the   *)
(* end() of a container, or on a _size that does not count, delivers        *)
(* nothing.                                                                 *)
THEOREM LessRefinesOperation == Spec => PromiseKept
<1>1. Init => Promise!Init
  BY DEF Init, Delivered, Promise!Init
<1>2. LessIsLess' /\ [Next]_vars => [Promise!Compute]_(Promise!vars)
  <2> SUFFICES ASSUME LessIsLess', [Next]_vars
               PROVE  [Promise!Compute]_(Promise!vars)
    OBVIOUS
  <2>1. left' = left /\ q' = q /\ (SizeCounts' <=> SizeCounts)
    BY DEF Next, FirstOfClass, SecondMeeting, KnownPair, NotFound, EndScan,
           FragmentClass, Finish, vars, SizeCounts
  <2>2. CASE Finish /\ SizeCounts
    <3>1. ~Delivered /\ Delivered'
      BY <2>1, <2>2 DEF Finish, Delivered
    <3>2. Blocks(acc.data)' = LessByPointer(Blocks(left.data), Pointers(q.data))
      BY <2>1, <2>2 DEF Finish, LessIsLess
    <3> QED
      BY <2>1, <3>1, <3>2 DEF Promise!Compute
  <2>3. CASE ~(Finish /\ SizeCounts)
    <3>1. (~Delivered /\ ~Delivered') \/ UNCHANGED vars
      BY <2>1, <2>3 DEF Next, FirstOfClass, SecondMeeting, KnownPair, NotFound,
                        Lookup, EndScan, FragmentClass, vars, Delivered
    <3> QED
      BY <2>1, <3>1 DEF Promise!vars, vars, Delivered
  <2> QED
    BY <2>2, <2>3
<1> QED
  BY <1>1, <1>2, LessCorrect, PTL DEF Spec, PromiseKept, Promise!Spec

=============================================================================
