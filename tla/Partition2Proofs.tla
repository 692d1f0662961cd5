--------------------------- MODULE Partition2Proofs ---------------------------
(***************************************************************************)
(* Theorems about Partition2, for any number of variables, any finite set   *)
(* of objects, any lists and every width of unsigned int that can count the *)
(* objects: whatever sequence of constructions, additions and copies made   *)
(* them, the variables hold the blocks asked for under canonical names.     *)
(*                                                                         *)
(* The heart is one call of merge_unsafe: what it does to the name of every *)
(* class (Renamed), and hence to what is tied together (Holds) and to the   *)
(* number of classes.                                                       *)
(***************************************************************************)
EXTENDS Partition2, CommonLemmas

(* What an operation of the container may be given.                         *)
Sound(d) ==
    /\ DOMAIN d \subseteq Nat
    /\ IsFiniteSet(DOMAIN d)
    /\ NamedByMin(d)

(* The name of the class of x, its own when merge_unsafe has to create it.  *)
NameIn(d, x) == IF x \in DOMAIN d THEN d[x].id ELSE x

LeastOf(m, n) == IF m <= n THEN m ELSE n

-----------------------------------------------------------------------------
(* What a sound container tells of the names.                               *)
LEMMA NameFacts ==
    ASSUME NEW d, Sound(d), NEW x \in Nat
    PROVE  /\ NameIn(d, x) \in Nat
           /\ NameIn(d, x) <= x
           /\ NameIn(d, NameIn(d, x)) = NameIn(d, x)
           /\ x \in DOMAIN d => NameIn(d, x) \in DOMAIN d
           /\ x \notin DOMAIN d => NameIn(d, x) = x
           /\ NameIn(d, x) \notin DOMAIN d => x = NameIn(d, x)
BY DEF Sound, NamedByMin, Together, NameIn

(* merge_unsafe(a, b): the two objects enter the container; their classes   *)
(* take the smaller of the two names, and no other name changes.            *)
Renaming(d, a, b, m) ==
    /\ DOMAIN m = DOMAIN d \cup {a, b}
    /\ \A x \in DOMAIN m :
          m[x].id = IF NameIn(d, x) \in {NameIn(d, a), NameIn(d, b)}
                    THEN LeastOf(NameIn(d, a), NameIn(d, b))
                    ELSE NameIn(d, x)

LEMMA Renamed ==
    ASSUME NEW d, Sound(d), NEW a \in Nat, NEW b \in Nat,
           NEW m, m = MergeUnsafe(d, a, b)
    PROVE  /\ Renaming(d, a, b, m)
           /\ WellShared(d) => WellShared(m)
<1> DEFINE one == Insert(d, a, NewClass(a))
           full == Insert(one, b, NewClass(b))
           lo == IF full[a].id <= full[b].id THEN full[a] ELSE full[b]
           hi == IF full[a].id <= full[b].id THEN full[b] ELSE full[a]
<1>1. /\ DOMAIN full = DOMAIN d \cup {a, b}
      /\ \A x \in DOMAIN d : full[x] = d[x]
      /\ \A x \in {a, b} \ DOMAIN d : full[x] = NewClass(x)
  BY DEF Insert
<1>2. ASSUME NEW x \in DOMAIN full PROVE full[x].id = NameIn(d, x)
  BY <1>1, NewClassId DEF NameIn
<1>3. m = IF lo.id = hi.id THEN full ELSE Regroup(full, Group(full, hi.id), lo)
  BY DEF MergeUnsafe
<1>4. /\ a \in DOMAIN full /\ b \in DOMAIN full
      /\ full[a].id = NameIn(d, a) /\ full[b].id = NameIn(d, b)
      /\ full[a].id \in Nat /\ full[b].id \in Nat
  BY <1>1, <1>2, NameFacts
<1>5. /\ lo.id = LeastOf(NameIn(d, a), NameIn(d, b))
      /\ {lo.id, hi.id} = {NameIn(d, a), NameIn(d, b)}
      /\ lo = full[a] \/ lo = full[b]
  BY <1>4 DEF LeastOf
<1> HIDE DEF one, full, lo, hi
<1>6. /\ DOMAIN m = DOMAIN full
      /\ \A x \in DOMAIN full :
            m[x] = IF full[x].id = hi.id /\ lo.id # hi.id THEN lo ELSE full[x]
  BY <1>3 DEF Regroup, Group
<1>7. ASSUME NEW x \in DOMAIN m
      PROVE  m[x].id = IF NameIn(d, x) \in {NameIn(d, a), NameIn(d, b)}
                       THEN LeastOf(NameIn(d, a), NameIn(d, b))
                       ELSE NameIn(d, x)
  BY <1>2, <1>5, <1>6
<1>8. ASSUME WellShared(d) PROVE WellShared(m)
  <2>1. ASSUME NEW x \in DOMAIN full, NEW y \in DOMAIN full,
               full[x].id = full[y].id
        PROVE  full[x] = full[y]
    <3>1. CASE x \in DOMAIN d /\ y \in DOMAIN d
      BY <1>1, <1>8, <2>1, <3>1 DEF WellShared, Together
    <3>2. CASE x \notin DOMAIN d \/ y \notin DOMAIN d
      <4>1. x \in Nat /\ y \in Nat /\ NameIn(d, x) = NameIn(d, y)
        BY <1>1, <1>2, <2>1 DEF Sound
      <4>2. x = y
        BY <3>2, <4>1, NameFacts
      <4> QED
        BY <4>2
    <3> QED
      BY <3>1, <3>2
  <2>2. ASSUME NEW x \in DOMAIN m, NEW y \in DOMAIN m, m[x].id = m[y].id
        PROVE  m[x] = m[y]
    <3>1. lo \in {full[a], full[b]} /\ a \in DOMAIN full /\ b \in DOMAIN full
      BY <1>4, <1>5
    <3> QED
      BY <1>6, <2>1, <2>2, <3>1
  <2> QED
    BY <2>2 DEF WellShared, Together
<1> QED
  BY <1>1, <1>6, <1>7, <1>8 DEF Renaming

(* Classes go on being named by their smallest members.                     *)
LEMMA RenamedSound ==
    ASSUME NEW d, Sound(d), NEW a \in Nat, NEW b \in Nat,
           NEW m, m = MergeUnsafe(d, a, b)
    PROVE  Sound(m)
<1> DEFINE lo == LeastOf(NameIn(d, a), NameIn(d, b))
           N(x) == NameIn(d, x)
<1>1. /\ DOMAIN m = DOMAIN d \cup {a, b}
      /\ \A x \in DOMAIN m : m[x].id = IF N(x) \in {N(a), N(b)} THEN lo ELSE N(x)
  BY Renamed, SMTT(60) DEF Renaming
<1>2. DOMAIN m \subseteq Nat /\ IsFiniteSet(DOMAIN m)
  <2>1. IsFiniteSet({a, b})
    <3>1. IsFiniteSet({a})
      BY FS_Singleton
    <3>2. IsFiniteSet({a} \cup {b})
      BY <3>1, FS_AddElement
    <3>3. {a, b} = {a} \cup {b}
      OBVIOUS
    <3> QED
      BY <3>2, <3>3
  <2>2. IsFiniteSet(DOMAIN d \cup {a, b})
    BY <2>1, FS_Union DEF Sound
  <2> QED
    BY <1>1, <2>2 DEF Sound
<1>3. \A x \in Nat : /\ N(x) \in Nat /\ N(x) <= x /\ N(N(x)) = N(x)
                     /\ x \in DOMAIN d => N(x) \in DOMAIN d
                     /\ N(x) \notin DOMAIN d => x = N(x)
  BY NameFacts
<1> HIDE DEF N
<1>4. lo \in {N(a), N(b)} /\ lo <= N(a) /\ lo <= N(b) /\ lo \in Nat
  BY <1>3 DEF N, LeastOf
<1>5. \A x \in DOMAIN m : N(x) \in DOMAIN m
  BY <1>1, <1>2, <1>3
<1>6. N(lo) = lo
  BY <1>3, <1>4
<1> HIDE DEF lo
<1>7. ASSUME NEW x \in DOMAIN m
      PROVE  m[x].id \in DOMAIN m /\ m[x].id <= x /\ m[m[x].id].id = m[x].id
  <2>1. x \in Nat /\ N(x) \in Nat /\ N(x) <= x /\ N(N(x)) = N(x) /\ N(x) \in DOMAIN m
    BY <1>2, <1>3, <1>5
  <2>2. CASE N(x) \in {N(a), N(b)}
    <3>1. m[x].id = lo /\ lo <= N(x)
      BY <1>1, <1>4, <2>2
    <3>2. lo <= x
      BY <1>4, <2>1, <3>1
    <3>3. lo \in DOMAIN m
      BY <1>1, <1>4, <1>5
    <3>4. m[lo].id = lo
      BY <1>1, <1>4, <1>6, <3>3
    <3> QED
      BY <3>1, <3>2, <3>3, <3>4
  <2>3. CASE N(x) \notin {N(a), N(b)}
    BY <1>1, <2>1, <2>3
  <2> QED
    BY <2>2, <2>3
<1> QED
  BY <1>2, <1>7 DEF Sound, NamedByMin, Together

(* What merge_unsafe returns is what the number of classes changes by.      *)
LEMMA RenamedCount ==
    ASSUME NEW d, Sound(d), NEW a \in Nat, NEW b \in Nat,
           NEW m, m = MergeUnsafe(d, a, b)
    PROVE  /\ Cardinality(ClassIds(m))
                 = Cardinality(ClassIds(d)) + MergeUnsafeCount(d, a, b)
           /\ MergeUnsafeCount(d, a, b) \in Int
<1> DEFINE N(x) == NameIn(d, x)
           lo == LeastOf(N(a), N(b))
           F == {a, b} \ DOMAIN d
           K == ClassIds(d) \cup F
<1>1. /\ DOMAIN m = DOMAIN d \cup {a, b}
      /\ \A x \in DOMAIN m : m[x].id = IF N(x) \in {N(a), N(b)} THEN lo ELSE N(x)
  BY Renamed, SMTT(60) DEF Renaming
<1>2. \A x \in Nat : /\ N(x) \in Nat /\ N(x) <= x /\ N(N(x)) = N(x)
                     /\ x \in DOMAIN d => N(x) \in DOMAIN d /\ N(x) = d[x].id
                     /\ x \notin DOMAIN d => N(x) = x
                     /\ N(x) \notin DOMAIN d => x = N(x)
  BY NameFacts DEF NameIn
<1>3. MergeUnsafeCount(d, a, b) = Cardinality(F) - (IF N(a) = N(b) THEN 0 ELSE 1)
  <2> DEFINE full == Insert(Insert(d, a, NewClass(a)), b, NewClass(b))
  <2>1. full[a].id = N(a) /\ full[b].id = N(b)
    BY NewClassId DEF Insert, NameIn
  <2>2. MergeUnsafeCount(d, a, b)
          = Cardinality(F) - (IF full[a].id = full[b].id THEN 0 ELSE 1)
    BY DEF MergeUnsafeCount
  <2> HIDE DEF full, N
  <2> QED
    BY <2>1, <2>2
<1>4. /\ IsFiniteSet(ClassIds(d)) /\ Cardinality(ClassIds(d)) \in Nat
      /\ IsFiniteSet(F) /\ Cardinality(F) \in Nat
  <2>1. IsFiniteSet(ClassIds(d))
    BY BlocksCounted DEF Sound
  <2>2. IsFiniteSet(F)
    <3>1. IsFiniteSet({a})
      BY FS_Singleton
    <3>2. IsFiniteSet({a} \cup {b})
      BY <3>1, FS_AddElement
    <3>3. F \subseteq {a} \cup {b}
      OBVIOUS
    <3> HIDE DEF F
    <3> QED
      BY <3>2, <3>3, FS_Subset
  <2> QED
    BY <2>1, <2>2, FS_CardinalityType
<1>5. \A c \in ClassIds(d) : c \in DOMAIN d /\ N(c) = c
  <2>1. ASSUME NEW c \in ClassIds(d) PROVE c \in DOMAIN d /\ N(c) = c
    <3>1. PICK x \in DOMAIN d : c = d[x].id
      BY DEF ClassIds
    <3>2. x \in Nat
      BY DEF Sound
    <3>3. c = N(x)
      BY <3>1 DEF NameIn
    <3> HIDE DEF N
    <3> QED
      BY <1>2, <3>2, <3>3
  <2> QED
    BY <2>1
<1>6. /\ IsFiniteSet(K)
      /\ Cardinality(K) = Cardinality(ClassIds(d)) + Cardinality(F)
  <2>1. ClassIds(d) \cap F = {}
    BY <1>5
  <2> HIDE DEF F
  <2>2. /\ IsFiniteSet(ClassIds(d) \cup F)
        /\ Cardinality(ClassIds(d) \cup F)
              = Cardinality(ClassIds(d)) + Cardinality(F)
                  - Cardinality(ClassIds(d) \cap F)
    BY <1>4, FS_Union
  <2>3. Cardinality(ClassIds(d) \cap F) = 0
    BY <2>1, FS_EmptySet
  <2> QED
    BY <1>4, <2>2, <2>3
<1> HIDE DEF N
<1>7. \A x \in DOMAIN m : N(x) \in K
  <2>1. ASSUME NEW x \in DOMAIN m PROVE N(x) \in K
    <3>1. CASE x \in DOMAIN d
      BY <3>1 DEF ClassIds, N, NameIn
    <3>2. CASE x \notin DOMAIN d
      BY <1>1, <1>2, <3>2
    <3> QED
      BY <3>1, <3>2
  <2> QED
    BY <2>1
<1>8. N(a) \in K /\ N(b) \in K /\ lo \in {N(a), N(b)} /\ a \in DOMAIN m /\ b \in DOMAIN m
  BY <1>1, <1>7 DEF LeastOf
<1>9. \A c \in K : N(c) = c /\ c \in DOMAIN m
  BY <1>1, <1>2, <1>5
<1> HIDE DEF K, F, lo
<1>10. ClassIds(m) = K \ ({N(a), N(b)} \ {lo})
  <2>1. ASSUME NEW c \in ClassIds(m) PROVE c \in K /\ c \notin {N(a), N(b)} \ {lo}
    <3>1. PICK x \in DOMAIN m : c = m[x].id
      BY DEF ClassIds
    <3> QED
      BY <1>1, <1>7, <1>8, <3>1
  <2>2. ASSUME NEW c \in K, c \notin {N(a), N(b)} \ {lo} PROVE c \in ClassIds(m)
    <3>1. c \in DOMAIN m /\ m[c].id = c
      BY <1>1, <1>9, <2>2
    <3> QED
      BY <3>1 DEF ClassIds
  <2> QED
    BY <2>1, <2>2
<1>11. CASE N(a) = N(b)
  <2>1. ClassIds(m) = K
    BY <1>8, <1>10, <1>11
  <2> QED
    BY <1>3, <1>4, <1>6, <1>11, <2>1
<1>12. CASE N(a) # N(b)
  <2>1. PICK h \in {N(a), N(b)} : h # lo /\ {N(a), N(b)} \ {lo} = {h}
    BY <1>8, <1>12
  <2>2. ClassIds(m) = K \ {h} /\ h \in K
    BY <1>8, <1>10, <2>1
  <2>3. Cardinality(ClassIds(m)) = Cardinality(K) - 1
    BY <1>6, <2>2, FS_RemoveElement
  <2> QED
    BY <1>3, <1>4, <1>6, <1>12, <2>3
<1> QED
  BY <1>11, <1>12

-----------------------------------------------------------------------------
(* Adding to the blocks B the class S, as far as it has come: x is in S or  *)
(* shares a block with an object of S.                                      *)
Linked(B, S, x) == x \in S \/ \E b \in B : x \in b /\ b \cap S # {}

(* The container ties together what a block of B does, and what S links.    *)
Holds(d, B, S) ==
    /\ DOMAIN d = (UNION B) \cup S
    /\ \A x, y \in DOMAIN d :
          Together(d, x, y) <=> \/ \E b \in B : x \in b /\ y \in b
                                \/ Linked(B, S, x) /\ Linked(B, S, y)

(* One more element: merge_unsafe with a member of S, or with any object as *)
(* long as S is empty.                                                      *)
LEMMA HoldsMore ==
    ASSUME NEW d, Sound(d), NEW B, NEW S, Holds(d, B, S),
           NEW a \in Nat, NEW b \in Nat, S = {} \/ a \in S,
           NEW m, m = MergeUnsafe(d, a, b)
    PROVE  Holds(m, B, S \cup {a, b})
<1> DEFINE N(x) == NameIn(d, x)
           lo == LeastOf(N(a), N(b))
<1>1. /\ DOMAIN m = DOMAIN d \cup {a, b}
      /\ \A x \in DOMAIN m : m[x].id = IF N(x) \in {N(a), N(b)} THEN lo ELSE N(x)
  <2>1. Renaming(d, a, b, m)
    BY Renamed
  <2> QED
    BY <2>1 DEF Renaming
<1> DEFINE R == S \cup {a, b}
           Shared(x, y) == \E c \in B : x \in c /\ y \in c
<1>2. DOMAIN m = (UNION B) \cup R /\ DOMAIN d = (UNION B) \cup S
  BY <1>1 DEF Holds
<1>3. DOMAIN m \subseteq Nat
  BY <1>1 DEF Sound
<1>4. ASSUME NEW x \in DOMAIN m, NEW y \in DOMAIN m
      PROVE  N(x) = N(y) <=> \/ x = y \/ Shared(x, y)
                             \/ Linked(B, S, x) /\ Linked(B, S, y)
  <2>1. CASE x \in DOMAIN d /\ y \in DOMAIN d
    <3>1. N(x) = N(y) <=> Together(d, x, y)
      BY <2>1 DEF NameIn, Together
    <3>2. Together(d, x, y) <=> Shared(x, y) \/ (Linked(B, S, x) /\ Linked(B, S, y))
      BY <2>1 DEF Holds
    <3> QED
      BY <3>1, <3>2
  <2>2. CASE x \notin DOMAIN d \/ y \notin DOMAIN d
    <3>1. N(x) = N(y) <=> x = y
      BY <1>3, <2>2, NameFacts
    <3>2. ~Shared(x, y) /\ ~(Linked(B, S, x) /\ Linked(B, S, y))
      BY <1>2, <2>2 DEF Linked
    <3> QED
      BY <3>1, <3>2
  <2> QED
    BY <2>1, <2>2
<1>5. a \in DOMAIN m /\ b \in DOMAIN m
  BY <1>1
<1>6. ASSUME NEW x
      PROVE  Linked(B, R, x) <=> \/ Linked(B, S, x) \/ x = a \/ x = b
                                 \/ Shared(x, a) \/ Shared(x, b)
  BY DEF Linked
<1>7. S = {} => \A x : ~Linked(B, S, x)
  BY DEF Linked
<1>8. a \in S => Linked(B, S, a)
  BY DEF Linked
<1>9. a \in S => \A x : Shared(x, a) => Linked(B, S, x)
  BY DEF Linked
<1> HIDE DEF N, Shared
<1>10. ASSUME NEW x \in DOMAIN m
       PROVE  N(x) \in {N(a), N(b)} <=> Linked(B, R, x)
  BY <1>4, <1>5, <1>6, <1>7, <1>8, <1>9
<1>11. ASSUME NEW x \in DOMAIN m, NEW y \in DOMAIN m
       PROVE  Together(m, x, y) <=> \/ Shared(x, y)
                                    \/ Linked(B, R, x) /\ Linked(B, R, y)
  <2>1. lo \in {N(a), N(b)}
    BY DEF LeastOf
  <2>2. Together(m, x, y) <=> \/ N(x) = N(y)
                              \/ N(x) \in {N(a), N(b)} /\ N(y) \in {N(a), N(b)}
    BY <1>1, <2>1 DEF Together
  <2>3. x = y => Shared(x, y) \/ Linked(B, R, x)
    BY <1>2 DEF Shared, Linked
  <2>4. \A z : Linked(B, S, z) => Linked(B, R, z)
    BY <1>6
  <2> QED
    BY <1>4, <1>10, <2>2, <2>3, <2>4
<1> QED
  BY <1>2, <1>11 DEF Holds, Shared

(* Before the first element the container holds its own blocks.             *)
LEMMA HoldsNone == ASSUME NEW d PROVE Holds(d, Blocks(d), {})
<1>1. /\ \A x \in DOMAIN d : Cell(d, x) \in Blocks(d)
      /\ \A b \in Blocks(d) : \E x \in DOMAIN d : b = Cell(d, x)
      /\ UNION Blocks(d) = DOMAIN d
  BY BlocksAreCells
<1>2. \A x : ~Linked(Blocks(d), {}, x)
  BY DEF Linked
<1>3. ASSUME NEW x \in DOMAIN d, NEW y \in DOMAIN d
      PROVE  Together(d, x, y) <=> \E b \in Blocks(d) : x \in b /\ y \in b
  <2>1. ASSUME Together(d, x, y) PROVE \E b \in Blocks(d) : x \in b /\ y \in b
    <3>1. x \in Cell(d, x) /\ y \in Cell(d, x)
      BY <2>1 DEF Together, Cell, Group
    <3> QED
      BY <1>1, <3>1
  <2>2. ASSUME NEW b \in Blocks(d), x \in b, y \in b PROVE Together(d, x, y)
    BY <1>1, <2>2 DEF Together, Cell, Group
  <2> QED
    BY <2>1, <2>2
<1> QED
  BY <1>1, <1>2, <1>3 DEF Holds

(* After the last it holds what adding the class asks for.                  *)
LEMMA HoldsAll ==
    ASSUME NEW d, NEW B, NEW S, Holds(d, B, S)
    PROVE  Blocks(d) = BlocksWith(B, S)
<1> DEFINE C == {S} \ {{}}
<1>1. DOMAIN d = UNION (B \cup C)
  BY DEF Holds
<1>2. ASSUME NEW b \in B \cup C, NEW x \in b, NEW y \in b PROVE Together(d, x, y)
  BY <1>1 DEF Holds, Linked
<1>3. ASSUME NEW T \in Closed(B \cup C), NEW x \in DOMAIN d, NEW y \in DOMAIN d,
             Together(d, x, y), x \in T
      PROVE  y \in T
  <2>1. \A b \in B \cup C : b \cap T # {} => b \subseteq T
    BY DEF Closed
  <2>2. CASE \E b \in B : x \in b /\ y \in b
    BY <1>3, <2>1, <2>2
  <2>3. CASE Linked(B, S, x) /\ Linked(B, S, y)
    <3>1. S # {} /\ S \in C
      BY <2>3 DEF Linked
    <3>2. S \subseteq T
      BY <1>3, <2>1, <2>3, <3>1 DEF Linked
    <3> QED
      BY <2>1, <2>3, <3>2 DEF Linked
  <2> QED
    BY <1>3, <2>2, <2>3 DEF Holds
<1> HIDE DEF C
<1>4. Blocks(d) = JoinBlocks(B, C)
  BY <1>1, <1>2, <1>3, HoldsJoin
<1> QED
  BY <1>4 DEF BlocksWith, C

-----------------------------------------------------------------------------
(* The inductive invariant.                                                 *)

(* Where the call of add, or of the list constructor, stands.               *)
CallInv ==
    /\ \/ pc \in {"idle", "undefined"} /\ filling = {}
       \/ pc \in {"lists", "merge"} /\ \E v \in Names : filling = {v}
    /\ lists \in Seq(Seq(Objects)) /\ l \in Seq(Objects)
    /\ at \in 0..Len(l)
    /\ pc = "merge" /\ l # << >> => min \in Range(l)

(* Every variable holds a sound container of objects, counted by nb.        *)
GoodPart(P) ==
    /\ DOMAIN P = {"size", "nb", "data"}
    /\ DOMAIN P.data \subseteq Objects
    /\ Sound(P.data)
    /\ P.nb = Cardinality(ClassIds(P.data))

PartInv ==
    /\ DOMAIN part = Names /\ DOMAIN given = Names
    /\ \A v \in Names : GoodPart(part[v])
    /\ \A v \in Names \ unshared : WellShared(part[v].data)

(* The objects of the list begun that merge_unsafe has had in hand.         *)
Done == IF at = 0 THEN {} ELSE {min} \cup {l[i] : i \in 1..at}

(* What is asked for is there; a list half added is there as far as it has  *)
(* come, on top of what was asked for before.                               *)
BuiltInv ==
    \A v \in Names :
        IF pc = "merge" /\ v \in filling
        THEN Holds(part[v].data, given[v], Done)
        ELSE Blocks(part[v].data) = given[v]

IInv == CallInv /\ PartInv /\ BuiltInv

-----------------------------------------------------------------------------
LEMMA ObjectsFacts ==
    /\ IsFiniteSet(Objects) /\ Cardinality(Objects) \in Nat
    /\ Objects \subseteq Nat
    /\ \A n \in Objects : 0..n \subseteq Objects
    /\ \A n \in 0..Cardinality(Objects) : 0..(n - 1) \subseteq Objects
<1>1. IsFiniteSet(Objects) /\ Cardinality(Objects) \in Nat
  BY ObjectsAssumption, FS_CardinalityType
<1>2. Objects = 0..(Cardinality(Objects) - 1)
  BY ObjectsAssumption
<1> QED
  BY <1>1, <1>2

(* No container has more classes than unsigned int can count.               *)
LEMMA CountFits ==
    ASSUME NEW d, DOMAIN d \subseteq Objects
    PROVE  /\ IsFiniteSet(DOMAIN d) /\ DOMAIN d \subseteq Nat
           /\ Cardinality(ClassIds(d)) \in 0..(Word - 1)
<1>1. /\ IsFiniteSet(DOMAIN d) /\ Cardinality(DOMAIN d) <= Cardinality(Objects)
      /\ DOMAIN d \subseteq Nat
  BY ObjectsFacts, FS_Subset
<1>2. /\ Cardinality(ClassIds(d)) \in Nat /\ Cardinality(DOMAIN d) \in Nat
      /\ Cardinality(ClassIds(d)) <= Cardinality(DOMAIN d)
  BY <1>1, BlocksCounted, FS_CardinalityType
<1> QED
  BY <1>1, <1>2, ObjectsFacts, WordAssumption

(* One call of merge_unsafe on the members of a variable: the container     *)
(* stays sound, and the counter, whatever the arithmetic, exact.            *)
LEMMA AbsorbGood ==
    ASSUME NEW P, GoodPart(P), NEW a \in Objects, NEW b \in Objects,
           NEW A, A = Absorb(P, a, b)
    PROVE  /\ GoodPart(A)
           /\ A.data = MergeUnsafe(P.data, a, b)
           /\ WellShared(P.data) => WellShared(A.data)
<1> DEFINE m == MergeUnsafe(P.data, a, b)
           k == MergeUnsafeCount(P.data, a, b)
<1>1. /\ Sound(P.data) /\ DOMAIN P.data \subseteq Objects
      /\ P.nb = Cardinality(ClassIds(P.data)) /\ a \in Nat /\ b \in Nat
  BY ObjectsFacts DEF GoodPart
<1>2. DOMAIN A = {"size", "nb", "data"} /\ A.data = m /\ A.nb = (P.nb + k) % Word
  BY DEF GoodPart, Absorb
<1>3. DOMAIN m = DOMAIN P.data \cup {a, b} /\ (WellShared(P.data) => WellShared(m))
  <2>1. Renaming(P.data, a, b, m) /\ (WellShared(P.data) => WellShared(m))
    BY <1>1, Renamed
  <2> QED
    BY <2>1 DEF Renaming
<1>4. Sound(m)
  BY <1>1, RenamedSound
<1>5. Cardinality(ClassIds(m)) = P.nb + k /\ k \in Int
  BY <1>1, RenamedCount
<1> HIDE DEF m, k
<1>6. DOMAIN m \subseteq Objects
  BY <1>1, <1>3
<1>7. Cardinality(ClassIds(m)) \in 0..(Word - 1)
  BY <1>6, CountFits
<1>8. A.nb = Cardinality(ClassIds(m))
  BY <1>2, <1>5, <1>7, WordSmall, WordAssumption
<1> QED
  BY <1>2, <1>3, <1>4, <1>6, <1>8 DEF GoodPart, m

LEMMA SmallestIn == ASSUME NEW c \in Seq(Objects), c # << >> PROVE Smallest(c) \in Range(c)
<1>1. Range(c) \in SUBSET Nat /\ Range(c) # {}
  <2>1. Len(c) \in Nat /\ 1 \in 1..Len(c) /\ DOMAIN c = 1..Len(c)
    OBVIOUS
  <2>2. \A i \in 1..Len(c) : c[i] \in Objects
    OBVIOUS
  <2> QED
    BY <2>1, <2>2, ObjectsFacts DEF Range
<1>2. \E m \in Range(c) : \A x \in Range(c) : m <= x
  BY <1>1, LeastElement
<1> QED
  BY <1>2 DEF Smallest

LEMMA EmptyGood ==
    GoodPart(Empty) /\ WellShared(Empty.data) /\ Blocks(Empty.data) = {}
<1>1. Empty.data = NoElements /\ Empty.nb = 0 /\ DOMAIN Empty = {"size", "nb", "data"}
  BY DEF Empty
<1>2. DOMAIN NoElements = {} /\ ClassIds(NoElements) = {}
  BY DEF NoElements, ClassIds
<1>3. Sound(NoElements) /\ WellShared(NoElements)
  BY <1>2, FS_EmptySet DEF Sound, NamedByMin, WellShared
<1>4. Blocks(NoElements) = {}
  BY <1>2 DEF Blocks
<1> QED
  BY <1>1, <1>2, <1>3, <1>4, FS_EmptySet DEF GoodPart

LEMMA InitInv == Init => IInv
<1> SUFFICES ASSUME Init PROVE IInv
  OBVIOUS
<1>1. CallInv
  BY DEF Init, CallInv
<1>2. PartInv
  BY EmptyGood DEF Init, PartInv
<1>3. BuiltInv
  BY EmptyGood DEF Init, BuiltInv
<1> QED
  BY <1>1, <1>2, <1>3 DEF IInv

(* A new value for a variable, when no list is being added.                 *)
LEMMA BecomesInv ==
    ASSUME IInv, pc = "idle", UNCHANGED callVars, NEW v \in Names,
           NEW P, NEW B, Becomes(v, P, B),
           GoodPart(P), Blocks(P.data) = B,
           \/ unshared' = unshared \cup {v}
           \/ unshared' = unshared \ {v} /\ WellShared(P.data)
    PROVE  IInv'
<1>1. /\ DOMAIN part' = Names /\ DOMAIN given' = Names
      /\ part'[v] = P /\ given'[v] = B
      /\ \A w \in Names : w # v => part'[w] = part[w] /\ given'[w] = given[w]
  BY DEF Becomes, IInv, PartInv
<1>2. CallInv'
  BY DEF IInv, CallInv, callVars
<1>3. PartInv'
  BY <1>1 DEF IInv, PartInv
<1>4. BuiltInv'
  BY <1>1 DEF IInv, BuiltInv, callVars
<1> QED
  BY <1>2, <1>3, <1>4 DEF IInv

(* A call of add changes nothing yet; the list constructor starts from an   *)
(* empty container.                                                         *)
LEMMA FillInv ==
    ASSUME IInv, NEW v \in Names, NEW ll \in Seq(Seq(Objects)), Fill(v, ll)
    PROVE  CallInv' /\ pc' = "lists" /\ filling' = {v} /\ pc = "idle" /\ filling = {}
BY DEF IInv, CallInv, Fill

LEMMA AddInv ==
    ASSUME IInv, NEW v \in Names, NEW ll \in Seq(Seq(Objects)), Fill(v, ll),
           UNCHANGED <<part, given, unshared>>
    PROVE  IInv'
<1>1. CallInv' /\ pc' = "lists" /\ pc = "idle"
  BY FillInv
<1>2. PartInv'
  BY DEF IInv, PartInv
<1>3. BuiltInv'
  BY <1>1 DEF IInv, BuiltInv
<1> QED
  BY <1>1, <1>2, <1>3 DEF IInv

LEMMA FromListsInv ==
    ASSUME IInv, NEW v \in Names, NEW ll \in Seq(Seq(Objects)), FromLists(v, ll)
    PROVE  IInv'
<1>1. CallInv' /\ pc' = "lists" /\ pc = "idle" /\ unshared' = unshared \ {v}
  BY FillInv DEF FromLists
<1>2. PICK garbage : Becomes(v, [Empty EXCEPT !.size = garbage], {})
  BY DEF FromLists
<1> DEFINE P == [Empty EXCEPT !.size = garbage]
<1>3. GoodPart(P) /\ WellShared(P.data) /\ Blocks(P.data) = {}
  <2>1. P.data = Empty.data /\ P.nb = Empty.nb /\ DOMAIN P = DOMAIN Empty
    BY DEF Empty
  <2> HIDE DEF P
  <2> QED
    BY <2>1, EmptyGood DEF GoodPart
<1> HIDE DEF P
<1>4. /\ DOMAIN part' = Names /\ DOMAIN given' = Names
      /\ part'[v] = P /\ given'[v] = {}
      /\ \A w \in Names : w # v => part'[w] = part[w] /\ given'[w] = given[w]
  BY <1>2 DEF Becomes, IInv, PartInv, P
<1>5. PartInv'
  BY <1>1, <1>3, <1>4 DEF IInv, PartInv
<1>6. BuiltInv'
  BY <1>1, <1>3, <1>4 DEF IInv, BuiltInv
<1> QED
  BY <1>1, <1>5, <1>6 DEF IInv

LEMMA StartListInv == ASSUME IInv, StartList PROVE IInv'
<1>1. /\ pc = "lists" /\ pc' = "merge" /\ at' = 0 /\ UNCHANGED <<part, given, unshared, filling>>
      /\ l' = Head(lists) /\ lists' = Tail(lists) /\ lists # << >>
      /\ min' = IF l' = << >> THEN NoMin ELSE Smallest(l')
  BY DEF StartList
<1>2. l' \in Seq(Objects) /\ lists' \in Seq(Seq(Objects))
  BY <1>1 DEF IInv, CallInv
<1>3. l' # << >> => min' \in Range(l')
  BY <1>1, <1>2, SmallestIn
<1>4. CallInv'
  BY <1>1, <1>2, <1>3 DEF IInv, CallInv
<1>5. PartInv'
  BY <1>1 DEF IInv, PartInv
<1>6. ASSUME NEW v \in filling PROVE Holds(part[v].data, given[v], {})
  <2>1. v \in Names
    BY <1>1 DEF IInv, CallInv
  <2>2. Blocks(part[v].data) = given[v]
    BY <1>1, <2>1 DEF IInv, BuiltInv
  <2> QED
    BY <2>2, HoldsNone
<1>7. BuiltInv'
  <2>1. Done' = {}
    BY <1>1 DEF Done
  <2> QED
    BY <1>1, <1>6, <2>1 DEF IInv, BuiltInv
<1> QED
  BY <1>4, <1>5, <1>7 DEF IInv

LEMMA MergeNextInv == ASSUME IInv, MergeNext PROVE IInv'
<1>1. /\ pc = "merge" /\ pc' = pc /\ at \in 0..Len(l) /\ at < Len(l) /\ at' = at + 1
      /\ UNCHANGED <<given, unshared, filling, lists, l, min>>
      /\ l \in Seq(Objects) /\ Len(l) \in Nat
  BY DEF IInv, CallInv, MergeNext
<1>2. PICK v \in filling : part' = [part EXCEPT ![v] = Absorb(part[v], min, l[at + 1])]
  BY DEF MergeNext
<1>3. v \in Names /\ filling = {v}
  BY <1>1, <1>2 DEF IInv, CallInv
<1> DEFINE b == l[at + 1]
           A == Absorb(part[v], min, b)
<1>4. /\ DOMAIN part' = Names /\ part'[v] = A
      /\ \A w \in Names : w # v => part'[w] = part[w]
  BY <1>2, <1>3 DEF IInv, PartInv
<1>5. b \in Objects /\ min \in Objects
  <2>1. at + 1 \in 1..Len(l) /\ \A i \in 1..Len(l) : l[i] \in Objects
    BY <1>1
  <2>2. min \in Range(l) /\ DOMAIN l = 1..Len(l)
    BY <1>1 DEF IInv, CallInv
  <2> QED
    BY <2>1, <2>2 DEF Range
<1> HIDE DEF b
<1>6. GoodPart(part[v]) /\ Holds(part[v].data, given[v], Done)
  BY <1>1, <1>3 DEF IInv, PartInv, BuiltInv
<1>7. /\ GoodPart(A) /\ A.data = MergeUnsafe(part[v].data, min, b)
      /\ WellShared(part[v].data) => WellShared(A.data)
  BY <1>5, <1>6, AbsorbGood
<1> HIDE DEF A
<1>8. Done' = Done \cup {min, b} /\ (Done = {} \/ min \in Done)
  <2>1. Done' = {min} \cup {l[i] : i \in 1..(at + 1)}
    BY <1>1 DEF Done
  <2>2. {l[i] : i \in 1..(at + 1)} = {l[i] : i \in 1..at} \cup {b}
    <3>1. 1..(at + 1) = 1..at \cup {at + 1}
      BY <1>1
    <3> QED
      BY <3>1 DEF b
  <2>3. CASE at = 0
    <3>1. 1..at = {}
      BY <2>3
    <3> QED
      BY <2>1, <2>2, <2>3, <3>1 DEF Done
  <2>4. CASE at # 0
    BY <2>1, <2>2, <2>4 DEF Done
  <2> QED
    BY <2>3, <2>4
<1>9. Holds(A.data, given[v], Done')
  <2>1. Sound(part[v].data) /\ min \in Nat /\ b \in Nat
    BY <1>5, <1>6, ObjectsFacts DEF GoodPart
  <2>2. Holds(A.data, given[v], Done \cup {min, b})
    BY <1>6, <1>7, <1>8, <2>1, HoldsMore
  <2> QED
    BY <1>8, <2>2
<1>10. CallInv'
  BY <1>1 DEF IInv, CallInv
<1>11. PartInv'
  BY <1>1, <1>4, <1>7 DEF IInv, PartInv
<1>12. BuiltInv'
  BY <1>1, <1>3, <1>4, <1>9 DEF IInv, BuiltInv
<1> QED
  BY <1>10, <1>11, <1>12 DEF IInv

LEMMA EndListInv == ASSUME IInv, EndList PROVE IInv'
<1>1. /\ pc = "merge" /\ pc' = "lists" /\ at = Len(l) /\ at' = 0 /\ l' = << >>
      /\ UNCHANGED <<unshared, filling, lists>> /\ l \in Seq(Objects)
  BY DEF IInv, CallInv, EndList
<1>2. PICK v \in filling :
        Becomes(v, [part[v] EXCEPT !.size = Cardinality(DOMAIN part[v].data)],
                BlocksWith(given[v], Range(l)))
  BY DEF EndList
<1>3. v \in Names /\ filling = {v}
  BY <1>1, <1>2 DEF IInv, CallInv
<1> DEFINE P == [part[v] EXCEPT !.size = Cardinality(DOMAIN part[v].data)]
<1>4. /\ DOMAIN part' = Names /\ DOMAIN given' = Names
      /\ part'[v] = P /\ given'[v] = BlocksWith(given[v], Range(l))
      /\ \A w \in Names : w # v => part'[w] = part[w] /\ given'[w] = given[w]
  BY <1>2, <1>3 DEF Becomes, IInv, PartInv
<1>5. GoodPart(part[v]) /\ Holds(part[v].data, given[v], Done)
  BY <1>1, <1>3 DEF IInv, PartInv, BuiltInv
<1>6. GoodPart(P) /\ P.data = part[v].data
  <2>1. DOMAIN P = DOMAIN part[v] /\ P.data = part[v].data /\ P.nb = part[v].nb
    BY <1>5 DEF GoodPart
  <2> HIDE DEF P
  <2> QED
    BY <1>5, <2>1 DEF GoodPart
<1> HIDE DEF P
<1>7. Done = Range(l)
  <2>1. DOMAIN l = 1..Len(l) /\ Len(l) \in Nat
    BY <1>1
  <2>2. CASE at = 0
    <3>1. DOMAIN l = {}
      BY <1>1, <2>1, <2>2
    <3> QED
      BY <2>2, <3>1 DEF Done, Range
  <2>3. CASE at # 0
    <3>1. min \in Range(l)
      BY <1>1, <2>3 DEF IInv, CallInv
    <3>2. {l[i] : i \in 1..at} = Range(l)
      BY <1>1, <2>1 DEF Range
    <3> QED
      BY <2>3, <3>1, <3>2 DEF Done
  <2> QED
    BY <2>2, <2>3
<1>8. Blocks(P.data) = BlocksWith(given[v], Range(l))
  BY <1>5, <1>6, <1>7, HoldsAll
<1>9. CallInv'
  BY <1>1 DEF IInv, CallInv
<1>10. PartInv'
  BY <1>1, <1>4, <1>6 DEF IInv, PartInv
<1>11. BuiltInv'
  BY <1>1, <1>3, <1>4, <1>8 DEF IInv, BuiltInv
<1> QED
  BY <1>9, <1>10, <1>11 DEF IInv

LEMMA ReturnInv == ASSUME IInv, Return PROVE IInv'
<1>1. /\ pc = "lists" /\ pc' = "idle" /\ filling' = {}
      /\ UNCHANGED <<part, given, unshared, lists, l, at, min>>
  BY DEF Return
<1>2. CallInv'
  BY <1>1 DEF IInv, CallInv
<1>3. PartInv'
  BY <1>1 DEF IInv, PartInv
<1>4. BuiltInv'
  BY <1>1 DEF IInv, BuiltInv
<1> QED
  BY <1>2, <1>3, <1>4 DEF IInv

-----------------------------------------------------------------------------
(* The constructions that give a variable its value at once.                *)

LEMMA FromTopInv ==
    ASSUME IInv, NEW v \in Names, NEW n \in 1..Cardinality(Objects), FromTop(v, n)
    PROVE  IInv'
<1> DEFINE d == [o \in 0..(n - 1) |-> Handle(0, o)]
<1>1. Top(n) = [size |-> n, nb |-> 1, data |-> d]
  BY DEF Top
<1>2. DOMAIN d = 0..(n - 1) /\ 0 \in DOMAIN d /\ \A x \in DOMAIN d : d[x].id = 0
  BY ObjectsFacts DEF Handle
<1>3. DOMAIN d \subseteq Objects
  BY <1>2, ObjectsFacts
<1> HIDE DEF d
<1>4. IsFiniteSet(DOMAIN d) /\ DOMAIN d \subseteq Nat
  BY <1>3, CountFits
<1>5. ClassIds(d) = {0} /\ Group(d, 0) = 0..(n - 1)
  BY <1>2 DEF ClassIds, Group
<1>6. Sound(d)
  BY <1>2, <1>4 DEF Sound, NamedByMin, Together
<1>7. GoodPart(Top(n)) /\ Top(n).data = d
  <2>1. /\ DOMAIN Top(n) = {"size", "nb", "data"}
        /\ Top(n).nb = 1 /\ Top(n).data = d
    BY <1>1
  <2>2. Cardinality(ClassIds(d)) = 1
    BY <1>5, FS_Singleton
  <2> QED
    BY <1>3, <1>6, <2>1, <2>2 DEF GoodPart
<1>8. Blocks(d) = {0..(n - 1)}
  BY <1>5 DEF Blocks
<1>9. /\ pc = "idle" /\ UNCHANGED callVars /\ Becomes(v, Top(n), {0..(n - 1)})
      /\ unshared' = unshared \cup {v}
  BY DEF FromTop
<1> QED
  BY <1>7, <1>8, <1>9, BecomesInv

(* A container in which every element is given a new ClassId.               *)
Named(d, S, f) ==
    /\ DOMAIN d = S /\ WellShared(d)
    /\ \A x \in S : d[x].id = f[x]
    /\ ClassIds(d) = {f[x] : x \in S}
    /\ Blocks(d) = {{y \in S : f[y] = f[x]} : x \in S}

LEMMA NewClasses ==
    ASSUME NEW S, NEW f, NEW d, d = [x \in S |-> NewClass(f[x])]
    PROVE  Named(d, S, f)
<1>1. DOMAIN d = S /\ \A x \in S : d[x] = NewClass(f[x]) /\ d[x].id = f[x]
  BY NewClassId
<1>2. WellShared(d)
  BY <1>1 DEF WellShared, Together
<1>3. ClassIds(d) = {f[x] : x \in S}
  BY <1>1 DEF ClassIds
<1>4. \A c : Group(d, c) = {y \in S : f[y] = c}
  BY <1>1 DEF Group
<1>5. Blocks(d) = {{y \in S : f[y] = f[x]} : x \in S}
  <2>1. Blocks(d) = {Group(d, d[x].id) : x \in S}
    BY <1>1 DEF Blocks, ClassIds
  <2> DEFINE F(x) == {y \in S : f[y] = f[x]}
  <2>2. \A x \in S : Group(d, d[x].id) = F(x)
    BY <1>1, <1>4
  <2> HIDE DEF F
  <2>3. Blocks(d) = {F(x) : x \in S}
    BY <2>1, <2>2
  <2> QED
    BY <2>3 DEF F
<1> QED
  BY <1>1, <1>2, <1>3, <1>5 DEF Named

LEMMA FromArrayInv ==
    ASSUME IInv, NEW v \in Names, NEW t \in Labels, FromArray(v, t)
    PROVE  IInv'
<1>1. PICK n \in 1..Cardinality(Objects) : t \in [0..(n - 1) -> Objects]
  BY DEF Labels
<1>2. CASE Opened(t)
  <2> DEFINE d == [j \in DOMAIN t |-> NewClass(t[j])]
             B == {{k \in DOMAIN t : t[k] = t[j]} : j \in DOMAIN t}
  <2>1. /\ DOMAIN d = DOMAIN t /\ WellShared(d)
        /\ \A x \in DOMAIN t : d[x].id = t[x]
        /\ Blocks(d) = B
    <3>1. Named(d, DOMAIN t, t)
      BY NewClasses
    <3> QED
      BY <3>1 DEF Named
  <2>2. /\ pc = "idle" /\ UNCHANGED callVars /\ Becomes(v, PartitionOf(d), B)
        /\ unshared' = unshared \ {v}
    BY <1>2 DEF FromArray
  <2> HIDE DEF d, B
  <2>3. DOMAIN t = 0..(n - 1) /\ DOMAIN t \subseteq Objects /\ n \in Nat
    BY <1>1, ObjectsFacts
  <2>4. IsFiniteSet(DOMAIN d) /\ DOMAIN d \subseteq Nat
    BY <2>1, <2>3, CountFits
  <2>5. ASSUME NEW x \in DOMAIN t
        PROVE  t[x] \in DOMAIN t /\ t[x] <= x /\ t[t[x]] = t[x]
    <3>1. t[x] \in Objects /\ t[x] \in Nat /\ x \in Nat
      BY <1>1, <2>3, ObjectsFacts
    <3>2. t[x] <= x /\ t[t[x]] = t[x]
      BY <1>2 DEF Opened
    <3> QED
      BY <2>3, <3>1, <3>2
  <2>6. Sound(d)
    BY <2>1, <2>4, <2>5 DEF Sound, NamedByMin, Together
  <2>7. GoodPart(PartitionOf(d)) /\ PartitionOf(d).data = d
    BY <2>1, <2>3, <2>6 DEF GoodPart, PartitionOf
  <2> QED
    BY <2>1, <2>2, <2>7, BecomesInv
<1>3. CASE ~Opened(t)
  <2>1. /\ pc = "idle" /\ pc' = "undefined"
        /\ UNCHANGED <<part, given, unshared, filling, lists, l, at, min>>
    BY <1>3 DEF FromArray
  <2>2. CallInv'
    BY <2>1 DEF IInv, CallInv
  <2>3. PartInv'
    BY <2>1 DEF IInv, PartInv
  <2>4. BuiltInv'
    BY <2>1 DEF IInv, BuiltInv
  <2> QED
    BY <2>2, <2>3, <2>4 DEF IInv
<1> QED
  BY <1>2, <1>3

LEMMA RandomizeInv ==
    ASSUME IInv, NEW v \in Names, NEW sz \in 1..Cardinality(Objects), NEW nb \in 1..sz,
           Randomize(v, sz, nb)
    PROVE  IInv'
<1>1. PICK draw \in [nb..(sz - 1) -> 0..(nb - 1)] :
        Becomes(v, [size |-> sz, nb |-> nb,
                    data |-> [o \in 0..(sz - 1) |->
                                 NewClass(IF o < nb THEN o ELSE draw[o])]],
                {{o \in 0..(sz - 1) : (IF o < nb THEN o ELSE draw[o]) = c} :
                     c \in 0..(nb - 1)})
  BY DEF Randomize
<1> DEFINE f == [o \in 0..(sz - 1) |-> IF o < nb THEN o ELSE draw[o]]
           d == [o \in 0..(sz - 1) |-> NewClass(f[o])]
           B == {{o \in 0..(sz - 1) : f[o] = c} : c \in 0..(nb - 1)}
           P == [size |-> sz, nb |-> nb, data |-> d]
<1>2. Becomes(v, P, B)
  <2>1. d = [o \in 0..(sz - 1) |-> NewClass(IF o < nb THEN o ELSE draw[o])]
    OBVIOUS
  <2>2. B = {{o \in 0..(sz - 1) : (IF o < nb THEN o ELSE draw[o]) = c} :
                     c \in 0..(nb - 1)}
    OBVIOUS
  <2> HIDE DEF d, B
  <2> QED
    BY <1>1, <2>1, <2>2
<1>3. /\ DOMAIN d = 0..(sz - 1) /\ WellShared(d)
      /\ \A x \in 0..(sz - 1) : d[x].id = f[x]
      /\ ClassIds(d) = {f[x] : x \in 0..(sz - 1)}
      /\ Blocks(d) = {{y \in 0..(sz - 1) : f[y] = f[x]} : x \in 0..(sz - 1)}
  <2> HIDE DEF f
  <2>1. d = [x \in 0..(sz - 1) |-> NewClass(f[x])]
    OBVIOUS
  <2> HIDE DEF d
  <2>2. Named(d, 0..(sz - 1), f)
    BY <2>1, NewClasses
  <2> QED
    BY <2>2 DEF Named
<1>4. sz \in Nat /\ nb \in Nat /\ nb >= 1 /\ nb <= sz
  BY ObjectsFacts
<1>5. ASSUME NEW x \in 0..(sz - 1)
      PROVE  /\ f[x] \in 0..(nb - 1) /\ f[x] \in 0..(sz - 1)
             /\ f[x] <= x /\ f[f[x]] = f[x]
  BY <1>4
<1>6. \A c \in 0..(nb - 1) : c \in 0..(sz - 1) /\ f[c] = c
  BY <1>4
<1> HIDE DEF f, d
<1>7. ClassIds(d) = 0..(nb - 1) /\ Blocks(d) = B
  <2>1. ClassIds(d) = 0..(nb - 1)
    BY <1>3, <1>5, <1>6
  <2>2. \A x \in 0..(sz - 1) : f[x] \in 0..(nb - 1)
    BY <1>5
  <2>3. \A c \in 0..(nb - 1) : \E x \in 0..(sz - 1) : f[x] = c
    BY <1>6
  <2> DEFINE Part(c) == {o \in 0..(sz - 1) : f[o] = c}
  <2>4. /\ B = {Part(c) : c \in 0..(nb - 1)}
        /\ Blocks(d) = {Part(f[x]) : x \in 0..(sz - 1)}
    BY <1>3
  <2> HIDE DEF Part, B
  <2> QED
    BY <2>1, <2>2, <2>3, <2>4
<1> HIDE DEF B
<1>8. DOMAIN d \subseteq Objects
  BY <1>3, ObjectsFacts
<1>9. IsFiniteSet(DOMAIN d) /\ DOMAIN d \subseteq Nat
  BY <1>8, CountFits
<1>10. Sound(d)
  BY <1>3, <1>5, <1>9 DEF Sound, NamedByMin, Together
<1>11. Cardinality(0..(nb - 1)) = nb
  BY <1>4, FS_Interval
<1>12. GoodPart(P) /\ P.data = d
  BY <1>7, <1>8, <1>10, <1>11 DEF GoodPart
<1>13. pc = "idle" /\ UNCHANGED callVars /\ unshared' = unshared \ {v}
  BY DEF Randomize
<1> HIDE DEF P
<1> QED
  BY <1>2, <1>3, <1>7, <1>12, <1>13, BecomesInv

LEMMA AssignInv ==
    ASSUME IInv, NEW v \in Names, NEW w \in Names, Assign(v, w)
    PROVE  IInv'
<1> DEFINE e == part[w].data
           d == [o \in DOMAIN e |-> NewClass(e[o].id)]
           P == CopyOf(part[w])
<1>1. GoodPart(part[w]) /\ pc = "idle" /\ Blocks(e) = given[w]
  BY DEF IInv, PartInv, BuiltInv, Assign
<1>2. DOMAIN P = {"size", "nb", "data"} /\ P.data = d /\ P.nb = part[w].nb
  BY <1>1 DEF GoodPart, CopyOf
<1>3. /\ DOMAIN d = DOMAIN e
      /\ \A x \in DOMAIN e : d[x] = NewClass(e[x].id) /\ d[x].id = e[x].id
  BY NewClassId
<1> HIDE DEF d, P
<1>4. WellShared(d)
  BY <1>3 DEF WellShared, Together
<1>5. ClassIds(d) = ClassIds(e) /\ \A c : Group(d, c) = Group(e, c)
  BY <1>3 DEF ClassIds, Group
<1>6. Blocks(d) = given[w]
  BY <1>1, <1>5 DEF Blocks
<1>7. Sound(d)
  BY <1>1, <1>3 DEF GoodPart, Sound, NamedByMin, Together
<1>8. GoodPart(P)
  BY <1>1, <1>2, <1>3, <1>5, <1>7 DEF GoodPart
<1>9. Becomes(v, P, given[w]) /\ UNCHANGED callVars /\ unshared' = unshared \ {v}
  BY DEF Assign, P
<1> QED
  BY <1>1, <1>2, <1>4, <1>6, <1>8, <1>9, BecomesInv

LEMMA StutterInv == ASSUME IInv, UNCHANGED vars PROVE IInv'
<1>1. CallInv'
  BY DEF IInv, CallInv, vars, callVars
<1>2. PartInv'
  BY DEF IInv, PartInv, vars
<1>3. BuiltInv'
  <2>1. Done' = Done
    BY DEF Done, vars, callVars
  <2> QED
    BY <2>1 DEF IInv, BuiltInv, vars, callVars
<1> QED
  BY <1>1, <1>2, <1>3 DEF IInv

LEMMA NextInv == IInv /\ [Next]_vars => IInv'
<1> SUFFICES ASSUME IInv, [Next]_vars PROVE IInv'
  OBVIOUS
<1>1. ASSUME NEW v \in Names, NEW c \in ClassLists, AddClass(v, c) PROVE IInv'
  <2>1. <<c>> \in Seq(Seq(Objects))
    BY ListsAssumption
  <2> QED
    BY <1>1, <2>1, AddInv DEF AddClass
<1>2. ASSUME NEW v \in Names, NEW ll \in NestedLists,
             AddClasses(v, ll) \/ FromLists(v, ll)
      PROVE  IInv'
  <2>1. ll \in Seq(Seq(Objects))
    BY ListsAssumption
  <2> QED
    BY <1>2, <2>1, AddInv, FromListsInv DEF AddClasses
<1>3. ASSUME NEW v \in Names, NEW n \in 1..Cardinality(Objects), FromTop(v, n)
      PROVE  IInv'
  BY <1>3, FromTopInv
<1>4. ASSUME NEW v \in Names, NEW t \in Labels, FromArray(v, t) PROVE IInv'
  BY <1>4, FromArrayInv
<1>5. ASSUME NEW v \in Names, NEW sz \in 1..Cardinality(Objects), NEW nb \in 1..sz,
             Randomize(v, sz, nb)
      PROVE  IInv'
  BY <1>5, RandomizeInv
<1>6. ASSUME NEW v \in Names, NEW w \in Names, Assign(v, w) PROVE IInv'
  BY <1>6, AssignInv
<1>7. CASE StartList
  BY <1>7, StartListInv
<1>8. CASE MergeNext
  BY <1>8, MergeNextInv
<1>9. CASE EndList
  BY <1>9, EndListInv
<1>10. CASE Return
  BY <1>10, ReturnInv
<1>11. CASE UNCHANGED vars
  BY <1>11, StutterInv
<1> QED
  BY <1>1, <1>2, <1>3, <1>4, <1>5, <1>6, <1>7, <1>8, <1>9, <1>10, <1>11 DEF Next

(* Every state of every sequence of constructions, additions, copies and    *)
(* draws satisfies the inductive invariant, the ones inside a call to add   *)
(* among them.                                                              *)
THEOREM Invariance == Spec => []IInv
BY InitInv, NextInv, PTL DEF Spec

-----------------------------------------------------------------------------
(* Whatever sequence of constructors, additions, copies and random draws    *)
(* built it, and in whatever order the lists came, a variable holds the     *)
(* blocks asked for under the names of their smallest members.              *)
THEOREM BuildsAsGiven == Spec => []BuiltAsGiven
<1>1. IInv => BuiltAsGiven
  BY DEF IInv, PartInv, GoodPart, Sound, BuiltInv, BuiltAsGiven
<1> QED
  BY <1>1, Invariance, PTL

(* The unsigned counter that merge_unsafe moves up and down never drifts    *)
(* from the number of classes.                                              *)
THEOREM CounterExact == Spec => []CounterCounts
<1>1. IInv => CounterCounts
  BY BlocksCounted DEF IInv, PartInv, GoodPart, Sound, CounterCounts
<1> QED
  BY <1>1, Invariance, PTL

(* Every value that does not come straight from the top constructor may be  *)
(* an operand of Meet and Join: its classes share their ClassIds.           *)
THEOREM SharesUnlessTop == Spec => []SharedUnlessTop
<1>1. IInv => SharedUnlessTop
  BY DEF IInv, PartInv, SharedUnlessTop
<1> QED
  BY <1>1, Invariance, PTL

(* In containers named by smallest members, the blocks tell the names.      *)
LEMMA NamesFollowBlocks ==
    ASSUME NEW d, NEW e, Sound(d), Sound(e), Blocks(d) = Blocks(e),
           NEW x \in DOMAIN d
    PROVE  x \in DOMAIN e /\ e[x].id <= d[x].id
<1>1. /\ Cell(d, x) \in Blocks(e) /\ x \in Cell(d, x)
      /\ \A b \in Blocks(e) : \E y \in DOMAIN e : b = Cell(e, y)
  BY BlocksAreCells
<1>2. PICK y \in DOMAIN e : Cell(d, x) = Cell(e, y)
  BY <1>1
<1>3. x \in DOMAIN e /\ e[x].id = e[y].id
  BY <1>1, <1>2 DEF Cell, Group
<1>4. d[x].id \in Cell(d, x)
  BY DEF Sound, NamedByMin, Together, Cell, Group
<1>5. d[x].id \in DOMAIN e /\ e[d[x].id].id = e[x].id
  BY <1>2, <1>3, <1>4 DEF Cell, Group
<1> QED
  BY <1>3, <1>5 DEF Sound, NamedByMin

(* Comparing two variables on the same objects by class names decides       *)
(* whether they are the same partition: there are no false positives, and   *)
(* no false negatives, whatever their histories.                            *)
THEOREM EqualityDecided == Spec => []EqualityDecides
<1>1. ASSUME NEW P, NEW Q, GoodPart(P), GoodPart(Q), DOMAIN P.data = DOMAIN Q.data
      PROVE  IsEqual(P, Q) = {IF Blocks(P.data) = Blocks(Q.data) THEN "yes" ELSE "no"}
  <2>1. IsEqual(P, Q) = {IF Differs(P, Q) = {} THEN "yes" ELSE "no"}
    BY <1>1 DEF IsEqual
  <2>2. ASSUME Differs(P, Q) = {} PROVE Blocks(P.data) = Blocks(Q.data)
    <3>1. \A x \in DOMAIN P.data : P.data[x].id = Q.data[x].id
      BY <1>1, <2>2 DEF Differs
    <3> QED
      BY <1>1, <3>1 DEF Blocks, ClassIds, Group
  <2>3. ASSUME Blocks(P.data) = Blocks(Q.data), NEW x \in DOMAIN P.data
        PROVE  P.data[x].id = Q.data[x].id
    <3>1. Q.data[x].id <= P.data[x].id /\ P.data[x].id <= Q.data[x].id
      BY <1>1, <2>3, NamesFollowBlocks DEF GoodPart
    <3>2. P.data[x].id \in Nat /\ Q.data[x].id \in Nat
      BY <1>1 DEF GoodPart, Sound, NamedByMin
    <3> QED
      BY <3>1, <3>2
  <2> QED
    BY <2>1, <2>2, <2>3 DEF Differs
<1>2. IInv => EqualityDecides
  BY <1>1 DEF IInv, PartInv, EqualityDecides
<1> QED
  BY <1>2, Invariance, PTL

=============================================================================
