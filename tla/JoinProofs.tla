----------------------------- MODULE JoinProofs -----------------------------
(***************************************************************************)
(* Theorems about Join, for every finite set of objects, every choice of    *)
(* supports and every width of unsigned int that can count the objects:     *)
(* the forest never leaves P + Q, the merge loop touches live ClassIds      *)
(* only, and what Join returns is a well-formed partition between P and     *)
(* P + Q.                                                                   *)
(*                                                                         *)
(* IInv says of the scan that every link, cursor and bridge is at a class   *)
(* of Acc with an element the loop links in its turn, so that the anchors   *)
(* are in the end all the classes that are not roots; of the compression,   *)
(* that the anchors done point at roots; of the merge, which elements have  *)
(* moved to the class of their root.                                        *)
(***************************************************************************)
EXTENDS Join, CommonLemmas

(* The container once the objects of Q that P lacks have entered it.        *)
Filled ==
    [x \in DOMAIN left.data \cup DOMAIN q.data |->
        IF x \in DOMAIN left.data THEN left.data[x] ELSE NewClass(x)]

Ids == ClassIds(Filled)

(* The objects Q brought.                                                   *)
Brought == DOMAIN q.data \ DOMAIN left.data

(* The sets of objects that contain every block they touch.                 *)
Uncut == Closed(Blocks(left.data) \cup Blocks(q.data))

(* Class c has an element with company in its class of Q: the scan has made *)
(* an anchor of c or is to do so.                                           *)
Touched(c) ==
    \/ c \in anchors
    \/ \E v \in DOMAIN q.data : Filled[v].id = c /\ Partners(v) # {}

ForestInv ==
    /\ DOMAIN next = IF pc = "fill" THEN ClassIds(left.data) ELSE Ids
    /\ \A c \in DOMAIN next : next[c] \in DOMAIN next
    /\ \A c \in DOMAIN bridge : bridge[c] \in DOMAIN next
    /\ anchors \subseteq DOMAIN next
    /\ ForestWithinJoin

FillInv ==
    /\ acc = left
    /\ anchors = {} /\ DOMAIN bridge = {}
    /\ \A c \in DOMAIN next : next[c] = c

ScanInv ==
    /\ todo \subseteq DOMAIN Filled
    /\ \A v \in DOMAIN q.data \ todo :
          Partners(v) # {} => Filled[v].id \in anchors
    /\ \A c \in Ids : next[c] # c => Touched(c) /\ Touched(next[c])
    /\ \A c \in DOMAIN bridge : Touched(bridge[c])

SpliceInv ==
    /\ uv[1] \in Ids /\ Touched(uv[1])
    /\ uv[2] \in Ids /\ Touched(uv[2])
    /\ \A S \in Uncut : (uv[1] \in S <=> u \in S) /\ (uv[2] \in S <=> u \in S)

CompressInv ==
    /\ todo \subseteq anchors
    /\ \A c \in Ids : next[c] # c => c \in anchors
    /\ \A a \in anchors \ todo : next[next[a]] = next[a]

MergeInv ==
    /\ todo \subseteq anchors
    /\ \A c \in Ids : next[next[c]] = next[c]
    /\ DOMAIN acc.data = DOMAIN Filled
    /\ \A x \in DOMAIN Filled :
          acc.data[x] = IF Filled[x].id \in todo THEN Filled[x]
                        ELSE Filled[next[Filled[x].id]]
    /\ acc.nb = (Cardinality(ClassIds(acc.data)) - Cardinality(Brought)) % Word

IInv ==
    /\ left \in Operands /\ q \in Operands
    /\ DOMAIN acc = {"size", "nb", "data"}
    /\ pc \in {"fill", "scan", "splice", "compress", "merge", "done"}
    /\ ForestInv
    /\ pc = "fill" => FillInv
    /\ pc \in {"scan", "splice", "compress"} => acc.data = Filled /\ acc.nb = left.nb
    /\ pc \in {"scan", "splice"} => ScanInv
    /\ pc = "splice" => SpliceInv
    /\ pc = "compress" => CompressInv
    /\ pc \in {"merge", "done"} => MergeInv
    /\ pc = "done" => todo = {}

-----------------------------------------------------------------------------
(* What is known of an operand.                                             *)
LEMMA OperandShape ==
    ASSUME NEW P \in Operands
    PROVE  /\ DOMAIN P = {"size", "nb", "data"}
           /\ DOMAIN P.data \subseteq Objects
           /\ DOMAIN P.data \subseteq Nat
           /\ IsFiniteSet(DOMAIN P.data)
           /\ P.nb = Cardinality(ClassIds(P.data))
           /\ P.nb \in Nat /\ P.nb < Word
           /\ \A x \in DOMAIN P.data :
                 /\ P.data[x].id \in DOMAIN P.data
                 /\ P.data[x].id <= x
                 /\ P.data[P.data[x].id] = P.data[x]
<1>1. PICK S \in Supports : \E d \in Canonical(S) : P = PartitionOf(d)
  BY DEF Operands
<1>2. PICK d \in Canonical(S) : P = PartitionOf(d)
  BY <1>1
<1>3. /\ DOMAIN P = {"size", "nb", "data"}
      /\ P.data = d /\ P.nb = Cardinality(ClassIds(d))
  BY <1>2 DEF PartitionOf
<1>4. DOMAIN d = S /\ S \in SUBSET Objects
  BY CanonicalShape, SupportsAssumption
<1>5. /\ IsFiniteSet(S) /\ Cardinality(S) \in Nat
      /\ Cardinality(Objects) \in Nat /\ Cardinality(S) <= Cardinality(Objects)
  BY <1>4, ObjectsAssumption, FS_Subset, FS_CardinalityType
<1>6. /\ Cardinality(ClassIds(d)) \in Nat
      /\ Cardinality(ClassIds(d)) <= Cardinality(S)
  BY <1>4, <1>5, BlocksCounted, FS_CardinalityType
<1>7. Cardinality(ClassIds(d)) < Word
  BY <1>5, <1>6, WordAssumption
<1> QED
  BY <1>3, <1>4, <1>5, <1>6, <1>7, CanonicalShape, ObjectsAssumption

(* The filled container is named as an operand is.                          *)
LEMMA FilledShape ==
    ASSUME left \in Operands, q \in Operands
    PROVE  /\ DOMAIN Filled = DOMAIN left.data \cup DOMAIN q.data
           /\ DOMAIN Filled \subseteq Nat
           /\ IsFiniteSet(DOMAIN Filled)
           /\ \A x \in DOMAIN Filled :
                 /\ Filled[x].id \in Ids
                 /\ Filled[x].id <= x
                 /\ Filled[Filled[x].id] = Filled[x]
           /\ Ids \subseteq DOMAIN Filled
           /\ \A c \in Ids : Filled[c].id = c
           /\ Ids = ClassIds(left.data) \cup Brought
           /\ \A x \in DOMAIN left.data : Filled[x] = left.data[x]
           /\ \A x \in Brought : Filled[x] = NewClass(x) /\ Filled[x].id = x
<1>1. /\ DOMAIN Filled = DOMAIN left.data \cup DOMAIN q.data
      /\ \A x \in DOMAIN left.data : Filled[x] = left.data[x]
      /\ \A x \in Brought : Filled[x] = NewClass(x)
  BY DEF Filled, Brought
<1>2. \A x \in Brought : Filled[x].id = x
  BY <1>1, NewClassId
<1>3. DOMAIN Filled \subseteq Nat /\ IsFiniteSet(DOMAIN Filled)
  <2>1. /\ DOMAIN left.data \subseteq Nat /\ IsFiniteSet(DOMAIN left.data)
        /\ DOMAIN q.data \subseteq Nat /\ IsFiniteSet(DOMAIN q.data)
    BY OperandShape
  <2>2. IsFiniteSet(DOMAIN left.data \cup DOMAIN q.data)
    BY <2>1, FS_Union
  <2> QED
    BY <1>1, <2>1, <2>2
<1>4. ASSUME NEW x \in DOMAIN Filled
      PROVE  /\ Filled[x].id \in DOMAIN Filled
             /\ Filled[x].id <= x
             /\ Filled[Filled[x].id] = Filled[x]
  <2>1. CASE x \in DOMAIN left.data
    BY <1>1, <2>1, OperandShape
  <2>2. CASE x \in Brought
    <3>1. x \in Nat
      BY <1>3
    <3> QED
      BY <1>2, <2>2, <3>1
  <2> QED
    BY <1>1, <2>1, <2>2 DEF Brought
<1>5. \A x \in DOMAIN Filled : Filled[x].id \in Ids
  BY DEF Ids, ClassIds
<1>6. ASSUME NEW c \in Ids PROVE c \in DOMAIN Filled /\ Filled[c].id = c
  <2>1. PICK x \in DOMAIN Filled : c = Filled[x].id
    BY DEF Ids, ClassIds
  <2> QED
    BY <1>4, <2>1
<1>7. Ids = ClassIds(left.data) \cup Brought
  <2>1. ASSUME NEW c \in Ids PROVE c \in ClassIds(left.data) \cup Brought
    BY <1>1, <1>6 DEF ClassIds, Brought
  <2>2. ASSUME NEW c \in ClassIds(left.data) PROVE c \in Ids
    BY <1>1 DEF Ids, ClassIds
  <2>3. ASSUME NEW c \in Brought PROVE c \in Ids
    <3>1. c \in DOMAIN Filled
      BY <1>1 DEF Brought
    <3> QED
      BY <1>2, <1>5, <3>1
  <2> QED
    BY <2>1, <2>2, <2>3
<1> QED
  BY <1>1, <1>2, <1>3, <1>4, <1>5, <1>6, <1>7

(* A closed set holds an object exactly when it holds the name of its class *)
(* in either operand, and in the filled container.                          *)
LEMMA UncutNames ==
    ASSUME left \in Operands, q \in Operands, NEW S \in Uncut
    PROVE  /\ \A x \in DOMAIN left.data : left.data[x].id \in S <=> x \in S
           /\ \A x \in DOMAIN q.data : q.data[x].id \in S <=> x \in S
           /\ \A x \in DOMAIN Filled : Filled[x].id \in S <=> x \in S
<1>1. \A b \in Blocks(left.data) \cup Blocks(q.data) :
         b \cap S # {} => b \subseteq S
  BY DEF Uncut, Closed
<1>2. ASSUME NEW x \in DOMAIN left.data PROVE left.data[x].id \in S <=> x \in S
  <2>1. x \in Cell(left.data, x) /\ left.data[x].id \in Cell(left.data, x)
    BY OperandShape DEF Cell, Group
  <2>2. Cell(left.data, x) \in Blocks(left.data)
    BY BlocksAreCells
  <2> QED
    BY <1>1, <2>1, <2>2
<1>3. ASSUME NEW x \in DOMAIN q.data PROVE q.data[x].id \in S <=> x \in S
  <2>1. x \in Cell(q.data, x) /\ q.data[x].id \in Cell(q.data, x)
    BY OperandShape DEF Cell, Group
  <2>2. Cell(q.data, x) \in Blocks(q.data)
    BY BlocksAreCells
  <2> QED
    BY <1>1, <2>1, <2>2
<1>4. ASSUME NEW x \in DOMAIN Filled PROVE Filled[x].id \in S <=> x \in S
  BY <1>2, FilledShape DEF Brought
<1> QED
  BY <1>2, <1>3, <1>4

-----------------------------------------------------------------------------
LEMMA InitInv == Init => IInv
<1> SUFFICES ASSUME Init PROVE IInv
  OBVIOUS
<1>1. /\ left \in Operands /\ q \in Operands /\ acc = left /\ pc = "fill"
      /\ DOMAIN acc = {"size", "nb", "data"}
      /\ anchors = {} /\ DOMAIN bridge = {}
      /\ DOMAIN next = ClassIds(left.data)
      /\ \A c \in DOMAIN next : next[c] = c
  BY OperandShape DEF Init
<1>2. ASSUME NEW c \in ClassIds(left.data) PROVE c \in Nat
  <2>1. PICK x \in DOMAIN left.data : c = left.data[x].id
    BY DEF ClassIds
  <2> QED
    BY <1>1, <2>1, OperandShape
<1>3. ForestWithinJoin
  BY <1>1, <1>2 DEF ForestWithinJoin
<1> QED
  BY <1>1, <1>3 DEF IInv, ForestInv, FillInv

(* What depends on the operands only.                                       *)
LEMMA OperandsFixed ==
    ASSUME left' = left, q' = q
    PROVE  /\ Filled' = Filled /\ Ids' = Ids /\ Brought' = Brought
           /\ Uncut' = Uncut
           /\ \A x : Partners(x)' = Partners(x)
BY DEF Filled, Ids, Brought, Uncut, Partners

LEMMA ForestIs ==
    ForestWithinJoin <=>
        /\ \A c \in DOMAIN next : next[c] <= c
        /\ \A S \in Uncut :
              /\ \A c \in DOMAIN next : next[c] \in S <=> c \in S
              /\ \A c \in DOMAIN bridge : bridge[c] \in S <=> c \in S
BY DEF ForestWithinJoin, Uncut

LEMMA ForestIsNext ==
    ASSUME left' = left, q' = q
    PROVE  ForestWithinJoin' <=>
              /\ \A c \in DOMAIN next' : next'[c] <= c
              /\ \A S \in Uncut :
                    /\ \A c \in DOMAIN next' : next'[c] \in S <=> c \in S
                    /\ \A c \in DOMAIN bridge' : bridge'[c] \in S <=> c \in S
BY DEF ForestWithinJoin, Uncut

(* A step that changes no link and no bridge.                               *)
LEMMA ForestKept ==
    ASSUME ForestInv, left' = left, q' = q, next' = next, bridge' = bridge,
           anchors' \subseteq DOMAIN next, pc # "fill", pc' # "fill"
    PROVE  ForestInv'
<1>1. ForestWithinJoin'
  BY ForestIs, ForestIsNext DEF ForestInv
<1> QED
  BY <1>1, OperandsFixed DEF ForestInv

LEMMA FillStep == IInv /\ Fill => IInv'
<1> SUFFICES ASSUME IInv, Fill PROVE IInv'
  OBVIOUS
<1>1. /\ left \in Operands /\ q \in Operands /\ acc = left
      /\ DOMAIN acc = {"size", "nb", "data"}
      /\ DOMAIN next = ClassIds(left.data) /\ \A c \in DOMAIN next : next[c] = c
      /\ anchors = {} /\ DOMAIN bridge = {}
      /\ left' = left /\ q' = q /\ bridge' = bridge /\ anchors' = anchors
      /\ pc' = "scan"
  BY DEF IInv, ForestInv, FillInv, Fill
<1>2. Missing = Brought
  BY <1>1 DEF Missing, Brought
<1>3. acc'.data = Filled /\ acc'.nb = left.nb /\ DOMAIN acc' = DOMAIN acc
  <2>1. acc' = [acc EXCEPT !.data =
                  [x \in DOMAIN acc.data \cup Missing |->
                      IF x \in Missing THEN NewClass(x) ELSE acc.data[x]]]
    BY DEF Fill
  <2>2. [x \in DOMAIN acc.data \cup Missing |->
            IF x \in Missing THEN NewClass(x) ELSE acc.data[x]] = Filled
    BY <1>1, <1>2 DEF Filled, Brought
  <2> QED
    BY <1>1, <2>1, <2>2
<1>4. DOMAIN next' = Ids /\ \A c \in Ids : next'[c] = c
  <2>1. Ids = ClassIds(left.data) \cup Brought
    BY <1>1, FilledShape
  <2> QED
    BY <1>1, <1>2, <2>1 DEF Fill
<1>5. todo' = DOMAIN Filled
  BY <1>1, <1>2, FilledShape DEF Fill, Brought
<1>6. ForestInv'
  <2>1. \A c \in Ids : c \in Nat
    BY <1>1, FilledShape
  <2>2. ForestWithinJoin'
    BY <1>1, <1>4, <2>1, ForestIsNext
  <2> QED
    BY <1>1, <1>4, <2>2, OperandsFixed DEF ForestInv
<1>7. ScanInv'
  <2>1. DOMAIN q.data \ DOMAIN Filled = {}
    BY <1>1, FilledShape
  <2> QED
    BY <1>1, <1>4, <1>5, <2>1, OperandsFixed DEF ScanInv
<1> QED
  BY <1>1, <1>3, <1>6, <1>7, OperandsFixed DEF IInv

LEMMA PassStep == ASSUME NEW x \in Objects PROVE IInv /\ Pass(x) => IInv'
<1> SUFFICES ASSUME IInv, Pass(x) PROVE IInv'
  OBVIOUS
<1>1. /\ left' = left /\ q' = q /\ next' = next /\ bridge' = bridge /\ acc' = acc
      /\ anchors' = anchors /\ pc = "scan" /\ pc' = "scan"
      /\ todo' = todo \ {x}
      /\ x \in DOMAIN q.data => Partners(x) = {}
      /\ ForestInv /\ ScanInv
  BY DEF IInv, Pass
<1>2. ForestInv'
  BY <1>1, ForestKept DEF ForestInv
<1>3. \A c : Touched(c)' <=> Touched(c)
  BY <1>1, OperandsFixed DEF Touched
<1>4. ScanInv'
  BY <1>1, <1>3, OperandsFixed DEF ScanInv
<1> QED
  BY <1>1, <1>2, <1>4, OperandsFixed DEF IInv

LEMMA LinkStep == ASSUME NEW x \in Objects PROVE IInv /\ Link(x) => IInv'
<1> SUFFICES ASSUME IInv, Link(x) PROVE IInv'
  OBVIOUS
<1>1. /\ left' = left /\ q' = q /\ next' = next /\ bridge' = bridge /\ acc' = acc
      /\ pc = "scan" /\ pc' = "splice"
      /\ todo' = todo \ {x} /\ x \in todo
      /\ x \in DOMAIN q.data /\ u' = q.data[x].id
      /\ anchors' = anchors \cup {Filled[x].id}
      /\ acc.data = Filled
      /\ left \in Operands /\ q \in Operands
      /\ ForestInv /\ ScanInv /\ DOMAIN next = Ids
  BY DEF IInv, ForestInv, Link, IsNext, AnchorOf
<1>2. x \in DOMAIN Filled /\ Filled[x].id \in Ids
  BY <1>1, FilledShape DEF ScanInv
<1>3. ForestInv'
  BY <1>1, <1>2, ForestKept DEF ForestInv
<1>4. \A c : Touched(c) => Touched(c)'
  BY <1>1, OperandsFixed DEF Touched
<1>5. ScanInv'
  BY <1>1, <1>4, OperandsFixed DEF ScanInv
<1>6. PICK y \in Targets(x) : uv' = <<Filled[x].id, y>>
  BY <1>1 DEF Link, AnchorOf
<1>7. /\ y \in Ids /\ Touched(y)'
      /\ \A S \in Uncut : y \in S <=> q.data[x].id \in S
  <2>1. CASE q.data[x].id \in DOMAIN bridge
    <3>1. y = bridge[q.data[x].id]
      BY <2>1 DEF Targets
    <3>2. y \in Ids /\ Touched(y)
      BY <1>1, <2>1, <3>1 DEF ForestInv, ScanInv
    <3>3. \A S \in Uncut : y \in S <=> q.data[x].id \in S
      BY <1>1, <2>1, <3>1, ForestIs DEF ForestInv
    <3> QED
      BY <1>4, <3>2, <3>3
  <2>2. CASE q.data[x].id \notin DOMAIN bridge
    <3>1. PICK v \in Partners(x) : y = Filled[v].id
      BY <1>1, <2>2 DEF Targets
    <3>2. v \in DOMAIN q.data /\ q.data[v].id = q.data[x].id /\ v # x
      BY <3>1 DEF Partners, Group
    <3>3. x \in Partners(v)
      BY <1>1, <3>2 DEF Partners, Group
    <3>4. y \in Ids
      BY <1>1, <3>1, <3>2, FilledShape
    <3>5. Touched(y)'
      BY <1>1, <3>1, <3>2, <3>3, OperandsFixed DEF Touched
    <3>6. ASSUME NEW S \in Uncut PROVE y \in S <=> q.data[x].id \in S
      <4>1. v \in DOMAIN Filled
        BY <1>1, <3>2, FilledShape
      <4> QED
        BY <1>1, <3>1, <3>2, <4>1, UncutNames
    <3> QED
      BY <3>4, <3>5, <3>6
  <2> QED
    BY <2>1, <2>2
<1>8. ASSUME NEW S \in Uncut PROVE Filled[x].id \in S <=> q.data[x].id \in S
  BY <1>1, <1>2, UncutNames
<1>9. Touched(Filled[x].id)'
  BY <1>1, OperandsFixed DEF Touched
<1>10. SpliceInv'
  <2>1. uv'[1] = Filled[x].id /\ uv'[2] = y
    BY <1>6
  <2>2. Filled' = Filled
    BY <1>1, OperandsFixed
  <2>3. Touched(uv[1])'
    BY <1>9, <2>1, <2>2 DEF Touched
  <2>4. Touched(uv[2])'
    BY <1>7, <2>1 DEF Touched
  <2> QED
    BY <1>1, <1>2, <1>7, <1>8, <2>1, <2>3, <2>4, OperandsFixed DEF SpliceInv
<1> QED
  BY <1>1, <1>3, <1>5, <1>10, OperandsFixed DEF IInv

(* One call of RecParallelFind2: the parent of one cursor is linked to the  *)
(* smaller parent of the other.                                             *)
LEMMA Spliced ==
    ASSUME ForestInv, ScanInv, left \in Operands, q \in Operands,
           pc = "splice", pc' = "splice",
           left' = left, q' = q, bridge' = bridge, anchors' = anchors,
           todo' = todo,
           NEW a \in Ids, NEW b \in Ids, Touched(a), Touched(b),
           \A S \in Uncut : (a \in S <=> u \in S) /\ (b \in S <=> u \in S),
           next[a] < next[b],
           next' = [next EXCEPT ![next[b]] = next[a]]
    PROVE  /\ ForestInv' /\ ScanInv'
           /\ next[b] \in Ids /\ \A c : Touched(c)' <=> Touched(c)
           /\ Touched(next[b])
           /\ \A S \in Uncut : next[b] \in S <=> u \in S
<1>1. /\ DOMAIN next = Ids /\ \A c \in Ids : next[c] \in Ids
      /\ \A c \in Ids : next[c] <= c
      /\ \A c \in DOMAIN bridge : bridge[c] \in Ids
      /\ anchors \subseteq Ids
      /\ \A S \in Uncut : /\ \A c \in Ids : next[c] \in S <=> c \in S
                          /\ \A c \in DOMAIN bridge : bridge[c] \in S <=> c \in S
  BY ForestIs DEF ForestInv
<1>2. next[a] \in Ids /\ next[b] \in Ids
  BY <1>1
<1>3. /\ DOMAIN next' = Ids /\ next'[next[b]] = next[a]
      /\ \A c \in Ids : c # next[b] => next'[c] = next[c]
  BY <1>1, <1>2
<1>4. \A c : Touched(c)' <=> Touched(c)
  BY OperandsFixed DEF Touched
<1>5. Touched(next[a]) /\ Touched(next[b])
  <2>1. ASSUME NEW c \in Ids, Touched(c) PROVE Touched(next[c])
    <3>1. CASE next[c] = c
      BY <2>1, <3>1
    <3>2. CASE next[c] # c
      BY <3>2 DEF ScanInv
    <3> QED
      BY <3>1, <3>2
  <2> QED
    BY <2>1
<1>6. \A S \in Uncut : (next[a] \in S <=> u \in S) /\ (next[b] \in S <=> u \in S)
  BY <1>1
<1>7. ForestInv'
  <2>1. \A c \in Ids : next'[c] \in Ids
    BY <1>1, <1>2, <1>3
  <2>2. ASSUME NEW c \in Ids PROVE next'[c] <= c
    <3>1. Ids \subseteq Nat
      BY FilledShape
    <3> QED
      BY <1>1, <1>2, <1>3, <3>1
  <2>3. ASSUME NEW S \in Uncut, NEW c \in Ids PROVE next'[c] \in S <=> c \in S
    BY <1>1, <1>3, <1>6
  <2>4. ForestWithinJoin'
    BY <1>1, <1>3, <2>2, <2>3, ForestIsNext
  <2> QED
    BY <1>1, <1>3, <2>1, <2>4, OperandsFixed DEF ForestInv
<1>8. ScanInv'
  <2>1. ASSUME NEW c \in Ids, next'[c] # c PROVE Touched(c) /\ Touched(next'[c])
    <3>1. CASE c = next[b]
      BY <1>3, <1>5, <3>1
    <3>2. CASE c # next[b]
      BY <1>3, <2>1, <3>2 DEF ScanInv
    <3> QED
      BY <3>1, <3>2
  <2>2. ASSUME NEW c \in Ids, next'[c] # c PROVE Touched(c)' /\ Touched(next[c])'
    <3>1. Touched(c)'
      BY <1>4, <2>1, <2>2
    <3>2. Touched(next'[c])
      BY <2>1, <2>2
    <3>3. \/ next'[c] \in anchors
          \/ \E v \in DOMAIN q.data : Filled[v].id = next'[c] /\ Partners(v) # {}
      BY <3>2 DEF Touched
    <3> QED
      BY <3>1, <3>3, OperandsFixed DEF Touched
  <2>3. \A c \in DOMAIN bridge : Touched(bridge[c])'
    BY <1>4 DEF ScanInv, Touched
  <2> QED
    BY <2>2, <2>3, OperandsFixed DEF ScanInv
<1> QED
  BY <1>2, <1>4, <1>5, <1>6, <1>7, <1>8

LEMMA SpliceStep == IInv /\ (SpliceSecond \/ SpliceFirst) => IInv'
<1> SUFFICES ASSUME IInv, SpliceSecond \/ SpliceFirst PROVE IInv'
  OBVIOUS
<1>1. /\ left' = left /\ q' = q /\ bridge' = bridge /\ acc' = acc
      /\ anchors' = anchors /\ todo' = todo /\ u' = u
      /\ pc = "splice" /\ pc' = "splice"
      /\ left \in Operands /\ q \in Operands
      /\ ForestInv /\ ScanInv
      /\ uv[1] \in Ids /\ Touched(uv[1]) /\ uv[2] \in Ids /\ Touched(uv[2])
      /\ \A S \in Uncut : (uv[1] \in S <=> u \in S) /\ (uv[2] \in S <=> u \in S)
  BY DEF IInv, SpliceInv, SpliceSecond, SpliceFirst
<1>2. ForestInv' /\ ScanInv' /\ SpliceInv'
  <2>1. CASE SpliceSecond
    <3>1. /\ next[uv[1]] < next[uv[2]]
          /\ next' = [next EXCEPT ![next[uv[2]]] = next[uv[1]]]
          /\ uv'[1] = uv[1] /\ uv'[2] = next[uv[2]]
      BY <2>1 DEF SpliceSecond
    <3>2. /\ ForestInv' /\ ScanInv'
          /\ next[uv[2]] \in Ids /\ \A c : Touched(c)' <=> Touched(c)
          /\ Touched(next[uv[2]])
          /\ \A S \in Uncut : next[uv[2]] \in S <=> u \in S
      BY <1>1, <3>1, Spliced
    <3>3. Touched(uv[1])' /\ Touched(uv[2])'
      BY <1>1, <3>1, <3>2, OperandsFixed DEF Touched
    <3> QED
      BY <1>1, <3>1, <3>2, <3>3, OperandsFixed DEF SpliceInv
  <2>2. CASE SpliceFirst
    <3>1. /\ next[uv[2]] < next[uv[1]]
          /\ next' = [next EXCEPT ![next[uv[1]]] = next[uv[2]]]
          /\ uv'[1] = next[uv[1]] /\ uv'[2] = uv[2]
      <4>1. next[uv[1]] \in Nat /\ next[uv[2]] \in Nat
        BY <1>1, FilledShape DEF ForestInv
      <4> QED
        BY <2>2, <4>1 DEF SpliceFirst
    <3>2. /\ ForestInv' /\ ScanInv'
          /\ next[uv[1]] \in Ids /\ \A c : Touched(c)' <=> Touched(c)
          /\ Touched(next[uv[1]])
          /\ \A S \in Uncut : next[uv[1]] \in S <=> u \in S
      BY <1>1, <3>1, Spliced
    <3>3. Touched(uv[1])' /\ Touched(uv[2])'
      BY <1>1, <3>1, <3>2, OperandsFixed DEF Touched
    <3> QED
      BY <1>1, <3>1, <3>2, <3>3, OperandsFixed DEF SpliceInv
  <2> QED
    BY <2>1, <2>2
<1> QED
  BY <1>1, <1>2, OperandsFixed DEF IInv

LEMMA JoinedStep == IInv /\ Joined => IInv'
<1> SUFFICES ASSUME IInv, Joined PROVE IInv'
  OBVIOUS
<1>1. /\ left' = left /\ q' = q /\ next' = next /\ acc' = acc
      /\ anchors' = anchors /\ todo' = todo
      /\ pc = "splice" /\ pc' = "scan"
      /\ left \in Operands /\ q \in Operands
      /\ ForestInv /\ ScanInv /\ DOMAIN next = Ids
      /\ uv[1] \in Ids /\ Touched(uv[1])
      /\ \A S \in Uncut : uv[1] \in S <=> u \in S
  BY DEF IInv, ForestInv, SpliceInv, Joined
<1>2. \A c \in DOMAIN bridge' :
         \/ c \in DOMAIN bridge /\ bridge'[c] = bridge[c]
         \/ c = u /\ bridge'[c] = next[uv[1]]
  BY DEF Joined
<1>3. \A c : Touched(c)' <=> Touched(c)
  BY <1>1, OperandsFixed DEF Touched
<1>4. next[uv[1]] \in Ids /\ Touched(next[uv[1]])
  <2>1. CASE next[uv[1]] = uv[1]
    BY <1>1, <2>1
  <2>2. CASE next[uv[1]] # uv[1]
    BY <1>1, <2>2 DEF ScanInv, ForestInv
  <2> QED
    BY <2>1, <2>2
<1>5. ForestInv'
  <2>1. /\ \A c \in Ids : next[c] <= c
        /\ \A S \in Uncut : /\ \A c \in Ids : next[c] \in S <=> c \in S
                            /\ \A c \in DOMAIN bridge : bridge[c] \in S <=> c \in S
    BY <1>1, ForestIs DEF ForestInv
  <2>2. ASSUME NEW S \in Uncut, NEW c \in DOMAIN bridge'
        PROVE  bridge'[c] \in S <=> c \in S
    BY <1>1, <1>2, <2>1
  <2>3. ForestWithinJoin'
    BY <1>1, <2>1, <2>2, ForestIsNext
  <2>4. \A c \in DOMAIN bridge' : bridge'[c] \in Ids
    BY <1>1, <1>2, <1>4 DEF ForestInv
  <2> QED
    BY <1>1, <2>3, <2>4, OperandsFixed DEF ForestInv
<1>6. ScanInv'
  <2>1. ASSUME NEW c \in DOMAIN bridge' PROVE Touched(bridge'[c])
    BY <1>1, <1>2, <1>4, <2>1 DEF ScanInv
  <2>2. \A c \in DOMAIN bridge' : Touched(bridge[c])'
    BY <1>1, <2>1, OperandsFixed DEF Touched
  <2>3. \A c \in Ids : next[c] # c => Touched(c)' /\ Touched(next[c])'
    BY <1>1, OperandsFixed DEF ScanInv, Touched
  <2> QED
    BY <1>1, <2>2, <2>3, OperandsFixed DEF ScanInv
<1> QED
  BY <1>1, <1>5, <1>6, OperandsFixed DEF IInv

LEMMA EndScanStep == IInv /\ EndScan => IInv'
<1> SUFFICES ASSUME IInv, EndScan PROVE IInv'
  OBVIOUS
<1>1. /\ left' = left /\ q' = q /\ next' = next /\ acc' = acc /\ bridge' = bridge
      /\ anchors' = anchors /\ todo = {} /\ todo' = anchors
      /\ pc = "scan" /\ pc' = "compress"
      /\ ForestInv /\ ScanInv
  BY DEF IInv, EndScan
<1>2. ForestInv'
  BY <1>1, ForestKept DEF ForestInv
<1>3. \A c : Touched(c) => c \in anchors
  BY <1>1 DEF Touched, ScanInv
<1>4. CompressInv'
  BY <1>1, <1>3, OperandsFixed DEF ScanInv, CompressInv
<1> QED
  BY <1>1, <1>2, <1>4, OperandsFixed DEF IInv

(* What RecFind walks through from an anchor, and where it ends.            *)
LEMMA RootShape ==
    ASSUME ForestInv, left \in Operands, q \in Operands, DOMAIN next = Ids,
           NEW a \in Ids
    PROVE  /\ Path(a) \subseteq Ids /\ a \in Path(a)
           /\ Root(a) \in Path(a) /\ next[Root(a)] = Root(a)
           /\ \A c \in Path(a) : Root(a) <= c
           /\ \A c \in Path(a) : next[c] = c => c = Root(a)
           /\ \A S \in Uncut : \A c \in Path(a) : c \in S <=> a \in S
<1>1. /\ Ids \subseteq Nat
      /\ \A c \in Ids : next[c] \in Ids /\ next[c] <= c
      /\ \A S \in Uncut : \A c \in Ids : next[c] \in S <=> c \in S
  BY FilledShape, ForestIs DEF ForestInv
<1>2. Descending(next)
  BY <1>1 DEF Descending
<1>3. Path(a) = Reach(next, a)
  BY DEF Path, Reach
<1>4. /\ Path(a) \subseteq Ids /\ a \in Path(a)
      /\ \A S \in SUBSET Ids :
            a \in S /\ (\A s \in S : next[s] \in S) => Path(a) \subseteq S
  <2>1. a \in DOMAIN next /\ \A c \in DOMAIN next : next[c] \in DOMAIN next
    BY <1>1
  <2>2. /\ Reach(next, a) \subseteq DOMAIN next
        /\ a \in Reach(next, a)
        /\ \A S \in SUBSET DOMAIN next :
              a \in S /\ (\A s \in S : next[s] \in S) => Reach(next, a) \subseteq S
    BY <2>1, ReachClosed
  <2> QED
    BY <1>3, <2>2
<1>5. PICK r \in Path(a) : /\ next[r] = r
                          /\ \A c \in Path(a) : r <= c
                          /\ \A d \in Path(a) : next[d] = d => d = r
  BY <1>2, <1>3, ReachRoot
<1>6. Root(a) = r
  BY <1>5 DEF Root
<1>7. ASSUME NEW S \in Uncut, NEW c \in Path(a) PROVE c \in S <=> a \in S
  <2> DEFINE T == {s \in Ids : s \in S <=> a \in S}
  <2>1. T \in SUBSET Ids /\ a \in T /\ \A s \in T : next[s] \in T
    BY <1>1
  <2>2. c \in T
    <3> HIDE DEF T
    <3> QED
      BY <1>4, <2>1
  <2> QED
    BY <2>2
<1> QED
  BY <1>4, <1>5, <1>6, <1>7

LEMMA CompressStep == ASSUME NEW a \in Objects PROVE IInv /\ Compress(a) => IInv'
<1> SUFFICES ASSUME IInv, Compress(a) PROVE IInv'
  OBVIOUS
<1>1. /\ left' = left /\ q' = q /\ acc' = acc /\ bridge' = bridge
      /\ anchors' = anchors /\ todo' = todo \ {a} /\ a \in todo
      /\ pc = "compress" /\ pc' = "compress"
      /\ left \in Operands /\ q \in Operands
      /\ ForestInv /\ CompressInv /\ DOMAIN next = Ids
  BY DEF IInv, ForestInv, Compress, IsFirst
<1>2. a \in Ids
  BY <1>1 DEF ForestInv, CompressInv
<1>3. /\ Path(a) \subseteq Ids /\ a \in Path(a)
      /\ Root(a) \in Path(a) /\ next[Root(a)] = Root(a)
      /\ \A c \in Path(a) : Root(a) <= c
      /\ \A c \in Path(a) : next[c] = c => c = Root(a)
      /\ \A S \in Uncut : \A c \in Path(a) : c \in S <=> a \in S
  BY <1>1, <1>2, RootShape
<1>4. /\ DOMAIN next' = Ids
      /\ \A c \in Path(a) : next'[c] = Root(a)
      /\ \A c \in Ids \ Path(a) : next'[c] = next[c]
  BY <1>1, <1>3 DEF Compress
<1>5. /\ \A c \in Ids : next[c] \in Ids /\ next[c] <= c
      /\ \A S \in Uncut : /\ \A c \in Ids : next[c] \in S <=> c \in S
                          /\ \A c \in DOMAIN bridge : bridge[c] \in S <=> c \in S
  BY <1>1, ForestIs DEF ForestInv
<1>6. ForestInv'
  <2>1. ASSUME NEW c \in Ids PROVE next'[c] \in Ids /\ next'[c] <= c
    BY <1>3, <1>4, <1>5
  <2>2. ASSUME NEW S \in Uncut, NEW c \in Ids PROVE next'[c] \in S <=> c \in S
    BY <1>3, <1>4, <1>5
  <2>3. ForestWithinJoin'
    BY <1>1, <1>4, <1>5, <2>1, <2>2, ForestIsNext
  <2> QED
    BY <1>1, <1>4, <2>1, <2>3, OperandsFixed DEF ForestInv
<1>7. CompressInv'
  <2>1. ASSUME NEW c \in Ids, next'[c] # c PROVE c \in anchors
    <3>1. next[c] # c
      BY <1>3, <1>4, <2>1
    <3> QED
      BY <1>1, <3>1 DEF CompressInv
  <2>2. ASSUME NEW b \in anchors \ todo' PROVE next'[next'[b]] = next'[b]
    <3>1. b \in Ids
      BY <1>1 DEF ForestInv
    <3>2. CASE b \in Path(a)
      BY <1>3, <1>4, <3>2
    <3>3. CASE b \notin Path(a)
      <4>1. next[next[b]] = next[b] /\ next[b] \in Ids
        BY <1>1, <1>3, <1>5, <2>2, <3>1, <3>3 DEF CompressInv
      <4>2. next'[next[b]] = next[b]
        BY <1>3, <1>4, <4>1
      <4> QED
        BY <1>4, <3>1, <3>3, <4>2
    <3> QED
      BY <3>2, <3>3
  <2> QED
    BY <1>1, <2>1, <2>2, OperandsFixed DEF CompressInv
<1> QED
  BY <1>1, <1>6, <1>7, OperandsFixed DEF IInv

(* How many classes there are to begin with, and of which kind.             *)
LEMMA FilledCounted ==
    ASSUME left \in Operands, q \in Operands
    PROVE  /\ IsFiniteSet(Ids) /\ Cardinality(Ids) \in Nat
           /\ IsFiniteSet(Brought) /\ Cardinality(Brought) \in Nat
           /\ Cardinality(Ids) = left.nb + Cardinality(Brought)
           /\ Cardinality(DOMAIN Filled) \in Nat
           /\ Cardinality(DOMAIN Filled) < Word
           /\ Cardinality(Brought) < Word
<1>1. /\ IsFiniteSet(DOMAIN left.data) /\ IsFiniteSet(DOMAIN q.data)
      /\ left.nb = Cardinality(ClassIds(left.data))
      /\ DOMAIN left.data \subseteq Objects /\ DOMAIN q.data \subseteq Objects
  BY OperandShape
<1>2. IsFiniteSet(ClassIds(left.data))
  BY <1>1, BlocksCounted
<1>3. IsFiniteSet(Brought)
  BY <1>1, FS_Subset DEF Brought
<1>4. ClassIds(left.data) \cap Brought = {}
  <2>1. ASSUME NEW c \in ClassIds(left.data) PROVE c \in DOMAIN left.data
    <3>1. PICK x \in DOMAIN left.data : c = left.data[x].id
      BY DEF ClassIds
    <3> QED
      BY <3>1, OperandShape
  <2> QED
    BY <2>1 DEF Brought
<1>5. Ids = ClassIds(left.data) \cup Brought
  BY FilledShape
<1>6. /\ IsFiniteSet(Ids)
      /\ Cardinality(Ids) = Cardinality(ClassIds(left.data)) + Cardinality(Brought)
  <2>1. /\ IsFiniteSet(ClassIds(left.data) \cup Brought)
        /\ Cardinality(ClassIds(left.data) \cup Brought)
              = Cardinality(ClassIds(left.data)) + Cardinality(Brought)
                  - Cardinality(ClassIds(left.data) \cap Brought)
    BY <1>2, <1>3, FS_Union
  <2>2. Cardinality(ClassIds(left.data) \cap Brought) = 0
    BY <1>4, FS_EmptySet
  <2>3. Cardinality(ClassIds(left.data)) \in Nat /\ Cardinality(Brought) \in Nat
    BY <1>2, <1>3, FS_CardinalityType
  <2> QED
    BY <1>5, <2>1, <2>2, <2>3
<1>7. /\ Cardinality(DOMAIN Filled) \in Nat
      /\ Cardinality(DOMAIN Filled) <= Cardinality(Objects)
      /\ Cardinality(Brought) <= Cardinality(Objects)
      /\ Cardinality(Objects) \in Nat
  <2>1. DOMAIN Filled \subseteq Objects /\ Brought \subseteq Objects
    BY <1>1, FilledShape DEF Brought
  <2>2. IsFiniteSet(Objects)
    BY ObjectsAssumption
  <2>3. /\ IsFiniteSet(DOMAIN Filled)
        /\ Cardinality(DOMAIN Filled) <= Cardinality(Objects)
        /\ Cardinality(Brought) <= Cardinality(Objects)
    BY <2>1, <2>2, FS_Subset
  <2> QED
    BY <2>2, <2>3, FS_CardinalityType
<1> QED
  BY <1>1, <1>3, <1>6, <1>7, FS_CardinalityType, WordAssumption

(* Arithmetic modulo the word size, on numbers that may just have gone      *)
(* below zero.                                                              *)
LEMMA WordBelow ==
    ASSUME NEW W \in Nat, NEW k \in Int, -W < k, k < 0 PROVE k % W = k + W
OBVIOUS

LEMMA WordMinusOne ==
    ASSUME NEW W \in Nat, NEW k \in Int, -W < k - 1, k < W
    PROVE  ((k % W) - 1) % W = (k - 1) % W
<1>1. CASE k > 0
  BY <1>1, WordSmall
<1>2. CASE k <= 0
  <2>1. -W < k /\ (k - 1) % W = k - 1 + W
    BY <1>2, WordBelow
  <2>2. k % W = IF k = 0 THEN 0 ELSE k + W
    BY <1>2, <2>1, WordSmall, WordBelow
  <2> QED
    BY <1>2, <2>1, <2>2, WordSmall, WordBelow
<1> QED
  BY <1>1, <1>2

LEMMA EndCompressStep == IInv /\ EndCompress => IInv'
<1> SUFFICES ASSUME IInv, EndCompress PROVE IInv'
  OBVIOUS
<1>1. /\ left' = left /\ q' = q /\ next' = next /\ acc' = acc /\ bridge' = bridge
      /\ anchors' = anchors /\ todo = {} /\ todo' = anchors
      /\ pc = "compress" /\ pc' = "merge"
      /\ left \in Operands /\ q \in Operands
      /\ acc.data = Filled /\ acc.nb = left.nb
      /\ ForestInv /\ CompressInv /\ DOMAIN next = Ids
  BY DEF IInv, ForestInv, EndCompress
<1>2. ForestInv'
  BY <1>1, ForestKept DEF ForestInv
<1>3. \A c \in Ids : c \notin anchors => next[c] = c
  BY <1>1 DEF CompressInv
<1>4. \A c \in Ids : next[next[c]] = next[c]
  BY <1>1, <1>3 DEF CompressInv
<1>5. ASSUME NEW x \in DOMAIN Filled
      PROVE  Filled[x] = IF Filled[x].id \in anchors THEN Filled[x]
                         ELSE Filled[next[Filled[x].id]]
  BY <1>1, <1>3, FilledShape
<1>6. left.nb = (Cardinality(ClassIds(Filled)) - Cardinality(Brought)) % Word
  <2>1. left.nb \in Nat /\ left.nb < Word /\ Word \in Nat
    BY <1>1, OperandShape, WordAssumption
  <2>2. Cardinality(ClassIds(Filled)) - Cardinality(Brought) = left.nb
    BY <1>1, <2>1, FilledCounted DEF Ids
  <2> QED
    BY <2>1, <2>2, WordSmall
<1>7. MergeInv'
  BY <1>1, <1>4, <1>5, <1>6, OperandsFixed DEF MergeInv
<1> QED
  BY <1>1, <1>2, <1>7, OperandsFixed DEF IInv

(* The merge of the class of an anchor that is not a root: its elements,    *)
(* all still there, receive the handle of the root, and one class is gone.  *)
LEMMA MergeMoves ==
    ASSUME left \in Operands, q \in Operands, ForestInv, MergeInv,
           DOMAIN next = Ids, NEW a \in todo, NEW r, r = next[a], r # a,
           NEW d, d = Merge(acc.data, a, r)
    PROVE  /\ DOMAIN d = DOMAIN Filled
           /\ \A x \in DOMAIN Filled :
                 d[x] = IF Filled[x].id = a THEN Filled[r] ELSE acc.data[x]
           /\ a \in ClassIds(acc.data)
           /\ ClassIds(d) = ClassIds(acc.data) \ {a}
<1> DEFINE h == acc.data[CHOOSE x \in Group(acc.data, r) : TRUE]
<1>1. /\ a \in Ids /\ r \in Ids /\ next[r] = r /\ r < a
      /\ \A c \in Ids : next[c] \in Ids /\ next[next[c]] = next[c]
      /\ DOMAIN acc.data = DOMAIN Filled
  <2>1. a \in Ids
    BY DEF ForestInv, MergeInv
  <2>2. r \in Ids /\ r <= a /\ Ids \subseteq Nat
    BY <2>1, FilledShape, ForestIs DEF ForestInv
  <2>3. a \in Int /\ r \in Int
    BY <2>1, <2>2
  <2>4. r < a
    BY <2>2, <2>3
  <2> QED
    BY <2>1, <2>2, <2>4 DEF ForestInv, MergeInv
<1>2. /\ \A x \in DOMAIN Filled : Filled[x].id \in Ids
      /\ \A c \in Ids : c \in DOMAIN Filled /\ Filled[c].id = c
      /\ Ids \subseteq Nat
  BY FilledShape
<1>3. ASSUME NEW x \in DOMAIN Filled
      PROVE  acc.data[x] = IF Filled[x].id \in todo THEN Filled[x]
                           ELSE Filled[next[Filled[x].id]]
  BY DEF MergeInv
<1>4. ASSUME NEW x \in DOMAIN Filled PROVE acc.data[x].id = a <=> Filled[x].id = a
  <2>1. CASE Filled[x].id \in todo
    BY <1>3, <2>1
  <2>2. CASE Filled[x].id \notin todo
    <3>1. acc.data[x].id = next[Filled[x].id]
      BY <1>1, <1>2, <1>3, <2>2
    <3>2. next[next[Filled[x].id]] = next[Filled[x].id]
      BY <1>1, <1>2
    <3>3. acc.data[x].id # a
      BY <3>1, <3>2
    <3> QED
      BY <2>2, <3>3
  <2> QED
    BY <2>1, <2>2
<1>5. ASSUME NEW x \in Group(acc.data, r) PROVE acc.data[x] = Filled[r]
  <2>1. x \in DOMAIN Filled /\ acc.data[x].id = r
    BY <1>1 DEF Group
  <2>2. CASE Filled[x].id \in todo
    <3>1. acc.data[x] = Filled[x] /\ Filled[x].id = r
      BY <1>3, <2>1, <2>2
    <3> QED
      BY <2>1, <3>1, FilledShape
  <2>3. CASE Filled[x].id \notin todo
    <3>1. /\ next[Filled[x].id] \in Ids
          /\ acc.data[x] = Filled[next[Filled[x].id]]
      BY <1>1, <1>2, <1>3, <2>1, <2>3
    <3>2. Filled[next[Filled[x].id]].id = next[Filled[x].id]
      BY <1>2, <3>1
    <3> QED
      BY <2>1, <3>1, <3>2
  <2> QED
    BY <2>2, <2>3
<1>6. acc.data[r] = Filled[r] /\ acc.data[r].id = r /\ r \in Group(acc.data, r)
  <2>1. r \in DOMAIN Filled /\ Filled[r].id = r
    BY <1>1, <1>2
  <2>2. acc.data[r] = Filled[r]
    BY <1>1, <1>3, <2>1
  <2> QED
    BY <1>1, <2>1, <2>2 DEF Group
<1>7. h = Filled[r]
  BY <1>5, <1>6
<1>8. d = Regroup(acc.data, Group(acc.data, a), h)
  <2>1. a \in Int /\ r \in Int /\ ~(a <= r)
    BY <1>1, <1>2
  <2> QED
    BY <2>1 DEF Merge
<1>9. /\ DOMAIN d = DOMAIN Filled
      /\ \A x \in DOMAIN Filled :
            d[x] = IF Filled[x].id = a THEN Filled[r] ELSE acc.data[x]
  BY <1>1, <1>4, <1>7, <1>8 DEF Regroup, Group
<1>10. a \in ClassIds(acc.data)
  BY <1>1, <1>2, <1>4 DEF ClassIds
<1>11. ClassIds(d) = ClassIds(acc.data) \ {a}
  <2>1. ASSUME NEW c \in ClassIds(d) PROVE c \in ClassIds(acc.data) \ {a}
    <3>1. PICK x \in DOMAIN Filled : c = d[x].id
      BY <1>9 DEF ClassIds
    <3>2. CASE Filled[x].id = a
      <4>1. c = r /\ r = acc.data[r].id /\ r \in DOMAIN acc.data
        <5>1. d[x] = Filled[r]
          BY <1>9, <3>1, <3>2
        <5>2. acc.data[r].id = r /\ acc.data[r] = Filled[r]
          BY <1>6
        <5>3. r \in DOMAIN acc.data
          BY <1>1, <1>2
        <5> QED
          BY <3>1, <5>1, <5>2, <5>3
      <4> QED
        BY <1>1, <1>2, <4>1 DEF ClassIds
    <3>3. CASE Filled[x].id # a
      BY <1>1, <1>4, <1>9, <3>1, <3>3 DEF ClassIds
    <3> QED
      BY <3>2, <3>3
  <2>2. ASSUME NEW c \in ClassIds(acc.data), c # a PROVE c \in ClassIds(d)
    <3>1. PICK x \in DOMAIN Filled : c = acc.data[x].id
      BY <1>1 DEF ClassIds
    <3>2. d[x] = acc.data[x]
      BY <1>4, <1>9, <2>2, <3>1
    <3> QED
      BY <1>9, <3>1, <3>2 DEF ClassIds
  <2> QED
    BY <2>1, <2>2
<1> QED
  BY <1>9, <1>10, <1>11

(* The classes of Acc during the merge can be counted.                      *)
LEMMA MergeCounted ==
    ASSUME left \in Operands, q \in Operands, MergeInv
    PROVE  /\ IsFiniteSet(ClassIds(acc.data))
           /\ Cardinality(ClassIds(acc.data)) \in Nat
           /\ Cardinality(ClassIds(acc.data)) < Word
<1>1. DOMAIN acc.data = DOMAIN Filled
  BY DEF MergeInv
<1>2. IsFiniteSet(DOMAIN acc.data)
  BY <1>1, FilledShape
<1>3. /\ IsFiniteSet(ClassIds(acc.data))
      /\ Cardinality(ClassIds(acc.data)) <= Cardinality(DOMAIN acc.data)
  BY <1>2, BlocksCounted
<1>4. /\ Cardinality(DOMAIN acc.data) \in Nat
      /\ Cardinality(DOMAIN acc.data) < Word
  BY <1>1, FilledCounted
<1> QED
  BY <1>3, <1>4, FS_CardinalityType, WordAssumption

LEMMA MergeStep == ASSUME NEW a \in Objects PROVE IInv /\ MergeClass(a) => IInv'
<1> SUFFICES ASSUME IInv, MergeClass(a) PROVE IInv'
  OBVIOUS
<1> DEFINE d == Merge(acc.data, a, next[a])
<1>1. /\ left' = left /\ q' = q /\ next' = next /\ bridge' = bridge
      /\ anchors' = anchors /\ todo' = todo \ {a} /\ a \in todo
      /\ acc' = [acc EXCEPT !.data = d, !.nb = (acc.nb - Absorbed(a)) % Word]
      /\ pc = "merge" /\ pc' = "merge"
      /\ left \in Operands /\ q \in Operands
      /\ DOMAIN acc = {"size", "nb", "data"}
      /\ ForestInv /\ MergeInv /\ DOMAIN next = Ids
  BY DEF IInv, ForestInv, MergeClass, IsFirst
<1>2. /\ DOMAIN acc' = {"size", "nb", "data"}
      /\ acc'.data = d /\ acc'.nb = (acc.nb - Absorbed(a)) % Word
  BY <1>1
<1>3. ForestInv'
  BY <1>1, ForestKept DEF ForestInv
<1> DEFINE K == Cardinality(ClassIds(acc.data))
           B == Cardinality(Brought)
<1>4. /\ K \in Nat /\ K < Word /\ B \in Nat /\ B < Word /\ Word \in Nat
      /\ IsFiniteSet(ClassIds(acc.data)) /\ acc.nb = (K - B) % Word
  BY <1>1, MergeCounted, FilledCounted, WordAssumption DEF MergeInv
<1>5. a \in Ids
  BY <1>1 DEF ForestInv, MergeInv
<1>6. /\ DOMAIN d = DOMAIN Filled
      /\ \A x \in DOMAIN Filled :
            d[x] = IF Filled[x].id \in todo' THEN Filled[x]
                   ELSE Filled[next[Filled[x].id]]
      /\ acc'.nb = (Cardinality(ClassIds(d)) - B) % Word
  <2>1. CASE next[a] = a
    <3>1. d = acc.data /\ Absorbed(a) = 0
      BY <2>1 DEF Merge, Absorbed
    <3>2. DOMAIN d = DOMAIN Filled
      BY <1>1, <3>1 DEF MergeInv
    <3>3. ASSUME NEW x \in DOMAIN Filled
          PROVE  d[x] = IF Filled[x].id \in todo' THEN Filled[x]
                        ELSE Filled[next[Filled[x].id]]
      <4>1. Filled[Filled[x].id] = Filled[x]
        BY <1>1, FilledShape
      <4>2. d[x] = IF Filled[x].id \in todo THEN Filled[x]
                   ELSE Filled[next[Filled[x].id]]
        BY <1>1, <3>1 DEF MergeInv
      <4>3. CASE Filled[x].id = a
        BY <1>1, <2>1, <4>1, <4>2, <4>3
      <4>4. CASE Filled[x].id # a
        BY <1>1, <4>2, <4>4
      <4> QED
        BY <4>3, <4>4
    <3>4. acc'.nb = (K - B) % Word
      <4>1. acc'.nb = (((K - B) % Word) - 0) % Word
        BY <1>2, <1>4, <3>1
      <4>2. (K - B) % Word \in Int /\ 0 <= (K - B) % Word /\ (K - B) % Word < Word
        <5>1. CASE K >= B
          BY <1>4, <5>1, WordSmall
        <5>2. CASE K < B
          BY <1>4, <5>2, WordBelow
        <5> QED
          BY <1>4, <5>1, <5>2
      <4> HIDE DEF K, B
      <4> QED
        BY <1>4, <4>1, <4>2, WordSmall
    <3> QED
      BY <3>1, <3>2, <3>3, <3>4
  <2>2. CASE next[a] # a
    <3>1. /\ DOMAIN d = DOMAIN Filled
          /\ \A x \in DOMAIN Filled :
                d[x] = IF Filled[x].id = a THEN Filled[next[a]] ELSE acc.data[x]
          /\ a \in ClassIds(acc.data)
          /\ ClassIds(d) = ClassIds(acc.data) \ {a}
      BY <1>1, <2>2, MergeMoves
    <3>2. ASSUME NEW x \in DOMAIN Filled
          PROVE  d[x] = IF Filled[x].id \in todo' THEN Filled[x]
                        ELSE Filled[next[Filled[x].id]]
      <4> HIDE DEF d
      <4>1. acc.data[x] = IF Filled[x].id \in todo THEN Filled[x]
                          ELSE Filled[next[Filled[x].id]]
        BY <1>1 DEF MergeInv
      <4> QED
        BY <1>1, <3>1, <4>1
    <3>3. Cardinality(ClassIds(d)) = K - 1
      <4> HIDE DEF d
      <4> QED
        BY <1>4, <3>1, FS_RemoveElement, ZenonT(60)
    <3>4. acc'.nb = (K - 1 - B) % Word
      <4>1. acc'.nb = (((K - B) % Word) - 1) % Word
        BY <1>2, <1>4, <2>2 DEF Absorbed
      <4>2. K >= 1
        <5>1. K # 0
          BY <1>4, <3>1, FS_EmptySet
        <5> QED
          BY <1>4, <5>1
      <4> HIDE DEF K, B
      <4>3. /\ K - B \in Int /\ -Word < K - B - 1 /\ K - B < Word
            /\ K - B - 1 = K - 1 - B
        BY <1>4, <4>2
      <4>4. (((K - B) % Word) - 1) % Word = (K - B - 1) % Word
        BY <1>4, <4>3, WordMinusOne
      <4> QED
        BY <4>1, <4>3, <4>4
    <3> QED
      BY <3>1, <3>2, <3>3, <3>4
  <2> QED
    BY <2>1, <2>2
<1>7. MergeInv'
  <2>1. todo' \subseteq anchors' /\ \A c \in Ids : next'[next'[c]] = next'[c]
    BY <1>1 DEF MergeInv
  <2> HIDE DEF d
  <2> QED
    BY <1>1, <1>2, <1>6, <2>1, OperandsFixed DEF MergeInv
<1> QED
  BY <1>1, <1>2, <1>3, <1>7, OperandsFixed DEF IInv

LEMMA FinishStep == IInv /\ Finish => IInv'
<1> SUFFICES ASSUME IInv, Finish PROVE IInv'
  OBVIOUS
<1>1. /\ left' = left /\ q' = q /\ next' = next /\ acc' = acc /\ bridge' = bridge
      /\ anchors' = anchors /\ todo = {} /\ todo' = {}
      /\ pc = "merge" /\ pc' = "done"
      /\ ForestInv /\ MergeInv
  BY DEF IInv, Finish
<1>2. ForestInv'
  BY <1>1, ForestKept DEF ForestInv
<1>3. MergeInv'
  BY <1>1, OperandsFixed DEF MergeInv
<1> QED
  BY <1>1, <1>2, <1>3, OperandsFixed DEF IInv

LEMMA StutterStep == IInv /\ UNCHANGED vars => IInv'
<1> SUFFICES ASSUME IInv, UNCHANGED vars PROVE IInv'
  OBVIOUS
<1>1. /\ left' = left /\ q' = q /\ next' = next /\ acc' = acc /\ bridge' = bridge
      /\ anchors' = anchors /\ todo' = todo /\ group' = group
      /\ uv' = uv /\ u' = u /\ pc' = pc
  BY DEF vars
<1>2. ForestInv'
  <2>1. ForestWithinJoin'
    BY <1>1, ForestIs, ForestIsNext DEF IInv, ForestInv
  <2> QED
    BY <1>1, <2>1, OperandsFixed DEF IInv, ForestInv
<1>3. FillInv => FillInv'
  BY <1>1 DEF FillInv
<1>4. ScanInv => ScanInv'
  BY <1>1, OperandsFixed DEF ScanInv, Touched
<1>5. SpliceInv => SpliceInv'
  BY <1>1, OperandsFixed DEF SpliceInv, Touched
<1>6. CompressInv => CompressInv'
  BY <1>1, OperandsFixed DEF CompressInv
<1>7. MergeInv => MergeInv'
  BY <1>1, OperandsFixed DEF MergeInv
<1> QED
  BY <1>1, <1>2, <1>3, <1>4, <1>5, <1>6, <1>7, OperandsFixed DEF IInv

LEMMA StepInv == IInv /\ [Next]_vars => IInv'
<1> SUFFICES ASSUME IInv, [Next]_vars PROVE IInv'
  OBVIOUS
<1>1. CASE Fill
  BY <1>1, FillStep
<1>2. ASSUME NEW x \in Objects, Pass(x) PROVE IInv'
  BY <1>2, PassStep
<1>3. ASSUME NEW x \in Objects, Link(x) PROVE IInv'
  BY <1>3, LinkStep
<1>4. CASE SpliceSecond \/ SpliceFirst
  BY <1>4, SpliceStep
<1>5. CASE Joined
  BY <1>5, JoinedStep
<1>6. CASE EndScan
  BY <1>6, EndScanStep
<1>7. ASSUME NEW a \in Objects, Compress(a) PROVE IInv'
  BY <1>7, CompressStep
<1>8. ASSUME NEW a \in Objects, MergeClass(a) PROVE IInv'
  BY <1>8, MergeStep
<1>9. CASE EndCompress
  BY <1>9, EndCompressStep
<1>10. CASE Finish
  BY <1>10, FinishStep
<1>11. CASE UNCHANGED vars
  BY <1>11, StutterStep
<1> QED
  BY <1>1, <1>2, <1>3, <1>4, <1>5, <1>6, <1>7, <1>8, <1>9, <1>10, <1>11 DEF Next

(* Every state of Join, in whatever order its loops run, satisfies the      *)
(* inductive invariant.                                                     *)
LEMMA Invariance == Spec => []IInv
BY InitInv, StepInv, PTL DEF Spec

-----------------------------------------------------------------------------
(* While it runs, the union-find ties together only what P + Q joins: no    *)
(* link climbs to a larger id, and neither a link nor a bridge leaves a set *)
(* of objects that no block crosses.                                        *)
THEOREM ForestStaysWithin == Spec => []ForestWithinJoin
<1>1. IInv => ForestWithinJoin
  BY DEF IInv, ForestInv
<1> QED
  BY <1>1, Invariance, PTL

(* The raw pointers the merge loop follows, from the set of anchors and     *)
(* through _next, are to ClassIds that still have elements.                 *)
THEOREM MergeOfLivingClasses == Spec => []AnchorsAlive
<1>1. IInv => AnchorsAlive
  <2> SUFFICES ASSUME IInv, pc = "merge", NEW a \in todo
               PROVE  Group(acc.data, a) # {} /\ Group(acc.data, next[a]) # {}
    BY DEF AnchorsAlive
  <2>1. /\ left \in Operands /\ q \in Operands
        /\ DOMAIN next = Ids /\ \A c \in Ids : next[c] \in Ids /\ next[next[c]] = next[c]
        /\ a \in Ids
        /\ DOMAIN acc.data = DOMAIN Filled
    BY DEF IInv, ForestInv, MergeInv
  <2>2. ASSUME NEW x \in DOMAIN Filled
        PROVE  acc.data[x] = IF Filled[x].id \in todo THEN Filled[x]
                             ELSE Filled[next[Filled[x].id]]
    BY DEF IInv, MergeInv
  <2>3. ASSUME NEW c \in Ids PROVE c \in DOMAIN Filled /\ Filled[c].id = c
    BY <2>1, FilledShape
  <2>4. a \in Group(acc.data, a)
    BY <2>1, <2>2, <2>3 DEF Group
  <2>5. next[a] \in Group(acc.data, next[a])
    <3>1. /\ next[a] \in DOMAIN Filled /\ Filled[next[a]].id = next[a]
          /\ next[next[a]] = next[a]
      BY <2>1, <2>3
    <3>2. acc.data[next[a]] = Filled[next[a]]
      BY <2>2, <3>1
    <3> QED
      BY <2>1, <3>1, <3>2 DEF Group
  <2> QED
    BY <2>4, <2>5
<1> QED
  BY <1>1, Invariance, PTL

(* A call of RecParallelFind2 that recurses: the parent the cursor goes to   *)
(* is linked to the other's, which is smaller.                              *)
LEMMA SpliceDescends ==
    ASSUME IInv, pc = "splice", SpliceSecond \/ SpliceFirst
    PROVE  Height' < Height
<1>1. /\ DOMAIN next = Ids /\ uv[1] \in Ids /\ uv[2] \in Ids
      /\ \A c \in Ids : next[c] \in Nat /\ next[c] <= c /\ next[c] \in Ids
      /\ Ids \subseteq Nat
  <2>1. Ids \subseteq Nat
    BY FilledShape DEF IInv
  <2> QED
    BY <2>1, ForestIs DEF IInv, ForestInv, SpliceInv
<1>2. PICK a \in Nat, b \in Nat, p \in Nat, r \in Nat :
          /\ a = uv[1] /\ b = uv[2] /\ p = next[uv[1]] /\ r = next[uv[2]]
          /\ p <= a /\ r <= b /\ p \in Ids /\ r \in Ids
  BY <1>1
<1>3. Height = a + b + p + r
  BY <1>2 DEF Height
<1>4. CASE SpliceSecond
  <2>1. p < r /\ uv'[1] = a /\ uv'[2] = r /\ next'[a] = p /\ next'[r] = p
    BY <1>1, <1>2, <1>4 DEF SpliceSecond
  <2>2. Height' = a + r + p + p
    BY <2>1 DEF Height
  <2> QED
    BY <1>2, <1>3, <2>1, <2>2
<1>5. CASE SpliceFirst
  <2>1. r < p /\ uv'[1] = p /\ uv'[2] = b /\ next'[p] = r /\ next'[b] = r
    BY <1>1, <1>2, <1>5 DEF SpliceFirst
  <2>2. Height' = p + b + r + r
    BY <2>1 DEF Height
  <2> QED
    BY <1>2, <1>3, <2>1, <2>2
<1> QED
  BY <1>4, <1>5

(* Join cannot go on for ever: every step of it, and every recursive call    *)
(* of RecParallelFind2 in it, leaves less to do.                            *)
THEOREM JoinDescends == Spec => Descends
<1> DEFINE Down ==
        \/ Ahead[pc'] < Ahead[pc]
        \/ Ahead[pc'] = Ahead[pc] /\ todo' \subseteq todo /\ todo' # todo
        \/ /\ pc = "splice" /\ todo' = todo
           /\ \/ pc' = "scan"
              \/ pc' = "splice" /\ Height' < Height
<1>1. ASSUME IInv, Next PROVE Down
  <2>1. CASE Fill \/ EndScan \/ EndCompress \/ Finish
    BY <2>1 DEF Fill, EndScan, EndCompress, Finish, Ahead
  <2>2. CASE \E x \in Objects : Pass(x) \/ Link(x)
    <3>1. PICK x \in Objects : Pass(x) \/ Link(x)
      BY <2>2
    <3>2. /\ x \in todo /\ todo' = todo \ {x}
          /\ pc = "scan" /\ pc' \in {"scan", "splice"}
      BY <3>1 DEF Pass, Link, IsNext
    <3> QED
      BY <3>2 DEF Ahead
  <2>3. CASE \E a \in Objects : Compress(a) \/ MergeClass(a)
    <3>1. PICK a \in Objects : Compress(a) \/ MergeClass(a)
      BY <2>3
    <3>2. a \in todo /\ todo' = todo \ {a} /\ pc' = pc
      BY <3>1 DEF Compress, MergeClass, IsFirst
    <3> QED
      BY <3>2
  <2>4. CASE SpliceSecond \/ SpliceFirst
    <3>1. pc = "splice" /\ pc' = "splice" /\ todo' = todo
      BY <2>4 DEF SpliceSecond, SpliceFirst
    <3>2. Height' < Height
      BY <1>1, <2>4, <3>1, SpliceDescends
    <3> QED
      BY <3>1, <3>2
  <2>5. CASE Joined
    BY <2>5 DEF Joined
  <2> QED
    BY <1>1, <2>1, <2>2, <2>3, <2>4, <2>5 DEF Next
<1>2. IInv /\ [Next]_vars => [Down]_vars
  BY <1>1
<1> QED
  BY <1>2, Invariance, PTL DEF Spec, Descends

(* _classes_nb, which Join never raises, is in the end short of the number  *)
(* of classes by what Q brought, modulo the width of unsigned int.          *)
THEOREM CounterLags == Spec => []CountLags
<1>1. IInv => CountLags
  <2> SUFFICES ASSUME IInv, pc = "done"
               PROVE  acc.nb = (Cardinality(Blocks(acc.data))
                                  - Cardinality(Brought)) % Word
    BY DEF CountLags, Brought
  <2>1. MergeInv /\ left \in Operands /\ q \in Operands
    BY DEF IInv
  <2>2. DOMAIN acc.data = DOMAIN Filled
    BY <2>1 DEF MergeInv
  <2>3. IsFiniteSet(DOMAIN acc.data)
    BY <2>1, <2>2, FilledShape
  <2>4. Cardinality(Blocks(acc.data)) = Cardinality(ClassIds(acc.data))
    BY <2>3, BlocksCounted
  <2> QED
    BY <2>1, <2>4 DEF MergeInv
<1> QED
  BY <1>1, Invariance, PTL

(* What Join returns lies between P and P + Q, covers the objects of both,  *)
(* and is a well-formed container whose ClassIds are all roots.             *)
THEOREM JoinReturnsSound == Spec => []JoinSound
<1>1. IInv => JoinSound
  <2> SUFFICES ASSUME IInv, pc = "done"
               PROVE  /\ DOMAIN acc.data = DOMAIN left.data \cup DOMAIN q.data
                      /\ Refines(Blocks(left.data), Blocks(acc.data))
                      /\ Refines(Blocks(acc.data), TrueJoin)
                      /\ NamedByMin(acc.data) /\ WellShared(acc.data)
                      /\ \A o \in DOMAIN acc.data : next[acc.data[o].id] = acc.data[o].id
    BY DEF JoinSound
  <2> DEFINE D == DOMAIN Filled
             r(x) == next[Filled[x].id]
  <2>1. /\ left \in Operands /\ q \in Operands
        /\ \A c \in Ids : next[c] \in Ids /\ next[next[c]] = next[c] /\ next[c] <= c
        /\ \A S \in Uncut : \A c \in Ids : next[c] \in S <=> c \in S
        /\ DOMAIN acc.data = D
    BY ForestIs DEF IInv, ForestInv, MergeInv
  <2>2. /\ D = DOMAIN left.data \cup DOMAIN q.data
        /\ \A x \in D : Filled[x].id \in Ids /\ Filled[x].id <= x
        /\ \A c \in Ids : c \in D /\ Filled[c].id = c
        /\ D \subseteq Nat
        /\ \A x \in DOMAIN left.data : Filled[x] = left.data[x]
    BY <2>1, FilledShape
  <2>3. ASSUME NEW x \in D
        PROVE  /\ acc.data[x] = Filled[r(x)] /\ acc.data[x].id = r(x)
               /\ r(x) \in Ids /\ next[r(x)] = r(x) /\ r(x) <= x
    <3>1. acc.data[x] = Filled[r(x)]
      BY DEF IInv, MergeInv
    <3>2. r(x) \in Ids /\ next[r(x)] = r(x) /\ r(x) <= Filled[x].id
      BY <2>1, <2>2
    <3>3. r(x) \in Nat /\ Filled[x].id \in Nat /\ x \in Nat
      BY <2>2, <3>2
    <3> QED
      BY <2>2, <3>1, <3>2, <3>3
  <2>4. \A x, y \in D : Together(acc.data, x, y) <=> r(x) = r(y)
    BY <2>3 DEF Together
  <2>5. Refines(Blocks(left.data), Blocks(acc.data))
    <3>1. ASSUME NEW b \in Blocks(left.data)
          PROVE  \E c \in Blocks(acc.data) : b \subseteq c
      <4>1. PICK x \in DOMAIN left.data : b = Cell(left.data, x)
        BY BlocksAreCells
      <4>2. ASSUME NEW y \in b PROVE y \in Cell(acc.data, x)
        <5>1. y \in DOMAIN left.data /\ left.data[y].id = left.data[x].id
          BY <4>1 DEF Cell, Group
        <5>2. x \in D /\ y \in D /\ r(x) = r(y)
          BY <2>2, <5>1
        <5> QED
          BY <2>1, <2>4, <5>2, CellsDisjoint
      <4>3. Cell(acc.data, x) \in Blocks(acc.data)
        <5>1. x \in DOMAIN acc.data
          BY <2>1, <2>2
        <5> QED
          BY <5>1, BlocksAreCells
      <4> QED
        BY <4>2, <4>3
    <3> QED
      BY <3>1 DEF Refines
  <2>6. Refines(Blocks(acc.data), TrueJoin)
    <3> DEFINE B == Blocks(left.data)
               C == Blocks(q.data)
    <3>1. UNION (B \cup C) = D
      <4>1. UNION B = DOMAIN left.data /\ UNION C = DOMAIN q.data
        BY BlocksAreCells
      <4> HIDE DEF B, C
      <4> QED
        BY <2>2, <4>1
    <3>2. ASSUME NEW b \in Blocks(acc.data)
          PROVE  \E c \in TrueJoin : b \subseteq c
      <4>1. PICK x \in D : b = Cell(acc.data, x)
        BY <2>1, BlocksAreCells, ZenonT(60)
      <4>2. Inseparable(B \cup C, x) \in TrueJoin
        <5>1. x \in UNION (B \cup C)
          BY <3>1
        <5> QED
          BY <5>1, InseparableWithinJoin DEF TrueJoin
      <4>3. ASSUME NEW y \in b PROVE y \in Inseparable(B \cup C, x)
        <5>1. y \in D /\ r(x) = r(y)
          <6>1. y \in D /\ acc.data[y].id = acc.data[x].id
            BY <2>1, <4>1 DEF Cell, Group
          <6> QED
            BY <2>3, <6>1
        <5>2. ASSUME NEW S \in Uncut PROVE x \in S <=> y \in S
          <6>1. /\ Filled[x].id \in S <=> x \in S
                /\ Filled[y].id \in S <=> y \in S
            BY <2>1, <5>1, UncutNames
          <6>2. /\ r(x) \in S <=> Filled[x].id \in S
                /\ r(y) \in S <=> Filled[y].id \in S
            BY <2>1, <2>2, <5>1
          <6> QED
            BY <5>1, <6>1, <6>2
        <5> QED
          BY <3>1, <5>1, <5>2 DEF Inseparable, Uncut
      <4> QED
        BY <4>2, <4>3
    <3> QED
      BY <3>2 DEF Refines
  <2>7. NamedByMin(acc.data)
    <3>1. ASSUME NEW x \in D
          PROVE  /\ acc.data[x].id \in D /\ acc.data[x].id <= x
                 /\ Together(acc.data, acc.data[x].id, x)
      <4>1. r(x) \in D /\ acc.data[x].id = r(x) /\ r(x) <= x
        BY <2>2, <2>3
      <4>2. r(r(x)) = r(x)
        BY <2>2, <2>3
      <4> QED
        BY <2>4, <4>1, <4>2
    <3> QED
      BY <2>1, <3>1 DEF NamedByMin
  <2>8. WellShared(acc.data)
    BY <2>1, <2>3, <2>4 DEF WellShared
  <2>9. \A o \in DOMAIN acc.data : next[acc.data[o].id] = acc.data[o].id
    BY <2>1, <2>3
  <2> QED
    BY <2>1, <2>2, <2>5, <2>6, <2>7, <2>8, <2>9
<1> QED
  BY <1>1, Invariance, PTL

=============================================================================
