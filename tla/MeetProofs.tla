----------------------------- MODULE MeetProofs -----------------------------
(***************************************************************************)
(* Theorems about Meet, for every finite set of objects and every choice of *)
(* supports.  The inductive invariant IInv says, besides what the           *)
(* properties of Meet say, what the accumulator covers and that the hash    *)
(* table zt knows exactly the intersections of the objects visited, each    *)
(* under the name its objects carry in the accumulator.                     *)
(***************************************************************************)
EXTENDS Meet, FiniteSetTheorems, TLAPS

(* The classes of P and of Q an object belongs to.                          *)
CellOf(x) == <<p.data[x], q.data[x]>>

Covered == DOMAIN acc.data = IF inplace THEN Seen \cup todo ELSE Seen

Unvisited == inplace => \A o \in todo : acc.data[o] = p.data[o]

Named ==
    \A x \in Seen :
        /\ acc.data[x] = NewClass(acc.data[x].id)
        /\ acc.data[x].id \in Seen
        /\ SameCell(x, acc.data[x].id)

Least ==
    \A x, y \in Seen : SameCell(x, y) =>
        acc.data[x] = acc.data[y] /\ acc.data[x].id <= y

Table ==
    /\ DOMAIN zt = {CellOf(x) : x \in Seen}
    /\ \A x \in Seen : zt[CellOf(x)] = acc.data[x].id

LoopInv == Covered /\ Unvisited /\ Named /\ Least /\ Table

IInv ==
    /\ TypeOK
    /\ pc = "start" => (inplace => acc = p) /\ DOMAIN zt = {}
    /\ pc # "start" => LoopInv
    /\ pc = "done" => todo = {} /\ acc.nb = Cardinality(DOMAIN zt)

-----------------------------------------------------------------------------
(* What is known of an operand: its elements are objects, each class is     *)
(* named by a member that no other member is smaller than.                  *)
LEMMA OperandShape ==
    ASSUME NEW P \in Operands
    PROVE  /\ DOMAIN P = {"size", "nb", "data"}
           /\ DOMAIN P.data \subseteq Objects
           /\ \A x \in DOMAIN P.data :
                 /\ P.data[x].id \in DOMAIN P.data
                 /\ P.data[x].id <= x
                 /\ P.data[P.data[x].id] = P.data[x]
<1>0. PICK S \in Supports : \E d \in Canonical(S) : P = PartitionOf(d)
  BY DEF Operands
<1>1. PICK d \in Canonical(S) : P = PartitionOf(d)
  BY <1>0
<1>2. S \subseteq Objects
  BY SupportsAssumption
<1>3. PICK f \in [S -> S] :
        /\ \A x \in S : f[x] <= x /\ f[f[x]] = f[x]
        /\ d = [x \in S |-> Handle(f[x], f[x])]
  BY DEF Canonical
<1>4. DOMAIN P = {"size", "nb", "data"} /\ P.data = d
  BY <1>1 DEF PartitionOf
<1>5. ASSUME NEW x \in S
      PROVE  d[x].id = f[x] /\ f[x] \in S /\ d[f[x]] = d[x]
  BY <1>3, <1>5 DEF Handle
<1> QED
  BY <1>2, <1>3, <1>4, <1>5

(* The accumulator starts as a partition of objects.                        *)
LEMMA StaleShape ==
    ASSUME NEW P \in Stale
    PROVE  DOMAIN P = {"size", "nb", "data"} /\ DOMAIN P.data \subseteq Objects
<1>1. PICK d \in Canonical(Objects) \cup Canonical({}) : P = PartitionOf(d)
  BY DEF Stale
<1>2. DOMAIN d \in {Objects, {}}
  BY DEF Canonical
<1> QED
  BY <1>1, <1>2 DEF PartitionOf

LEMMA InitInv == Init => IInv
<1> SUFFICES ASSUME Init PROVE IInv
  OBVIOUS
<1>1. DOMAIN acc = {"size", "nb", "data"} /\ DOMAIN acc.data \subseteq Objects
  BY OperandShape, StaleShape DEF Init
<1>2. TypeOK
  BY <1>1, ModesAssumption DEF Init, TypeOK
<1> QED
  BY <1>2 DEF Init, IInv

-----------------------------------------------------------------------------
(* The loop reads, of an object it has not visited, the class the object    *)
(* had in P.                                                                *)
LEMMA CurrentIsOriginal ==
    ASSUME LoopInv, NEW o \in todo
    PROVE  Pair(o) = CellOf(o)
BY DEF LoopInv, Unvisited, Pair, Current, CellOf

(* The name given to an object's intersection: the smallest object of the   *)
(* intersection visited so far, the object itself included.                 *)
LEMMA NameIsLeast ==
    ASSUME IInv, pc = "scan", NEW o \in Objects, Visit(o)
    PROVE  /\ Name(o) \in Seen \cup {o}
           /\ SameCell(o, Name(o))
           /\ Name(o) <= o
           /\ \A y \in Seen : SameCell(o, y) =>
                 /\ Name(o) <= y
                 /\ Pair(o) \in DOMAIN zt
                 /\ zt[Pair(o)] \in Seen
                 /\ acc.data[y] = NewClass(zt[Pair(o)])
                 /\ Name(o) = IF o < zt[Pair(o)] THEN o ELSE zt[Pair(o)]
           /\ Pair(o) \in DOMAIN zt <=> \E y \in Seen : SameCell(o, y)
<1>1. LoopInv /\ o \in todo /\ todo \subseteq DOMAIN p.data /\ p \in Operands
  BY DEF IInv, Visit, TypeOK
<1>2. Pair(o) = CellOf(o)
  BY <1>1, CurrentIsOriginal
<1>3. Seen \subseteq Nat /\ o \in Nat
  BY <1>1, OperandShape, ObjectsAssumption DEF Seen
<1>4. Pair(o) \in DOMAIN zt <=> \E y \in Seen : SameCell(o, y)
  BY <1>1, <1>2 DEF LoopInv, Table, CellOf, SameCell
<1>5. ASSUME NEW y \in Seen, SameCell(o, y)
      PROVE  /\ Pair(o) \in DOMAIN zt
             /\ zt[Pair(o)] = acc.data[y].id
             /\ zt[Pair(o)] \in Seen
             /\ acc.data[y] = NewClass(zt[Pair(o)])
             /\ SameCell(o, zt[Pair(o)])
             /\ zt[Pair(o)] <= y
  <2>1. Pair(o) = CellOf(y)
    BY <1>2, <1>5 DEF CellOf, SameCell
  <2>2. zt[Pair(o)] = acc.data[y].id
    BY <1>1, <2>1 DEF LoopInv, Table
  <2>3. SameCell(y, y)
    BY DEF SameCell
  <2> QED
    BY <1>1, <1>4, <1>5, <2>2, <2>3 DEF LoopInv, Named, Least, SameCell
<1>6. CASE \E y \in Seen : SameCell(o, y)
  <2>1. Name(o) = IF o < zt[Pair(o)] THEN o ELSE zt[Pair(o)]
    BY <1>4, <1>6 DEF Name, Renames
  <2>2. zt[Pair(o)] \in Seen /\ SameCell(o, zt[Pair(o)])
    BY <1>5, <1>6
  <2>3. Name(o) <= o /\ Name(o) <= zt[Pair(o)]
    <3>1. o \in Nat /\ zt[Pair(o)] \in Nat
      BY <1>3, <2>2
    <3> QED
      BY <2>1, <3>1
  <2>4. ASSUME NEW y \in Seen, SameCell(o, y)
        PROVE  Name(o) <= y
    <3>1. zt[Pair(o)] <= y /\ y \in Nat /\ zt[Pair(o)] \in Nat
      BY <1>3, <1>5, <2>2, <2>4
    <3> QED
      BY <1>3, <2>1, <3>1
  <2>5. SameCell(o, o)
    BY DEF SameCell
  <2> QED
    BY <1>4, <1>5, <2>1, <2>2, <2>3, <2>4, <2>5
<1>7. CASE ~ \E y \in Seen : SameCell(o, y)
  <2>1. Name(o) = o
    BY <1>4, <1>7 DEF Name, Renames
  <2>2. SameCell(o, o) /\ o <= o
    BY <1>3 DEF SameCell
  <2> QED
    BY <1>4, <1>7, <2>1, <2>2
<1> QED
  BY <1>6, <1>7

(* What one iteration does to the accumulator and to the table: the visited *)
(* objects of o's intersection, o included, get o's name, and nothing else  *)
(* changes.  In place this rests on the operands' names: an object not yet  *)
(* visited cannot carry the name that merge_unsafe replaces, for then o     *)
(* would carry it too and could not be smaller than it.                     *)
LEMMA VisitEffect ==
    ASSUME IInv, pc = "scan", NEW o \in Objects, Visit(o)
    PROVE  /\ Seen' = Seen \cup {o}
           /\ DOMAIN acc'.data = DOMAIN acc.data \cup {o}
           /\ \A x \in DOMAIN acc'.data :
                 acc'.data[x] = IF x \in Seen \cup {o} /\ SameCell(o, x)
                                THEN NewClass(Name(o)) ELSE acc.data[x]
           /\ DOMAIN zt' = DOMAIN zt \cup {CellOf(o)}
           /\ \A c \in DOMAIN zt' :
                 zt'[c] = IF c = CellOf(o) THEN Name(o) ELSE zt[c]
<1>1. /\ LoopInv /\ o \in todo /\ o \notin Seen
      /\ todo \subseteq DOMAIN p.data /\ p \in Operands
      /\ DOMAIN acc = {"size", "nb", "data"}
      /\ o \in DOMAIN q.data
  BY DEF IInv, Visit, TypeOK, Seen, Support
<1>2. Pair(o) = CellOf(o)
  BY <1>1, CurrentIsOriginal
<1>3. Seen' = Seen \cup {o}
  BY <1>1 DEF Visit, Seen
<1>4. /\ DOMAIN zt' = DOMAIN zt \cup {CellOf(o)}
      /\ \A c \in DOMAIN zt' : zt'[c] = IF c = CellOf(o) THEN Name(o) ELSE zt[c]
  BY <1>2 DEF Visit
<1>5. /\ DOMAIN Written(o) = DOMAIN acc.data \cup {o}
      /\ \A x \in DOMAIN Written(o) :
            Written(o)[x] = IF x = o THEN NewClass(Name(o)) ELSE acc.data[x]
  <2>1. CASE inplace
    BY <1>1, <2>1 DEF Written, LoopInv, Covered
  <2>2. CASE ~inplace
    <3>1. o \notin DOMAIN acc.data
      BY <1>1, <2>2 DEF LoopInv, Covered
    <3> QED
      BY <2>2, <3>1 DEF Written, Insert
  <2> QED
    BY <2>1, <2>2
<1>6. Seen \subseteq DOMAIN acc.data
  BY <1>1 DEF LoopInv, Covered
<1>7. SameCell(o, o)
  BY DEF SameCell
<1>8. CASE ~(Pair(o) \in DOMAIN zt /\ Renames(o))
  <2>1. acc'.data = Written(o)
    BY <1>1, <1>8 DEF Visit
  <2>2. ASSUME NEW x \in Seen, SameCell(o, x)
        PROVE  acc.data[x] = NewClass(Name(o))
    BY <1>8, <2>2, NameIsLeast DEF Renames
  <2> QED
    BY <1>3, <1>4, <1>5, <1>6, <1>7, <2>1, <2>2
<1>9. CASE Pair(o) \in DOMAIN zt /\ Renames(o)
  <2> DEFINE n == zt[Pair(o)]
             W == Written(o)
  <2>1. acc'.data = MergeUnsafe(W, o, n)
    BY <1>1, <1>9 DEF Visit
  <2>2. o < n /\ Name(o) = o
    BY <1>9 DEF Renames, Name
  <2>3. PICK y \in Seen : SameCell(o, y)
    BY <1>9, NameIsLeast
  <2>4. n \in Seen /\ acc.data[y] = NewClass(n) /\ SameCell(o, n)
    <3>1. n \in Seen /\ acc.data[y] = NewClass(n) /\ acc.data[y].id = n
      BY <2>3, NameIsLeast DEF NewClass, Handle
    <3>2. SameCell(y, n)
      BY <1>1, <2>3, <3>1 DEF LoopInv, Named
    <3> QED
      BY <2>3, <3>1, <3>2 DEF SameCell
  <2>5. acc.data[n] = NewClass(n)
    BY <2>4, NameIsLeast
  <2>6. o \in Nat /\ n \in Nat /\ o # n
    BY <1>1, <2>2, <2>4, OperandShape, ObjectsAssumption DEF Seen
  <2>7. /\ o \in DOMAIN W /\ n \in DOMAIN W
        /\ W[o] = NewClass(o) /\ W[n] = NewClass(n)
    BY <1>5, <1>6, <2>2, <2>4, <2>5, <2>6
  <2>8. MergeUnsafe(W, o, n) = Regroup(W, Group(W, n), NewClass(o))
    <3>1. Insert(Insert(W, o, NewClass(o)), n, NewClass(n)) = W
      BY <2>7 DEF Insert
    <3> QED
      BY <2>2, <2>6, <2>7, <3>1 DEF MergeUnsafe, NewClass, Handle
  <2>9. ASSUME NEW x \in DOMAIN W, x # o
        PROVE  W[x].id = n <=> x \in Seen /\ SameCell(o, x)
    <3>1. W[x] = acc.data[x] /\ x \in DOMAIN acc.data
      BY <1>5, <2>9
    <3>2. CASE x \in Seen
      <4>1. ASSUME SameCell(o, x) PROVE W[x].id = n
        <5>1. acc.data[x] = NewClass(n)
          BY <3>2, <4>1, NameIsLeast
        <5> QED
          BY <3>1, <5>1 DEF NewClass, Handle
      <4>2. ASSUME W[x].id = n PROVE SameCell(o, x)
        BY <1>1, <2>4, <3>1, <3>2, <4>2 DEF LoopInv, Named, SameCell
      <4> QED
        BY <3>2, <4>1, <4>2
    <3>3. CASE x \notin Seen
      <4>1. inplace /\ x \in todo /\ acc.data[x] = p.data[x]
        BY <1>1, <3>1, <3>3 DEF LoopInv, Covered, Unvisited
      <4>2. ASSUME p.data[x].id = n PROVE FALSE
        <5>1. p.data[n] = p.data[x]
          BY <1>1, <4>1, <4>2, OperandShape
        <5>2. p.data[o].id = n
          BY <2>4, <4>2, <5>1 DEF SameCell
        <5> QED
          BY <1>1, <2>2, <2>6, <5>2, OperandShape
      <4> QED
        BY <3>1, <3>3, <4>1, <4>2
    <3> QED
      BY <3>2, <3>3
  <2>10. W[o].id = o
    BY <2>7 DEF NewClass, Handle
  <2>11. /\ DOMAIN acc'.data = DOMAIN W
         /\ \A x \in DOMAIN W :
               acc'.data[x] = IF x \in Seen \cup {o} /\ SameCell(o, x)
                              THEN NewClass(o) ELSE W[x]
    <3>1. ASSUME NEW x \in DOMAIN W
          PROVE  Regroup(W, Group(W, n), NewClass(o))[x]
                   = IF x \in Seen \cup {o} /\ SameCell(o, x)
                     THEN NewClass(o) ELSE W[x]
      <4>1. CASE x = o
        BY <1>7, <2>7, <4>1 DEF Regroup
      <4>2. CASE x # o
        BY <2>9, <4>2 DEF Regroup, Group
      <4> QED
        BY <4>1, <4>2
    <3>2. DOMAIN Regroup(W, Group(W, n), NewClass(o)) = DOMAIN W
      BY DEF Regroup
    <3> QED
      BY <2>1, <2>8, <3>1, <3>2
  <2> QED
    BY <1>3, <1>4, <1>5, <1>7, <2>2, <2>11
<1> QED
  BY <1>8, <1>9

-----------------------------------------------------------------------------
LEMMA StartInv == IInv /\ Start => IInv'
<1> SUFFICES ASSUME IInv, Start PROVE IInv'
  OBVIOUS
<1>1. /\ DOMAIN p.data \subseteq Objects /\ DOMAIN acc = {"size", "nb", "data"}
      /\ inplace => acc = p
      /\ DOMAIN zt = {}
  BY OperandShape DEF IInv, TypeOK, Start
<1>2. /\ DOMAIN acc' = {"size", "nb", "data"}
      /\ DOMAIN acc'.data = IF inplace THEN DOMAIN p.data ELSE {}
      /\ inplace => acc' = p
  BY <1>1 DEF Start, Cleared
<1>3. Seen' = {}
  BY DEF Seen, Start
<1>4. TypeOK'
  BY <1>1, <1>2 DEF IInv, TypeOK, Start
<1>5. LoopInv'
  <2>1. Covered' /\ Unvisited'
    BY <1>2, <1>3 DEF Covered, Unvisited, Start
  <2>2. Named' /\ Least'
    BY <1>3 DEF Named, Least
  <2>3. Table'
    BY <1>1, <1>3 DEF Table, Start
  <2> QED
    BY <2>1, <2>2, <2>3 DEF LoopInv
<1>6. pc' = "scan"
  BY DEF Start
<1> QED
  BY <1>4, <1>5, <1>6 DEF IInv

LEMMA VisitInv == ASSUME NEW o \in Objects PROVE IInv /\ Visit(o) => IInv'
<1> SUFFICES ASSUME IInv, Visit(o) PROVE IInv'
  OBVIOUS
<1>1. /\ LoopInv /\ pc = "scan" /\ pc' = "scan"
      /\ o \in todo /\ o \notin Seen /\ o \in DOMAIN p.data
      /\ p' = p /\ q' = q /\ inplace' = inplace /\ todo' = todo \ {o}
  BY DEF IInv, TypeOK, Visit, Seen
<1> DEFINE m == Name(o)
<1>2. /\ Seen' = Seen \cup {o}
      /\ DOMAIN acc'.data = DOMAIN acc.data \cup {o}
      /\ DOMAIN zt' = DOMAIN zt \cup {CellOf(o)}
      /\ \A c \in DOMAIN zt' : zt'[c] = IF c = CellOf(o) THEN m ELSE zt[c]
  BY <1>1, VisitEffect
<1>3. \A x \in DOMAIN acc'.data :
         acc'.data[x] = IF x \in Seen \cup {o} /\ SameCell(o, x)
                        THEN NewClass(m) ELSE acc.data[x]
  BY <1>1, VisitEffect
<1>4. /\ m \in Seen' /\ SameCell(o, m) /\ m <= o
      /\ \A y \in Seen' : SameCell(o, y) => m <= y
  BY <1>1, <1>2, NameIsLeast
<1>5. Seen \subseteq DOMAIN acc.data /\ Seen' \subseteq DOMAIN acc'.data
  BY <1>1, <1>2 DEF LoopInv, Covered
<1>6. \A x, y : SameCell(x, y)' <=> SameCell(x, y)
  BY <1>1 DEF SameCell
<1>7. \A x : CellOf(x)' = CellOf(x)
  BY <1>1 DEF CellOf
<1>8. ASSUME NEW x \in Seen', SameCell(o, x)
      PROVE  acc'.data[x] = NewClass(m) /\ acc'.data[x].id = m
  BY <1>2, <1>3, <1>5, <1>8 DEF NewClass, Handle
<1>9. ASSUME NEW x \in Seen', ~SameCell(o, x)
      PROVE  x \in Seen /\ acc'.data[x] = acc.data[x]
  BY <1>2, <1>3, <1>5, <1>9 DEF SameCell
<1>10. TypeOK'
  <2>1. DOMAIN acc' = DOMAIN acc
    BY <1>1 DEF Visit
  <2> QED
    BY <1>1, <1>2, <2>1 DEF IInv, TypeOK
<1>11. Covered'
  BY <1>1, <1>2 DEF LoopInv, Covered
<1>12. Unvisited'
  <2>1. ASSUME inplace, NEW x \in todo'
        PROVE  acc'.data[x] = p.data[x]
    <3>1. x \in todo /\ x \notin Seen \cup {o} /\ x \in DOMAIN acc'.data
      BY <1>1, <1>2, <2>1 DEF Seen, LoopInv, Covered
    <3> QED
      BY <1>1, <1>3, <2>1, <3>1 DEF LoopInv, Unvisited
  <2> QED
    BY <1>1, <2>1 DEF Unvisited
<1>13. Named'
  <2>1. ASSUME NEW x \in Seen'
        PROVE  /\ acc'.data[x] = NewClass(acc'.data[x].id)
               /\ acc'.data[x].id \in Seen'
               /\ SameCell(x, acc'.data[x].id)
    <3>1. CASE SameCell(o, x)
      BY <1>4, <1>8, <3>1 DEF SameCell
    <3>2. CASE ~SameCell(o, x)
      BY <1>1, <1>2, <1>9, <3>2 DEF LoopInv, Named
    <3> QED
      BY <3>1, <3>2
  <2> QED
    BY <1>6, <2>1 DEF Named
<1>14. Least'
  <2>1. ASSUME NEW x \in Seen', NEW y \in Seen', SameCell(x, y)
        PROVE  acc'.data[x] = acc'.data[y] /\ acc'.data[x].id <= y
    <3>1. CASE SameCell(o, x)
      <4>1. SameCell(o, y)
        BY <2>1, <3>1 DEF SameCell
      <4> QED
        BY <1>4, <1>8, <3>1, <4>1
    <3>2. CASE ~SameCell(o, x)
      <4>1. ~SameCell(o, y)
        BY <2>1, <3>2 DEF SameCell
      <4> QED
        BY <1>1, <1>9, <2>1, <3>2, <4>1 DEF LoopInv, Least
    <3> QED
      BY <3>1, <3>2
  <2> QED
    BY <1>6, <2>1 DEF Least
<1>15. Table'
  <2>1. DOMAIN zt' = {CellOf(x) : x \in Seen'}
    BY <1>1, <1>2 DEF LoopInv, Table
  <2>2. ASSUME NEW x \in Seen'
        PROVE  zt'[CellOf(x)] = acc'.data[x].id
    <3>1. CellOf(x) = CellOf(o) <=> SameCell(o, x)
      BY DEF CellOf, SameCell
    <3>2. CellOf(x) \in DOMAIN zt'
      BY <2>1
    <3>3. CASE SameCell(o, x)
      BY <1>2, <1>8, <3>1, <3>2, <3>3
    <3>4. CASE ~SameCell(o, x)
      BY <1>1, <1>2, <1>9, <3>1, <3>2, <3>4 DEF LoopInv, Table
    <3> QED
      BY <3>3, <3>4
  <2>3. {CellOf(x) : x \in Seen'} = {CellOf(x)' : x \in Seen'}
    BY <1>7
  <2> QED
    BY <1>7, <2>1, <2>2, <2>3 DEF Table
<1> QED
  BY <1>1, <1>10, <1>11, <1>12, <1>13, <1>14, <1>15 DEF IInv, LoopInv

(* Skip, Erase and Finish leave the objects visited as they are.            *)
LEMMA SeenKeptInv ==
    ASSUME LoopInv, p' = p, q' = q, inplace' = inplace, zt' = zt,
           Seen' = Seen, todo' \subseteq todo,
           DOMAIN acc'.data = IF inplace THEN Seen \cup todo' ELSE Seen,
           \A x \in DOMAIN acc'.data : acc'.data[x] = acc.data[x]
    PROVE  LoopInv'
<1>1. Covered' /\ Unvisited'
  BY DEF LoopInv, Covered, Unvisited
<1>2. \A x \in Seen : acc'.data[x] = acc.data[x]
  BY DEF LoopInv, Covered
<1>3. Named' /\ Least'
  BY <1>2 DEF LoopInv, Named, Least, SameCell
<1>4. Table'
  BY <1>2 DEF LoopInv, Table, CellOf
<1> QED
  BY <1>1, <1>3, <1>4 DEF LoopInv

LEMMA SkipInv == ASSUME NEW o \in Objects PROVE IInv /\ Skip(o) => IInv'
<1> SUFFICES ASSUME IInv, Skip(o) PROVE IInv'
  OBVIOUS
<1>1. Seen' = Seen
  BY DEF Seen, Skip, Support
<1>2. LoopInv'
  BY <1>1, SeenKeptInv DEF IInv, Skip, LoopInv, Covered
<1> QED
  BY <1>2 DEF IInv, TypeOK, Skip

LEMMA EraseInv == ASSUME NEW o \in Objects PROVE IInv /\ Erase(o) => IInv'
<1> SUFFICES ASSUME IInv, Erase(o) PROVE IInv'
  OBVIOUS
<1>1. Seen' = Seen /\ o \notin Seen
  BY DEF Seen, Erase, Support
<1>2. /\ LoopInv /\ inplace /\ pc' \in {"scan", "undefined"}
      /\ DOMAIN acc = {"size", "nb", "data"}
  BY DEF IInv, TypeOK, Erase
<1>3. /\ DOMAIN acc' = DOMAIN acc
      /\ acc'.data = [x \in DOMAIN acc.data \ {o} |-> acc.data[x]]
  BY <1>2 DEF Erase
<1>4. DOMAIN acc'.data = Seen \cup todo'
  BY <1>1, <1>2, <1>3 DEF LoopInv, Covered, Erase
<1>5. LoopInv'
  BY <1>1, <1>2, <1>3, <1>4, SeenKeptInv DEF Erase
<1>6. TypeOK'
  BY <1>2, <1>3 DEF IInv, TypeOK, Erase
<1> QED
  BY <1>2, <1>5, <1>6 DEF IInv

LEMMA FinishInv == IInv /\ Finish => IInv'
<1> SUFFICES ASSUME IInv, Finish PROVE IInv'
  OBVIOUS
<1>1. LoopInv /\ DOMAIN acc = {"size", "nb", "data"}
  BY DEF IInv, TypeOK, Finish
<1>2. /\ DOMAIN acc' = DOMAIN acc /\ acc'.data = acc.data
      /\ acc'.nb = Cardinality(DOMAIN zt)
  BY <1>1 DEF Finish
<1>3. Seen' = Seen
  BY DEF Seen, Finish
<1>4. LoopInv'
  BY <1>1, <1>2, <1>3, SeenKeptInv DEF Finish, LoopInv, Covered
<1> QED
  BY <1>2, <1>4 DEF IInv, TypeOK, Finish

LEMMA StutterInv == IInv /\ UNCHANGED vars => IInv'
BY DEF IInv, TypeOK, LoopInv, Covered, Unvisited, Named, Least, Table, CellOf,
       Seen, SameCell, vars

LEMMA StepInv == IInv /\ [Next]_vars => IInv'
BY StartInv, VisitInv, SkipInv, EraseInv, FinishInv, StutterInv DEF Next

(* IInv holds throughout.                                                   *)
LEMMA Invariance == Spec => []IInv
BY InitInv, StepInv, PTL DEF Spec

-----------------------------------------------------------------------------
(* Objects visited carry the same class id exactly when they belong to the  *)
(* same intersection.                                                       *)
LEMMA TogetherIsSameCell ==
    LoopInv => \A x, y \in Seen : Together(acc.data, x, y) <=> SameCell(x, y)
<1> SUFFICES ASSUME LoopInv, NEW x \in Seen, NEW y \in Seen
             PROVE  Together(acc.data, x, y) <=> SameCell(x, y)
  OBVIOUS
<1>1. SameCell(x, y) => Together(acc.data, x, y)
  BY DEF LoopInv, Least, Together
<1>2. ASSUME Together(acc.data, x, y) PROVE SameCell(x, y)
  BY <1>2 DEF LoopInv, Named, Together, SameCell
<1> QED
  BY <1>1, <1>2

(* The same on the side of the operands: equal class ids are equal handles. *)
LEMMA SameCellIsSameIds ==
    ASSUME p \in Operands, q \in Operands,
           NEW x \in DOMAIN p.data \cap DOMAIN q.data,
           NEW y \in DOMAIN p.data \cap DOMAIN q.data
    PROVE  SameCell(x, y) <=>
              p.data[x].id = p.data[y].id /\ q.data[x].id = q.data[y].id
<1>1. p.data[x].id = p.data[y].id => p.data[x] = p.data[y]
  BY OperandShape
<1>2. q.data[x].id = q.data[y].id => q.data[x] = q.data[y]
  BY OperandShape
<1> QED
  BY <1>1, <1>2 DEF SameCell

-----------------------------------------------------------------------------
(* TypeOK holds in every reachable state of Meet.                           *)
THEOREM TypeCorrect == Spec => []TypeOK
<1>1. IInv => TypeOK
  BY DEF IInv
<1> QED
  BY <1>1, Invariance, PTL

(* At every iteration of the loop, whatever the order of the hashed index   *)
(* and whether or not Meet works in place, the objects visited are          *)
(* partitioned as P * Q partitions them, each class under the smallest of   *)
(* its objects.                                                             *)
LEMMA VisitedCorrect == Spec => []VisitedIsMeet
<1>1. IInv => VisitedIsMeet
  BY DEF IInv, VisitedIsMeet, LoopInv, Covered, Named, Least
<1> QED
  BY <1>1, Invariance, PTL

(* In place, no iteration disturbs an object the loop has yet to read.      *)
LEMMA UnvisitedCorrect == Spec => []UnvisitedUntouched
<1>1. IInv => UnvisitedUntouched
  BY DEF IInv, UnvisitedUntouched, LoopInv, Covered, Unvisited
<1> QED
  BY <1>1, Invariance, PTL

(* Both at once are the loop invariant of Meet.                             *)
THEOREM LoopCorrect == Spec => []LoopSound
<1>1. VisitedIsMeet /\ UnvisitedUntouched => LoopSound
  BY DEF LoopSound
<1> QED
  BY <1>1, VisitedCorrect, UnvisitedCorrect, PTL

(* No step splits or merges classes of objects visited before, and names    *)
(* only decrease.                                                           *)
THEOREM RenamingOnly == Spec => OnlyRenames
<1> DEFINE Renamed ==
        pc = "scan" =>
            \A x, y \in Seen :
                /\ acc'.data[x].id <= acc.data[x].id
                /\ Together(acc'.data, x, y) <=> Together(acc.data, x, y)
<1>1. IInv /\ IInv' /\ [Next]_vars => [Renamed]_vars
  <2> SUFFICES ASSUME IInv, IInv', [Next]_vars, pc = "scan",
                      NEW x \in Seen, NEW y \in Seen
               PROVE  /\ acc'.data[x].id <= acc.data[x].id
                      /\ Together(acc'.data, x, y) <=> Together(acc.data, x, y)
    OBVIOUS
  <2>1. /\ LoopInv /\ x \in DOMAIN acc.data /\ y \in DOMAIN acc.data
        /\ acc.data[x].id \in Nat
        /\ DOMAIN acc = {"size", "nb", "data"}
    <3>1. LoopInv /\ p \in Operands /\ DOMAIN acc = {"size", "nb", "data"}
      BY DEF IInv, TypeOK
    <3>2. acc.data[x].id \in Seen /\ Seen \subseteq DOMAIN p.data
      BY <3>1 DEF LoopInv, Named, Seen
    <3> QED
      BY <3>1, <3>2, OperandShape, ObjectsAssumption DEF LoopInv, Covered
  <2>2. ASSUME acc'.data[x] = acc.data[x], acc'.data[y] = acc.data[y]
        PROVE  /\ acc'.data[x].id <= acc.data[x].id
               /\ Together(acc'.data, x, y) <=> Together(acc.data, x, y)
    BY <2>1, <2>2 DEF Together
  <2>3. ASSUME NEW o \in Objects, Visit(o)
        PROVE  /\ acc'.data[x].id <= acc.data[x].id
               /\ Together(acc'.data, x, y) <=> Together(acc.data, x, y)
    <3>1. /\ x \in Seen' /\ y \in Seen'
          /\ x \in DOMAIN acc'.data /\ y \in DOMAIN acc'.data
          /\ pc' = "scan" /\ p' = p /\ q' = q
      BY <2>1, <2>3, VisitEffect DEF Visit
    <3>2. Together(acc'.data, x, y) <=> Together(acc.data, x, y)
      <4>1. Together(acc'.data, x, y) <=> SameCell(x, y)'
        <5>1. LoopInv'
          BY <3>1 DEF IInv
        <5>2. SameCell(x, y)' => Together(acc'.data, x, y)
          BY <3>1, <5>1 DEF LoopInv, Least, Together
        <5>3. ASSUME Together(acc'.data, x, y) PROVE SameCell(x, y)'
          BY <3>1, <5>1, <5>3 DEF LoopInv, Named, Together, SameCell
        <5> QED
          BY <5>2, <5>3
      <4>2. SameCell(x, y)' <=> SameCell(x, y)
        BY <3>1 DEF SameCell
      <4> QED
        BY <2>1, <4>1, <4>2, TogetherIsSameCell
    <3>3. acc'.data[x].id <= acc.data[x].id
      <4>1. CASE SameCell(o, x)
        <5>1. acc'.data[x].id = Name(o)
          <6>1. acc'.data[x] = NewClass(Name(o))
            BY <2>3, <3>1, <4>1, VisitEffect
          <6> QED
            BY <6>1 DEF NewClass, Handle
        <5>2. acc.data[x].id \in Seen /\ SameCell(o, acc.data[x].id)
          BY <2>1, <4>1 DEF LoopInv, Named, SameCell
        <5> QED
          BY <2>3, <5>1, <5>2, NameIsLeast
      <4>2. CASE ~SameCell(o, x)
        <5>1. acc'.data[x] = acc.data[x]
          BY <2>3, <3>1, <4>2, VisitEffect
        <5> QED
          BY <2>1, <5>1
      <4> QED
        BY <4>1, <4>2
    <3> QED
      BY <3>2, <3>3
  <2>4. ASSUME NEW o \in Objects, Skip(o)
        PROVE  acc'.data[x] = acc.data[x] /\ acc'.data[y] = acc.data[y]
    BY <2>4 DEF Skip
  <2>5. ASSUME NEW o \in Objects, Erase(o)
        PROVE  acc'.data[x] = acc.data[x] /\ acc'.data[y] = acc.data[y]
    <3>1. x # o /\ y # o
      BY <2>5 DEF Erase, Seen, Support
    <3> QED
      BY <2>1, <2>5, <3>1 DEF Erase
  <2>6. ASSUME Finish \/ UNCHANGED vars
        PROVE  acc'.data[x] = acc.data[x] /\ acc'.data[y] = acc.data[y]
    BY <2>1, <2>6 DEF Finish, vars
  <2>7. ~Start
    BY DEF Start
  <2> QED
    BY <2>2, <2>3, <2>4, <2>5, <2>6, <2>7 DEF Next
<1> QED
  BY <1>1, Invariance, PTL DEF Spec, OnlyRenames

-----------------------------------------------------------------------------
(* The non-empty intersections, as sets of the common objects.              *)
Intersection(x) ==
    {y \in DOMAIN p.data \cap DOMAIN q.data : SameCell(x, y)}

LEMMA MeetBlocksAreIntersections ==
    ASSUME p \in Operands, q \in Operands
    PROVE  MeetBlocks(Blocks(p.data), Blocks(q.data))
             = {Intersection(x) : x \in DOMAIN p.data \cap DOMAIN q.data}
<1> DEFINE D == DOMAIN p.data \cap DOMAIN q.data
           b(x) == Group(p.data, p.data[x].id)
           c(x) == Group(q.data, q.data[x].id)
<1>1. ASSUME NEW x \in D
      PROVE  b(x) \cap c(x) = Intersection(x) /\ x \in Intersection(x)
  <2>1. b(x) \cap c(x) = {y \in D : SameCell(x, y)}
    BY <1>1, SameCellIsSameIds DEF Group
  <2>2. SameCell(x, x)
    BY DEF SameCell
  <2> QED
    BY <1>1, <2>1, <2>2 DEF Intersection
<1>2. ASSUME NEW x \in D
      PROVE  Intersection(x) \in MeetBlocks(Blocks(p.data), Blocks(q.data))
  <2>1. b(x) \in Blocks(p.data) /\ c(x) \in Blocks(q.data)
    BY <1>2 DEF Blocks, ClassIds
  <2> QED
    BY <1>1, <1>2, <2>1 DEF MeetBlocks
<1>3. ASSUME NEW B \in MeetBlocks(Blocks(p.data), Blocks(q.data))
      PROVE  \E x \in D : B = Intersection(x)
  <2>1. PICK g \in Blocks(p.data), h \in Blocks(q.data) : B = g \cap h /\ B # {}
    BY <1>3 DEF MeetBlocks
  <2>2. PICK x : x \in g /\ x \in h
    BY <2>1
  <2>3. x \in DOMAIN p.data /\ g = b(x)
    BY <2>1, <2>2 DEF Blocks, ClassIds, Group
  <2>4. x \in DOMAIN q.data /\ h = c(x)
    BY <2>1, <2>2 DEF Blocks, ClassIds, Group
  <2> QED
    BY <1>1, <2>1, <2>3, <2>4
<1> QED
  BY <1>2, <1>3

(* What the loop has built when it ends.                                    *)
LEMMA DoneBlocks ==
    ASSUME IInv, pc = "done"
    PROVE  /\ Seen = DOMAIN p.data \cap DOMAIN q.data
           /\ DOMAIN acc.data = Seen
           /\ \A x \in Seen : Group(acc.data, acc.data[x].id) = Intersection(x)
           /\ Blocks(acc.data) = {Intersection(x) : x \in Seen}
<1>1. LoopInv /\ todo = {}
  BY DEF IInv
<1>2. Seen = DOMAIN p.data \cap DOMAIN q.data /\ DOMAIN acc.data = Seen
  BY <1>1 DEF Seen, LoopInv, Covered
<1>3. ASSUME NEW x \in Seen
      PROVE  Group(acc.data, acc.data[x].id) = Intersection(x)
  <2>1. \A y \in Seen : acc.data[y].id = acc.data[x].id <=> SameCell(x, y)
    BY <1>1, <1>3, TogetherIsSameCell DEF Together
  <2> QED
    BY <1>2, <2>1 DEF Group, Intersection
<1>4. Blocks(acc.data) = {Intersection(x) : x \in Seen}
  BY <1>2, <1>3 DEF Blocks, ClassIds
<1> QED
  BY <1>2, <1>3, <1>4

(* There are as many entries in zt as blocks in the accumulator.            *)
LEMMA TableCountsBlocks ==
    ASSUME IInv, pc = "done"
    PROVE  Cardinality(DOMAIN zt) = Cardinality(Blocks(acc.data))
<1> DEFINE Z == DOMAIN zt
           B == Blocks(acc.data)
           members(c) == {y \in Seen : CellOf(y) = c}
           f == [c \in Z |-> members(c)]
           g == [x \in Seen |-> CellOf(x)]
<1>1. LoopInv /\ Z = {CellOf(x) : x \in Seen}
  BY DEF IInv, LoopInv, Table
<1>2. IsFiniteSet(Z)
  <2>1. Seen \subseteq Objects
    BY OperandShape DEF Seen, IInv, TypeOK
  <2>2. IsFiniteSet(Seen)
    BY <2>1, ObjectsAssumption, FS_Subset
  <2>3. g \in Surjection(Seen, Z)
    BY <1>1 DEF Surjection
  <2> QED
    BY <2>2, <2>3, FS_Surjection
<1>3. \A x \in Seen : members(CellOf(x)) = Intersection(x)
  BY DoneBlocks DEF CellOf, SameCell, Intersection
<1>4. B = {members(CellOf(x)) : x \in Seen}
  <2>1. B = {Intersection(x) : x \in Seen}
    BY DoneBlocks
  <2> HIDE DEF B, members
  <2> QED
    BY <1>3, <2>1
<1>5. f \in Bijection(Z, B)
  <2>1. f \in [Z -> B] /\ \A s \in B : \E c \in Z : f[c] = s
    BY <1>1, <1>4
  <2>2. ASSUME NEW c1 \in Z, NEW c2 \in Z, f[c1] = f[c2] PROVE c1 = c2
    <3>1. PICK x \in Seen : c1 = CellOf(x)
      BY <1>1
    <3>2. x \in members(c1)
      BY <3>1
    <3> QED
      BY <2>2, <3>1, <3>2
  <2> QED
    BY <2>1, <2>2 DEF Bijection, Injection, IsInjective, Surjection
<1>6. ExistsBijection(Z, B)
  BY <1>5 DEF ExistsBijection
<1> QED
  BY <1>2, <1>6, FS_Bijection

(* When Meet returns, the accumulator is P * Q on the objects the operands  *)
(* share: its blocks are the non-empty intersections, each named by its     *)
(* smallest object and sharing one ClassId, and _classes_nb counts them.    *)
THEOREM MeetCorrect == Spec => []MeetIsMeet
<1>1. IInv => MeetIsMeet
  <2> SUFFICES ASSUME IInv, pc = "done"
               PROVE  /\ Blocks(acc.data)
                           = MeetBlocks(Blocks(p.data), Blocks(q.data))
                      /\ NamedByMin(acc.data) /\ WellShared(acc.data)
                      /\ acc.nb = Cardinality(Blocks(acc.data))
    BY DEF MeetIsMeet
  <2>1. LoopInv /\ p \in Operands /\ q \in Operands
    BY DEF IInv, TypeOK
  <2>2. Blocks(acc.data) = MeetBlocks(Blocks(p.data), Blocks(q.data))
    BY <2>1, DoneBlocks, MeetBlocksAreIntersections
  <2>3. WellShared(acc.data)
    BY <2>1, DoneBlocks, TogetherIsSameCell DEF WellShared, LoopInv, Least
  <2>4. NamedByMin(acc.data)
    <3>1. ASSUME NEW x \in Seen
          PROVE  /\ acc.data[x].id \in Seen
                 /\ acc.data[x].id <= x
                 /\ Together(acc.data, acc.data[x].id, x)
      <4>1. acc.data[x].id \in Seen /\ SameCell(x, acc.data[x].id)
        BY <2>1, <3>1 DEF LoopInv, Named
      <4>2. SameCell(x, x)
        BY DEF SameCell
      <4> QED
        BY <2>1, <3>1, <4>1, <4>2 DEF LoopInv, Least, Together
    <3> QED
      BY <3>1, DoneBlocks DEF NamedByMin
  <2>5. acc.nb = Cardinality(Blocks(acc.data))
    BY TableCountsBlocks DEF IInv
  <2> QED
    BY <2>2, <2>3, <2>4, <2>5
<1> QED
  BY <1>1, Invariance, PTL

(* Meet implements the one-step operation: its iterations are stuttering    *)
(* steps and the step that ends the loop delivers P * Q.                    *)
THEOREM MeetRefinesOperation == Spec => PromiseKept
<1>1. Init => Promise!Init
  BY DEF Init, Promise!Init
<1>2. MeetIsMeet' /\ [Next]_vars => [Promise!Compute]_(Promise!vars)
  <2> SUFFICES ASSUME MeetIsMeet', [Next]_vars
               PROVE  [Promise!Compute]_(Promise!vars)
    OBVIOUS
  <2>1. p' = p /\ q' = q
    BY DEF Next, Start, Visit, Skip, Erase, Finish, vars
  <2>2. CASE Finish
    BY <2>1, <2>2 DEF Finish, MeetIsMeet, Promise!Compute
  <2>3. CASE ~Finish
    <3>1. (pc # "done" /\ pc' # "done") \/ UNCHANGED vars
      BY <2>3 DEF Next, Start, Visit, Skip, Erase, vars
    <3> QED
      BY <2>1, <3>1 DEF Promise!vars, vars
  <2> QED
    BY <2>2, <2>3
<1> QED
  BY <1>1, <1>2, MeetCorrect, PTL DEF Spec, PromiseKept, Promise!Spec

=============================================================================
