-------------------------------- MODULE Meet --------------------------------
(***************************************************************************)
(* Partition2::Meet(P, Q, Acc, SZ) (partition2.h): Acc = P * Q.             *)
(*                                                                         *)
(* The loop visits the objects of P in the order of the hashed object       *)
(* index, which the container leaves unspecified: any object not visited    *)
(* yet may come next.  `zt' maps a pair (class of P, class of Q) to the     *)
(* object that names their intersection so far; when a smaller object of    *)
(* the same intersection turns up it takes over, and merge_unsafe moves     *)
(* the elements that were filed under the previous name.                    *)
(*                                                                         *)
(* With `inplace' the accumulator is P itself (operator *= of a             *)
(* subexpression, MulEqual): elements are replaced or erased in the         *)
(* container the loop is iterating over.  Otherwise (Mul) the accumulator   *)
(* is another object, cleared first.                                        *)
(***************************************************************************)
EXTENDS PartitionLattice

CONSTANTS
    Objects,                (* object identifiers                           *)
    Supports,               (* the sets of objects an operand may cover     *)
    Modes                   (* the values `inplace' may take                *)

ASSUME ObjectsAssumption == Objects \subseteq Nat /\ IsFiniteSet(Objects)
ASSUME SupportsAssumption == Supports \subseteq SUBSET Objects
ASSUME ModesAssumption == Modes \subseteq BOOLEAN

VARIABLES
    p,                      (* left operand as it was when Meet was called  *)
    q,                      (* right operand                                *)
    inplace,                (* &P == &Acc                                   *)
    acc,                    (* the accumulator                              *)
    zt,                     (* intersections met so far                     *)
    todo,                   (* objects of P the loop has not visited        *)
    pc

vars == <<p, q, inplace, acc, zt, todo, pc>>

(* Operands: any partition of any part of the objects, built by the list    *)
(* constructor or by an earlier operation.                                  *)
Operands ==
    {PartitionOf(d) : d \in UNION {Canonical(S) : S \in Supports}}

(* An accumulator that is not P holds whatever the assigned variable held.  *)
Stale == {PartitionOf(d) : d \in Canonical(Objects) \cup Canonical({})}

Init ==
    /\ p \in Operands
    /\ q \in Operands
    /\ inplace \in Modes
    /\ acc \in IF inplace THEN {p} ELSE Stale
    /\ zt = [c \in {} |-> 0]
    /\ todo = {}
    /\ pc = "start"

-----------------------------------------------------------------------------
(* A slip: the accumulator cleared and then resized.                        *)
Resized ==
    [acc EXCEPT !.data = [x \in 0..p.size |-> NewClass(0)], !.size = p.size]

Cleared ==
    [acc EXCEPT !.data = [x \in {} |-> NewClass(x)], !.size = p.size]

Start ==
    /\ pc = "start"
    /\ acc' = IF inplace THEN acc ELSE Cleared
    /\ todo' = DOMAIN p.data
    /\ pc' = "scan"
    /\ UNCHANGED <<p, q, inplace, zt>>

(* The element of P the iterator points at: in place, what the accumulator  *)
(* holds now.                                                               *)
Current(o) == IF inplace THEN acc.data[o] ELSE p.data[o]

Pair(o) == <<Current(o), q.data[o]>>

(* A slip: a better name is never taken over.                               *)
RenamesNever(o) == Pair(o) \notin DOMAIN zt

(* `o' opens the intersection or is a better name for it.                   *)
Renames(o) == Pair(o) \in DOMAIN zt => o < zt[Pair(o)]

Name(o) == IF Renames(o) THEN o ELSE zt[Pair(o)]

(* Acc._data.insert in a separate accumulator, replace in place.            *)
Written(o) ==
    IF inplace THEN [acc.data EXCEPT ![o] = NewClass(Name(o))]
    ELSE Insert(acc.data, o, NewClass(Name(o)))

Visit(o) ==
    /\ pc = "scan"
    /\ o \in todo
    /\ o \in Support(q.data)
    /\ zt' = [c \in DOMAIN zt \cup {Pair(o)} |->
                 IF c = Pair(o) THEN Name(o) ELSE zt[c]]
    /\ acc' = [acc EXCEPT !.data =
                  IF Pair(o) \in DOMAIN zt /\ Renames(o)
                  THEN MergeUnsafe(Written(o), o, zt[Pair(o)])
                  ELSE Written(o)]
    /\ todo' = todo \ {o}
    /\ UNCHANGED <<p, q, inplace, pc>>

(* A slip: an object Q does not have is copied.                             *)
SkipCopies(o) ==
    /\ pc = "scan"
    /\ ~inplace
    /\ o \in todo
    /\ o \notin Support(q.data)
    /\ acc' = [acc EXCEPT !.data = Insert(acc.data, o, Current(o))]
    /\ todo' = todo \ {o}
    /\ UNCHANGED <<p, q, inplace, zt, pc>>

(* An object Q does not have, separate accumulator: not copied.             *)
Skip(o) ==
    /\ pc = "scan"
    /\ ~inplace
    /\ o \in todo
    /\ o \notin Support(q.data)
    /\ todo' = todo \ {o}
    /\ UNCHANGED <<p, q, inplace, acc, zt, pc>>

(* An object Q does not have, in place: the element the iterator points at  *)
(* is erased and the iterator then advanced, which is undefined.  Either    *)
(* the freed node still links to its successor and the loop goes on, or     *)
(* nothing is known about what follows.                                     *)
Erase(o) ==
    /\ pc = "scan"
    /\ inplace
    /\ o \in todo
    /\ o \notin Support(q.data)
    /\ acc' = [acc EXCEPT !.data = [x \in DOMAIN acc.data \ {o} |-> acc.data[x]]]
    /\ todo' = todo \ {o}
    /\ pc' \in {"scan", "undefined"}
    /\ UNCHANGED <<p, q, inplace, zt>>

(* A slip: the loop ends one object short.                                  *)
FinishShort ==
    /\ pc = "scan"
    /\ Cardinality(todo) <= 1
    /\ acc' = [acc EXCEPT !.nb = Cardinality(DOMAIN zt)]
    /\ pc' = "done"
    /\ UNCHANGED <<p, q, inplace, zt, todo>>

(* _classes_nb is set; _size keeps the size of P.                           *)
Finish ==
    /\ pc = "scan"
    /\ todo = {}
    /\ acc' = [acc EXCEPT !.nb = Cardinality(DOMAIN zt)]
    /\ pc' = "done"
    /\ UNCHANGED <<p, q, inplace, zt, todo>>

Next ==
    \/ Start
    \/ \E o \in Objects : Visit(o) \/ Skip(o) \/ Erase(o)
    \/ Finish

Spec == Init /\ [][Next]_vars

-----------------------------------------------------------------------------
(* The objects both operands have and the loop has visited.                 *)
Seen == (DOMAIN p.data \cap DOMAIN q.data) \ todo

SameCell(x, y) == p.data[x] = p.data[y] /\ q.data[x] = q.data[y]

TypeOK ==
    /\ p \in Operands
    /\ q \in Operands
    /\ inplace \in BOOLEAN
    /\ todo \subseteq DOMAIN p.data
    /\ DOMAIN acc = {"size", "nb", "data"}
    /\ DOMAIN acc.data \subseteq Objects
    /\ pc \in {"start", "scan", "done", "undefined"}

(* At any moment of the loop the objects visited so far are partitioned as  *)
(* P * Q partitions them, each class under the smallest of its objects:     *)
(* taking over a name never merges or splits an intersection.               *)
VisitedIsMeet ==
    pc = "scan" =>
        /\ Seen \subseteq DOMAIN acc.data
        /\ \A x \in Seen :
              /\ acc.data[x].id \in Seen
              /\ SameCell(x, acc.data[x].id)
              /\ \A y \in Seen : SameCell(x, y) =>
                    acc.data[x] = acc.data[y] /\ acc.data[x].id <= y

(* In place, an object not visited yet still belongs to its class of P,     *)
(* although merge_unsafe relabels by class id the very container being      *)
(* iterated over and fresh names coincide with names of P.                  *)
UnvisitedUntouched ==
    pc = "scan" /\ inplace =>
        \A o \in todo : o \in DOMAIN acc.data /\ acc.data[o] = p.data[o]

(* The loop invariant: the classes made so far are right, and those still   *)
(* to be read are as they were.                                             *)
LoopSound == VisitedIsMeet /\ UnvisitedUntouched

(* When Meet returns, the accumulator is P * Q on the common objects, its   *)
(* classes are named by their smallest members and _classes_nb counts them. *)
MeetIsMeet ==
    pc = "done" =>
        /\ Blocks(acc.data) = MeetBlocks(Blocks(p.data), Blocks(q.data))
        /\ NamedByMin(acc.data) /\ WellShared(acc.data)
        /\ acc.nb = Cardinality(Blocks(acc.data))

(* Taking over a name renames a whole class at once: no step splits or      *)
(* merges the classes of the objects visited before it, and a class name    *)
(* never increases.                                                         *)
OnlyRenames ==
    [][pc = "scan" =>
        \A x, y \in Seen :
            /\ acc'.data[x].id <= acc.data[x].id
            /\ Together(acc'.data, x, y) <=> Together(acc.data, x, y)]_vars

(* Meet implements the one-step operation with result P * Q.                *)
Promise == INSTANCE Operation WITH
    Result   <- MeetBlocks,
    left     <- Blocks(p.data),
    right    <- Blocks(q.data),
    result   <- IF pc = "done" THEN Blocks(acc.data) ELSE {},
    finished <- pc = "done"

PromiseKept == Promise!Spec

=============================================================================
