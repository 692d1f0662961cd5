-------------------------------- MODULE Less --------------------------------
(***************************************************************************)
(* Partition2::Less(P, Q, Acc, SZ) (partition2.h): Acc = P - Q.             *)
(*                                                                         *)
(* On entry Acc holds P: Sub assigns P to the accumulator first, SubEqual   *)
(* passes the accumulator as P.  The loop looks up the objects 0, 1, ...,   *)
(* _size - 1 in turn, and decides for each class z of Acc whether it is     *)
(* kept: because it meets a second class of Q, or because its first object  *)
(* shows it equal to a class of Q, same name and same number of shared      *)
(* pointers to the ClassId.  The pointers counted are those of the          *)
(* container and those of the hash table `zt_ht' the loop itself fills.     *)
(* Classes not kept are fragmented.                                         *)
(*                                                                         *)
(* A class is the shared pointer to its ClassId.  In Acc, which is a copy   *)
(* or the result of an operation, the elements that share a class id share  *)
(* the ClassId.  Q is used as it is: if the top constructor built it, its   *)
(* class 0 is spread over several ClassIds, which are so many classes to    *)
(* this loop.                                                               *)
(***************************************************************************)
EXTENDS PartitionLattice

CONSTANTS
    Objects,                (* object identifiers                           *)
    Supports                (* the sets of objects an operand may cover     *)

ASSUME ObjectsAssumption == Objects \subseteq Nat /\ IsFiniteSet(Objects)
ASSUME SupportsAssumption == Supports \subseteq SUBSET Objects

VARIABLES
    left,                   (* P, the accumulator's value on entry          *)
    q,                      (* Q                                            *)
    acc,                    (* Acc                                          *)
    i,                      (* next object to look up                       *)
    zt_ht,                  (* pairs (class of Acc, class of Q) recorded    *)
    to_keep,                (* an element of each class found worth keeping *)
    to_frag,                (* an element of each class still to fragment   *)
    pc

vars == <<left, q, acc, i, zt_ht, to_keep, to_frag, pc>>

(* P: any partition, its _size any number.  Meet drops objects and leaves   *)
(* _size what it was in its first operand; Join adds m objects, and counts  *)
(* them neither in _size nor in _classes_nb.  Several operations may leave  *)
(* other values in _classes_nb, which the code moves but never reads.       *)
AfterMeet(d) ==
    {[size |-> n, nb |-> Cardinality(ClassIds(d)), data |-> d] :
        n \in 0..Cardinality(Objects)}

AfterJoin(d) ==
    {[size |-> Cardinality(DOMAIN d) - m,
      nb   |-> Cardinality(ClassIds(d)) - m,
      data |-> d] : m \in 0..Cardinality(DOMAIN d)}

LeftOperands ==
    UNION {AfterMeet(d) \cup AfterJoin(d) : d \in UNION {Canonical(S) : S \in Supports}}

(* Q: the value of an operation or of a variable, never copied on the way.  *)
RightOperands ==
    {PartitionOf(d) : d \in UNION {Canonical(S) \cup TopBuilt(S) : S \in Supports}}

Init ==
    /\ left \in LeftOperands
    /\ q \in RightOperands
    /\ acc = left
    /\ i = 0
    /\ zt_ht = {}
    /\ to_keep = {}
    /\ to_frag = {}
    /\ pc = "scan"

-----------------------------------------------------------------------------
(* The classes of the object being looked up.                               *)
Z == acc.data[i]
T == q.data[i]

(* z_set: the classes of Acc that have an entry in zt_ht.                   *)
z_set == {pair[1] : pair \in zt_ht}

(* shared_ptr::use_count() of a ClassId of Acc or of Q: its elements, its   *)
(* entries in zt_ht and, on the side of Acc, its entry in z_set.            *)
UseCountOfZ ==
    Cardinality(Holders(acc.data, Z))
        + Cardinality({pair \in zt_ht : pair[1] = Z})
        + Cardinality(z_set \cap {Z})

UseCountOfT ==
    Cardinality(Holders(q.data, T))
        + Cardinality({pair \in zt_ht : pair[2] = T})

(* A slip: equal names taken for equal classes.                             *)
SameName == Z.id = T.id

SameClass == Z.id = T.id /\ UseCountOfZ = UseCountOfT

(* insert into a set of elements ordered by class id: without effect when   *)
(* an element of the class is in it.                                        *)
Register(set, o) ==
    IF \E x \in set : acc.data[x].id = acc.data[o].id THEN set ELSE set \cup {o}

(* find(i) succeeds in both containers.                                     *)
Found == i \in DOMAIN acc.data /\ i \in DOMAIN q.data

Lookup ==
    /\ pc = "scan"
    /\ i < acc.size

(* The first object of a class.                                             *)
FirstOfClass ==
    /\ Lookup
    /\ Found
    /\ Z \notin z_set
    /\ to_keep' = IF SameClass THEN Register(to_keep, i) ELSE to_keep
    /\ zt_ht' = zt_ht \cup {<<Z, T>>}
    /\ i' = i + 1
    /\ UNCHANGED <<left, q, acc, to_frag, pc>>

(* A slip: the second meeting recorded, but the class not kept.             *)
SecondRecorded ==
    /\ Lookup
    /\ Found
    /\ Z \in z_set
    /\ <<Z, T>> \notin zt_ht
    /\ zt_ht' = zt_ht \cup {<<Z, T>>}
    /\ i' = i + 1
    /\ UNCHANGED <<left, q, acc, to_keep, to_frag, pc>>

(* A class of Acc meets a class of Q other than the one first recorded.     *)
SecondMeeting ==
    /\ Lookup
    /\ Found
    /\ Z \in z_set
    /\ <<Z, T>> \notin zt_ht
    /\ to_keep' = Register(to_keep, i)
    /\ i' = i + 1
    /\ UNCHANGED <<left, q, acc, zt_ht, to_frag, pc>>

KnownPairStays ==
    /\ Lookup
    /\ Found
    /\ <<Z, T>> \in zt_ht
    /\ UNCHANGED vars

(* An intersection already recorded.                                        *)
KnownPair ==
    /\ Lookup
    /\ Found
    /\ <<Z, T>> \in zt_ht
    /\ i' = i + 1
    /\ UNCHANGED <<left, q, acc, zt_ht, to_keep, to_frag, pc>>

(* One of the two containers has no object i: its end() is dereferenced.    *)
NotFound ==
    /\ Lookup
    /\ ~Found
    /\ pc' = "undefined"
    /\ UNCHANGED <<left, q, acc, i, zt_ht, to_keep, to_frag>>

(* anchors, where each class looked up has the first of its elements, less  *)
(* to_keep: both are ordered by class id.                                   *)
ToFragment ==
    {o \in 0..(i - 1) :
        /\ \A x \in 0..(o - 1) : acc.data[x].id # acc.data[o].id
        /\ \A x \in to_keep : acc.data[x].id # acc.data[o].id}

(* A slip: the loop may end one object short.                               *)
EndScanShort ==
    /\ pc = "scan"
    /\ i >= acc.size - 1
    /\ to_frag' = ToFragment
    /\ pc' = "fragment"
    /\ UNCHANGED <<left, q, acc, i, zt_ht, to_keep>>

EndScan ==
    /\ pc = "scan"
    /\ i = acc.size
    /\ to_frag' = ToFragment
    /\ pc' = "fragment"
    /\ UNCHANGED <<left, q, acc, i, zt_ht, to_keep>>

(* The elements come in the order the set was built in; the class id is     *)
(* read from the container as it is by then.                                *)
FragmentClass(o) ==
    /\ pc = "fragment"
    /\ o \in to_frag
    /\ \A x \in to_frag : left.data[o].id <= left.data[x].id
    /\ LET cid == acc.data[o].id
       IN  acc' = [acc EXCEPT !.data = Fragment(acc.data, cid),
                              !.nb = acc.nb + FragmentCount(acc.data, cid)]
    /\ to_frag' = to_frag \ {o}
    /\ UNCHANGED <<left, q, i, zt_ht, to_keep, pc>>

Finish ==
    /\ pc = "fragment"
    /\ to_frag = {}
    /\ pc' = "done"
    /\ UNCHANGED <<left, q, acc, i, zt_ht, to_keep, to_frag>>

Next ==
    \/ FirstOfClass \/ SecondMeeting \/ KnownPair \/ NotFound
    \/ EndScan
    \/ \E o \in Objects : FragmentClass(o)
    \/ Finish

(* Sequential code: the loops go on while they can.                         *)
Spec == Init /\ [][Next]_vars /\ WF_vars(Next)

-----------------------------------------------------------------------------
(* Counting shared pointers decides equality of classes, whichever of them  *)
(* the loop's own table holds: at the first object of a class, equal names  *)
(* and equal counts mean that the elements of the class all share one       *)
(* ClassId of Q with nobody else, or that the class is about to be kept for *)
(* meeting another one; and such a class never goes unrecognised.           *)
CountDecidesEquality ==
    pc = "scan" /\ i < acc.size /\ Found /\ Z \notin z_set =>
        LET z == Holders(acc.data, Z)
        IN  /\ z \subseteq DOMAIN q.data /\ SameClass => Kept(z, Pointers(q.data))
            /\ IsHeld(z, Pointers(q.data)) => SameClass

(* _size is the number of objects: neither Meet nor Join made it stale.     *)
SizeCounts == left.size = Cardinality(DOMAIN left.data)

(* When Less returns, each class of P is intact or in single objects, each  *)
(* class is named by its smallest member and _classes_nb has moved by the   *)
(* number of classes gained.  If _size counts, the result is P - Q, Q taken *)
(* for the ClassIds it holds, and P - Q of the partitions when Q has one    *)
(* ClassId to a class.                                                      *)
LessIsLess ==
    pc = "done" =>
        /\ \A b \in Blocks(left.data) :
              b \in Blocks(acc.data) \/ \A x \in b : {x} \in Blocks(acc.data)
        /\ NamedByMin(acc.data) /\ WellShared(acc.data)
        /\ acc.nb - left.nb
               = Cardinality(Blocks(acc.data)) - Cardinality(Blocks(left.data))
        /\ SizeCounts =>
              /\ Blocks(acc.data)
                    = LessByPointer(Blocks(left.data), Pointers(q.data))
              /\ WellShared(q.data) =>
                    Blocks(acc.data) = LessBlocks(Blocks(left.data), Blocks(q.data))

(* The objects looked up are in both operands, what the loop relies on.     *)
Covering == 0..(left.size - 1) \subseteq DOMAIN left.data \cap DOMAIN q.data

(* On operands that have the objects it looks up, Less returns.             *)
Returns == Covering ~> pc = "done"

(* Less implements the one-step operation with result P - Q, on operands    *)
(* whose _size counts: it delivers at its return, once, and nothing else    *)
(* before or after.                                                         *)
Delivered == pc = "done" /\ SizeCounts

Promise == INSTANCE Operation WITH
    Result   <- LessByPointer,
    left     <- Blocks(left.data),
    right    <- Pointers(q.data),
    result   <- IF Delivered THEN Blocks(acc.data) ELSE {},
    finished <- Delivered

PromiseKept == Promise!Spec

=============================================================================
