------------------------------ MODULE Universe ------------------------------
(***************************************************************************)
(* The cid_container of universe.h: the multi-index container in which a    *)
(* Partition2 keeps one element per object, an object identifier together   *)
(* with a shared pointer to the ClassId of the class it belongs to.         *)
(*                                                                         *)
(* A container is a function from its objects (hashed_unique on the object  *)
(* identifier: at most one element per object) to ClassId handles.  A       *)
(* handle is a record: `id' is the ClassId's _id, and `alloc' tells apart   *)
(* ClassId objects that carry the same _id.  The second index of the        *)
(* container (hashed_non_unique on CID) looks at `id' only; maps keyed by   *)
(* the shared pointer itself compare whole handles.                         *)
(*                                                                         *)
(* Operators that are pure helpers of the loops in partition2.h live here:  *)
(* insert/replace/equal_range as those loops use them, merge, merge_unsafe  *)
(* and fragment.                                                            *)
(***************************************************************************)
EXTENDS Integers, FiniteSets

(* The allocation mark of a ClassId created by the operation in progress,   *)
(* as opposed to one the operands already held.                             *)
Fresh == -1

Handle(i, a) == [id |-> i, alloc |-> a]

(* PClassId(new ClassId(o)) inside an operation.                            *)
NewClass(o) == Handle(o, Fresh)

Support(d) == DOMAIN d

(* get<ClassId>().equal_range(cid): the elements whose class id is cid.     *)
Group(d, cid) == {o \in DOMAIN d : d[o].id = cid}

ClassIds(d) == {d[o].id : o \in DOMAIN d}

(* The elements that share the ClassId h.                                   *)
Holders(d, h) == {o \in DOMAIN d : d[o] = h}

(* insert: without effect when the object is already in the container.      *)
Insert(d, o, h) ==
    IF o \in DOMAIN d THEN d
    ELSE [x \in DOMAIN d \cup {o} |-> IF x = o THEN h ELSE d[x]]

(* The loop of replace() calls by which merge and merge_unsafe give every   *)
(* element of a group the handle h.                                         *)
Regroup(d, S, h) == [x \in DOMAIN d |-> IF x \in S THEN h ELSE d[x]]

-----------------------------------------------------------------------------
(* Forms a slip in the code would give merge and merge_unsafe: the two      *)
(* classes not swapped when the first is the larger; the loop run to the    *)
(* end of the index instead of the end of the range; a single element moved *)
(* instead of its class; the absorbed class not discounted.                 *)
MergeNoSwap(d, c1, c2) ==
    IF c1 = c2 THEN d
    ELSE Regroup(d, Group(d, c2), d[CHOOSE x \in Group(d, c1) : TRUE])

MergeUnsafePastRange(d, a, b) ==
    LET full == Insert(Insert(d, a, NewClass(a)), b, NewClass(b))
        lo   == IF full[a].id <= full[b].id THEN full[a] ELSE full[b]
        hi   == IF full[a].id <= full[b].id THEN full[b] ELSE full[a]
    IN  IF lo.id = hi.id THEN full
        ELSE Regroup(full, {x \in DOMAIN full : full[x].id >= hi.id}, lo)

MergeUnsafeOne(d, a, b) ==
    LET full == Insert(Insert(d, a, NewClass(a)), b, NewClass(b))
    IN  IF full[a].id <= full[b].id THEN [full EXCEPT ![b] = full[a]]
        ELSE [full EXCEPT ![a] = full[b]]

MergeUnsafeCreated(d, a, b) == Cardinality({a, b} \ DOMAIN d)

(* merge(cidc, cid_1, cid_2), the variant that takes two existing classes:  *)
(* the class with the larger id joins the one with the smaller id.          *)
Merge(d, c1, c2) ==
    LET lo == IF c1 <= c2 THEN c1 ELSE c2
        hi == IF c1 <= c2 THEN c2 ELSE c1
    IN  IF c1 = c2 THEN d
        ELSE Regroup(d, Group(d, hi), d[CHOOSE x \in Group(d, lo) : TRUE])

(* merge_unsafe(cidc, cid_1, cid_2): takes two objects, creates a class for *)
(* each of them that is in none, then joins the two classes under the       *)
(* smaller class id.                                                        *)
MergeUnsafe(d, a, b) ==
    LET full == Insert(Insert(d, a, NewClass(a)), b, NewClass(b))
        lo   == IF full[a].id <= full[b].id THEN full[a] ELSE full[b]
        hi   == IF full[a].id <= full[b].id THEN full[b] ELSE full[a]
    IN  IF lo.id = hi.id THEN full ELSE Regroup(full, Group(full, hi.id), lo)

(* What merge_unsafe returns: the classes created less the one absorbed.    *)
(* The code's counter is unsigned; -1 stands for its wrapped value.         *)
MergeUnsafeCount(d, a, b) ==
    LET full == Insert(Insert(d, a, NewClass(a)), b, NewClass(b))
    IN  Cardinality({a, b} \ DOMAIN d)
          - (IF full[a].id = full[b].id THEN 0 ELSE 1)

(* fragment(cidc, cid): every member of the class except the object that    *)
(* names it gets a class of its own; returns how many were created.         *)
Fragment(d, cid) ==
    [x \in DOMAIN d |->
        IF d[x].id = cid /\ x # cid THEN NewClass(x) ELSE d[x]]

FragmentCount(d, cid) == Cardinality(Group(d, cid) \ {cid})

-----------------------------------------------------------------------------
(* The containers in which a class is named by its smallest member and all  *)
(* its members share its handle.                                            *)
Canonical(S) ==
    {[x \in S |-> Handle(f[x], f[x])] :
        f \in {g \in [S -> S] : \A x \in S : g[x] <= x /\ g[g[x]] = g[x]}}

(* Containers built by the top constructor, and by add after it, and not    *)
(* copied since: the objects 0 .. k - 1 have a ClassId(0) each, and an      *)
(* object that joined their class later shares that of one of them.         *)
JoinedTo(d, k) ==
    {[x \in DOMAIN d |-> IF d[x].id = 0 THEN Handle(0, h[x]) ELSE d[x]] :
        h \in {g \in [Group(d, 0) -> 0..(k - 1)] : \A x \in 0..(k - 1) : g[x] = x}}

TopBuilt(S) ==
    UNION {UNION {JoinedTo(d, k) :
                    k \in {n \in 1..Cardinality(S) : 0..(n - 1) \subseteq Group(d, 0)}} :
             d \in Canonical(S)}

-----------------------------------------------------------------------------
(* The Partition2 object: _size, _classes_nb and _data.                     *)
PartitionOf(d) ==
    [size |-> Cardinality(DOMAIN d),
     nb   |-> Cardinality(ClassIds(d)),
     data |-> d]

(* Partition2(n, name), the top partition: every object points at a ClassId *)
(* of its own, all of them with id 0.                                       *)
Top(n) == [size |-> n, nb |-> 1, data |-> [o \in 0..(n - 1) |-> Handle(0, o)]]

=============================================================================
