-------------------------------- MODULE Join --------------------------------
(***************************************************************************)
(* Partition2::Join(P, Q, Acc, SZ) (partition2.h): Acc = P + Q, with the    *)
(* union-find of union_find.h that it runs on the classes of Acc.           *)
(*                                                                         *)
(* On entry Acc holds P: Add assigns P to the accumulator first, AddEqual   *)
(* passes the accumulator as P.  Every class of Acc is a ClassId with a     *)
(* _next link, initially to itself.  The main loop visits the elements of   *)
(* Acc in the order of its class index: class after class, in an order the  *)
(* container leaves unspecified.  For an element x whose class u in Q has   *)
(* another member, the class of x is linked to the class of such a member,  *)
(* or, from the second time on, to the ClassId recorded for u in the        *)
(* bridge table.  Then the forest is compressed and each linked class is    *)
(* merged into its root.                                                    *)
(*                                                                         *)
(* The elements of Acc that share a class id share the ClassId, so a        *)
(* ClassId is identified by its id: `next', `bridge', `anchors' and `uv'    *)
(* hold ids where the code holds ClassId pointers.                          *)
(***************************************************************************)
EXTENDS PartitionLattice

CONSTANTS
    Objects,                (* object identifiers                           *)
    Supports,               (* the sets of objects an operand may cover     *)
    Word                    (* 2 ^ (width of unsigned int)                  *)

ASSUME ObjectsAssumption == Objects \subseteq Nat /\ IsFiniteSet(Objects)
ASSUME SupportsAssumption == Supports \subseteq SUBSET Objects
ASSUME WordAssumption == Word \in Nat /\ Word > Cardinality(Objects)

VARIABLES
    left,                   (* P, the accumulator's value on entry          *)
    q,                      (* Q                                            *)
    acc,                    (* Acc                                          *)
    next,                   (* _next of the ClassIds of Acc                 *)
    bridge,                 (* class of Q -> ClassId of Acc                 *)
    anchors,                (* ClassIds the loops after the scan go through *)
    todo,                   (* elements not scanned, then anchors not done  *)
    group,                  (* class of the element scanned last            *)
    uv,                     (* the two cursors of RecParallelFind2          *)
    u,                      (* class in Q of the element being linked       *)
    pc

vars == <<left, q, acc, next, bridge, anchors, todo, group, uv, u, pc>>

Operands ==
    {PartitionOf(d) : d \in UNION {Canonical(S) : S \in Supports}}

(* Before the scan has visited any class.                                   *)
NoClass == -1

Init ==
    /\ left \in Operands
    /\ q \in Operands
    /\ acc = left
    /\ next = [c \in ClassIds(left.data) |-> c]
    /\ bridge = [c \in {} |-> 0]
    /\ anchors = {}
    /\ todo = {}
    /\ group = NoClass
    /\ uv = <<0, 0>>
    /\ u = 0
    /\ pc = "fill"

-----------------------------------------------------------------------------
(* Objects of Q that P lacks enter Acc as classes of their own.  _size and  *)
(* _classes_nb are left alone.                                              *)
Missing == DOMAIN q.data \ DOMAIN acc.data

Fill ==
    /\ pc = "fill"
    /\ acc' = [acc EXCEPT !.data =
                  [x \in DOMAIN acc.data \cup Missing |->
                      IF x \in Missing THEN NewClass(x) ELSE acc.data[x]]]
    /\ next' = [c \in DOMAIN next \cup Missing |->
                   IF c \in Missing THEN c ELSE next[c]]
    /\ todo' = DOMAIN acc.data \cup Missing
    /\ pc' = "scan"
    /\ UNCHANGED <<left, q, bridge, anchors, group, uv, u>>

(* The class index keeps the elements of a class adjacent.                  *)
IsNext(x) ==
    /\ x \in todo
    /\ todo \cap Group(acc.data, group) # {} => acc.data[x].id = group

(* A slip: the search runs past the end of x's class in Q.                  *)
PartnersPastRange(x) ==
    {v \in DOMAIN q.data : q.data[v].id >= q.data[x].id} \ {x}

(* The other members of x's class in Q.                                     *)
Partners(x) == Group(q.data, q.data[x].id) \ {x}

(* No class in Q, or neither a bridge nor another member in it: nothing to  *)
(* link.                                                                    *)
Pass(x) ==
    /\ pc = "scan"
    /\ IsNext(x)
    /\ x \in DOMAIN q.data =>
          q.data[x].id \notin DOMAIN bridge /\ Partners(x) = {}
    /\ todo' = todo \ {x}
    /\ group' = acc.data[x].id
    /\ UNCHANGED <<left, q, acc, next, bridge, anchors, uv, u, pc>>

(* The ClassIds x's class may be linked to.                                 *)
Targets(x) ==
    IF q.data[x].id \in DOMAIN bridge THEN {bridge[q.data[x].id]}
    ELSE {acc.data[v].id : v \in Partners(x)}

AnchorOf(x) == acc.data[x].id

Link(x) ==
    /\ pc = "scan"
    /\ IsNext(x)
    /\ x \in DOMAIN q.data
    /\ \E y \in Targets(x) : uv' = <<AnchorOf(x), y>>
    /\ u' = q.data[x].id
    /\ anchors' = anchors \cup {AnchorOf(x)}
    /\ todo' = todo \ {x}
    /\ group' = acc.data[x].id
    /\ pc' = "splice"
    /\ UNCHANGED <<left, q, acc, next, bridge>>

-----------------------------------------------------------------------------
(* A slip: the cursor does not move.                                        *)
SpliceSecondStays ==
    /\ pc = "splice"
    /\ next[uv[1]] < next[uv[2]]
    /\ next' = [next EXCEPT ![next[uv[2]]] = next[uv[1]]]
    /\ UNCHANGED <<left, q, acc, bridge, anchors, todo, group, uv, u, pc>>

(* RecParallelFind2, one call per step: the cursor with the larger parent   *)
(* moves to that parent, whose link is then set to the other's parent.      *)
SpliceSecond ==
    /\ pc = "splice"
    /\ next[uv[1]] < next[uv[2]]
    /\ uv' = <<uv[1], next[uv[2]]>>
    /\ next' = [next EXCEPT ![next[uv[2]]] = next[uv[1]]]
    /\ UNCHANGED <<left, q, acc, bridge, anchors, todo, group, u, pc>>

SpliceFirst ==
    /\ pc = "splice"
    /\ next[uv[1]] > next[uv[2]]
    /\ uv' = <<next[uv[1]], uv[2]>>
    /\ next' = [next EXCEPT ![next[uv[1]]] = next[uv[2]]]
    /\ UNCHANGED <<left, q, acc, bridge, anchors, todo, group, u, pc>>

(* A slip: no bridge recorded.                                              *)
JoinedNoBridge ==
    /\ pc = "splice"
    /\ next[uv[1]] = next[uv[2]]
    /\ pc' = "scan"
    /\ UNCHANGED <<left, q, acc, next, bridge, anchors, todo, group, uv, u>>

(* The parents agree: back in Join, which records the bridge of u once.     *)
Joined ==
    /\ pc = "splice"
    /\ next[uv[1]] = next[uv[2]]
    /\ bridge' = IF u \in DOMAIN bridge THEN bridge
                 ELSE [c \in DOMAIN bridge \cup {u} |->
                          IF c = u THEN next[uv[1]] ELSE bridge[c]]
    /\ pc' = "scan"
    /\ UNCHANGED <<left, q, acc, next, anchors, todo, group, uv, u>>

-----------------------------------------------------------------------------
(* A slip: classes merged into their parents without compression.           *)
EndScanNoCompress ==
    /\ pc = "scan"
    /\ todo = {}
    /\ todo' = anchors
    /\ pc' = "merge"
    /\ UNCHANGED <<left, q, acc, next, bridge, anchors, group, uv, u>>

EndScan ==
    /\ pc = "scan"
    /\ todo = {}
    /\ todo' = anchors
    /\ pc' = "compress"
    /\ UNCHANGED <<left, q, acc, next, bridge, anchors, group, uv, u>>

(* The set of anchors is ordered by class id.                               *)
IsFirst(a) == a \in todo /\ \A b \in todo : a <= b

(* The ClassIds reached from a by following _next, a included.              *)
Path(a) ==
    {c \in DOMAIN next :
        \A S \in SUBSET DOMAIN next :
            a \in S /\ (\A s \in S : next[s] \in S) => c \in S}

Root(a) == CHOOSE r \in Path(a) : next[r] = r

(* RecFind: every ClassId on the way to the root is linked to the root.     *)
Compress(a) ==
    /\ pc = "compress"
    /\ IsFirst(a)
    /\ next' = [c \in DOMAIN next |-> IF c \in Path(a) THEN Root(a) ELSE next[c]]
    /\ todo' = todo \ {a}
    /\ UNCHANGED <<left, q, acc, bridge, anchors, group, uv, u, pc>>

EndCompress ==
    /\ pc = "compress"
    /\ todo = {}
    /\ todo' = anchors
    /\ pc' = "merge"
    /\ UNCHANGED <<left, q, acc, next, bridge, anchors, group, uv, u>>

(* A slip: a root counted as merged.                                        *)
AlwaysOne(a) == 1

(* merge returns 1 for two distinct classes; a root is left alone.          *)
Absorbed(a) == IF a = next[a] THEN 0 ELSE 1

(* _classes_nb is unsigned.                                                 *)
MergeClass(a) ==
    /\ pc = "merge"
    /\ IsFirst(a)
    /\ acc' = [acc EXCEPT !.data = Merge(acc.data, a, next[a]),
                          !.nb = (acc.nb - Absorbed(a)) % Word]
    /\ todo' = todo \ {a}
    /\ UNCHANGED <<left, q, next, bridge, anchors, group, uv, u, pc>>

Finish ==
    /\ pc = "merge"
    /\ todo = {}
    /\ pc' = "done"
    /\ UNCHANGED <<left, q, acc, next, bridge, anchors, todo, group, uv, u>>

Next ==
    \/ Fill
    \/ \E x \in Objects : Pass(x) \/ Link(x)
    \/ SpliceSecond \/ SpliceFirst \/ Joined
    \/ EndScan
    \/ \E a \in Objects : Compress(a) \/ MergeClass(a)
    \/ EndCompress
    \/ Finish

(* Sequential code: the loops go on while they can.                         *)
Spec == Init /\ [][Next]_vars /\ WF_vars(Next)

-----------------------------------------------------------------------------
TrueJoin == JoinBlocks(Blocks(left.data), Blocks(q.data))

(* The forest never ties together classes that P + Q keeps apart, links     *)
(* never climb to a larger id (so there is no cycle), and a bridge stays    *)
(* within the block of the class of Q it stands for.                        *)
ForestWithinJoin ==
    /\ \A c \in DOMAIN next : next[c] <= c
    /\ \A S \in Closed(Blocks(left.data) \cup Blocks(q.data)) :
          /\ \A c \in DOMAIN next : next[c] \in S <=> c \in S
          /\ \A c \in DOMAIN bridge : bridge[c] \in S <=> c \in S

(* When the merge loop reaches an anchor, neither the anchor nor the root   *)
(* it points at has lost its last element: both ClassIds, which the set     *)
(* and _next hold as raw pointers, are still alive.                         *)
AnchorsAlive ==
    pc = "merge" =>
        \A a \in todo :
            Group(acc.data, a) # {} /\ Group(acc.data, next[a]) # {}

(* When Join returns, Acc covers the objects of both operands, keeps each   *)
(* block of P in one piece, joins only what P + Q joins, and names its      *)
(* classes by their smallest members, each sharing one ClassId that links   *)
(* to itself: it is fit to be an operand, and the accumulator, of the next  *)
(* operation.                                                               *)
JoinSound ==
    pc = "done" =>
        /\ DOMAIN acc.data = DOMAIN left.data \cup DOMAIN q.data
        /\ Refines(Blocks(left.data), Blocks(acc.data))
        /\ Refines(Blocks(acc.data), TrueJoin)
        /\ NamedByMin(acc.data) /\ WellShared(acc.data)
        /\ \A o \in DOMAIN acc.data : next[acc.data[o].id] = acc.data[o].id

(* Join never raises _classes_nb, so that in the end it is short of the      *)
(* classes by exactly the objects Q brought, each added as a class of its    *)
(* own; being unsigned it may have gone around.                              *)
CountLags ==
    pc = "done" =>
        acc.nb = (Cardinality(Blocks(acc.data))
                     - Cardinality(DOMAIN q.data \ DOMAIN left.data)) % Word

(* The comment above Join: it realises Acc = P \join Q.                     *)
JoinIsJoin == pc = "done" => Blocks(acc.data) = TrueJoin

(* It takes five objects for a link to be overwritten that still mattered:   *)
(* on fewer, Join is exact.                                                  *)
ExactUpToFour ==
    Cardinality(DOMAIN left.data \cup DOMAIN q.data) <= 4 => JoinIsJoin

(* The order of the stages, the last one least.                             *)
Ahead == [fill |-> 4, scan |-> 3, splice |-> 3, compress |-> 2, merge |-> 1, done |-> 0]

(* Where the cursors and their parents stand.                               *)
Height == uv[1] + uv[2] + next[uv[1]] + next[uv[2]]

(* No step can be repeated for ever, whatever the order of the loops: a      *)
(* step goes on to a later stage, takes an element off a loop, brings the    *)
(* cursors of RecParallelFind2 or their parents further down, or returns     *)
(* from it.  The links a call overwrites never lift the cursors again.       *)
Descends ==
    [][ \/ Ahead[pc'] < Ahead[pc]
        \/ Ahead[pc'] = Ahead[pc] /\ todo' \subseteq todo /\ todo' # todo
        \/ /\ pc = "splice" /\ todo' = todo
           /\ \/ pc' = "scan"
              \/ pc' = "splice" /\ Height' < Height ]_vars

(* The two cursors meet, and Join returns.                                  *)
Termination == <>(pc = "done")

=============================================================================
