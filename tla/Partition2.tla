----------------------------- MODULE Partition2 -----------------------------
(***************************************************************************)
(* The Partition2 variables of a program and the ways their values come     *)
(* into being (partition2.h): the default, top, array and list              *)
(* constructors, add, Randomize, the copy constructor and assignment, and   *)
(* the comparison IsEqual.                                                  *)
(*                                                                         *)
(* The list constructor and the two methods add run the same loop, over the *)
(* lists and over the elements of each: one merge_unsafe per step.          *)
(*                                                                         *)
(* `part' holds the objects.  `given' is not in the code: it records for    *)
(* each variable the blocks its construction asked for, so that what the    *)
(* class index holds can be compared with it.                               *)
(***************************************************************************)
EXTENDS PartitionLattice, Sequences, Functions

CONSTANTS
    Names,                  (* the program's Partition2 variables           *)
    Objects,                (* object identifiers, an initial segment       *)
    ClassLists,             (* the lists of objects passed to add           *)
    NestedLists,            (* the lists of lists passed to add and to the  *)
                            (* list constructor                             *)
    Word                    (* 2 ^ (width of unsigned int)                  *)

ASSUME ObjectsAssumption ==
    IsFiniteSet(Objects) /\ Objects = 0..(Cardinality(Objects) - 1)
ASSUME ListsAssumption ==
    ClassLists \subseteq Seq(Objects) /\ NestedLists \subseteq Seq(Seq(Objects))
ASSUME WordAssumption == Word \in Nat /\ Word > Cardinality(Objects)

VARIABLES
    part,                   (* variable -> partition                        *)
    given,                  (* variable -> the blocks it should have        *)
    unshared,               (* variables whose value was built by the top   *)
                            (* constructor and not copied since             *)
    filling,                (* the variable whose lists are being added     *)
    lists,                  (* nest_l: the lists not begun                  *)
    l, at, min,             (* the list begun; its elements merged; min     *)
    pc                      (* "idle", "lists", "merge", or "undefined"     *)
                            (* once an end() iterator was dereferenced      *)

callVars == <<filling, lists, l, at, min, pc>>
vars == <<part, given, unshared, callVars>>

NoElements == [x \in {} |-> NewClass(x)]

(* Partition2().                                                            *)
Empty == [size |-> 0, nb |-> 0, data |-> NoElements]

(* min when no element has been looked at: unsigned int(-1).                *)
NoMin == Word - 1

Init ==
    /\ part = [v \in Names |-> Empty]
    /\ given = [v \in Names |-> {}]
    /\ unshared = {}
    /\ filling = {}
    /\ lists = << >> /\ l = << >> /\ at = 0 /\ min = NoMin
    /\ pc = "idle"

(* Variable v now holds P, which was to have the blocks B.                  *)
Becomes(v, P, B) ==
    /\ part' = [part EXCEPT ![v] = P]
    /\ given' = [given EXCEPT ![v] = B]

-----------------------------------------------------------------------------
(* What adding a class of objects asks for: it and every class it touches   *)
(* become one.                                                              *)
BlocksWith(B, S) == JoinBlocks(B, {S} \ {{}})

(* A call of add, with one list or with several.                            *)
Fill(v, ll) ==
    /\ pc = "idle"
    /\ filling' = {v}
    /\ lists' = ll
    /\ pc' = "lists"
    /\ UNCHANGED <<l, at, min>>

AddClass(v, c) == Fill(v, <<c>>) /\ UNCHANGED <<part, given, unshared>>

AddClasses(v, ll) == Fill(v, ll) /\ UNCHANGED <<part, given, unshared>>

(* The list constructor sets _size inside its loop only: from an empty list *)
(* of lists _size keeps whatever the memory held.                           *)
FromLists(v, ll) ==
    /\ Fill(v, ll)
    /\ \E garbage \in IF ll = << >> THEN 0..(Word - 1) ELSE {0} :
          Becomes(v, [Empty EXCEPT !.size = garbage], {})
    /\ unshared' = unshared \ {v}

Smallest(c) == CHOOSE m \in Range(c) : \A x \in Range(c) : m <= x

StartList ==
    /\ pc = "lists"
    /\ lists # << >>
    /\ l' = Head(lists)
    /\ lists' = Tail(lists)
    /\ at' = 0
    /\ min' = IF l' = << >> THEN NoMin ELSE Smallest(l')
    /\ pc' = "merge"
    /\ UNCHANGED <<part, given, unshared, filling>>

(* One call of merge_unsafe with its result added to _classes_nb.           *)
Absorb(P, m, x) ==
    [P EXCEPT !.data = MergeUnsafe(P.data, m, x),
              !.nb = (P.nb + MergeUnsafeCount(P.data, m, x)) % Word]

(* The smallest object is merged with each of the list in turn; an object   *)
(* that is in a class already brings its class along.                       *)
MergeNext ==
    /\ pc = "merge"
    /\ at < Len(l)
    /\ \E v \in filling : part' = [part EXCEPT ![v] = Absorb(@, min, l[at + 1])]
    /\ at' = at + 1
    /\ UNCHANGED <<given, unshared, filling, lists, l, min, pc>>

EndList ==
    /\ pc = "merge"
    /\ at = Len(l)
    /\ \E v \in filling :
          Becomes(v, [part[v] EXCEPT !.size = Cardinality(DOMAIN part[v].data)],
                  BlocksWith(given[v], Range(l)))
    /\ l' = << >> /\ at' = 0 /\ min' = NoMin
    /\ pc' = "lists"
    /\ UNCHANGED <<unshared, filling, lists>>

Return ==
    /\ pc = "lists"
    /\ lists = << >>
    /\ filling' = {}
    /\ pc' = "idle"
    /\ UNCHANGED <<part, given, unshared, lists, l, at, min>>

-----------------------------------------------------------------------------
(* Partition2(n, name).  With n = 0, as the evaluation of an expression      *)
(* starts its temporaries, it would count one class in none; such an object *)
(* is always overwritten and is left out here.                              *)
FromTop(v, n) ==
    /\ pc = "idle"
    /\ Becomes(v, Top(n), {0..(n - 1)})
    /\ unshared' = unshared \cup {v}
    /\ UNCHANGED callVars

(* Partition2(n, t, name): object i opens class i when t[i] = i and joins   *)
(* the class whose id is t[i] otherwise, which must have been opened.       *)
Labels == UNION {[0..(n - 1) -> Objects] : n \in 1..Cardinality(Objects)}

Opened(t) == \A j \in DOMAIN t : t[j] <= j /\ t[t[j]] = t[j]

FromArray(v, t) ==
    /\ pc = "idle"
    /\ IF Opened(t)
       THEN /\ Becomes(v, PartitionOf([j \in DOMAIN t |-> NewClass(t[j])]),
                       {{k \in DOMAIN t : t[k] = t[j]} : j \in DOMAIN t})
            /\ unshared' = unshared \ {v}
            /\ UNCHANGED callVars
       ELSE /\ pc' = "undefined"
            /\ UNCHANGED <<part, given, unshared, filling, lists, l, at, min>>

(* Randomize(sz, nb): the objects 0 .. nb - 1 open the classes, each of the *)
(* others joins a class drawn at random.                                    *)
Randomize(v, sz, nb) ==
    /\ pc = "idle"
    /\ \E draw \in [nb..(sz - 1) -> 0..(nb - 1)] :
          LET cid(o) == IF o < nb THEN o ELSE draw[o]
              P == [size |-> sz, nb |-> nb,
                    data |-> [o \in 0..(sz - 1) |-> NewClass(cid(o))]]
          IN  Becomes(v, P, {{o \in 0..(sz - 1) : cid(o) = c} : c \in 0..(nb - 1)})
    /\ unshared' = unshared \ {v}
    /\ UNCHANGED callVars

(* A slip: one new ClassId per element.                                     *)
CopyEach(P) ==
    [P EXCEPT !.data = [o \in DOMAIN P.data |-> Handle(P.data[o].id, o)]]

(* Copy constructor and operator=: one new ClassId per class id.            *)
CopyOf(P) == [P EXCEPT !.data = [o \in DOMAIN P.data |-> NewClass(P.data[o].id)]]

Assign(v, w) ==
    /\ pc = "idle"
    /\ v # w
    /\ Becomes(v, CopyOf(part[w]), given[w])
    /\ unshared' = unshared \ {v}
    /\ UNCHANGED callVars

Next ==
    \/ \E v \in Names :
          \/ \E c \in ClassLists : AddClass(v, c)
          \/ \E ll \in NestedLists : AddClasses(v, ll) \/ FromLists(v, ll)
          \/ \E n \in 1..Cardinality(Objects) : FromTop(v, n)
          \/ \E t \in Labels : FromArray(v, t)
          \/ \E sz \in 1..Cardinality(Objects) :
                \E nb \in 1..sz : Randomize(v, sz, nb)
          \/ \E w \in Names : Assign(v, w)
    \/ StartList \/ MergeNext \/ EndList \/ Return

Spec == Init /\ [][Next]_vars

-----------------------------------------------------------------------------
(* IsEqual(P, Q): the answers it may give.  Only the numbers of elements    *)
(* are compared first; an object of P missing from Q is looked up and the   *)
(* end() of Q dereferenced, unless a difference is met earlier.             *)
Differs(P, Q) ==
    {o \in DOMAIN P.data \cap DOMAIN Q.data : P.data[o].id # Q.data[o].id}

(* A slip: as many elements and classes taken for equality (the comparison  *)
(* of the class counters is there, commented out).                          *)
IsEqualByCount(P, Q) ==
    {IF Cardinality(DOMAIN P.data) = Cardinality(DOMAIN Q.data) /\ P.nb = Q.nb
     THEN "yes" ELSE "no"}

IsEqual(P, Q) ==
    IF Cardinality(DOMAIN P.data) # Cardinality(DOMAIN Q.data) THEN {"no"}
    ELSE (IF Differs(P, Q) # {} THEN {"no"} ELSE {})
         \cup (IF DOMAIN P.data # DOMAIN Q.data THEN {"undefined"} ELSE {})
         \cup (IF DOMAIN P.data = DOMAIN Q.data /\ Differs(P, Q) = {}
               THEN {"yes"} ELSE {})

-----------------------------------------------------------------------------
(* However the lists overlap, repeat or come in any order, and on whatever  *)
(* an earlier construction left, the container holds the blocks asked for   *)
(* when no list is half added; and at any moment each class is named by its *)
(* smallest object: names do not depend on how the partition was built.     *)
BuiltAsGiven ==
    \A v \in Names :
        /\ pc # "merge" \/ v \notin filling => Blocks(part[v].data) = given[v]
        /\ NamedByMin(part[v].data)

(* The class counter, which merge_unsafe moves up and down in unsigned      *)
(* arithmetic, counts the classes, after each of its calls.                 *)
CounterCounts ==
    \A v \in Names : part[v].nb = Cardinality(Blocks(part[v].data))

(* Apart from what the top constructor built, the elements of a class share *)
(* one ClassId: Meet, which compares ClassIds by address, and Join, which   *)
(* links them, may take any other value as an operand.                      *)
SharedUnlessTop == \A v \in Names \ unshared : WellShared(part[v].data)

(* Comparing two variables on the same objects by class names decides       *)
(* whether they are the same partition.                                     *)
EqualityDecides ==
    \A v, w \in Names :
        DOMAIN part[v].data = DOMAIN part[w].data =>
            IsEqual(part[v], part[w])
                = {IF Blocks(part[v].data) = Blocks(part[w].data)
                   THEN "yes" ELSE "no"}

=============================================================================
