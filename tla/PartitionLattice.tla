-------------------------- MODULE PartitionLattice --------------------------
(***************************************************************************)
(* What the operators of partition2.h are meant to compute, written on sets *)
(* of blocks and without reference to how the loops compute it.  A          *)
(* partition may cover only a part of the objects; operands may cover       *)
(* different parts.                                                         *)
(***************************************************************************)
EXTENDS Universe

(* The blocks a container stands for: the objects grouped by class id.      *)
Blocks(d) == {Group(d, cid) : cid \in ClassIds(d)}

Together(d, x, y) == d[x].id = d[y].id

(* A class is named by its smallest member.                                 *)
NamedByMin(d) ==
    \A x \in DOMAIN d :
        /\ d[x].id \in DOMAIN d
        /\ d[x].id <= x
        /\ Together(d, d[x].id, x)

(* No two ClassId objects of the container carry the same id.               *)
WellShared(d) == \A x, y \in DOMAIN d : Together(d, x, y) => d[x] = d[y]

-----------------------------------------------------------------------------
(* P * Q: the non-empty intersections of a block of each operand; an object *)
(* missing from one operand is dropped.                                     *)
MeetBlocks(B, C) == {b \cap c : b \in B, c \in C} \ {{}}

(* P + Q: the least sets of objects that contain every block, of either     *)
(* operand, that they touch.                                                *)
Closed(B) ==
    {S \in SUBSET UNION B :
        S # {} /\ \A b \in B : b \cap S # {} => b \subseteq S}

JoinBlocks(B, C) ==
    LET closed == Closed(B \cup C)
    IN  {S \in closed : \A R \in closed : R \subseteq S => R = S}

(* The blocks of K stay, the other blocks of B go to single objects.        *)
BreakUp(B, K) == K \cup {{x} : x \in UNION (B \ K)}

(* P - Q: a block of P survives when it is also a block of Q or meets at    *)
(* least two blocks of Q; a block strictly inside a block of Q is broken    *)
(* into single objects.                                                     *)
Survives(b, C) == b \in C \/ Cardinality({c \in C : c \cap b # {}}) >= 2

LessBlocks(B, C) == BreakUp(B, {b \in B : Survives(b, C)})

(* P - Q when Q is taken for the ClassIds it holds, each a set of elements  *)
(* and an id: there may be several to a block of Q.  A block of P survives  *)
(* when it is what one of them holds and its id is in it, or when it meets  *)
(* two of them.                                                             *)
Pointers(d) ==
    {[id |-> d[o].id, held |-> Holders(d, d[o])] : o \in DOMAIN d}

IsHeld(b, T) == \E t \in T : t.held = b /\ t.id \in b

Kept(b, T) == IsHeld(b, T) \/ Cardinality({t \in T : t.held \cap b # {}}) >= 2

LessByPointer(B, T) == BreakUp(B, {b \in B : Kept(b, T)})

(* Every block of B lies inside a block of C.                               *)
Refines(B, C) == \A b \in B : \E c \in C : b \subseteq c

=============================================================================
