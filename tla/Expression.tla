----------------------------- MODULE Expression -----------------------------
(***************************************************************************)
(* Expression trees over partitions (noeud.h) and their compile-time        *)
(* rewriting (transformation.h, optimisation.h).                            *)
(*                                                                         *)
(* A tree has the shape of the Noeud type: a leaf does not know which       *)
(* operand it stands for.  The operands are kept apart, in a vector in the  *)
(* order they were written, and a sequence of positions in that vector, one *)
(* for each leaf from left to right, goes along with the tree.  Rewriting   *)
(* moves subtrees and must move the segments of positions with them.        *)
(* Positions, like segments, count from 0.                                  *)
(***************************************************************************)
EXTENDS Integers, Bags

(* AddOp, SubOp and MulOp (mediateur.h).                                    *)
Operators == {"Add", "Sub", "Mul"}

Leaf == [op |-> "void"]
Noeud(op, l, r) == [op |-> op, l |-> l, r |-> r]
EstTerminal(t) == t = Leaf

(* EstCommutatif, EstAssociatif (traits.h and the declarations at the end   *)
(* of partition2.h).                                                        *)
EstCommutatif(op) == op \in {"Add", "Mul"}
EstAssociatif(op, rop) == op = rop /\ op \in {"Add", "Mul"}

RECURSIVE TotalCount(_)
TotalCount(t) == IF EstTerminal(t) THEN 1 ELSE TotalCount(t.l) + TotalCount(t.r)

(* Every expression of n operands the overloaded operators can build.       *)
RECURSIVE Trees(_)
Trees(n) ==
    IF n = 1 THEN {Leaf}
    ELSE UNION {{Noeud(op, l, r) : op \in Operators, l \in Trees(k), r \in Trees(n - k)}
                    : k \in 1..(n - 1)}

(* Noeud::Indices of a tree as written.                                     *)
Indices(t) == [k \in 0..(TotalCount(t) - 1) |-> k]

-----------------------------------------------------------------------------
(* A slip: the two segments taken to be of the same length.                 *)
SwapEqualHalves(I, start, partition, end) ==
    [k \in DOMAIN I |->
        IF k < start \/ k >= end THEN I[k]
        ELSE IF k < partition THEN I[start + ((k + partition - 2 * start) % (end - start))]
        ELSE I[k - (partition - start)]]

(* The segments [start, partition) and [partition, end) change places.      *)
Swap(I, start, partition, end) ==
    [k \in DOMAIN I |->
        IF k < start \/ k >= end THEN I[k]
        ELSE IF k < start + end - partition THEN I[k + partition - start]
        ELSE I[k - (end - partition)]]

(* A rewritten tree and its positions.                                      *)
Rewritten(t, I) == [tree |-> t, indices |-> I]

(* A op (B op C) becomes (A op B) op C.                                     *)
RotationGauche(t) ==
    IF ~EstTerminal(t.r) /\ EstAssociatif(t.op, t.r.op)
    THEN Noeud(t.r.op, Noeud(t.op, t.l, t.r.l), t.r.r) ELSE t

Permuter(t, I, start) ==
    Rewritten(Noeud(t.op, t.r, t.l),
              Swap(I, start, start + TotalCount(t.l), start + TotalCount(t)))

(* A slip: the operand moved away from the right, where it is cheap.        *)
PermutationToRight(t, I, start) ==
    IF EstCommutatif(t.op) /\ ~EstTerminal(t.l) /\ EstTerminal(t.r)
    THEN Permuter(t, I, start) ELSE Rewritten(t, I)

(* An operand on the left of a subexpression changes places with it.        *)
VerificatonPermutation(t, I, start) ==
    IF EstCommutatif(t.op) /\ EstTerminal(t.l) /\ ~EstTerminal(t.r)
    THEN Permuter(t, I, start) ELSE Rewritten(t, I)

(* Right subtree first, rotation, then the left subtree the rotation made,  *)
(* then the permutation.  (The last step, VerificationReduction, leaves     *)
(* tree and positions as they are.)                                         *)
RECURSIVE ReecritureAlgebrique(_, _, _)
ReecritureAlgebrique(t, I, start) ==
    IF EstTerminal(t) THEN Rewritten(t, I)
    ELSE LET right == ReecritureAlgebrique(t.r, I, start + TotalCount(t.l))
             T1    == RotationGauche(Noeud(t.op, t.l, right.tree))
             left  == ReecritureAlgebrique(T1.l, right.indices, start)
         IN  VerificatonPermutation(Noeud(t.op, left.tree, T1.r), left.indices, start)

GlobalOptimisation(t) == ReecritureAlgebrique(t, Indices(t), 0)

(* The temporaries the evaluation of a tree takes.                          *)
RECURSIVE SADCount(_)
SADCount(t) ==
    IF EstTerminal(t) THEN 0
    ELSE SADCount(t.l) + (IF EstTerminal(t.r) THEN 0 ELSE SADCount(t.r) + 1)

-----------------------------------------------------------------------------
(* Partitions as terms, up to what the declarations of commutativity and    *)
(* associativity allow: an operand is a name, a sum or a product the bag of *)
(* its terms, a difference an ordered pair.                                 *)
Named(v) == [name |-> v]

Sum(x, y) ==
    LET terms(z) == IF DOMAIN z = {"sum"} THEN z.sum ELSE SetToBag({z})
    IN  [sum |-> terms(x) (+) terms(y)]

Product(x, y) ==
    LET factors(z) == IF DOMAIN z = {"product"} THEN z.product ELSE SetToBag({z})
    IN  [product |-> factors(x) (+) factors(y)]

Difference(x, y) == [difference |-> <<x, y>>]

Apply(op, x, y) ==
    CASE op = "Add" -> Sum(x, y)
      [] op = "Mul" -> Product(x, y)
      [] op = "Sub" -> Difference(x, y)

(* What a tree as written means, its first leaf standing for values[start]. *)
RECURSIVE Meaning(_, _, _)
Meaning(t, values, start) ==
    IF EstTerminal(t) THEN values[start]
    ELSE Apply(t.op, Meaning(t.l, values, start),
                     Meaning(t.r, values, start + TotalCount(t.l)))

=============================================================================
