----------------------------- MODULE Evaluation -----------------------------
(***************************************************************************)
(* ExpressionEvaluator::Evaluate(expression, accum) (evaluation.h): what a  *)
(* statement accum = expression does at run time.                           *)
(*                                                                         *)
(* The EvaluationRecursive templates unfold, for a rewritten tree, into     *)
(* straight-line code on an accumulator; a subexpression on the right gets  *)
(* a temporary of its own.  `code' is what is left of it.  When the         *)
(* assigned variable occurs among the operands, the whole expression is     *)
(* evaluated in a temporary first and then copied.                          *)
(*                                                                         *)
(* Add, Sub and Mul deliver what Expression's Apply says; that the loops of *)
(* Meet, Join and Less do is the subject of those modules.                  *)
(***************************************************************************)
EXTENDS Expression, Sequences, SequencesExt

CONSTANT MaxOperands        (* bound on the operands of an expression       *)

ASSUME MaxOperandsAssumption == MaxOperands \in Nat \ {0, 1}

VARIABLES
    expression,             (* the tree as written                          *)
    args,                   (* position -> variable                         *)
    store,                  (* variable -> value                            *)
    temps,                  (* temporaries in use, the latest last          *)
    code,                   (* instructions left                            *)
    pc

vars == <<expression, args, store, temps, code, pc>>

(* The assigned variable, and the others: operand i, when it is not the     *)
(* assigned variable, is variable i.                                        *)
Target == -1
Variables == {Target} \cup 0..(MaxOperands - 1)

Init ==
    /\ expression \in UNION {Trees(n) : n \in 2..MaxOperands}
    /\ \E aliased \in SUBSET DOMAIN Indices(expression) :
          args = [k \in DOMAIN Indices(expression) |->
                     IF k \in aliased THEN Target ELSE k]
    /\ store = [v \in Variables |-> Named(v)]
    /\ temps = <<>>
    /\ code = <<>>
    /\ pc = "start"

-----------------------------------------------------------------------------
CopyOperand(a)            == [do |-> "copy", a |-> a]
Combine(op, a, b)         == [do |-> "combine", op |-> op, a |-> a, b |-> b]
CombineOperand(op, b)     == [do |-> "combine operand", op |-> op, b |-> b]
OpenTemporary             == [do |-> "open"]
CombineTemporary(op)      == [do |-> "combine temporary", op |-> op]

(* EvaluationRecursive, EvaluateBinaryNode and EvaluateRightST: a leaf is   *)
(* copied; two operands are combined into the accumulator; otherwise the    *)
(* left subtree is evaluated in the accumulator, the right one, unless it   *)
(* is an operand, in a temporary, and the two are combined.                 *)
RECURSIVE CodeOf(_, _, _)
CodeOf(t, I, index) ==
    IF EstTerminal(t) THEN <<CopyOperand(I[index])>>
    ELSE IF EstTerminal(t.l) /\ EstTerminal(t.r)
    THEN <<Combine(t.op, I[index], I[index + 1])>>
    ELSE LET rhsNodeIndex == index + TotalCount(t.l)
         IN  CodeOf(t.l, I, index)
             \o IF EstTerminal(t.r) THEN <<CombineOperand(t.op, I[rhsNodeIndex])>>
                ELSE <<OpenTemporary>> \o CodeOf(t.r, I, rhsNodeIndex)
                         \o <<CombineTemporary(t.op)>>

(* A slip: only the first operand compared with the assigned variable.      *)
ContainsAliasFirst(operands) == operands[0] = Target

ContainsAlias(operands) == \E k \in DOMAIN operands : operands[k] = Target

(* The content of a new temporary, and of an accumulator that was cleared.  *)
Empty == [nothing |-> {}]

Evaluate ==
    /\ pc = "start"
    /\ LET opt == GlobalOptimisation(expression)
       IN  code' = CodeOf(opt.tree, opt.indices, 0)
    /\ temps' = IF ContainsAlias(args) THEN <<Empty>> ELSE <<>>
    /\ pc' = "run"
    /\ UNCHANGED <<expression, args, store>>

(* The accumulator: the latest temporary, or else the assigned variable.    *)
Accumulate(value) ==
    IF temps = <<>>
    THEN store' = [store EXCEPT ![Target] = value] /\ UNCHANGED temps
    ELSE temps' = Append(Front(temps), value) /\ UNCHANGED store

Accumulator == IF temps = <<>> THEN store[Target] ELSE Last(temps)

(* Operand a after the accumulator was given the value x.                   *)
OperandAfter(a, x) == IF temps = <<>> /\ args[a] = Target THEN x ELSE store[args[a]]

Executes(do) == pc = "run" /\ code # <<>> /\ Head(code).do = do

Continue == code' = Tail(code) /\ UNCHANGED <<expression, args, pc>>

(* accumulator = operand.                                                   *)
Copy == Executes("copy") /\ Accumulate(store[args[Head(code).a]]) /\ Continue

(* Add(accumulator, P, Q) and Sub: P is assigned to the accumulator before  *)
(* Q is read.  Mul: the accumulator is cleared before Q is read, unless it  *)
(* is P.                                                                    *)
CombineOperands ==
    /\ Executes("combine")
    /\ LET i == Head(code)
           P == store[args[i.a]]
           first == IF i.op = "Mul" /\ ~(temps = <<>> /\ args[i.a] = Target)
                    THEN Empty ELSE P
       IN  Accumulate(Apply(i.op, P, OperandAfter(i.b, first)))
    /\ Continue

(* AddEqual, SubEqual, MulEqual with a variable.                            *)
CombineWithOperand ==
    /\ Executes("combine operand")
    /\ Accumulate(Apply(Head(code).op, Accumulator, store[args[Head(code).b]]))
    /\ Continue

Open ==
    /\ Executes("open")
    /\ temps' = Append(temps, Empty)
    /\ UNCHANGED store
    /\ Continue

(* The same with the latest temporary, which goes out of scope.             *)
CombineWithTemporary ==
    /\ Executes("combine temporary")
    /\ LET rest  == Front(temps)
           value(x) == Apply(Head(code).op, x, Last(temps))
       IN  IF rest = <<>>
           THEN /\ store' = [store EXCEPT ![Target] = value(store[Target])]
                /\ temps' = rest
           ELSE /\ temps' = Append(Front(rest), value(Last(rest)))
                /\ UNCHANGED store
    /\ Continue

(* Evaluate returns; with an alias, accum = temp.                           *)
Return ==
    /\ pc = "run"
    /\ code = <<>>
    /\ store' = [store EXCEPT ![Target] = Accumulator]
    /\ temps' = <<>>
    /\ pc' = "done"
    /\ UNCHANGED <<expression, args, code>>

Next ==
    \/ Evaluate
    \/ Copy \/ CombineOperands \/ CombineWithOperand
    \/ Open \/ CombineWithTemporary
    \/ Return

Spec == Init /\ [][Next]_vars

-----------------------------------------------------------------------------
(* The values of the operands before the statement.                         *)
Operand == [k \in DOMAIN args |-> Named(args[k])]

(* The statement assigns what the expression as written means, by the laws  *)
(* declared for the operators and no others: the operands follow their      *)
(* leaves through every rotation and permutation, and an assigned variable  *)
(* that is also an operand is read before it is written.                    *)
AssignsMeaning ==
    pc = "done" => store[Target] = Meaning(expression, Operand, 0)

(* Positions of the operands that the code left over reads.                 *)
StillRead ==
    UNION {{i[f] : f \in DOMAIN i \cap {"a", "b"}} : i \in Range(code)}

(* Whatever the order of evaluation, an operand holds its value from before *)
(* the statement until it was read for the last time.                       *)
OperandsIntact == \A k \in StillRead : store[args[k]] = Operand[k]

(* SADCount is the number of temporaries the code opens, and rewriting      *)
(* never raises it.                                                         *)
SavesTemporaries ==
    pc = "start" =>
        LET opt == GlobalOptimisation(expression)
            opens == SelectSeq(CodeOf(opt.tree, opt.indices, 0),
                               LAMBDA i : i = OpenTemporary)
        IN  /\ Len(opens) = SADCount(opt.tree)
            /\ SADCount(opt.tree) <= SADCount(expression)

=============================================================================
