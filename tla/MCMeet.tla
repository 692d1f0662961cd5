------------------------------- MODULE MCMeet -------------------------------
(***************************************************************************)
(* Model-checking instances of Meet.                                        *)
(***************************************************************************)
EXTENDS Meet

AllSupports == SUBSET Objects
FullSupport == {Objects}

(* The left operand is the top partition as its constructor builds it.      *)
TopOperand == Top(Cardinality(Objects))

InitTop ==
    /\ p = TopOperand
    /\ q \in Operands
    /\ inplace = FALSE
    /\ acc \in Stale
    /\ zt = [c \in {} |-> 0]
    /\ todo = {}
    /\ pc = "start"

SpecTop == InitTop /\ [][Next]_vars

(* The constructor's comment calls its result the top partition: meeting it *)
(* with Q gives Q's blocks.                                                 *)
TopIsNeutral == pc = "done" => Blocks(acc.data) = Blocks(q.data)

=============================================================================
