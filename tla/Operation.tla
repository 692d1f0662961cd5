----------------------------- MODULE Operation ------------------------------
(***************************************************************************)
(* The abstract binary operation on partitions: in one step the result of   *)
(* the operands appears, and it never changes again.  Meet and Less are     *)
(* shown to implement it; their loops are then stuttering steps.            *)
(***************************************************************************)
CONSTANT Result(_, _)       (* the set of blocks the operation promises     *)

VARIABLES left, right,      (* the operands, as sets of blocks              *)
          result,           (* the result, as a set of blocks               *)
          finished

vars == <<left, right, result, finished>>

Init == result = {} /\ finished = FALSE

Compute ==
    /\ ~finished
    /\ finished' = TRUE
    /\ result' = Result(left, right)
    /\ UNCHANGED <<left, right>>

(* Safety only: when the operation has to return is for the implementing     *)
(* module to say, which may also be lost in undefined behaviour.            *)
Spec == Init /\ [][Compute]_vars

=============================================================================
