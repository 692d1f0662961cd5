---------------------------- MODULE MCPartition2 ----------------------------
(***************************************************************************)
(* Model-checking instance of Partition2.                                   *)
(***************************************************************************)
EXTENDS Partition2, TLC

(* Bounds: a list of at most three objects, or at most two lists, each      *)
(* empty or of two objects (the same object twice being as good as once).   *)
ShortLists == UNION {[1..k -> Objects] : k \in 0..3}

ShortNests == UNION {[1..k -> [1..2 -> Objects] \cup {<< >>}] : k \in 0..2}

(* The two variables play the same part.                                    *)
Interchange == Permutations(Names)

=============================================================================
