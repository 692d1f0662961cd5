-------------------------- MODULE MCPostPartition ---------------------------
(***************************************************************************)
(* Model-checking instances of PostPartition: single directories of up to   *)
(* two attribute values with up to two ids each or four with one id each,   *)
(* pairs of directories of up to two attribute values with an id each and   *)
(* triples of directories of one or two attribute values in key order.      *)
(***************************************************************************)
EXTENDS PostPartition

Lists(n, m) == {s \in SeqOf(0..(n - 1), m) : s # << >>}

Singles == {<<d>> : d \in SeqOf(Lists(3, 2), 2) \cup SeqOf(Lists(4, 1), 4)}

Pairs == {<<d, e>> : d, e \in SeqOf(Lists(3, 1), 2)}

Triples == {<<d, e, f>> : d, e, f \in {<<<<0>>>>, <<<<0>>, <<1>>>>, <<<<1>>, <<0>>>>}}

AllRequests == Singles \cup Pairs \cup Triples

=============================================================================
