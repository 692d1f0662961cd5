------------------------------- MODULE MCLess -------------------------------
(***************************************************************************)
(* Model-checking instance of Less.                                         *)
(***************************************************************************)
EXTENDS Less

(* All the objects, an initial segment of them, or neither.                 *)
SomeSupports == {Objects, {0, 1, 2}, {0, 1, 3}}

=============================================================================
