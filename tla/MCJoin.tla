------------------------------- MODULE MCJoin -------------------------------
(***************************************************************************)
(* Model-checking instances of Join.                                        *)
(***************************************************************************)
EXTENDS Join

SomeSupports == {Objects, {0, 1, 2, 3}, {0, 1, 2}, {1, 3}, {}}
FullSupport == {Objects}

=============================================================================
