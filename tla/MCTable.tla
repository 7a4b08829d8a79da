------------------------------- MODULE MCTable -------------------------------
(***************************************************************************)
(* Instances of Table for TLC.                                             *)
(***************************************************************************)
EXTENDS Table, TLC

\* The collectable key collides with the integer 1.
HashOf1 == [k \in ObjKey |-> 1]

Symmetry == Permutations(Value)
=============================================================================
