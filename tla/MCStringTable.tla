---------------------------- MODULE MCStringTable ----------------------------
(***************************************************************************)
(* Instances of StringTable for TLC.                                       *)
(***************************************************************************)
EXTENDS StringTable, TLC

\* Two of the contents always collide, a third collides with them in tables of less
\* than eight buckets.
C1234 == 1..4
HashC == [c \in C1234 |-> <<0, 8, 4, 3>>[c]]

Symmetry == Permutations(Str)
=============================================================================
