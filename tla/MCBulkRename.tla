---- MODULE MCBulkRename ----
(***************************************************************************)
(* TLC instances of BulkRename: names a to d and the capital A of a.      *)
(***************************************************************************)
EXTENDS BulkRename, TLC

CONSTANTS a, A, b, c, d

MCKey == [n \in Names |-> IF n = A THEN a ELSE n]

AnySelection == SUBSET Items
Everything   == {Items}

ItemSymmetry == Permutations(Items)
====
