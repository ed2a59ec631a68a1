--------------------------- MODULE MCFolderSizes ---------------------------
(***************************************************************************)
(* TLC instances of FolderSizes: one tab over a chain of directories, two  *)
(* passes at a time, and one directory at the bottom that changes; and     *)
(* (Wide) one pass with more workers over a tree that branches.            *)
(***************************************************************************)
EXTENDS FolderSizes

CONSTANTS top, a, b, side, deep

WideChildren == (top :> {a}) @@ (a :> {b, side}) @@ (b :> {deep}) @@ (side :> {}) @@ (deep :> {})
WideChanges == (top :> 0) @@ (a :> 0) @@ (b :> 1) @@ (side :> 0) @@ (deep :> 0)
MCChildren == (top :> {a}) @@ (a :> {b}) @@ (b :> {})
MCChanges == (top :> 0) @@ (a :> 0) @@ (b :> 1)
WorkersSymmetry == Permutations(Workers)
=============================================================================
