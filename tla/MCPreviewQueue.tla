-------------------------- MODULE MCPreviewQueue --------------------------
(***************************************************************************)
(* A TLC instance of PreviewQueue: two windows and three paths, two of     *)
(* which lie under a directory that can be refreshed, and a cache of two.  *)
(***************************************************************************)
EXTENDS PreviewQueue

CONSTANTS p1, p2, p3

MCRefreshable == {{p1, p2}}
=============================================================================
