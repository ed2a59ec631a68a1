---- MODULE MCAssetLane ----
(***************************************************************************)
(* TLC instance of AssetLane: lanes of a surface each, of a dispatcher.    *)
(***************************************************************************)
EXTENDS AssetLane

CONSTANTS s1, s2, k1, k2

MCScopes == {s1, s2}
MCKeys   == {k1, k2}
====
