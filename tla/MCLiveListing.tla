--------------------------- MODULE MCLiveListing ---------------------------
(* Two windows with one tab each, over a directory of two batches and an    *)
(* empty one.                                                               *)
EXTENDS LiveListing

CONSTANTS t1, t2, w1, w2, a, b

MCWindowOf == (t1 :> w1) @@ (t2 :> w2)
SameStart == (t1 :> a) @@ (t2 :> a)
MCStart == (t1 :> a) @@ (t2 :> b)
MCBatches == (a :> 2) @@ (b :> 0)
MCChanges == (a :> 1) @@ (b :> 0)

OneWindowOf == (t1 :> w1)
OneStart == (t1 :> a)
=============================================================================
