---- MODULE MCProbePool ----
(***************************************************************************)
(* TLC instances of ProbePool: a volume that answers and one that may not. *)
(***************************************************************************)
EXTENDS ProbePool

CONSTANTS dead, healthy

MCKeys  == {dead, healthy}
MCStuck == {dead}
====
