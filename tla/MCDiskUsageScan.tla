-------------------------- MODULE MCDiskUsageScan --------------------------
(***************************************************************************)
(* A TLC instance of DiskUsageScan: one view with two scans, one after the *)
(* other but overlapping, and a helper for each, the second of which       *)
(* Windows does not let the client terminate.                              *)
(***************************************************************************)
EXTENDS DiskUsageScan
=============================================================================
