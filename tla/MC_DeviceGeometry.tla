-------------------------- MODULE MC_DeviceGeometry --------------------------
(* Model-checking instance of DeviceGeometry.  uint64_t and rand_48() keep *)
(* their wrap-around and range as constants far above every device size   *)
(* below, which is all the verdicts depend on.                             *)
EXTENDS DeviceGeometry

MCWord == 2^30
MCRand48Count == 2^18
=============================================================================
