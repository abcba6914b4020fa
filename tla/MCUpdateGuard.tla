--------------------------- MODULE MCUpdateGuard ---------------------------
(***************************************************************************)
(* Instances of UpdateGuard for TLC: requests, devices and killers are     *)
(* model values given by the configurations.  No symmetry, for the sake of *)
(* the liveness properties.                                                *)
(***************************************************************************)
EXTENDS UpdateGuard
=============================================================================
