-------------------------- MODULE MCUplinkSession --------------------------
(***************************************************************************)
(* Instances of UplinkSession for TLC: clients, switches, orders and lines *)
(* are model values given by the configurations.                           *)
(***************************************************************************)
EXTENDS UplinkSession
=============================================================================
