---------------------------- MODULE MCCardPayment ----------------------------
(* Small instances of CardPayment for TLC.  There is no symmetry set, since *)
(* its runs check refinement and liveness.                                  *)
EXTENDS CardPayment
=============================================================================
