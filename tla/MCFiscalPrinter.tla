-------------------------- MODULE MCFiscalPrinter --------------------------
(***************************************************************************)
(* Instances of FiscalPrinter for TLC.  The system may stop: requests are  *)
(* used up.                                                                *)
(***************************************************************************)
EXTENDS FiscalPrinter

(* Two documents may be exchanged for each other.                          *)
Same == Permutations(Documents)
=============================================================================
