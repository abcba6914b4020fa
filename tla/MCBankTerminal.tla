--------------------------- MODULE MCBankTerminal ---------------------------
(***************************************************************************)
(* Instances of BankTerminal for TLC.  The system may stop: operations are *)
(* used up.                                                                *)
(***************************************************************************)
EXTENDS BankTerminal
=============================================================================
