------------------------- MODULE MCPrinterRegistry -------------------------
(* Small instances of PrinterRegistry for TLC.  There is no symmetry set,  *)
(* since its run checks liveness.                                          *)
EXTENDS PrinterRegistry
=============================================================================
