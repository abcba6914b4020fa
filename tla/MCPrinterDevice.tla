-------------------------- MODULE MCPrinterDevice --------------------------
(* Small instances of PrinterDevice for TLC.                               *)
EXTENDS PrinterDevice
(* No symmetry: its run checks liveness properties.                        *)
=============================================================================
