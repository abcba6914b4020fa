--------------------------- MODULE MCWorkJournal ---------------------------
(* Small instances of WorkJournal for TLC.                                 *)
EXTENDS WorkJournal
(* No symmetry: its run checks a refinement and a liveness property.       *)
=============================================================================
