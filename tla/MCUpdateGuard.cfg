\* What an answer of GET /busy is worth, and what ends: one request, two
\* devices of one printer, one killer, a shop that works offline.  No symmetry,
\* which would be unsound for temporal properties.
SPECIFICATION Spec
CONSTANTS
  Requests = {r1}
  Devices = {d1, d2}
  Killers = {k1}
  NoDevice = NoDevice
  Offline = TRUE
  Patience = 1
INVARIANTS
  LostWasLate
PROPERTIES
  WorkRefusalEnds
  InstallerGetsThrough
CHECK_DEADLOCK FALSE
