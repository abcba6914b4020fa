\* The journal with a clock that is never set back below a number given out,
\* against the server that carries its rows: the file may be lost, restored from
\* a copy or cut short, the manager stopped at any point.
SPECIFICATION Spec
CONSTANTS
  Deeds = {d1, d2, d3}
  Limit = 2
  CompactAt = 2
  PageSize = 1
  MaxClock = 4
  Paced = TRUE
  ClockBack = FALSE
  PartialWrites = FALSE
  NoTail = NoTail
  Garbage = Garbage
INVARIANTS
  ServedRowsOnDisk
PROPERTIES
  NoRowPassedOver
  PromiseKept
  EveryRowCarried
CHECK_DEADLOCK FALSE
