\* A shop that works offline, whose service stops.
SPECIFICATION Spec
CONSTANTS
  Requests = {r1}
  Devices = {d1}
  Killers = {k1}
  NoDevice = NoDevice
  Offline = TRUE
  Patience = 1
INVARIANTS StoppedServiceIsRead
CHECK_DEADLOCK FALSE
