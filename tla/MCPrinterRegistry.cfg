\* The registry: the watcher, one request and three device objects, a printer
\* that takes several handles.  No symmetry: liveness is checked.
SPECIFICATION Spec
CONSTANTS
  Handlers = {c1}
  Watcher = Watcher
  Devices = {d1, d2, d3}
  NoDevice = NoDevice
  Nobody = Nobody
  MaxVersion = 1
  Exclusive = FALSE
INVARIANTS
  CachedIsLive
PROPERTIES
  WriterStaysVisible
  EveryRequestEnds
  DroppedReleases
  WatcherReconnects
CHECK_DEADLOCK FALSE
