SPECIFICATION Spec
CONSTANTS
  Clients = {c1, c2, c3, c4}
  Switches = {s1, s2, s3}
  Orders = {o1}
  Lines = {l1, l2}
  Nobody = Nobody
  BufferLimit = 1
  Overlapping = FALSE
  MaxBoots = 1
INVARIANTS OpenIsHeld EventsGoThroughIt
PROPERTIES LinesKept SessionEnds
CHECK_DEADLOCK FALSE
