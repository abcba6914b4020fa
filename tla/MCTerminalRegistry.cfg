SPECIFICATION Spec
CONSTANTS
  d1 = d1
  d2 = d2
  a1 = a1
  a2 = a2
  a3 = a3
  Devices = {d1, d2}
  Addresses = {a1, a2, a3}
  Merchants = {m1}
  Unread = Unread
  None = None
  OldFiles <- MCOldFiles
  Places <- MCPlaces
  MaxMoves = 1
  MaxOperations = 2
  MaxBoots = 1
INVARIANTS StillAnswers RegisteredOnce
PROPERTIES WorkKept
CHECK_DEADLOCK FALSE
