\* A replacement after a completed recovery.
SPECIFICATION PublicationSpec
CONSTANTS
  p = p  q = q  r = r
  Edited = {p, q}
  Op <- CreateAndReplace
  NoPath = NoPath
  MaxRounds = 2
  MaxTouches = 0
  MaxPublisherDeaths = 1
  MaxRecoveryCrashes = 0
INVARIANTS
  RecoveryUnblocks
CHECK_DEADLOCK FALSE
