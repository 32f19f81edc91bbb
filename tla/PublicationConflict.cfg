\* A rollback that died reports a conflict with owner work.
SPECIFICATION PublicationSpec
CONSTANTS
  p = p  q = q  r = r
  Edited = {p, q}
  Op <- CreateAndReplace
  NoPath = NoPath
  MaxRounds = 1
  MaxTouches = 0
  MaxPublisherDeaths = 1
  MaxRecoveryCrashes = 1
INVARIANTS
  ConflictMeansOwnerWork
CHECK_DEADLOCK FALSE
