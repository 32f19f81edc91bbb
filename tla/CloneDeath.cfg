\* The gateway dies in the middle of a clone; the owner recovers.
SPECIFICATION Spec
CONSTANTS
  Kinds = {"clone"}
  MaxDeaths = 1
  MaxActs = 0
INVARIANTS
  DeathIsRecoverable
CHECK_DEADLOCK FALSE
