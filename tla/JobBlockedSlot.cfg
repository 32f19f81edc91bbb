\* A launch refused by a pending guard keeps a slot.
SPECIFICATION Spec
CONSTANTS
  agent = agent  overlay = overlay  raw = raw
  shell = shell  tool = tool  git = git  w = w
  Ops = {git, tool}
  Workspaces = {w}
  Nowhere = Nowhere
  Nobody = Nobody
  Kind <- Entry
  Root <- Rooted
  MaxActive = 2
  MaxCrashes = 0
INVARIANTS
  HeldSlotHasCause
CHECK_DEADLOCK FALSE
