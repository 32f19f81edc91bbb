\* Requests that compete for one slot: live trees stay within the limit, and every
\* watched or cancelled job settles under the scheduling of the service.
SPECIFICATION FairSpec
CONSTANTS
  agent = agent  overlay = overlay  raw = raw
  shell = shell  tool = tool  git = git  w = w
  Ops = {agent, overlay, raw, shell}
  Workspaces = {w}
  Nowhere = Nowhere
  Nobody = Nobody
  Kind <- Entry
  Root <- Rooted
  MaxActive = 1
  MaxCrashes = 1
INVARIANTS
  LiveTreesWithinLimit
PROPERTIES
  JobsSettle
ACTION_CONSTRAINT TwoForOneSlot
CHECK_DEADLOCK FALSE
