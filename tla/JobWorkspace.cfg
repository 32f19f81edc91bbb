\* Requests that meet on one workspace.
SPECIFICATION Spec
CONSTANTS
  agent = agent  overlay = overlay  raw = raw
  shell = shell  tool = tool  git = git  w = w
  Ops = {agent, overlay, tool, git}
  Workspaces = {w}
  Nowhere = Nowhere
  Nobody = Nobody
  Kind <- Entry
  Root <- Rooted
  MaxActive = 2
  MaxCrashes = 2
INVARIANTS
  VerdictMatchesEdits
  UncertainPublicationCharged
  HalfPublicationContained
  SettledJobFreesCapacity
PROPERTIES
  ImplementsContract
ACTION_CONSTRAINT OnePair
CHECK_DEADLOCK FALSE
