\* Proposals of a worker while its job ends; a pull and a clone; two downloads
\* and a fetch under one approval.
SPECIFICATION AcquisitionSpec
CONSTANTS
  Kinds = {"pull", "clone"}  MaxDeaths = 2  MaxActs = 2
  Downloads = {"c1", "c2"}  Fetches = {"q"}  Folders = {"A"}
  FetchOnly = "fetch"  Withdrawn = "withdrawn"  Vacant = "vacant"
  Owned = {"o"}  MaxOwnerSteps = 1  MaxGatewayDeaths = 1
  pull = pull  fetch = fetch  clone = clone  here = here  there = there
  p1 = p1  p2 = p2  f1 = f1  c1 = c1  w = w  o = o
  Connections = {w}  Owners = {o}
  Scopes = {pull, fetch, clone}  Digests = {p1, p2, f1, c1}
  Kind <- Kinded  Place <- PlacedAt  Proposes <- Proposed
  None = None  Nobody = Nobody  Closer = Closer
  MaxPrepared = 1  TTL = 1  WaitTime = 1  Expiry = 2  MaxTime = 2
INVARIANTS
  RefusedIsUnspent
  SpentCloneCharged
  SettledIsWhole
  ArtifactHasReceipt
  EffectsBound
  QuietAfterClose
PROPERTIES
  RecoverySettles
  NoOverwriteNoHalfSuccess
  CallsEnd
ACTION_CONSTRAINTS InTurn OnePair
CHECK_DEADLOCK FALSE
