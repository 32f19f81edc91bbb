\* Two pushes on one approval; a fetch and a commit without one.
SPECIFICATION Spec
CONSTANTS
  p1 = p1  p2 = p2  f1 = f1  m1 = m1  r1 = r1  a = a  b = b  f = f
  Calls = {p1, p2, f1, m1}
  Kind <- Tools
  Local = {f1, m1}
  Receipts = {r1}
  Commits = {a, b, f}
  Absent = Absent
  Ancestry <- Line
  Child <- Next1
  NoCall = NoCall  NoReceipt = NoReceipt  NoRequest = NoRequest
  MaxActive = 2
  Lifetime = 1
  MaxClock = 1
  MaxMoves = 2
  MaxCrashes = 1
INVARIANTS
  UndecidedHeld
  ApprovalsSpentOnce
PROPERTIES
  EffectsAsApproved
  HonoursApprovals
ACTION_CONSTRAINT OnePair
CHECK_DEADLOCK FALSE
