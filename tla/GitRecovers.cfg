\* An uncertain fetch or push is reconciled.
SPECIFICATION FairSpec
CONSTANTS
  p1 = p1  p2 = p2  f1 = f1  m1 = m1  r1 = r1  a = a  b = b  f = f
  Calls = {f1, p1}
  Kind <- Tools
  Local = {f1}
  Receipts = {r1}
  Commits = {a, b, f}
  Absent = Absent
  Ancestry <- Line
  Child <- Next1
  NoCall = NoCall  NoReceipt = NoReceipt  NoRequest = NoRequest
  MaxActive = 2
  Lifetime = 1
  MaxClock = 0
  MaxMoves = 1
  MaxCrashes = 1
PROPERTIES
  GuardsRetire
ACTION_CONSTRAINT FromBehind
CHECK_DEADLOCK FALSE
