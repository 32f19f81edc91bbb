\* An entry, a publication, a directory birth and a metadata import, with an
\* owner who has no lock and with deaths; and a socket whose name others use.
SPECIFICATION EntriesSpec
CONSTANTS
  Original = Original  OwnerFiles = {f1, f2}  Absent = Absent
  f1 = f1  f2 = f2  d1 = d1  d2 = d2  p = p  q = q  r = r
  MaxCrashes = 2  MaxActs = 3
  Edited = {p, q, r}  Op <- OneEach  NoPath = NoPath
  MaxRounds = 2  MaxTouches = 2  MaxPublisherDeaths = 1  MaxRecoveryCrashes = 1
  Birth = Birth  Empty = Empty  OwnerDirs = {d1, d2}  NoDir = NoDir
  MaxDeaths = 2  MaxStirs = 3
  MaxOwnerActs = 2  MaxDies = 2
  Guests = {g1, g2}  Own = Own  NoEntry = NoEntry  Numbers = {1, 2}  Peers = {c1, c2}
  MaxConnections = 1  MaxFrames = 1  MaxGuestActs = 3  MaxThreadFaults = 1
INVARIANTS
  NothingLost
  RefusalHasCause
  WholeEndpoint
  DirectoryRefusalHasCause
  OwnerMetadataKept
  NoMixedEndpoint
  RecoveryBlockedHasCause
  SocketsEndClean
PROPERTIES
  OwnerWorkKept
  RecoveryCompletes
  OwnerWorkSurfaces
ACTION_CONSTRAINTS AloneOnReturn SocketsApart
CHECK_DEADLOCK FALSE
