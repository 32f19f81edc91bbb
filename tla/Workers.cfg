\* The relay, the egress endpoints and the launch.
SPECIFICATION WorkersSpec
CONSTANTS
  r1 = r1  r2 = r2  s1 = s1  s2 = s2
  Requests = {r1, r2}  Receivers = {s1, s2}
  Absent = Absent  Uncertain = Uncertain  NotLaunched = NotLaunched
  Refused = Refused  Idle = Idle
  MaxActive = 1  MaxCrashes = 1
  Links = {"l1", "l2"}  EgressLimit = 1
  Policies = {"public", "headroom", "enforced", "provider"}
  MaxForwards = 2  MaxStartFailures = 1
  Callers = {"a", "b"}  Places = {"top", "sub", "leaf"}  Secrets = {}
  Above <- Chain  MaxChanges = 2  MaxCloseFaults = 1
INVARIANTS
  OneWorkerPerRequest
  SilentAfterClose
  OneInspectedRequest
  LaunchedAsVerified
  NestedMountsReadOnly
PROPERTIES
  HonoursDispatch
  OutcomeReported
  HandlersEnd
ACTION_CONSTRAINTS FewReceivers FewLinks FewChanges
CHECK_DEADLOCK FALSE
