SPECIFICATION Spec
CONSTANTS
  Daemons = {d1}
  NoDaemon = NoDaemon
  Pids = {p1, p2}
  NoPid = NoPid
  Requests = {r1}
  Delays <- TwoDelays
  StableRun = 2
  MaxOps = 1
  MaxFaults = 3
PROPERTY FailedRestartCounts
CHECK_DEADLOCK FALSE
