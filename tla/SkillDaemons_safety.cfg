SPECIFICATION Spec
CONSTANTS
  Daemons = {d1}
  NoDaemon = NoDaemon
  Pids = {p1, p2}
  NoPid = NoPid
  Requests = {r1, r2}
  Delays <- OneDelay
  StableRun = 1
  MaxOps = 2
  MaxFaults = 1
SYMMETRY MCSymmetry
INVARIANTS TypeOK UnstoppedProcessIsReachable RestartNotStranded
PROPERTY ReportNeverRevives
CHECK_DEADLOCK FALSE
