SPECIFICATION FairSpec
CONSTANTS
  Daemons = {d1}
  NoDaemon = NoDaemon
  Pids = {p1, p2}
  NoPid = NoPid
  Requests = {r1}
  Delays <- OneDelay
  StableRun = 1
  MaxOps = 1
  MaxFaults = 2
PROPERTIES DeathNoticed RestartHappens
CHECK_DEADLOCK FALSE
