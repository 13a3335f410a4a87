SPECIFICATION FlowSpec
CHECK_DEADLOCK FALSE
CONSTANTS
  a = a
  b = b
  c = c
  d = d
  Nodes = {a, b, c, d}
  Flows <- MCFlows
  Retries = 1
INVARIANTS FlowTypeOK JoinSeesBranches
PROPERTIES ImplementsFlowRun FlowAdvances
