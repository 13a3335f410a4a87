SPECIFICATION Spec
CHECK_DEADLOCK FALSE
CONSTANTS
  r1 = r1
  r2 = r2
  b1 = b1
  b2 = b2
  Requests = {r1, r2}
  Pages = {p1}
  MaxInbox = 1
  MaxGets = 1
  NoRun = NoRun
  Apps = {b1, b2}
  Sockets = {k1, k2}
  Calls = {r1}
  MaxQueue = 1
  None = None
INVARIANTS TurnTypeOK NoInterleaving BusyHasHandler BridgeTypeOK OneBridge ToolsOfTheBridge ToolsAnnounced
PROPERTIES ChatFreed PageFollows AnswerShown ToolsComeBack CallsSettle ImplementsRemoteCall
