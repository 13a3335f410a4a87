--------------------------- MODULE RemoteToolsProofs ---------------------------
(***************************************************************************)
(* The composition of turns and bridge keeps what each was proved to keep  *)
(* alone: every step of it is a step, or a stutter, of each.               *)
(***************************************************************************)
EXTENDS RemoteTools, ChatTurnsProofs, McpBridgeProofs

LEMMA StepOfBoth == [RemoteNext]_remoteVars => [TurnNext]_turnVars /\ [BridgeNext]_bridgeVars
<1>. SUFFICES ASSUME [RemoteNext]_remoteVars
              PROVE  [TurnNext]_turnVars /\ [BridgeNext]_bridgeVars
  OBVIOUS
<1>1. ASSUME NEW r \in Requests, TurnStep(r) \/ CancelWaiting(r)
      PROVE  TurnNext /\ UNCHANGED bridgeVars
  BY <1>1 DEF TurnStep, CancelWaiting, Step, TurnNext
<1>2. ASSUME NEW r \in Requests, CallTool(r) PROVE BridgeNext /\ UNCHANGED turnVars
  BY <1>2 DEF CallTool, BridgeNext
<1>3. ASSUME NEW r \in Requests, (Post(r) \/ Progress(r)) /\ UNCHANGED bridgeVars
      PROVE  TurnNext /\ UNCHANGED bridgeVars
  BY <1>3 DEF TurnNext
<1>4. ASSUME NEW p \in Pages, PageStep(p) /\ UNCHANGED bridgeVars
      PROVE  TurnNext /\ UNCHANGED bridgeVars
  BY <1>4 DEF TurnNext
<1>5. CASE (BridgeStep \/ \E c \in Calls : Timeout(c)) /\ UNCHANGED turnVars
  BY <1>5 DEF BridgeNext
<1>6. CASE BackendRestart
  BY <1>6 DEF BackendRestart, BridgeNext, TurnNext
<1>7. CASE UNCHANGED remoteVars
  BY <1>7 DEF remoteVars
<1>. QED
  BY <1>1, <1>2, <1>3, <1>4, <1>5, <1>6, <1>7 DEF RemoteNext

\* Turns that wait on the desktop, cancels and common restarts included: the history stays
\* in order, the gateway has one bridge, and the tools offered are that bridge's.
THEOREM TurnsAndBridgeSafe ==
  RemoteSpec => [](TurnTypeOK /\ BridgeTypeOK /\ NoInterleaving /\ OneBridge /\ ToolsOfTheBridge)
<1>1. RemoteInit => TurnInv /\ BridgeInv
  BY TurnInitInv, BridgeInitInv DEF RemoteInit
<1>2. TurnInv /\ BridgeInv /\ [RemoteNext]_remoteVars => TurnInv' /\ BridgeInv'
  BY StepOfBoth, TurnNextInv, BridgeNextInv
<1>3. TurnInv /\ BridgeInv =>
        TurnTypeOK /\ BridgeTypeOK /\ NoInterleaving /\ OneBridge /\ ToolsOfTheBridge
  BY DEF TurnInv, BridgeInv
<1>. QED
  BY <1>1, <1>2, <1>3, PTL DEF RemoteSpec

\* The composition implements each part alone: no turn makes a bridge do what the bridge by
\* itself would not, and the bridge nothing to the turns.
THEOREM PartsImplemented ==
  RemoteSpec => /\ TurnInit /\ [][TurnNext]_turnVars
                /\ BridgeInit /\ [][BridgeNext]_bridgeVars
BY StepOfBoth, PTL DEF RemoteSpec, RemoteInit

\* In the composition too a turn's call is run at most once and settled once, a busy chat has
\* its handler, and the tools of a connected app are, or are about to be, registered.
THEOREM CallsAndToolsSafe ==
  RemoteSpec => ImplementsRemoteCall /\ [](BusyHasHandler /\ ToolsAnnounced)
<1>1. RemoteInit => TurnInv /\ BridgeInv /\ CallsInv /\ AnnounceInv /\ RemoteCall!Init
  BY TurnInitInv, BridgeInitInv, CallsInit, AnnounceInit DEF RemoteInit
<1>2. TurnInv /\ BridgeInv /\ [RemoteNext]_remoteVars => TurnInv' /\ BridgeInv'
  BY StepOfBoth, TurnNextInv, BridgeNextInv
<1>3. BridgeInv /\ BridgeInv' /\ CallsInv /\ AnnounceInv /\ [RemoteNext]_remoteVars =>
        CallsInv' /\ AnnounceInv' /\ [RemoteCall!Next]_(RemoteCall!vars)
  BY StepOfBoth, CallsStep, AnnounceNext
<1>4. TurnInv /\ AnnounceInv => BusyHasHandler /\ ToolsAnnounced
  BY DEF TurnInv, TurnTypeOK, RunInv, Holding, BusyHasHandler, AnnounceInv
<1>. QED
  BY <1>1, <1>2, <1>3, <1>4, PTL DEF RemoteSpec, ImplementsRemoteCall, RemoteCall!SafeSpec
================================================================================
