------------------------------ MODULE RemoteTools ------------------------------
(***************************************************************************)
(* The turns of a chat whose agent calls a tool of the user's remote MCP   *)
(* server: the turn waits for the call, the call goes through the bridge,  *)
(* and one backend holds both, so that its restart loses both.             *)
(***************************************************************************)
EXTENDS ChatTurns, McpBridge

ASSUME CallsAssumption == Calls \subseteq Requests  \* a call has the name of its turn

remoteVars == <<turnVars, bridgeVars>>

Working(r) == turn[r] \in {"agent", "team"}

Waits(r) == r \in Calls /\ call[r] = "waiting"

\* The tool's func awaits callTool: meanwhile the agent does nothing else.
TurnStep(r) == Step(r) /\ ~(Working(r) /\ Waits(r)) /\ UNCHANGED bridgeVars

\* A cancel does not wait for the call.
CancelWaiting(r) == Working(r) /\ Waits(r) /\ Fail(r) /\ UNCHANGED bridgeVars

CallTool(r) == Working(r) /\ r \in Calls /\ Dispatch(r) /\ UNCHANGED turnVars

\* While no turn is under way a restart is for the windows no more than a dropped socket.
BackendRestart ==
  /\ GatewayRestart
  /\ \/ RunsLost
     \/ (\A r \in Requests : turn[r] \in {"idle", "over"}) /\ UNCHANGED turnVars

RemoteInit == TurnInit /\ BridgeInit

RemoteNext ==
  \/ \E r \in Requests : TurnStep(r) \/ CancelWaiting(r) \/ CallTool(r)
  \/ \E r \in Requests : (Post(r) \/ Progress(r)) /\ UNCHANGED bridgeVars
  \/ \E p \in Pages : PageStep(p) /\ UNCHANGED bridgeVars
  \/ (BridgeStep \/ \E c \in Calls : Timeout(c)) /\ UNCHANGED turnVars
  \/ BackendRestart

RemoteFairness ==
  /\ \A r \in Requests : WF_remoteVars(TurnStep(r))
  /\ PageFairness
  /\ BridgeFairness

RemoteSpec == RemoteInit /\ [][RemoteNext]_remoteVars /\ RemoteFairness
================================================================================
