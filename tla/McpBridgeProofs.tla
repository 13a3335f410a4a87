---------------------------- MODULE McpBridgeProofs ----------------------------
(***************************************************************************)
(* Proofs about McpBridge: type correctness, one bridge per user, and no   *)
(* tools but those of the app that is connected, for any apps and sockets. *)
(***************************************************************************)
EXTENDS McpBridge, TLAPS

\* An app's socket is one the server took, and no other app's.
SocketsInv ==
  /\ \A b \in Apps : sock[b] # None => link[sock[b]] \in {"open", "kicked", "closed"}
  /\ \A a, b \in Apps : sock[a] # None /\ sock[a] = sock[b] => a = b

BridgeInv == BridgeTypeOK /\ OneBridge /\ ToolsOfTheBridge /\ SocketsInv

--------------------------------------------------------------------------------
LEMMA AppEmitType ==
  ASSUME BridgeTypeOK, NEW b \in Apps, NEW m \in Lists \cup Calls, Emit(b, m)
  PROVE  /\ buffer' \in [Apps -> Seq(Lists \cup Calls)]
         /\ up' \in [Sockets -> Seq(Lists \cup Calls)]
<1>1. /\ buffer \in [Apps -> Seq(Lists \cup Calls)] /\ up \in [Sockets -> Seq(Lists \cup Calls)]
      /\ sock[b] \in Sockets \cup {None}
  BY DEF BridgeTypeOK
<1>2. \A s \in Seq(Lists \cup Calls) : Append(s, m) \in Seq(Lists \cup Calls)
  OBVIOUS
<1>. QED
  BY <1>1, <1>2, ZenonT(60) DEF Emit

\* What an app's end of its connection leaves true, the server knowing nothing yet.
LEMMA LoseInv ==
  ASSUME BridgeInv, NEW b \in Apps, NEW next \in {"connecting", "kicked", "off"},
         Lose(b, next), UNCHANGED server
  PROVE  /\ app' \in [Apps -> AppStates]
         /\ sock' \in [Apps -> Sockets \cup {None}]
         /\ link' \in [Sockets -> {"free", "open", "half", "kicked", "closed"}]
         /\ asked' \in [Sockets -> SUBSET Calls]
         /\ OneBridge' /\ ToolsOfTheBridge' /\ SocketsInv'
<1>. DEFINE k == sock[b]
<1>1. /\ app \in [Apps -> AppStates]
      /\ sock \in [Apps -> Sockets \cup {None}]
      /\ link \in [Sockets -> {"free", "open", "half", "kicked", "closed"}]
      /\ asked \in [Sockets -> SUBSET Calls]
  BY DEF BridgeInv, BridgeTypeOK
<1>2. k \in Sockets /\ link[k] \in {"open", "kicked", "closed"}
  BY <1>1 DEF Lose, BridgeInv, SocketsInv
<1>3. /\ app' \in {app, [app EXCEPT ![b] = next]} /\ sock' = [sock EXCEPT ![b] = None]
      /\ link' = [link EXCEPT ![k] = IF link[k] = "open" THEN "half" ELSE "closed"]
      /\ asked' = [asked EXCEPT ![k] = {}]
  BY <1>1, <1>2 DEF Lose
<1>8. app' \in [Apps -> AppStates]
  BY <1>1, <1>3 DEF AppStates
<1>4. UNCHANGED <<userSocket, bridgeSession, bridgeTools>>
  BY DEF server
<1>5. OneBridge'
  BY <1>1, <1>2, <1>3, <1>4 DEF BridgeInv, OneBridge
<1>6. ToolsOfTheBridge'
  BY <1>4 DEF BridgeInv, ToolsOfTheBridge
<1>7. SocketsInv'
  <2>1. ASSUME NEW a \in Apps, sock'[a] # None
        PROVE  sock'[a] = sock[a] /\ sock[a] # k /\ sock[a] \in Sockets
    BY <2>1, <1>1, <1>2, <1>3 DEF BridgeInv, SocketsInv
  <2>2. ASSUME NEW a \in Apps, sock'[a] # None
        PROVE  link'[sock'[a]] \in {"open", "kicked", "closed"}
    BY <2>2, <2>1, <1>1, <1>3 DEF BridgeInv, SocketsInv
  <2>3. ASSUME NEW a \in Apps, NEW c \in Apps, sock'[a] # None, sock'[a] = sock'[c]
        PROVE  a = c
    BY <2>3, <2>1 DEF BridgeInv, SocketsInv
  <2>. QED
    BY <2>2, <2>3 DEF SocketsInv
<1>. QED
  BY <1>1, <1>2, <1>3, <1>5, <1>6, <1>7, <1>8

\* A step that leaves sockets and the gateway's maps alone.
LEMMA SameSockets ==
  ASSUME BridgeInv, UNCHANGED <<sock, link, userSocket, bridgeSession, bridgeTools>>
  PROVE  OneBridge' /\ ToolsOfTheBridge' /\ SocketsInv'
BY DEF BridgeInv, OneBridge, ToolsOfTheBridge, SocketsInv
--------------------------------------------------------------------------------
LEMMA BridgeInitInv == BridgeInit => BridgeInv
<1>. SUFFICES ASSUME BridgeInit PROVE BridgeInv
  OBVIOUS
<1>0. <<>> \in Seq(Lists \cup Calls)
  OBVIOUS
<1>1. BridgeTypeOK
  BY <1>0 DEF BridgeInit, BridgeTypeOK, AppStates, ProcStates
<1>2. OneBridge /\ ToolsOfTheBridge /\ SocketsInv
  BY NoneAssumption DEF BridgeInit, OneBridge, ToolsOfTheBridge, SocketsInv, NoTools
<1>. QED
  BY <1>1, <1>2 DEF BridgeInv

LEMMA BridgeNextInv == BridgeInv /\ [BridgeNext]_bridgeVars => BridgeInv'
<1>. SUFFICES ASSUME BridgeInv, [BridgeNext]_bridgeVars PROVE BridgeInv'
  OBVIOUS
<1>0. BridgeTypeOK /\ OneBridge /\ ToolsOfTheBridge /\ SocketsInv
  BY DEF BridgeInv
<1>t. /\ app \in [Apps -> AppStates]
      /\ sock \in [Apps -> Sockets \cup {None}]
      /\ buffer \in [Apps -> Seq(Lists \cup Calls)]
      /\ proc \in [Apps -> ProcStates]
      /\ known \in [Apps -> BOOLEAN]
      /\ link \in [Sockets -> {"free", "open", "half", "kicked", "closed"}]
      /\ up \in [Sockets -> Seq(Lists \cup Calls)]
      /\ asked \in [Sockets -> SUBSET Calls]
      /\ running \in [Apps -> SUBSET Calls]
      /\ userSocket \in Sockets \cup {None}
      /\ bridgeSession \in BOOLEAN
      /\ bridgeTools \in [list : Lists, by : Sockets] \cup {NoTools}
      /\ call \in [Calls -> {"idle", "waiting", "answered", "failed"}]
  BY <1>0 DEF BridgeTypeOK
<1>1. ASSUME NEW b \in Apps, StartApp(b) PROVE BridgeInv'
  <2>1. BridgeTypeOK'
    BY <1>1, <1>t DEF StartApp, server, BridgeTypeOK, AppStates
  <2>2. OneBridge' /\ ToolsOfTheBridge' /\ SocketsInv'
    BY <1>1, SameSockets DEF StartApp, server
  <2>. QED
    BY <2>1, <2>2 DEF BridgeInv
<1>2. ASSUME NEW b \in Apps, Connect(b) PROVE BridgeInv'
  <2>. DEFINE k == NewSocket
  <2>1. k \in Sockets /\ link[k] = "free"
    BY <1>2 DEF Connect, MayConnect, NewSocket
  <2>2. /\ link' = [j \in Sockets |->
             IF j = k THEN "open" ELSE IF j = userSocket THEN "kicked" ELSE link[j]]
        /\ userSocket' = k /\ bridgeSession' = TRUE /\ bridgeTools' = NoTools
        /\ app' \in {app, [app EXCEPT ![b] = "connected"]} /\ sock' = [sock EXCEPT ![b] = k]
        /\ buffer' = [buffer EXCEPT ![b] = <<>>]
        /\ asked' = [asked EXCEPT ![sock[b]] = {}]
        /\ UNCHANGED <<proc, known, running, call>>
    BY <1>2, <1>t DEF Connect, HasSocket, LinkInstead, Unheard
  <2>3. up' = [j \in Sockets |->
             IF j = k THEN buffer[b] \o (IF proc[b] = "none" THEN <<>> ELSE <<ListOf(b)>>)
             ELSE IF j = userSocket THEN <<>> ELSE up[j]]
    BY <1>2 DEF Connect, Greeting
  <2>. HIDE DEF k
  <2>4. up' \in [Sockets -> Seq(Lists \cup Calls)]
    <3>1. ListOf(b) \in Lists \cup Calls
      BY DEF ListOf, Lists
    <3>2. /\ <<>> \in Seq(Lists \cup Calls) /\ <<ListOf(b)>> \in Seq(Lists \cup Calls)
          /\ buffer[b] \in Seq(Lists \cup Calls)
      BY <3>1, <1>t
    <3>3. buffer[b] \o (IF proc[b] = "none" THEN <<>> ELSE <<ListOf(b)>>) \in Seq(Lists \cup Calls)
      <4>1. \A s, t \in Seq(Lists \cup Calls) : s \o t \in Seq(Lists \cup Calls)
        OBVIOUS
      <4>. QED
        BY <3>2, <4>1
    <3>. QED
      BY <2>3, <3>2, <3>3, <1>t
  <2>5. buffer' \in [Apps -> Seq(Lists \cup Calls)]
    <3>1. <<>> \in Seq(Lists \cup Calls)
      OBVIOUS
    <3>. QED
      BY <2>2, <3>1, <1>t
  <2>6. BridgeTypeOK'
    <3>1. asked' \in [Sockets -> SUBSET Calls] /\ app' \in [Apps -> AppStates]
      BY <2>2, <1>t DEF AppStates
    <3>. QED
      BY <3>1, <2>1, <2>2, <2>4, <2>5, <1>t DEF BridgeTypeOK
  <2>7. OneBridge'
    BY <2>1, <2>2, <1>0, <1>t, NoneAssumption DEF OneBridge
  <2>8. ToolsOfTheBridge'
    BY <2>2 DEF ToolsOfTheBridge, NoTools
  <2>9. SocketsInv'
    <3>1. ASSUME NEW a \in Apps, a # b, sock'[a] # None
          PROVE  /\ sock'[a] = sock[a] /\ sock[a] \in Sockets /\ sock[a] # k
                 /\ link[sock[a]] \in {"open", "kicked", "closed"}
      BY <3>1, <2>1, <2>2, <1>0, <1>t DEF SocketsInv
    <3>2. sock'[b] = k
      BY <2>2, <1>t
    <3>3. ASSUME NEW a \in Apps, sock'[a] # None
          PROVE  link'[sock'[a]] \in {"open", "kicked", "closed"}
      BY <3>3, <3>1, <3>2, <2>1, <2>2
    <3>4. ASSUME NEW a \in Apps, NEW c \in Apps, sock'[a] # None, sock'[a] = sock'[c]
          PROVE  a = c
      BY <3>4, <3>1, <3>2, <1>0 DEF SocketsInv
    <3>. QED
      BY <3>3, <3>4 DEF SocketsInv
  <2>. QED
    BY <2>6, <2>7, <2>8, <2>9 DEF BridgeInv
<1>13. ASSUME NEW b \in Apps, Refuse(b) PROVE BridgeInv'
  <2>. DEFINE k == NewSocket
  <2>1. k \in Sockets /\ link[k] = "free"
    BY <1>13 DEF Refuse, MayConnect, NewSocket
  <2>2. /\ link' = [link EXCEPT ![k] = "kicked"]
        /\ app' \in {app, [app EXCEPT ![b] = "connected"]} /\ sock' = [sock EXCEPT ![b] = k]
        /\ buffer' = [buffer EXCEPT ![b] = <<>>]
        /\ asked' = [asked EXCEPT ![sock[b]] = {}]
        /\ UNCHANGED <<proc, known, up, running, userSocket, bridgeSession, bridgeTools, call>>
    BY <1>13, <1>t DEF Refuse, HasSocket, Unheard, server
  <2>. HIDE DEF k
  <2>3. BridgeTypeOK'
    <3>1. <<>> \in Seq(Lists \cup Calls)
      OBVIOUS
    <3>2. asked' \in [Sockets -> SUBSET Calls] /\ app' \in [Apps -> AppStates]
      BY <2>2, <1>t DEF AppStates
    <3>3. buffer' \in [Apps -> Seq(Lists \cup Calls)]
      BY <2>2, <3>1, <1>t
    <3>. QED
      BY <2>1, <2>2, <3>2, <3>3, <1>t DEF BridgeTypeOK
  <2>4. OneBridge'
    BY <2>1, <2>2, <1>0, <1>t DEF OneBridge
  <2>5. ToolsOfTheBridge'
    BY <2>2, <1>0 DEF ToolsOfTheBridge
  <2>6. SocketsInv'
    <3>1. ASSUME NEW a \in Apps, a # b, sock'[a] # None
          PROVE  /\ sock'[a] = sock[a] /\ sock[a] \in Sockets /\ sock[a] # k
                 /\ link[sock[a]] \in {"open", "kicked", "closed"}
      BY <3>1, <2>1, <2>2, <1>0, <1>t DEF SocketsInv
    <3>2. sock'[b] = k
      BY <2>2, <1>t
    <3>3. ASSUME NEW a \in Apps, sock'[a] # None
          PROVE  link'[sock'[a]] \in {"open", "kicked", "closed"}
      BY <3>3, <3>1, <3>2, <2>1, <2>2, <1>t
    <3>4. ASSUME NEW a \in Apps, NEW c \in Apps, sock'[a] # None, sock'[a] = sock'[c]
          PROVE  a = c
      BY <3>4, <3>1, <3>2, <1>0 DEF SocketsInv
    <3>. QED
      BY <3>3, <3>4 DEF SocketsInv
  <2>. QED
    BY <2>3, <2>4, <2>5, <2>6 DEF BridgeInv
<1>3. ASSUME NEW b \in Apps, Drop(b) \/ Kicked(b) PROVE BridgeInv'
  <2>1. PICK next \in {"connecting", "kicked", "off"} :
          Lose(b, next) /\ UNCHANGED <<buffer, proc, known, up, running, server>>
    BY <1>3 DEF Drop, Kicked
  <2>2. /\ app' \in [Apps -> AppStates]
        /\ sock' \in [Apps -> Sockets \cup {None}]
        /\ link' \in [Sockets -> {"free", "open", "half", "kicked", "closed"}]
        /\ asked' \in [Sockets -> SUBSET Calls]
        /\ OneBridge' /\ ToolsOfTheBridge' /\ SocketsInv'
    BY <2>1, LoseInv
  <2>. QED
    BY <2>1, <2>2, <1>t DEF server, BridgeTypeOK, BridgeInv
<1>14. ASSUME NEW b \in Apps, Quit(b) PROVE BridgeInv'
  <2>1. BridgeTypeOK'
    BY <1>14, <1>t DEF Quit, server, BridgeTypeOK, AppStates, ProcStates
  <2>2. OneBridge' /\ ToolsOfTheBridge' /\ SocketsInv'
    BY <1>14, SameSockets DEF Quit, server
  <2>. QED
    BY <2>1, <2>2 DEF BridgeInv
<1>4. ASSUME NEW b \in Apps, QuitEnd(b) PROVE BridgeInv'
  <2>1. /\ app' \in [Apps -> AppStates]
        /\ sock' \in [Apps -> Sockets \cup {None}]
        /\ link' \in [Sockets -> {"free", "open", "half", "kicked", "closed"}]
        /\ asked' \in [Sockets -> SUBSET Calls]
        /\ OneBridge' /\ ToolsOfTheBridge' /\ SocketsInv'
    <3>1. CASE Lose(b, "off")
      BY <1>4, <3>1, LoseInv DEF QuitEnd
    <3>2. CASE /\ app' = [app EXCEPT ![b] = "off"] /\ sock' = [sock EXCEPT ![b] = None]
               /\ UNCHANGED <<link, asked>>
      <4>1. UNCHANGED server
        BY <1>4 DEF QuitEnd
      <4>2. \A a \in Apps : sock'[a] # None => sock'[a] = sock[a] /\ sock[a] # None
        BY <3>2, <1>t
      <4>3. SocketsInv'
        BY <3>2, <4>2, <1>0 DEF SocketsInv
      <4>4. OneBridge' /\ ToolsOfTheBridge'
        BY <3>2, <4>1, <1>0 DEF OneBridge, ToolsOfTheBridge, server
      <4>. QED
        BY <3>2, <4>3, <4>4, <1>t DEF AppStates
    <3>. QED
      BY <1>4, <3>1, <3>2 DEF QuitEnd
  <2>2. buffer' \in [Apps -> Seq(Lists \cup Calls)]
    <3>1. <<>> \in Seq(Lists \cup Calls)
      OBVIOUS
    <3>. QED
      BY <1>4, <3>1, <1>t DEF QuitEnd
  <2>3. /\ proc' \in [Apps -> ProcStates] /\ known' \in [Apps -> BOOLEAN]
        /\ running' \in [Apps -> SUBSET Calls]
    BY <1>4, <1>t DEF QuitEnd, ProcStates
  <2>. QED
    BY <1>4, <2>1, <2>2, <2>3, <1>t DEF QuitEnd, server, BridgeTypeOK, BridgeInv
<1>5. ASSUME NEW b \in Apps, Spawn(b) \/ Exit(b) PROVE BridgeInv'
  <2>1. BridgeTypeOK'
    BY <1>5, <1>t DEF Spawn, Exit, server, BridgeTypeOK, ProcStates
  <2>2. OneBridge' /\ ToolsOfTheBridge' /\ SocketsInv'
    BY <1>5, SameSockets DEF Spawn, Exit, server
  <2>. QED
    BY <2>1, <2>2 DEF BridgeInv
<1>6. ASSUME NEW b \in Apps, Ready(b) PROVE BridgeInv'
  <2>1. up' \in [Sockets -> Seq(Lists \cup Calls)] /\ buffer' \in [Apps -> Seq(Lists \cup Calls)]
    BY <1>6, <1>0, AppEmitType DEF Ready, Lists
  <2>2. BridgeTypeOK'
    BY <1>6, <2>1, <1>t DEF Ready, server, BridgeTypeOK, ProcStates
  <2>3. OneBridge' /\ ToolsOfTheBridge' /\ SocketsInv'
    BY <1>6, SameSockets DEF Ready, server
  <2>. QED
    BY <2>2, <2>3 DEF BridgeInv
<1>7. ASSUME NEW b \in Apps, NEW c \in Calls, TakeCall(b, c) \/ Answer(b, c) PROVE BridgeInv'
  <2>1. up' \in [Sockets -> Seq(Lists \cup Calls)] /\ buffer' \in [Apps -> Seq(Lists \cup Calls)]
    BY <1>7, <1>0, <1>t, AppEmitType DEF TakeCall, Answer
  <2>2. running' \in [Apps -> SUBSET Calls] /\ asked' \in [Sockets -> SUBSET Calls]
    <3>1. CASE TakeCall(b, c)
      <4>1. sock[b] \in Sockets /\ asked' = [asked EXCEPT ![sock[b]] = @ \ {c}]
        BY <3>1, <1>t DEF TakeCall
      <4>2. running' \in {running, [running EXCEPT ![b] = @ \cup {c}]}
        BY <3>1 DEF TakeCall
      <4>3. asked' \in [Sockets -> SUBSET Calls]
        <5>1. asked \in [Sockets -> SUBSET Calls]
          BY <1>t
        <5>. QED
          BY <4>1, <5>1
      <4>4. running' \in [Apps -> SUBSET Calls]
        <5>1. running \in [Apps -> SUBSET Calls]
          BY <1>t
        <5>. QED
          BY <4>2, <5>1
      <4>. QED
        BY <4>3, <4>4
    <3>2. CASE Answer(b, c)
      BY <3>2, <1>t DEF Answer
    <3>. QED
      BY <1>7, <3>1, <3>2
  <2>3. BridgeTypeOK'
    BY <1>7, <2>1, <2>2, <1>t DEF TakeCall, Answer, server, BridgeTypeOK
  <2>4. OneBridge' /\ ToolsOfTheBridge' /\ SocketsInv'
    BY <1>7, SameSockets DEF TakeCall, Answer, server
  <2>. QED
    BY <2>3, <2>4 DEF BridgeInv
<1>8. ASSUME NEW k \in Sockets, Disconnected(k) PROVE BridgeInv'
  <2>0. userSocket = k
    BY <1>8, <1>0 DEF Disconnected, OneBridge
  <2>1. /\ link' = [link EXCEPT ![k] = "closed"] /\ up' = [up EXCEPT ![k] = <<>>]
        /\ userSocket' = None /\ bridgeSession' = FALSE /\ bridgeTools' = NoTools
        /\ UNCHANGED <<client, asked, call>>
    BY <1>8, <2>0 DEF Disconnected
  <2>2. up' \in [Sockets -> Seq(Lists \cup Calls)]
    <3>1. <<>> \in Seq(Lists \cup Calls)
      OBVIOUS
    <3>. QED
      BY <2>1, <3>1, <1>t
  <2>3. BridgeTypeOK'
    BY <2>1, <2>2, <1>t DEF client, BridgeTypeOK
  <2>4. OneBridge'
    BY <2>0, <2>1, <1>0, <1>t, NoneAssumption DEF OneBridge
  <2>5. ToolsOfTheBridge' /\ SocketsInv'
    BY <2>1, <1>0, <1>t DEF ToolsOfTheBridge, NoTools, SocketsInv, client
  <2>. QED
    BY <2>3, <2>4, <2>5 DEF BridgeInv
<1>9. ASSUME NEW k \in Sockets, Receive(k) PROVE BridgeInv'
  <2>0. userSocket = k
    BY <1>9, <1>0 DEF Receive, OneBridge
  <2>. DEFINE m == Head(up[k])
  <2>1. up[k] \in Seq(Lists \cup Calls) /\ up[k] # <<>>
    BY <1>9, <1>t DEF Receive
  <2>2. Tail(up[k]) \in Seq(Lists \cup Calls)
    BY <2>1
  <2>3. /\ up' = [up EXCEPT ![k] = Tail(up[k])]
        /\ UNCHANGED <<client, link, asked, userSocket, bridgeSession>>
        /\ \/ m \in Lists /\ bridgeTools' = [list |-> m, by |-> k] /\ UNCHANGED call
           \/ /\ m \in Calls /\ UNCHANGED bridgeTools
              /\ call' = IF call[m] = "waiting" THEN [call EXCEPT ![m] = "answered"] ELSE call
    BY <1>9, <1>t DEF Receive
  <2>. HIDE DEF m
  <2>4. /\ bridgeTools' \in [list : Lists, by : Sockets] \cup {NoTools}
        /\ call' \in [Calls -> {"idle", "waiting", "answered", "failed"}]
    <3>1. CASE m \in Lists /\ bridgeTools' = [list |-> m, by |-> k] /\ UNCHANGED call
      BY <3>1, <1>t
    <3>2. CASE /\ m \in Calls /\ UNCHANGED bridgeTools
               /\ call' \in {call, [call EXCEPT ![m] = "answered"]}
      BY <3>2, <1>t
    <3>. QED
      BY <2>3, <3>1, <3>2
  <2>5. BridgeTypeOK'
    BY <2>2, <2>3, <2>4, <1>t DEF client, BridgeTypeOK
  <2>6. OneBridge' /\ SocketsInv'
    BY <2>3, <1>0 DEF OneBridge, SocketsInv, client
  <2>7. ToolsOfTheBridge'
    BY <2>0, <2>3, <1>0 DEF ToolsOfTheBridge
  <2>. QED
    BY <2>5, <2>6, <2>7 DEF BridgeInv
<1>10. ASSUME NEW c \in Calls, Dispatch(c) \/ Timeout(c) PROVE BridgeInv'
  <2>1. /\ call' \in [Calls -> {"idle", "waiting", "answered", "failed"}]
        /\ asked' \in [Sockets -> SUBSET Calls]
    <3>1. CASE Dispatch(c)
      <4>1. call' \in {[call EXCEPT ![c] = "failed"], [call EXCEPT ![c] = "waiting"]}
        BY <3>1 DEF Dispatch
      <4>2. \/ asked' = asked
            \/ userSocket \in Sockets /\ asked' = [asked EXCEPT ![userSocket] = @ \cup {c}]
        BY <3>1, <1>t DEF Dispatch
      <4>3. asked' \in [Sockets -> SUBSET Calls]
        <5>1. asked \in [Sockets -> SUBSET Calls]
          BY <1>t
        <5>. QED
          BY <4>2, <5>1
      <4>4. call' \in [Calls -> {"idle", "waiting", "answered", "failed"}]
        BY <4>1, <1>t
      <4>. QED
        BY <4>3, <4>4
    <3>2. CASE Timeout(c)
      BY <3>2, <1>t DEF Timeout
    <3>. QED
      BY <1>10, <3>1, <3>2
  <2>2. BridgeTypeOK'
    BY <1>10, <2>1, <1>t DEF Dispatch, Timeout, client, BridgeTypeOK
  <2>3. OneBridge' /\ ToolsOfTheBridge' /\ SocketsInv'
    BY <1>10, SameSockets DEF Dispatch, Timeout, client
  <2>. QED
    BY <2>2, <2>3 DEF BridgeInv
<1>11. CASE GatewayRestart
  <2>1. <<>> \in Seq(Lists \cup Calls)
    OBVIOUS
  <2>2. BridgeTypeOK'
    BY <1>11, <2>1, <1>t DEF GatewayRestart, client, BridgeTypeOK
  <2>3. OneBridge' /\ ToolsOfTheBridge'
    BY <1>11, <1>t, NoneAssumption DEF GatewayRestart, OneBridge, ToolsOfTheBridge, NoTools
  <2>4. SocketsInv'
    BY <1>11, <1>0, <1>t, ZenonT(60) DEF GatewayRestart, SocketsInv, client
  <2>. QED
    BY <2>2, <2>3, <2>4 DEF BridgeInv
<1>12. CASE UNCHANGED bridgeVars
  BY <1>12, <1>0 DEF bridgeVars, BridgeInv, BridgeTypeOK, OneBridge, ToolsOfTheBridge, SocketsInv
<1>. QED
  BY <1>1, <1>2, <1>3, <1>4, <1>5, <1>6, <1>7, <1>8, <1>9, <1>10, <1>11, <1>12, <1>13, <1>14
  DEF BridgeNext, BridgeStep

\* Every variable of the gateway and of the apps keeps its type.
THEOREM BridgeTypeCorrect == BridgeSpec => []BridgeTypeOK
<1>1. BridgeInv => BridgeTypeOK
  BY DEF BridgeInv
<1>. QED
  BY <1>1, BridgeInitInv, BridgeNextInv, PTL DEF BridgeSpec

\* Whatever apps come, go and take each other's place, the gateway has one live socket, with
\* its session, or none.
THEOREM OneBridgePerUser == BridgeSpec => []OneBridge
<1>1. BridgeInv => OneBridge
  BY DEF BridgeInv
<1>. QED
  BY <1>1, BridgeInitInv, BridgeNextInv, PTL DEF BridgeSpec

\* The tools offered are never those of an app that is gone or was replaced.
THEOREM OnlyTheBridgesTools == BridgeSpec => []ToolsOfTheBridge
<1>1. BridgeInv => ToolsOfTheBridge
  BY DEF BridgeInv
<1>. QED
  BY <1>1, BridgeInitInv, BridgeNextInv, PTL DEF BridgeSpec
--------------------------------------------------------------------------------
(***************************************************************************)
(* A call is in one place at a time: asked of one socket, run by one app,  *)
(* or replied once, in one buffer or on one socket. Hence the gateway and  *)
(* the apps implement RemoteCall.                                          *)
(***************************************************************************)
AskedAt(c) == {k \in Sockets : c \in asked[k]}
RunAt(c) == {b \in Apps : c \in running[b]}
KeptAt(c) == {b \in Apps : Holds(buffer[b], c)}
SentAt(c) == {k \in Sockets : Holds(up[k], c)}

Single(S) == \A x, y \in S : x = y

Once(s, c) == \A i, j \in DOMAIN s : s[i] = c /\ s[j] = c => i = j

\* The replies of a call: one at most, in one place.
RepliedOnce(c) ==
  /\ Single(KeptAt(c)) /\ Single(SentAt(c))
  /\ KeptAt(c) = {} \/ SentAt(c) = {}
  /\ \A b \in Apps : Once(buffer[b], c)
  /\ \A k \in Sockets : Once(up[k], c)

NotReplied(c) == KeptAt(c) = {} /\ SentAt(c) = {}

InOnePlace(c) ==
  /\ Single(AskedAt(c)) /\ Single(RunAt(c)) /\ RepliedOnce(c)
  /\ AskedAt(c) # {} => RunAt(c) = {} /\ NotReplied(c)
  /\ RunAt(c) # {} => NotReplied(c)
  /\ call[c] = "idle" => AskedAt(c) = {} /\ RunAt(c) = {} /\ NotReplied(c)

CallsInv == \A c \in Calls : InOnePlace(c)

LEMMA WorkIs ==
  ASSUME NEW c
  PROVE  /\ WorkOn(c) = IF AskedAt(c) # {} THEN "asked"
                        ELSE IF RunAt(c) # {} THEN "running"
                        ELSE IF ~NotReplied(c) THEN "replied"
                        ELSE IF call[c] = "idle" THEN "none" ELSE "over"
         /\ WorkOn(c)' = IF AskedAt(c)' # {} THEN "asked"
                         ELSE IF RunAt(c)' # {} THEN "running"
                         ELSE IF ~NotReplied(c)' THEN "replied"
                         ELSE IF call'[c] = "idle" THEN "none" ELSE "over"
<1>1. /\ (\E k \in Sockets : c \in asked[k]) <=> AskedAt(c) # {}
      /\ (\E b \in Apps : c \in running[b]) <=> RunAt(c) # {}
      /\ (\E b \in Apps : Holds(buffer[b], c)) <=> KeptAt(c) # {}
      /\ (\E k \in Sockets : Holds(up[k], c)) <=> SentAt(c) # {}
  BY DEF AskedAt, RunAt, KeptAt, SentAt
<1>2. /\ (\E k \in Sockets : c \in asked'[k]) <=> AskedAt(c)' # {}
      /\ (\E b \in Apps : c \in running'[b]) <=> RunAt(c)' # {}
      /\ (\E b \in Apps : Holds(buffer'[b], c)) <=> KeptAt(c)' # {}
      /\ (\E k \in Sockets : Holds(up'[k], c)) <=> SentAt(c)' # {}
  BY DEF AskedAt, RunAt, KeptAt, SentAt
<1>. QED
  BY <1>1, <1>2 DEF WorkOn, NotReplied

\* What a sequence holds after a message more, a message less, and two made one.
LEMMA HoldsAppend ==
  ASSUME NEW S, NEW s \in Seq(S), NEW m \in S, NEW c
  PROVE  /\ Holds(Append(s, m), c) <=> Holds(s, c) \/ m = c
         /\ Once(s, c) /\ (m # c \/ ~Holds(s, c)) => Once(Append(s, m), c)
<1>1. /\ Len(s) \in Nat /\ DOMAIN s = 1..Len(s)
      /\ DOMAIN Append(s, m) = 1..(Len(s) + 1)
      /\ \A i \in 1..Len(s) : Append(s, m)[i] = s[i]
      /\ Append(s, m)[Len(s) + 1] = m
  OBVIOUS
<1>2. \A i \in DOMAIN Append(s, m) : i \in DOMAIN s \/ i = Len(s) + 1
  BY <1>1
<1>3. Len(s) + 1 \in DOMAIN Append(s, m) /\ \A i \in DOMAIN s : i \in DOMAIN Append(s, m)
  BY <1>1
<1>. QED
  BY <1>1, <1>2, <1>3 DEF Holds, Once

LEMMA HoldsTail ==
  ASSUME NEW S, NEW s \in Seq(S), s # <<>>, NEW c
  PROVE  /\ Holds(Tail(s), c) => Holds(s, c)
         /\ Holds(s, c) => Holds(Tail(s), c) \/ Head(s) = c
         /\ Once(s, c) => Once(Tail(s), c)
         /\ Once(s, c) /\ Head(s) = c => ~Holds(Tail(s), c)
         /\ Head(s) = c => Holds(s, c)
<1>1. /\ Len(s) \in Nat \ {0} /\ DOMAIN s = 1..Len(s) /\ Head(s) = s[1]
      /\ DOMAIN Tail(s) = 1..(Len(s) - 1)
      /\ \A i \in 1..(Len(s) - 1) : Tail(s)[i] = s[i + 1]
  OBVIOUS
<1>2. \A i \in DOMAIN Tail(s) : i + 1 \in DOMAIN s /\ i + 1 # 1 /\ Tail(s)[i] = s[i + 1]
  BY <1>1
<1>3. \A i \in DOMAIN s : i = 1 \/ (i - 1 \in DOMAIN Tail(s) /\ Tail(s)[i - 1] = s[i])
  BY <1>1
<1>4. 1 \in DOMAIN s
  BY <1>1
<1>5. \A i, j \in DOMAIN Tail(s) : i + 1 = j + 1 => i = j
  BY <1>1
<1>6. Head(s) = c => Holds(s, c)
  BY <1>1, <1>4 DEF Holds
<1>7. Holds(Tail(s), c) => Holds(s, c)
  BY <1>2 DEF Holds
<1>8. Holds(s, c) => Holds(Tail(s), c) \/ Head(s) = c
  BY <1>1, <1>3 DEF Holds
<1>9. Once(s, c) => Once(Tail(s), c)
  BY <1>2, <1>5 DEF Once
<1>10. Once(s, c) /\ Head(s) = c => ~Holds(Tail(s), c)
  <2>1. SUFFICES ASSUME Once(s, c), s[1] = c, NEW i \in DOMAIN Tail(s), Tail(s)[i] = c PROVE FALSE
    BY <1>1 DEF Holds
  <2>2. i + 1 \in DOMAIN s /\ i + 1 # 1 /\ s[i + 1] = c
    BY <2>1, <1>2
  <2>. QED
    BY <2>1, <2>2, <1>4 DEF Once
<1>. QED
  BY <1>6, <1>7, <1>8, <1>9, <1>10

LEMMA HoldsConcat ==
  ASSUME NEW S, NEW s \in Seq(S), NEW t \in Seq(S), NEW c, ~Holds(t, c)
  PROVE  /\ Holds(s \o t, c) <=> Holds(s, c)
         /\ Once(s, c) => Once(s \o t, c)
<1>1. /\ Len(s) \in Nat /\ DOMAIN s = 1..Len(s) /\ Len(t) \in Nat /\ DOMAIN t = 1..Len(t)
      /\ DOMAIN (s \o t) = 1..(Len(s) + Len(t))
      /\ \A i \in 1..Len(s) : (s \o t)[i] = s[i]
      /\ \A i \in 1..(Len(s) + Len(t)) : i > Len(s) => (s \o t)[i] = t[i - Len(s)]
  OBVIOUS
<1>2. \A i \in DOMAIN (s \o t) :
        i \in DOMAIN s \/ (i > Len(s) /\ i - Len(s) \in DOMAIN t)
  BY <1>1
<1>3. \A i \in DOMAIN (s \o t) : (s \o t)[i] = c => i \in DOMAIN s
  BY <1>1, <1>2 DEF Holds
<1>4. \A i \in DOMAIN s : i \in DOMAIN (s \o t)
  BY <1>1
<1>. QED
  BY <1>1, <1>3, <1>4 DEF Holds, Once

\* What sending a message does to the replies of a call.
LEMMA EmitOther ==
  ASSUME BridgeTypeOK, NEW b \in Apps, NEW m \in Lists \cup Calls, NEW c, m # c, Emit(b, m)
  PROVE  /\ KeptAt(c)' = KeptAt(c) /\ SentAt(c)' = SentAt(c)
         /\ RepliedOnce(c) => RepliedOnce(c)'
<1>1. /\ buffer \in [Apps -> Seq(Lists \cup Calls)] /\ up \in [Sockets -> Seq(Lists \cup Calls)]
      /\ sock[b] \in Sockets \cup {None}
  BY DEF BridgeTypeOK
<1>2. \A s \in Seq(Lists \cup Calls) :
        /\ Holds(Append(s, m), c) <=> Holds(s, c)
        /\ Once(s, c) => Once(Append(s, m), c)
  BY HoldsAppend
<1>3. /\ buffer' \in {buffer, [buffer EXCEPT ![b] = Append(@, m)]}
      /\ up' = up \/ (sock[b] \in Sockets /\ up' = [up EXCEPT ![sock[b]] = Append(@, m)])
  BY <1>1 DEF Emit
<1>4. ASSUME NEW a \in Apps
      PROVE  /\ Holds(buffer'[a], c) <=> Holds(buffer[a], c)
             /\ Once(buffer[a], c) => Once(buffer'[a], c)
  <2>1. buffer[a] \in Seq(Lists \cup Calls) /\ buffer'[a] \in {buffer[a], Append(buffer[a], m)}
    BY <1>1, <1>3
  <2>. QED
    BY <1>2, <2>1
<1>5. ASSUME NEW k \in Sockets
      PROVE  /\ Holds(up'[k], c) <=> Holds(up[k], c)
             /\ Once(up[k], c) => Once(up'[k], c)
  <2>1. up[k] \in Seq(Lists \cup Calls) /\ up'[k] \in {up[k], Append(up[k], m)}
    BY <1>1, <1>3
  <2>. QED
    BY <1>2, <2>1
<1>6. KeptAt(c)' = KeptAt(c) /\ SentAt(c)' = SentAt(c)
  BY <1>4, <1>5 DEF KeptAt, SentAt
<1>. QED
  BY <1>4, <1>5, <1>6 DEF RepliedOnce, Single

LEMMA EmitOwn ==
  ASSUME BridgeTypeOK, NEW b \in Apps, NEW c \in Calls, Emit(b, c), RepliedOnce(c), NotReplied(c)
  PROVE  RepliedOnce(c)'
<1>1. /\ buffer \in [Apps -> Seq(Lists \cup Calls)] /\ up \in [Sockets -> Seq(Lists \cup Calls)]
      /\ sock[b] \in Sockets \cup {None}
  BY DEF BridgeTypeOK
<1>2. /\ \A a \in Apps : ~Holds(buffer[a], c) /\ Once(buffer[a], c)
      /\ \A k \in Sockets : ~Holds(up[k], c) /\ Once(up[k], c)
  BY DEF NotReplied, KeptAt, SentAt, RepliedOnce
<1>3. \A s \in Seq(Lists \cup Calls) : ~Holds(s, c) /\ Once(s, c) => Once(Append(s, c), c)
  BY HoldsAppend
<1>4. CASE buffer' = [buffer EXCEPT ![b] = Append(@, c)] /\ up' = up
  <2>1. /\ \A a \in Apps : Once(buffer'[a], c) /\ (a # b => ~Holds(buffer'[a], c))
        /\ \A k \in Sockets : Once(up'[k], c) /\ ~Holds(up'[k], c)
    BY <1>1, <1>2, <1>3, <1>4
  <2>2. (\A a \in KeptAt(c)' : a = b) /\ SentAt(c)' = {}
    BY <2>1 DEF KeptAt, SentAt
  <2>. QED
    BY <2>1, <2>2 DEF RepliedOnce, Single
<1>5. CASE /\ sock[b] \in Sockets /\ up' \in {up, [up EXCEPT ![sock[b]] = Append(@, c)]}
           /\ buffer' = buffer
  <2>1. /\ \A k \in Sockets : Once(up'[k], c) /\ (k # sock[b] => ~Holds(up'[k], c))
        /\ \A a \in Apps : Once(buffer'[a], c) /\ ~Holds(buffer'[a], c)
    BY <1>1, <1>2, <1>3, <1>5
  <2>2. (\A k \in SentAt(c)' : k = sock[b]) /\ KeptAt(c)' = {}
    BY <2>1 DEF KeptAt, SentAt
  <2>. QED
    BY <2>1, <2>2 DEF RepliedOnce, Single
<1>. QED
  BY <1>1, <1>4, <1>5 DEF Emit

\* Messages that are lost, or stay.
LEMMA RepliesDropped ==
  ASSUME NEW c,
         \A b \in Apps : buffer'[b] \in {buffer[b], <<>>},
         \A k \in Sockets : up'[k] \in {up[k], <<>>}
  PROVE  /\ NotReplied(c) => NotReplied(c)'
         /\ RepliedOnce(c) => RepliedOnce(c)'
<1>1. ~Holds(<<>>, c) /\ Once(<<>>, c)
  BY DEF Holds, Once
<1>2. \A b \in Apps : /\ Holds(buffer'[b], c) => Holds(buffer[b], c)
                      /\ Once(buffer[b], c) => Once(buffer'[b], c)
  BY <1>1
<1>3. \A k \in Sockets : /\ Holds(up'[k], c) => Holds(up[k], c)
                         /\ Once(up[k], c) => Once(up'[k], c)
  BY <1>1
<1>4. KeptAt(c)' \subseteq KeptAt(c) /\ SentAt(c)' \subseteq SentAt(c)
  BY <1>2, <1>3 DEF KeptAt, SentAt
<1>. QED
  BY <1>2, <1>3, <1>4 DEF NotReplied, RepliedOnce, Single

\* A call that is, at most, lost or given up.
NothingNew(c) ==
  /\ AskedAt(c)' \subseteq AskedAt(c) /\ RunAt(c)' \subseteq RunAt(c)
  /\ NotReplied(c) => NotReplied(c)'
  /\ RepliedOnce(c) => RepliedOnce(c)'
  /\ call'[c] # call[c] => call[c] = "waiting" /\ call'[c] = "failed"

LEMMA LostOrNot ==
  ASSUME NEW c, InOnePlace(c), NothingNew(c)
  PROVE  /\ InOnePlace(c)'
         /\ WorkOn(c)' # WorkOn(c) => WorkOn(c)' = "over" /\ WorkOn(c) # "none"
<1>1. InOnePlace(c)'
  BY DEF InOnePlace, NothingNew, Single
<1>. QED
  BY <1>1, WorkIs DEF InOnePlace, NothingNew

\* A call the step has nothing to do with.
Unmoved(c) ==
  /\ AskedAt(c)' = AskedAt(c) /\ RunAt(c)' = RunAt(c)
  /\ NotReplied(c)' <=> NotReplied(c)
  /\ RepliedOnce(c) => RepliedOnce(c)'
  /\ call'[c] = call[c]

LEMMA UnmovedStays ==
  ASSUME NEW c, InOnePlace(c), Unmoved(c)
  PROVE  InOnePlace(c)' /\ WorkOn(c)' = WorkOn(c)
BY WorkIs DEF InOnePlace, Unmoved, Single

\* A step that only loses calls or gives them up.
LEMMA FailsStep ==
  ASSUME BridgeTypeOK, BridgeTypeOK', CallsInv, \A c \in Calls : NothingNew(c)
  PROVE  CallsInv' /\ RemoteCall!Next
<1>. DEFINE Lost == {c \in Calls : WorkOn(c)' # WorkOn(c)}
            GivenUp == {c \in Calls : call'[c] # call[c]}
<1>1. \A c \in Calls :
        /\ InOnePlace(c)'
        /\ WorkOn(c)' # WorkOn(c) => WorkOn(c)' = "over" /\ WorkOn(c) # "none"
  BY LostOrNot DEF CallsInv
<1>2. \A c \in Calls : call'[c] # call[c] => call[c] = "waiting" /\ call'[c] = "failed"
  BY DEF NothingNew
<1>3. [c \in Calls |-> WorkOn(c)'] =
        [c \in Calls |-> IF c \in Lost THEN "over" ELSE [d \in Calls |-> WorkOn(d)][c]]
  BY <1>1
<1>4. call' = [c \in Calls |-> IF c \in GivenUp THEN "failed" ELSE call[c]]
  BY <1>2 DEF BridgeTypeOK
<1>5. /\ \A c \in Lost : [d \in Calls |-> WorkOn(d)][c] # "none"
      /\ \A c \in GivenUp : call[c] = "waiting"
      /\ Lost \in SUBSET Calls /\ GivenUp \in SUBSET Calls
  BY <1>1, <1>2
<1>. HIDE DEF Lost, GivenUp
<1>6. RemoteCall!Fails(Lost, GivenUp)
  BY <1>3, <1>4, <1>5 DEF RemoteCall!Fails
<1>. QED
  BY <1>1, <1>5, <1>6 DEF CallsInv, RemoteCall!Next

\* A step of one call.
LEMMA OneCallStep ==
  ASSUME BridgeTypeOK, BridgeTypeOK', CallsInv, NEW c \in Calls,
         \A d \in Calls \ {c} : Unmoved(d), InOnePlace(c)',
         \/ /\ WorkOn(c) = "asked" /\ WorkOn(c)' \in {"running", "replied"} /\ call' = call
         \/ WorkOn(c) = "running" /\ WorkOn(c)' = "replied" /\ call' = call
         \/ /\ WorkOn(c) = "replied" /\ WorkOn(c)' = "over"
            /\ call' = IF call[c] = "waiting" THEN [call EXCEPT ![c] = "answered"] ELSE call
         \/ /\ call[c] = "idle" /\ WorkOn(c)' = "asked" /\ call' = [call EXCEPT ![c] = "waiting"]
         \/ /\ call[c] = "idle" /\ WorkOn(c)' = "over"
            /\ \E r \in {"waiting", "failed"} : call' = [call EXCEPT ![c] = r]
  PROVE  CallsInv' /\ RemoteCall!Next
<1>1. \A d \in Calls \ {c} : InOnePlace(d)' /\ WorkOn(d)' = WorkOn(d)
  BY UnmovedStays DEF CallsInv
<1>2. [d \in Calls |-> WorkOn(d)'] = [[d \in Calls |-> WorkOn(d)] EXCEPT ![c] = WorkOn(c)']
  BY <1>1
<1>3. [d \in Calls |-> WorkOn(d)][c] = WorkOn(c)
  OBVIOUS
<1>4. RemoteCall!Ask(c) \/ RemoteCall!Take(c) \/ RemoteCall!Reply(c) \/ RemoteCall!Deliver(c)
  BY <1>2, <1>3 DEF RemoteCall!Ask, RemoteCall!Take, RemoteCall!Reply, RemoteCall!Deliver
<1>. QED
  BY <1>1, <1>4 DEF CallsInv, RemoteCall!Next

LEMMA CallsInit == BridgeInit => CallsInv /\ RemoteCall!Init
<1>. SUFFICES ASSUME BridgeInit PROVE CallsInv /\ RemoteCall!Init
  OBVIOUS
<1>1. ASSUME NEW c \in Calls PROVE InOnePlace(c) /\ WorkOn(c) = "none" /\ call[c] = "idle"
  <2>1. ~Holds(<<>>, c) /\ Once(<<>>, c)
    BY DEF Holds, Once
  <2>2. AskedAt(c) = {} /\ RunAt(c) = {} /\ KeptAt(c) = {} /\ SentAt(c) = {} /\ call[c] = "idle"
    BY <2>1 DEF BridgeInit, AskedAt, RunAt, KeptAt, SentAt
  <2>3. RepliedOnce(c)
    BY <2>1, <2>2 DEF RepliedOnce, Single, BridgeInit
  <2>. QED
    BY <2>2, <2>3, WorkIs DEF InOnePlace, NotReplied, Single
<1>2. call = [c \in Calls |-> "idle"]
  BY DEF BridgeInit
<1>. QED
  BY <1>1, <1>2 DEF CallsInv, RemoteCall!Init

LEMMA CallsNext ==
  ASSUME BridgeInv, BridgeInv', CallsInv, BridgeNext
  PROVE  CallsInv' /\ RemoteCall!Next
<1>t. BridgeTypeOK /\ BridgeTypeOK'
  BY DEF BridgeInv
<1>u. /\ buffer \in [Apps -> Seq(Lists \cup Calls)] /\ up \in [Sockets -> Seq(Lists \cup Calls)]
      /\ asked \in [Sockets -> SUBSET Calls] /\ running \in [Apps -> SUBSET Calls]
      /\ call \in [Calls -> {"idle", "waiting", "answered", "failed"}]
      /\ sock \in [Apps -> Sockets \cup {None}] /\ userSocket \in Sockets \cup {None}
  BY <1>t DEF BridgeTypeOK
<1>l. \A c \in Calls : c \notin Lists
  BY CallsAreNoLists DEF Lists
<1>1. ASSUME NEW b \in Apps, StartApp(b) \/ Quit(b) \/ Spawn(b) \/ Exit(b)
      PROVE  CallsInv' /\ RemoteCall!Next
  <2>1. UNCHANGED <<asked, running, buffer, up, call>>
    BY <1>1 DEF StartApp, Quit, Spawn, Exit, server
  <2>2. \A c \in Calls : NothingNew(c)
    BY <2>1, RepliesDropped DEF NothingNew, AskedAt, RunAt
  <2>. QED
    BY <2>2, <1>t, FailsStep
<1>2. ASSUME NEW b \in Apps, Connect(b) PROVE CallsInv' /\ RemoteCall!Next
  <2>. DEFINE k == NewSocket
              t == IF proc[b] = "none" THEN <<>> ELSE <<ListOf(b)>>
  <2>1. k \in Sockets
    BY <1>2 DEF Connect, MayConnect, NewSocket
  <2>2. /\ up' = [j \in Sockets |->
             IF j = k THEN buffer[b] \o t ELSE IF j = userSocket THEN <<>> ELSE up[j]]
        /\ buffer' = [buffer EXCEPT ![b] = <<>>]
        /\ UNCHANGED <<running, call>>
    BY <1>2 DEF Connect, HasSocket, Greeting
  <2>5. \A j \in Sockets : asked'[j] \subseteq asked[j]
    BY <1>2, <1>u DEF Connect, Unheard
  <2>3. t \in Seq(Lists \cup Calls) /\ \A c \in Calls : ~Holds(t, c)
    <3>1. ListOf(b) \in Lists
      BY DEF ListOf, Lists
    <3>2. <<ListOf(b)>> \in Seq(Lists \cup Calls) /\ <<>> \in Seq(Lists \cup Calls)
      BY <3>1
    <3>3. \A c \in Calls : ~Holds(<<ListOf(b)>>, c) /\ ~Holds(<<>>, c)
      BY <3>1, <1>l DEF Holds
    <3>. QED
      BY <3>2, <3>3
  <2>. HIDE DEF k, t
  <2>4. ASSUME NEW c \in Calls PROVE NothingNew(c)
    <3>1. /\ buffer[b] \in Seq(Lists \cup Calls)
          /\ Holds(buffer[b] \o t, c) <=> Holds(buffer[b], c)
          /\ Once(buffer[b], c) => Once(buffer[b] \o t, c)
      <4>1. buffer[b] \in Seq(Lists \cup Calls)
        BY <1>u
      <4>. QED
        BY <4>1, <2>3, HoldsConcat
    <3>2. ~Holds(<<>>, c) /\ Once(<<>>, c)
      BY DEF Holds, Once
    <3>3. \A a \in Apps : buffer'[a] = IF a = b THEN <<>> ELSE buffer[a]
      BY <2>2, <1>u
    <3>4. \A j \in Sockets :
            up'[j] = IF j = k THEN buffer[b] \o t ELSE IF j = userSocket THEN <<>> ELSE up[j]
      BY <2>2
    <3>5. KeptAt(c)' = KeptAt(c) \ {b}
      BY <3>2, <3>3 DEF KeptAt
    <3>6. /\ Holds(buffer[b], c) => k \in SentAt(c)'
          /\ \A j \in SentAt(c)' : j \in SentAt(c) \/ j = k
          /\ ~Holds(buffer[b], c) => SentAt(c)' \subseteq SentAt(c)
      BY <3>1, <3>2, <3>4, <2>1 DEF SentAt
    <3>7. b \in KeptAt(c) <=> Holds(buffer[b], c)
      BY DEF KeptAt
    <3>8. NotReplied(c) => NotReplied(c)'
      BY <3>5, <3>6, <3>7 DEF NotReplied
    <3>9. ASSUME RepliedOnce(c) PROVE RepliedOnce(c)'
      <4>1. \A a \in Apps : Once(buffer'[a], c)
        BY <3>2, <3>3, <3>9 DEF RepliedOnce
      <4>2. \A j \in Sockets : Once(up'[j], c)
        BY <3>1, <3>2, <3>4, <3>9 DEF RepliedOnce
      <4>3. CASE Holds(buffer[b], c)
        <5>1. KeptAt(c)' = {} /\ SentAt(c) = {}
          BY <4>3, <3>5, <3>7, <3>9 DEF RepliedOnce, Single
        <5>. QED
          BY <5>1, <3>6, <4>1, <4>2 DEF RepliedOnce, Single
      <4>4. CASE ~Holds(buffer[b], c)
        BY <4>4, <3>5, <3>6, <3>9, <4>1, <4>2 DEF RepliedOnce, Single
      <4>. QED
        BY <4>3, <4>4
    <3>. QED
      BY <3>8, <3>9, <2>2, <2>5 DEF NothingNew, AskedAt, RunAt
  <2>. QED
    BY <2>4, <1>t, FailsStep
<1>3. ASSUME NEW b \in Apps, Drop(b) \/ Kicked(b) PROVE CallsInv' /\ RemoteCall!Next
  <2>1. /\ UNCHANGED <<running, buffer, up, call>>
        /\ asked' = [asked EXCEPT ![sock[b]] = {}]
    BY <1>3 DEF Drop, Kicked, Lose, server
  <2>2. \A j \in Sockets : asked'[j] \subseteq asked[j]
    BY <2>1, <1>u
  <2>3. \A c \in Calls : NothingNew(c)
    BY <2>1, <2>2, RepliesDropped DEF NothingNew, AskedAt, RunAt
  <2>. QED
    BY <2>3, <1>t, FailsStep
<1>13. ASSUME NEW b \in Apps, Refuse(b) PROVE CallsInv' /\ RemoteCall!Next
  <2>1. /\ UNCHANGED <<up, running, call>> /\ buffer' = [buffer EXCEPT ![b] = <<>>]
        /\ asked' = [asked EXCEPT ![sock[b]] = {}]
    BY <1>13 DEF Refuse, HasSocket, Unheard, server
  <2>2. /\ \A j \in Sockets : asked'[j] \subseteq asked[j]
        /\ \A a \in Apps : buffer'[a] \in {buffer[a], <<>>}
    BY <2>1, <1>u
  <2>3. \A c \in Calls : NothingNew(c)
    BY <2>1, <2>2, RepliesDropped DEF NothingNew, AskedAt, RunAt
  <2>. QED
    BY <2>3, <1>t, FailsStep
<1>4. ASSUME NEW b \in Apps, QuitEnd(b) PROVE CallsInv' /\ RemoteCall!Next
  <2>1. /\ UNCHANGED <<up, call>> /\ buffer' = [buffer EXCEPT ![b] = <<>>]
        /\ running' = [running EXCEPT ![b] = {}]
        /\ asked' = [asked EXCEPT ![sock[b]] = {}] \/ asked' = asked
    BY <1>4 DEF QuitEnd, Lose, server
  <2>2. /\ \A j \in Sockets : asked'[j] \subseteq asked[j]
        /\ \A a \in Apps : running'[a] \subseteq running[a] /\ buffer'[a] \in {buffer[a], <<>>}
    BY <2>1, <1>u
  <2>3. \A c \in Calls : NothingNew(c)
    BY <2>1, <2>2, RepliesDropped DEF NothingNew, AskedAt, RunAt
  <2>. QED
    BY <2>3, <1>t, FailsStep
<1>5. ASSUME NEW b \in Apps, Ready(b) PROVE CallsInv' /\ RemoteCall!Next
  <2>1. Emit(b, "listed") /\ "listed" \in Lists /\ UNCHANGED <<asked, running, call>>
    BY <1>5 DEF Ready, server, Lists
  <2>2. ASSUME NEW c \in Calls PROVE NothingNew(c)
    <3>1. /\ KeptAt(c)' = KeptAt(c) /\ SentAt(c)' = SentAt(c)
          /\ RepliedOnce(c) => RepliedOnce(c)'
      BY <2>1, <1>t, <1>l, EmitOther
    <3>. QED
      BY <3>1, <2>1 DEF NothingNew, AskedAt, RunAt, NotReplied
  <2>. QED
    BY <2>2, <1>t, FailsStep
<1>6. ASSUME NEW b \in Apps, NEW c \in Calls, TakeCall(b, c) PROVE CallsInv' /\ RemoteCall!Next
  <2>. DEFINE k == sock[b]
  <2>1. k \in Sockets /\ c \in asked[k] /\ asked' = [asked EXCEPT ![k] = @ \ {c}] /\ call' = call
    BY <1>6, <1>u DEF TakeCall, server
  <2>. HIDE DEF k
  <2>2. /\ InOnePlace(c) /\ AskedAt(c) = {k} /\ RunAt(c) = {} /\ NotReplied(c)
        /\ AskedAt(c)' = {} /\ call[c] # "idle"
    BY <2>1, <1>u DEF CallsInv, InOnePlace, AskedAt, Single
  <2>3. \A d \in Calls \ {c} : AskedAt(d)' = AskedAt(d)
    BY <2>1, <1>u DEF AskedAt
  <2>4. CASE running' = [running EXCEPT ![b] = @ \cup {c}] /\ UNCHANGED <<up, buffer>>
    <3>1. RunAt(c)' = {b} /\ \A d \in Calls \ {c} : RunAt(d)' = RunAt(d)
      BY <2>2, <2>4, <1>u DEF RunAt
    <3>2. \A d \in Calls : KeptAt(d)' = KeptAt(d) /\ SentAt(d)' = SentAt(d)
      BY <2>4 DEF KeptAt, SentAt
    <3>3. \A d \in Calls : RepliedOnce(d) => RepliedOnce(d)'
      BY <2>4, <3>2 DEF RepliedOnce
    <3>4. \A d \in Calls \ {c} : Unmoved(d)
      BY <2>1, <2>3, <3>1, <3>2, <3>3 DEF Unmoved, NotReplied
    <3>5. InOnePlace(c)' /\ WorkOn(c) = "asked" /\ WorkOn(c)' = "running"
      BY <2>1, <2>2, <3>1, <3>2, <3>3, WorkIs DEF InOnePlace, NotReplied, Single
    <3>. QED
      BY <3>4, <3>5, <2>1, <1>t, OneCallStep
  <2>5. CASE Emit(b, c) /\ UNCHANGED running
    <3>1. \A d \in Calls : RunAt(d)' = RunAt(d)
      BY <2>5 DEF RunAt
    <3>2. RepliedOnce(c)'
      BY <2>2, <2>5, <1>t, EmitOwn DEF InOnePlace
    <3>3. \A d \in Calls \ {c} : /\ KeptAt(d)' = KeptAt(d) /\ SentAt(d)' = SentAt(d)
                                 /\ RepliedOnce(d) => RepliedOnce(d)'
      BY <2>5, <1>t, EmitOther
    <3>4. \A d \in Calls \ {c} : Unmoved(d)
      BY <2>1, <2>3, <3>1, <3>3 DEF Unmoved, NotReplied
    <3>5. InOnePlace(c)' /\ WorkOn(c) = "asked"
      BY <2>1, <2>2, <3>1, <3>2, WorkIs DEF InOnePlace, Single
    <3>6. CASE ~NotReplied(c)'
      <4>1. WorkOn(c)' = "replied"
        BY <2>2, <3>1, <3>6, WorkIs
      <4>. QED
        BY <4>1, <3>4, <3>5, <2>1, <1>t, OneCallStep
    <3>7. CASE NotReplied(c)'
      <4>1. NothingNew(c)
        BY <2>1, <2>2, <3>1, <3>2, <3>7 DEF NothingNew
      <4>2. \A d \in Calls : NothingNew(d)
        BY <3>4, <4>1 DEF NothingNew, Unmoved
      <4>. QED
        BY <4>2, <1>t, FailsStep
    <3>. QED
      BY <3>6, <3>7
  <2>. QED
    BY <1>6, <2>4, <2>5 DEF TakeCall
<1>7. ASSUME NEW b \in Apps, NEW c \in Calls, Answer(b, c) PROVE CallsInv' /\ RemoteCall!Next
  <2>1. /\ c \in running[b] /\ running' = [running EXCEPT ![b] = @ \ {c}]
        /\ Emit(b, c) /\ asked' = asked /\ call' = call
    BY <1>7 DEF Answer, server
  <2>2. /\ InOnePlace(c) /\ RunAt(c) = {b} /\ AskedAt(c) = {} /\ NotReplied(c)
        /\ RunAt(c)' = {} /\ call[c] # "idle"
    BY <2>1, <1>u DEF CallsInv, InOnePlace, RunAt, Single
  <2>3. \A d \in Calls \ {c} : RunAt(d)' = RunAt(d)
    BY <2>1, <1>u DEF RunAt
  <2>4. \A d \in Calls : AskedAt(d)' = AskedAt(d)
    BY <2>1 DEF AskedAt
  <2>5. RepliedOnce(c)'
    BY <2>1, <2>2, <1>t, EmitOwn DEF InOnePlace
  <2>6. \A d \in Calls \ {c} : /\ KeptAt(d)' = KeptAt(d) /\ SentAt(d)' = SentAt(d)
                               /\ RepliedOnce(d) => RepliedOnce(d)'
    BY <2>1, <1>t, EmitOther
  <2>7. \A d \in Calls \ {c} : Unmoved(d)
    BY <2>1, <2>3, <2>4, <2>6 DEF Unmoved, NotReplied
  <2>8. InOnePlace(c)' /\ WorkOn(c) = "running"
    BY <2>1, <2>2, <2>4, <2>5, WorkIs DEF InOnePlace, Single
  <2>9. CASE ~NotReplied(c)'
    <3>1. WorkOn(c)' = "replied"
      BY <2>2, <2>4, <2>9, WorkIs
    <3>. QED
      BY <3>1, <2>1, <2>7, <2>8, <1>t, OneCallStep
  <2>10. CASE NotReplied(c)'
    <3>1. NothingNew(c)
      BY <2>1, <2>2, <2>4, <2>5, <2>10 DEF NothingNew
    <3>2. \A d \in Calls : NothingNew(d)
      BY <2>7, <3>1 DEF NothingNew, Unmoved
    <3>. QED
      BY <3>2, <1>t, FailsStep
  <2>. QED
    BY <2>9, <2>10
<1>8. ASSUME NEW k \in Sockets, Disconnected(k) PROVE CallsInv' /\ RemoteCall!Next
  <2>1. UNCHANGED <<asked, running, buffer, call>> /\ up' = [up EXCEPT ![k] = <<>>]
    BY <1>8 DEF Disconnected, client
  <2>2. \A j \in Sockets : up'[j] \in {up[j], <<>>}
    BY <2>1, <1>u
  <2>3. \A c \in Calls : NothingNew(c)
    BY <2>1, <2>2, RepliesDropped DEF NothingNew, AskedAt, RunAt
  <2>. QED
    BY <2>3, <1>t, FailsStep
<1>9. ASSUME NEW k \in Sockets, Receive(k) PROVE CallsInv' /\ RemoteCall!Next
  <2>. DEFINE m == Head(up[k])
  <2>1. /\ up[k] \in Seq(Lists \cup Calls) /\ up[k] # <<>> /\ m \in Lists \cup Calls
        /\ up' = [up EXCEPT ![k] = Tail(up[k])] /\ UNCHANGED <<asked, running, buffer>>
    BY <1>9, <1>u DEF Receive, client
  <2>2. \/ m \in Lists /\ UNCHANGED call
        \/ m \in Calls /\ call' = IF call[m] = "waiting" THEN [call EXCEPT ![m] = "answered"] ELSE call
    BY <1>9 DEF Receive
  <2>3. ASSUME NEW c
        PROVE  /\ Holds(up'[k], c) => Holds(up[k], c)
               /\ Holds(up[k], c) => Holds(up'[k], c) \/ m = c
               /\ Once(up[k], c) => Once(up'[k], c)
               /\ Once(up[k], c) /\ m = c => ~Holds(up'[k], c)
               /\ m = c => Holds(up[k], c)
    <3>1. up'[k] = Tail(up[k])
      BY <2>1, <1>u
    <3>. QED
      BY <3>1, <2>1, HoldsTail
  <2>. HIDE DEF m
  <2>4. \A j \in Sockets \ {k} : up'[j] = up[j]
    BY <2>1, <1>u
  <2>5. \A c \in Calls : AskedAt(c)' = AskedAt(c) /\ RunAt(c)' = RunAt(c) /\ KeptAt(c)' = KeptAt(c)
    BY <2>1 DEF AskedAt, RunAt, KeptAt
  <2>6. ASSUME NEW c \in Calls
        PROVE  /\ SentAt(c)' \subseteq SentAt(c)
               /\ m # c => SentAt(c)' = SentAt(c)
               /\ RepliedOnce(c) => RepliedOnce(c)'
    <3>1. SentAt(c)' \subseteq SentAt(c) /\ (m # c => SentAt(c)' = SentAt(c))
      BY <2>3, <2>4 DEF SentAt
    <3>2. \A j \in Sockets : Once(up[j], c) => Once(up'[j], c)
      BY <2>3, <2>4
    <3>. QED
      BY <3>1, <3>2, <2>1, <2>5 DEF RepliedOnce, Single
  <2>7. CASE m \in Lists /\ UNCHANGED call
    <3>1. \A c \in Calls : NothingNew(c)
      BY <2>5, <2>6, <2>7 DEF NothingNew, NotReplied
    <3>. QED
      BY <3>1, <1>t, FailsStep
  <2>8. ASSUME NEW c \in Calls, m = c,
               call' = IF call[c] = "waiting" THEN [call EXCEPT ![c] = "answered"] ELSE call
        PROVE  CallsInv' /\ RemoteCall!Next
    <3>1. \A d \in Calls \ {c} : Unmoved(d)
      BY <2>5, <2>6, <2>8, <1>u DEF Unmoved, NotReplied
    <3>2. InOnePlace(c) /\ k \in SentAt(c)
      BY <2>3, <2>8 DEF CallsInv, SentAt
    <3>3. /\ AskedAt(c) = {} /\ RunAt(c) = {} /\ ~NotReplied(c) /\ call[c] # "idle"
          /\ KeptAt(c) = {} /\ SentAt(c) = {k} /\ Once(up[k], c)
      BY <3>2 DEF InOnePlace, NotReplied, RepliedOnce, Single, SentAt
    <3>4. NotReplied(c)'
      <4>1. ~Holds(up'[k], c)
        BY <3>3, <2>3, <2>8
      <4>2. SentAt(c)' = {}
        BY <4>1, <3>3, <2>6 DEF SentAt
      <4>. QED
        BY <4>2, <3>3, <2>5 DEF NotReplied
    <3>5. call'[c] # "idle"
      BY <3>3, <2>8, <1>u
    <3>6. InOnePlace(c)' /\ WorkOn(c) = "replied" /\ WorkOn(c)' = "over"
      BY <3>2, <3>3, <3>4, <3>5, <2>5, <2>6, WorkIs DEF InOnePlace, Single
    <3>. QED
      BY <3>1, <3>6, <2>8, <1>t, OneCallStep
  <2>. QED
    BY <2>2, <2>7, <2>8
<1>10. ASSUME NEW c \in Calls, Dispatch(c) PROVE CallsInv' /\ RemoteCall!Next
  <2>1. call[c] = "idle" /\ UNCHANGED <<running, buffer, up>>
    BY <1>10 DEF Dispatch, client
  <2>2. /\ InOnePlace(c) /\ AskedAt(c) = {} /\ RunAt(c) = {} /\ NotReplied(c)
    BY <2>1 DEF CallsInv, InOnePlace
  <2>3. \A d \in Calls : /\ RunAt(d)' = RunAt(d) /\ KeptAt(d)' = KeptAt(d) /\ SentAt(d)' = SentAt(d)
                         /\ RepliedOnce(d) => RepliedOnce(d)'
    BY <2>1 DEF RunAt, KeptAt, SentAt, RepliedOnce
  <2>4. CASE \E r \in {"waiting", "failed"} : call' = [call EXCEPT ![c] = r] /\ asked' = asked
    <3>1. \A d \in Calls : AskedAt(d)' = AskedAt(d)
      BY <2>4 DEF AskedAt
    <3>2. \A d \in Calls \ {c} : Unmoved(d)
      BY <2>3, <2>4, <3>1, <1>u DEF Unmoved, NotReplied
    <3>3. call'[c] # "idle"
      BY <2>4, <1>u
    <3>4. InOnePlace(c)' /\ WorkOn(c)' = "over"
      BY <2>2, <2>3, <3>1, <3>3, WorkIs DEF InOnePlace, NotReplied, Single
    <3>. QED
      BY <2>1, <2>4, <3>2, <3>4, <1>t, OneCallStep
  <2>5. CASE /\ userSocket \in Sockets /\ call' = [call EXCEPT ![c] = "waiting"]
             /\ asked' = [asked EXCEPT ![userSocket] = @ \cup {c}]
    <3>1. AskedAt(c)' = {userSocket} /\ \A d \in Calls \ {c} : AskedAt(d)' = AskedAt(d)
      BY <2>2, <2>5, <1>u DEF AskedAt
    <3>2. \A d \in Calls \ {c} : Unmoved(d)
      BY <2>3, <2>5, <3>1, <1>u DEF Unmoved, NotReplied
    <3>3. call'[c] # "idle"
      BY <2>5, <1>u
    <3>4. InOnePlace(c)' /\ WorkOn(c)' = "asked"
      BY <2>2, <2>3, <3>1, <3>3, WorkIs DEF InOnePlace, NotReplied, Single
    <3>. QED
      BY <2>1, <2>5, <3>2, <3>4, <1>t, OneCallStep
  <2>. QED
    BY <1>10, <2>4, <2>5, <1>u DEF Dispatch
<1>11. ASSUME NEW c \in Calls, Timeout(c) PROVE CallsInv' /\ RemoteCall!Next
  <2>1. /\ UNCHANGED <<asked, running, buffer, up>>
        /\ call[c] = "waiting" /\ call' = [call EXCEPT ![c] = "failed"]
    BY <1>11 DEF Timeout, client
  <2>2. \A d \in Calls : call'[d] # call[d] => call[d] = "waiting" /\ call'[d] = "failed"
    BY <2>1, <1>u
  <2>3. \A d \in Calls : NothingNew(d)
    BY <2>1, <2>2, RepliesDropped DEF NothingNew, AskedAt, RunAt
  <2>. QED
    BY <2>3, <1>t, FailsStep
<1>12. CASE GatewayRestart
  <2>1. /\ UNCHANGED <<running, buffer>> /\ up' = [k \in Sockets |-> <<>>]
        /\ asked' = [k \in Sockets |-> {}]
        /\ \A d \in Calls : call'[d] # call[d] => call[d] = "waiting" /\ call'[d] = "failed"
    BY <1>12 DEF GatewayRestart, client
  <2>2. \A d \in Calls : NothingNew(d)
    BY <2>1, RepliesDropped DEF NothingNew, AskedAt, RunAt
  <2>. QED
    BY <2>2, <1>t, FailsStep
<1>. QED
  BY <1>1, <1>2, <1>3, <1>4, <1>5, <1>6, <1>7, <1>8, <1>9, <1>10, <1>11, <1>12, <1>13
  DEF BridgeNext, BridgeStep

LEMMA CallsStep ==
  ASSUME BridgeInv, BridgeInv', CallsInv, [BridgeNext]_bridgeVars
  PROVE  CallsInv' /\ [RemoteCall!Next]_(RemoteCall!vars)
<1>1. CASE BridgeNext
  BY <1>1, CallsNext
<1>2. CASE UNCHANGED bridgeVars
  <2>1. UNCHANGED <<asked, running, buffer, up, call>>
    BY <1>2 DEF bridgeVars
  <2>2. \A c \in Calls : NothingNew(c)
    BY <2>1, RepliesDropped DEF NothingNew, AskedAt, RunAt
  <2>. QED
    BY <2>2, FailsStep DEF BridgeInv
<1>. QED
  BY <1>1, <1>2

\* Whatever connections are lost, replaced and made anew under it, a call is run at most once,
\* answered only by what that run replied, and settled once.
THEOREM CallsImplementRemoteCall == BridgeSpec => ImplementsRemoteCall
<1>1. BridgeInv /\ BridgeInv' /\ CallsInv /\ [BridgeNext]_bridgeVars =>
        CallsInv' /\ [RemoteCall!Next]_(RemoteCall!vars)
  BY CallsStep
<1>. QED
  BY <1>1, BridgeInitInv, BridgeNextInv, CallsInit, PTL
  DEF BridgeSpec, ImplementsRemoteCall, RemoteCall!SafeSpec
--------------------------------------------------------------------------------
(***************************************************************************)
(* Tools come back: what an app's connection will make of its list.        *)
(***************************************************************************)
AnnounceInv ==
  /\ ToolsAnnounced
  /\ \A b \in Apps : known[b] => proc[b] # "none"
  /\ \A b \in Apps : ~Holds(buffer[b], "empty")

\* How the list that comes last changes as messages come and go.
LEMMA LastOfAppend ==
  ASSUME NEW S, NEW s \in Seq(S), NEW m \in S, m # "empty"
  PROVE  /\ LastListed(s) => LastListed(Append(s, m))
         /\ m = "listed" => LastListed(Append(s, m))
<1>1. /\ Len(s) \in Nat /\ DOMAIN s = 1..Len(s)
      /\ DOMAIN Append(s, m) = 1..(Len(s) + 1)
      /\ \A i \in 1..Len(s) : Append(s, m)[i] = s[i]
      /\ Append(s, m)[Len(s) + 1] = m
  OBVIOUS
<1>2. ASSUME LastListed(s) PROVE LastListed(Append(s, m))
  <2>1. PICK i \in DOMAIN s : s[i] = "listed" /\ \A j \in DOMAIN s : j > i => s[j] # "empty"
    BY <1>2 DEF LastListed
  <2>2. i \in DOMAIN Append(s, m) /\ Append(s, m)[i] = "listed"
    BY <2>1, <1>1
  <2>3. \A j \in DOMAIN Append(s, m) : j > i => Append(s, m)[j] # "empty"
    BY <2>1, <1>1
  <2>. QED
    BY <2>2, <2>3 DEF LastListed
<1>3. ASSUME m = "listed" PROVE LastListed(Append(s, m))
  <2>1. /\ Len(s) + 1 \in DOMAIN Append(s, m)
        /\ \A j \in DOMAIN Append(s, m) : ~(j > Len(s) + 1)
    BY <1>1
  <2>. QED
    BY <1>1, <1>3, <2>1 DEF LastListed
<1>. QED
  BY <1>2, <1>3

LEMMA LastOfTail ==
  ASSUME NEW S, NEW s \in Seq(S), s # <<>>
  PROVE  /\ LastListed(s) => LastListed(Tail(s)) \/ (Head(s) = "listed" /\ ~Holds(Tail(s), "empty"))
         /\ ~Holds(s, "empty") => ~Holds(Tail(s), "empty") /\ Head(s) # "empty"
<1>1. /\ Len(s) \in Nat \ {0} /\ DOMAIN s = 1..Len(s) /\ Head(s) = s[1]
      /\ DOMAIN Tail(s) = 1..(Len(s) - 1)
      /\ \A i \in 1..(Len(s) - 1) : Tail(s)[i] = s[i + 1]
  OBVIOUS
<1>2. ASSUME LastListed(s)
      PROVE  LastListed(Tail(s)) \/ (Head(s) = "listed" /\ ~Holds(Tail(s), "empty"))
  <2>1. PICK i \in DOMAIN s : s[i] = "listed" /\ \A j \in DOMAIN s : j > i => s[j] # "empty"
    BY <1>2 DEF LastListed
  <2>2. CASE i = 1
    <3>1. \A j \in DOMAIN Tail(s) : Tail(s)[j] # "empty"
      <4>1. TAKE j \in DOMAIN Tail(s)
      <4>2. j + 1 \in DOMAIN s /\ j + 1 > i /\ Tail(s)[j] = s[j + 1]
        BY <1>1, <2>2
      <4>. QED
        BY <4>2, <2>1
    <3>. QED
      BY <3>1, <2>1, <2>2, <1>1 DEF Holds
  <2>3. CASE i # 1
    <3>1. i - 1 \in DOMAIN Tail(s) /\ Tail(s)[i - 1] = "listed"
      BY <2>1, <2>3, <1>1
    <3>2. \A j \in DOMAIN Tail(s) : j > i - 1 => Tail(s)[j] # "empty"
      <4>1. TAKE j \in DOMAIN Tail(s)
      <4>2. j + 1 \in DOMAIN s /\ Tail(s)[j] = s[j + 1] /\ (j > i - 1 => j + 1 > i)
        BY <1>1
      <4>. QED
        BY <4>2, <2>1
    <3>. QED
      BY <3>1, <3>2 DEF LastListed
  <2>. QED
    BY <2>2, <2>3
<1>3. ASSUME ~Holds(s, "empty") PROVE ~Holds(Tail(s), "empty") /\ Head(s) # "empty"
  BY <1>3, HoldsTail
<1>. QED
  BY <1>2, <1>3

\* Sending something else than an empty list.
LEMMA EmitAnnounces ==
  ASSUME BridgeInv, AnnounceInv, NEW b \in Apps, NEW m \in Lists \cup Calls, m # "empty",
         Emit(b, m), UNCHANGED <<sock, link, bridgeTools>>,
         \A a \in Apps \ {b} : known'[a] = known[a],
         m = "listed" \/ known'[b] = known[b]
  PROVE  ToolsAnnounced' /\ \A a \in Apps : ~Holds(buffer'[a], "empty")
<1>1. /\ buffer \in [Apps -> Seq(Lists \cup Calls)] /\ up \in [Sockets -> Seq(Lists \cup Calls)]
      /\ sock \in [Apps -> Sockets \cup {None}]
  BY DEF BridgeInv, BridgeTypeOK
<1>2. ASSUME NEW a \in Apps PROVE ~Holds(buffer'[a], "empty")
  <2>1. buffer[a] \in Seq(Lists \cup Calls) /\ buffer'[a] \in {buffer[a], Append(buffer[a], m)}
    BY <1>1 DEF Emit
  <2>2. ~Holds(buffer[a], "empty")
    BY DEF AnnounceInv
  <2>3. ~Holds(Append(buffer[a], m), "empty")
    <3>1. Holds(Append(buffer[a], m), "empty") <=> Holds(buffer[a], "empty") \/ m = "empty"
      BY <2>1, HoldsAppend
    <3>. QED
      BY <3>1, <2>2
  <2>. QED
    BY <2>1, <2>2, <2>3
<1>3. ASSUME NEW a \in Apps, known'[a], sock[a] # None, link[sock[a]] = "open"
      PROVE  Announced(sock[a])'
  <2>. DEFINE k == sock[a]
  <2>1. k \in Sockets /\ up[k] \in Seq(Lists \cup Calls)
    BY <1>1, <1>3
  <2>2. CASE a = b
    <3>1. up'[k] = Append(up[k], m)
      BY <2>2, <1>1, <1>3, <2>1 DEF Emit
    <3>2. /\ LastListed(up[k]) => LastListed(up'[k])
          /\ m = "listed" => LastListed(up'[k])
          /\ ~Holds(up[k], "empty") => ~Holds(up'[k], "empty")
      BY <3>1, <2>1, LastOfAppend, HoldsAppend
    <3>3. m = "listed" \/ Announced(k)
      BY <2>2, <1>3 DEF AnnounceInv, ToolsAnnounced
    <3>4. sock'[a] = k /\ bridgeTools' = bridgeTools
      OBVIOUS
    <3>. QED
      BY <3>2, <3>3, <3>4 DEF Announced
  <2>3. CASE a # b
    <3>1. k # sock[b]
      BY <2>3, <1>3 DEF BridgeInv, SocketsInv
    <3>2. up'[k] = up[k]
      BY <3>1, <2>1, <1>1 DEF Emit
    <3>3. Announced(k)
      BY <2>3, <1>3 DEF AnnounceInv, ToolsAnnounced
    <3>4. sock'[a] = k /\ bridgeTools' = bridgeTools
      OBVIOUS
    <3>. QED
      BY <3>2, <3>3, <3>4 DEF Announced
  <2>. QED
    BY <2>2, <2>3
<1>. QED
  BY <1>2, <1>3 DEF ToolsAnnounced

LEMMA AnnounceInit == BridgeInit => AnnounceInv
BY DEF BridgeInit, AnnounceInv, ToolsAnnounced, Holds

\* Where each app's list and connection are as before, or gone, the rest being as before.
LEMMA AnnouncedStill ==
  ASSUME AnnounceInv,
         \A b \in Apps : known'[b] => known[b] /\ proc'[b] # "none",
         \A b \in Apps : known'[b] /\ sock'[b] # None /\ link'[sock'[b]] = "open" =>
           /\ sock'[b] = sock[b] /\ link[sock[b]] = "open" /\ up'[sock[b]] = up[sock[b]],
         \A b \in Apps : buffer'[b] \in {buffer[b], <<>>},
         bridgeTools' = bridgeTools
  PROVE  AnnounceInv'
<1>1. ~Holds(<<>>, "empty")
  BY DEF Holds
<1>2. \A b \in Apps : ~Holds(buffer'[b], "empty")
  BY <1>1 DEF AnnounceInv
<1>3. ASSUME NEW b \in Apps, known'[b], sock'[b] # None, link'[sock'[b]] = "open"
      PROVE  Announced(sock[b])' /\ sock'[b] = sock[b]
  <2>1. /\ sock'[b] = sock[b] /\ link[sock[b]] = "open" /\ up'[sock[b]] = up[sock[b]] /\ known[b]
    BY <1>3
  <2>2. Announced(sock[b])
    BY <2>1, <1>3 DEF AnnounceInv, ToolsAnnounced
  <2>. QED
    BY <2>1, <2>2 DEF Announced
<1>4. ToolsAnnounced'
  BY <1>3 DEF ToolsAnnounced
<1>. QED
  BY <1>2, <1>4 DEF AnnounceInv

LEMMA AnnounceNext ==
  ASSUME BridgeInv, AnnounceInv, [BridgeNext]_bridgeVars
  PROVE  AnnounceInv'
<1>t. /\ buffer \in [Apps -> Seq(Lists \cup Calls)] /\ up \in [Sockets -> Seq(Lists \cup Calls)]
      /\ sock \in [Apps -> Sockets \cup {None}] /\ userSocket \in Sockets \cup {None}
      /\ link \in [Sockets -> {"free", "open", "half", "kicked", "closed"}]
      /\ known \in [Apps -> BOOLEAN] /\ proc \in [Apps -> ProcStates]
  BY DEF BridgeInv, BridgeTypeOK
<1>o. \A k \in Sockets : link[k] \in {"open", "half"} => userSocket = k
  BY DEF BridgeInv, OneBridge
<1>1. ASSUME NEW b \in Apps, StartApp(b) \/ Quit(b) \/ Spawn(b) \/ Exit(b) PROVE AnnounceInv'
  <2>1. UNCHANGED <<sock, link, up, buffer, known, bridgeTools>>
    BY <1>1 DEF StartApp, Quit, Spawn, Exit, server
  <2>2. \A a \in Apps : known'[a] => known[a] /\ proc'[a] # "none"
    BY <1>1, <1>t DEF StartApp, Quit, Spawn, Exit, AnnounceInv
  <2>. QED
    BY <2>1, <2>2, AnnouncedStill
<1>2. ASSUME NEW b \in Apps, Connect(b) PROVE AnnounceInv'
  <2>. DEFINE k == NewSocket
  <2>1. k \in Sockets /\ link[k] = "free"
    BY <1>2 DEF Connect, MayConnect, NewSocket
  <2>2. /\ up' = [j \in Sockets |->
             IF j = k THEN buffer[b] \o (IF proc[b] = "none" THEN <<>> ELSE <<ListOf(b)>>)
             ELSE IF j = userSocket THEN <<>> ELSE up[j]]
        /\ link' = [j \in Sockets |->
             IF j = k THEN "open" ELSE IF j = userSocket THEN "kicked" ELSE link[j]]
        /\ sock' = [sock EXCEPT ![b] = k] /\ buffer' = [buffer EXCEPT ![b] = <<>>]
        /\ UNCHANGED <<known, proc>>
    BY <1>2 DEF Connect, HasSocket, LinkInstead, Greeting
  <2>. HIDE DEF k
  <2>3. ASSUME known[b] PROVE LastListed(up'[k])
    <3>1. buffer[b] \in Seq(Lists \cup Calls) /\ "listed" \in Lists \cup Calls
      BY <1>t DEF Lists
    <3>2. up'[k] = buffer[b] \o <<"listed">>
      BY <2>1, <2>2, <2>3 DEF ListOf, AnnounceInv
    <3>3. buffer[b] \o <<"listed">> = Append(buffer[b], "listed")
      BY <3>1
    <3>. QED
      BY <3>1, <3>2, <3>3, LastOfAppend
  <2>4. ASSUME NEW a \in Apps, a # b, sock'[a] # None, link'[sock'[a]] = "open" PROVE sock[a] = k
    BY <2>4, <2>1, <2>2, <1>t, <1>o
  <2>5. ~(\E a \in Apps : a # b /\ sock'[a] = k)
    <3>. QED
      BY <2>1, <2>2, NoneAssumption DEF BridgeInv, SocketsInv
  <2>6. ToolsAnnounced'
    <3>1. SUFFICES ASSUME NEW a \in Apps, known'[a], sock'[a] # None, link'[sock'[a]] = "open"
                   PROVE  Announced(sock[a])'
      BY DEF ToolsAnnounced
    <3>2. a = b /\ sock'[a] = k
      BY <3>1, <2>2, <2>4, <2>5, <1>t
    <3>. QED
      BY <3>1, <3>2, <2>2, <2>3 DEF Announced
  <2>7. \A a \in Apps : ~Holds(buffer'[a], "empty")
    <3>1. ~Holds(<<>>, "empty")
      BY DEF Holds
    <3>2. \A a \in Apps : buffer'[a] \in {buffer[a], <<>>}
      BY <2>2, <1>t
    <3>. QED
      BY <3>1, <3>2 DEF AnnounceInv
  <2>. QED
    BY <2>2, <2>6, <2>7 DEF AnnounceInv
<1>11. ASSUME NEW b \in Apps, Refuse(b) PROVE AnnounceInv'
  <2>1. /\ NewSocket \in Sockets /\ UNCHANGED <<up, bridgeTools, known, proc>>
        /\ link' = [link EXCEPT ![NewSocket] = "kicked"]
        /\ sock' = [sock EXCEPT ![b] = NewSocket] /\ buffer' = [buffer EXCEPT ![b] = <<>>]
    BY <1>11 DEF Refuse, MayConnect, NewSocket, HasSocket, server
  <2>2. \A a \in Apps : sock'[a] # None /\ link'[sock'[a]] = "open" =>
           sock'[a] = sock[a] /\ link[sock[a]] = "open" /\ up'[sock[a]] = up[sock[a]]
    BY <2>1, <1>t
  <2>3. /\ \A a \in Apps : buffer'[a] \in {buffer[a], <<>>}
        /\ \A a \in Apps : known'[a] => known[a] /\ proc'[a] # "none"
    BY <2>1, <1>t DEF AnnounceInv
  <2>. QED
    BY <2>1, <2>2, <2>3, AnnouncedStill
<1>3. ASSUME NEW b \in Apps, Drop(b) \/ Kicked(b) \/ QuitEnd(b) PROVE AnnounceInv'
  <2>1. /\ UNCHANGED <<up, bridgeTools>> /\ buffer' \in {buffer, [buffer EXCEPT ![b] = <<>>]}
        /\ \/ UNCHANGED <<sock, link>>
           \/ sock' = [sock EXCEPT ![b] = None] /\ UNCHANGED link
           \/ \E s \in {"half", "closed"} :
                /\ sock[b] # None /\ sock' = [sock EXCEPT ![b] = None]
                /\ link' = [link EXCEPT ![sock[b]] = s]
        /\ \/ UNCHANGED <<known, proc>>
           \/ known' = [known EXCEPT ![b] = FALSE] /\ proc' = [proc EXCEPT ![b] = "none"]
    BY <1>3, <1>t DEF Drop, Kicked, QuitEnd, Lose, server
  <2>2. \A a \in Apps : known'[a] => known[a] /\ proc'[a] # "none"
    BY <2>1, <1>t DEF AnnounceInv
  <2>3. \A a \in Apps : sock'[a] # None /\ link'[sock'[a]] = "open" =>
           sock'[a] = sock[a] /\ link[sock[a]] = "open" /\ up'[sock[a]] = up[sock[a]]
    BY <2>1, <1>t
  <2>4. \A a \in Apps : buffer'[a] \in {buffer[a], <<>>}
    BY <2>1, <1>t
  <2>. QED
    BY <2>1, <2>2, <2>3, <2>4, AnnouncedStill
<1>4. ASSUME NEW b \in Apps, Ready(b) PROVE AnnounceInv'
  <2>1. /\ Emit(b, "listed") /\ "listed" \in Lists /\ UNCHANGED <<sock, link, bridgeTools>>
        /\ known' = [known EXCEPT ![b] = TRUE] /\ proc' = [proc EXCEPT ![b] = "running"]
    BY <1>4 DEF Ready, server, Lists
  <2>2. ToolsAnnounced' /\ \A a \in Apps : ~Holds(buffer'[a], "empty")
    BY <2>1, <1>t, EmitAnnounces
  <2>3. \A a \in Apps : known'[a] => proc'[a] # "none"
    BY <2>1, <1>t DEF AnnounceInv
  <2>. QED
    BY <2>2, <2>3 DEF AnnounceInv
<1>5. ASSUME NEW b \in Apps, NEW c \in Calls, TakeCall(b, c) \/ Answer(b, c) PROVE AnnounceInv'
  <2>1. /\ Emit(b, c) \/ UNCHANGED <<up, buffer>>
        /\ UNCHANGED <<sock, link, bridgeTools, known, proc>>
    BY <1>5 DEF TakeCall, Answer, server
  <2>2. CASE Emit(b, c)
    <3>1. c # "empty"
      BY CallsAreNoLists
    <3>2. ToolsAnnounced' /\ \A a \in Apps : ~Holds(buffer'[a], "empty")
      BY <2>1, <2>2, <3>1, EmitAnnounces
    <3>. QED
      BY <2>1, <3>2 DEF AnnounceInv
  <2>3. CASE UNCHANGED <<up, buffer>>
    BY <2>1, <2>3 DEF AnnounceInv, ToolsAnnounced, Announced
  <2>. QED
    BY <2>1, <2>2, <2>3
<1>6. ASSUME NEW k \in Sockets, Disconnected(k) PROVE AnnounceInv'
  <2>1. userSocket = k
    BY <1>6, <1>o DEF Disconnected
  <2>2. link' = [link EXCEPT ![k] = "closed"] /\ UNCHANGED client
    BY <1>6 DEF Disconnected
  <2>3. \A j \in Sockets : link'[j] # "open"
    BY <2>1, <2>2, <1>t, <1>o
  <2>. QED
    BY <2>2, <2>3, <1>t DEF client, AnnounceInv, ToolsAnnounced
<1>7. ASSUME NEW k \in Sockets, Receive(k) PROVE AnnounceInv'
  <2>. DEFINE m == Head(up[k])
  <2>1. /\ up[k] \in Seq(Lists \cup Calls) /\ up[k] # <<>>
        /\ up' = [up EXCEPT ![k] = Tail(up[k])] /\ UNCHANGED <<client, link>>
        /\ \/ m \in Lists /\ bridgeTools' = [list |-> m, by |-> k]
           \/ m \in Calls /\ bridgeTools' = bridgeTools
    BY <1>7, <1>t DEF Receive
  <2>2. userSocket = k
    BY <1>7, <1>o DEF Receive
  <2>3. up'[k] = Tail(up[k])
    BY <2>1, <1>t
  <2>4. Announced(k) => Announced(k)'
    <3>1. /\ LastListed(up[k]) =>
               LastListed(up'[k]) \/ (m = "listed" /\ ~Holds(up'[k], "empty"))
          /\ ~Holds(up[k], "empty") => ~Holds(up'[k], "empty") /\ m # "empty"
      BY <2>1, <2>3, LastOfTail
    <3>2. m = "listed" => bridgeTools' = [list |-> "listed", by |-> k]
      <4>1. "listed" \notin Calls
        BY CallsAreNoLists
      <4>. QED
        BY <4>1, <2>1
    <3>3. m = "listed" \/ m = "empty" \/ bridgeTools' = bridgeTools
      BY <2>1 DEF Lists
    <3>. QED
      BY <3>1, <3>2, <3>3 DEF Announced
  <2>. HIDE DEF m
  <2>5. ToolsAnnounced'
    <3>1. SUFFICES ASSUME NEW a \in Apps, known'[a], sock'[a] # None, link'[sock'[a]] = "open"
                   PROVE  Announced(sock[a])'
      BY DEF ToolsAnnounced
    <3>2. sock[a] = k /\ sock'[a] = k /\ known[a] /\ link[k] = "open" /\ k # None
      BY <3>1, <2>1, <2>2, <1>t, <1>o DEF client
    <3>3. Announced(k)
      BY <3>2 DEF AnnounceInv, ToolsAnnounced
    <3>. QED
      BY <3>2, <3>3, <2>4 DEF Announced
  <2>. QED
    BY <2>1, <2>5 DEF AnnounceInv, client
<1>8. ASSUME NEW c \in Calls, Dispatch(c) \/ Timeout(c) PROVE AnnounceInv'
  BY <1>8 DEF Dispatch, Timeout, client, AnnounceInv, ToolsAnnounced, Announced
<1>9. CASE GatewayRestart
  <2>1. /\ UNCHANGED client
        /\ link' = [k \in Sockets |-> IF link[k] = "free" THEN "free" ELSE "closed"]
    BY <1>9 DEF GatewayRestart
  <2>2. \A j \in Sockets : link'[j] # "open"
    BY <2>1
  <2>. QED
    BY <2>1, <2>2, <1>t DEF client, AnnounceInv, ToolsAnnounced
<1>10. CASE UNCHANGED bridgeVars
  BY <1>10 DEF bridgeVars, AnnounceInv, ToolsAnnounced, Announced
<1>. QED
  BY <1>1, <1>2, <1>3, <1>4, <1>5, <1>6, <1>7, <1>8, <1>9, <1>10, <1>11 DEF BridgeNext, BridgeStep

\* An app that stays connected, and whose process has listed its tools, has them registered, or
\* its connection carries the list that will register them, after any reconnection, restart or
\* replacement: the safety part of ToolsComeBack.
THEOREM ListsAnnounced == BridgeSpec => []ToolsAnnounced
<1>1. BridgeInv /\ AnnounceInv /\ [BridgeNext]_bridgeVars => AnnounceInv'
  BY AnnounceNext
<1>2. AnnounceInv => ToolsAnnounced
  BY DEF AnnounceInv
<1>. QED
  BY <1>1, <1>2, BridgeInitInv, BridgeNextInv, AnnounceInit, PTL DEF BridgeSpec
================================================================================
