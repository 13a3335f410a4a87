------------------------------ MODULE McpBridge ------------------------------
(***************************************************************************)
(* A user's remote MCP server: McpBridgeGateway in the backend, and the    *)
(* desktop apps (bridge/src/main) that connect to it, run the server's     *)
(* process and answer the agent's calls. One user, one remote server,      *)
(* every app configured with it.                                           *)
(***************************************************************************)
EXTENDS Naturals, Sequences, FiniteSets

CONSTANTS
  Apps,      \* the user's desktop apps, one for each machine
  Sockets,   \* the connections they make, each of them once
  Calls,     \* tool calls of the user's agents
  MaxQueue,  \* bound: messages under way or buffered when a process changes
  None

ASSUME NoneAssumption == None \notin Sockets
ASSUME CallsAreNoLists == {"empty", "listed"} \cap Calls = {}

VARIABLES
  app,           \* of each app: see AppStates
  sock,          \* its connected socket
  buffer,        \* what it emitted while its socket was not connected
  proc,          \* its McpProcess: see ProcStates
  known,         \* the process has listed its tools
  link,          \* each socket as the server sees it; "half": the app is gone, unnoticed
  up,            \* messages under way from each socket to the server
  asked,         \* tool:call under way to each socket
  running,       \* calls each app's process works on
  userSocket,    \* userSockets.get(userId)
  bridgeSession, \* bridgeSessions has the user
  bridgeTools,   \* bridgeTools: the list registered for the server, and by which socket
  call           \* what the agent has of each call; "waiting": pendingCalls has it

bridgeVars ==
  <<app, sock, buffer, proc, known, link, up, asked, running,
    userSocket, bridgeSession, bridgeTools, call>>

client == <<app, sock, buffer, proc, known, running>>
server == <<userSocket, bridgeSession, bridgeTools, call>>

\* tools:register carries the process's list, empty until it has listed once; a call's name
\* stands for its tool:result.
Lists == {"empty", "listed"}
NoTools == [list |-> "none", by |-> None]

\* "kicked": the server closed the connection; "quitting": disconnect() awaits the processes.
AppStates == {"off", "connecting", "connected", "kicked", "quitting"}

\* "down": starting, failed or gone, to be started again; "stopping": for good.
ProcStates == {"none", "down", "running", "stopping"}

BridgeTypeOK ==
  /\ app \in [Apps -> AppStates]
  /\ sock \in [Apps -> Sockets \cup {None}]
  /\ buffer \in [Apps -> Seq(Lists \cup Calls)]
  /\ proc \in [Apps -> ProcStates]
  /\ known \in [Apps -> BOOLEAN]
  /\ link \in [Sockets -> {"free", "open", "half", "kicked", "closed"}]
  /\ up \in [Sockets -> Seq(Lists \cup Calls)]
  /\ asked \in [Sockets -> SUBSET Calls]
  /\ running \in [Apps -> SUBSET Calls]
  /\ userSocket \in Sockets \cup {None}
  /\ bridgeSession \in BOOLEAN
  /\ bridgeTools \in [list : Lists, by : Sockets] \cup {NoTools}
  /\ call \in [Calls -> {"idle", "waiting", "answered", "failed"}]

BridgeInit ==
  /\ app = [b \in Apps |-> "off"]
  /\ sock = [b \in Apps |-> None]
  /\ buffer = [b \in Apps |-> <<>>]
  /\ proc = [b \in Apps |-> "none"]
  /\ known = [b \in Apps |-> FALSE]
  /\ link = [k \in Sockets |-> "free"]
  /\ up = [k \in Sockets |-> <<>>]
  /\ asked = [k \in Sockets |-> {}]
  /\ running = [b \in Apps |-> {}]
  /\ userSocket = None
  /\ bridgeSession = FALSE
  /\ bridgeTools = NoTools
  /\ call = [c \in Calls |-> "idle"]
--------------------------------------------------------------------------------
\* socket.emit of the app: at once, if the server has not closed the socket meanwhile, or on
\* the next connection.
Emit(b, m) ==
  IF sock[b] = None
  THEN buffer' = [buffer EXCEPT ![b] = Append(@, m)] /\ UNCHANGED up
  ELSE /\ up' = IF link[sock[b]] = "open" THEN [up EXCEPT ![sock[b]] = Append(@, m)] ELSE up
       /\ UNCHANGED buffer

\* Mutant: a process that has not listed its tools has no list to send.
ListIfKnown(b) == IF known[b] THEN "listed" ELSE "none"

ListOf(b) == IF known[b] THEN "listed" ELSE "empty"

\* BridgeManager.connect, by the user.
StartApp(b) ==
  /\ app[b] = "off"
  /\ app' = [app EXCEPT ![b] = "connecting"]
  /\ UNCHANGED <<sock, buffer, proc, known, link, up, asked, running, server>>

\* The app's new connection. One it had, left to itself by a connect() during disconnect(),
\* is no longer followed: what it still hears is lost, and it does not come back.
NewSocket == CHOOSE k \in Sockets : link[k] = "free"

MayConnect(b) == app[b] \in {"connecting", "quitting"} /\ \E k \in Sockets : link[k] = "free"

HasSocket(b, k) ==
  /\ app' = [app EXCEPT ![b] = IF @ = "quitting" THEN @ ELSE "connected"]
  /\ sock' = [sock EXCEPT ![b] = k]
  /\ buffer' = [buffer EXCEPT ![b] = <<>>]

\* Mutant: the calls that wait are sent again to the new connection.
AskAgain(b) == [asked EXCEPT ![NewSocket] = {c \in Calls : call[c] = "waiting"}]

Unheard(b) == [asked EXCEPT ![sock[b]] = {}]

\* Mutant: the 'connect' handler only shows the status.
NoGreeting(b) == buffer[b]

\* The app's buffer goes first, then its 'connect' handler republishes the tools of the
\* processes it has.
Greeting(b) == buffer[b] \o (IF proc[b] = "none" THEN <<>> ELSE <<ListOf(b)>>)

\* Mutant: the previous socket is left connected.
LinkBeside(k) == [link EXCEPT ![k] = "open"]

\* The previous socket is disconnected, and its handleDisconnect runs within.
LinkInstead(k) ==
  [j \in Sockets |-> IF j = k THEN "open" ELSE IF j = userSocket THEN "kicked" ELSE link[j]]

\* handleConnection: then the socket is the user's.
Connect(b) ==
  LET k == NewSocket IN
  /\ MayConnect(b)
  /\ HasSocket(b, k)
  /\ link' = LinkInstead(k)
  /\ userSocket' = k
  /\ bridgeSession' = TRUE
  /\ bridgeTools' = NoTools
  /\ up' = [j \in Sockets |->
       IF j = k THEN Greeting(b) ELSE IF j = userSocket THEN <<>> ELSE up[j]]
  /\ asked' = Unheard(b)
  /\ UNCHANGED <<proc, known, running, call>>

\* handleConnection without a valid token: the app is closed at once, and what it says is lost.
Refuse(b) ==
  LET k == NewSocket IN
  /\ MayConnect(b)
  /\ HasSocket(b, k)
  /\ link' = [link EXCEPT ![k] = "kicked"]
  /\ asked' = Unheard(b)
  /\ UNCHANGED <<proc, known, up, running, server>>

\* The app's side of the connection is over; the server may not know yet.
Lose(b, next) ==
  LET k == sock[b] IN
  /\ k # None
  /\ app' = [app EXCEPT ![b] = IF @ = "quitting" /\ next # "off" THEN @ ELSE next]
  /\ sock' = [sock EXCEPT ![b] = None]
  /\ link' = [link EXCEPT ![k] = IF @ = "open" THEN "half" ELSE "closed"]
  /\ asked' = [asked EXCEPT ![k] = {}]

\* The connection fails, or the app sees that the server closed it: it reconnects.
Drop(b) ==
  /\ Lose(b, "connecting")
  /\ UNCHANGED <<buffer, proc, known, up, running, server>>

\* 'io server disconnect': the client library does not reconnect after it.
Kicked(b) ==
  /\ sock[b] # None /\ link[sock[b]] = "kicked"
  /\ Lose(b, "kicked")
  /\ UNCHANGED <<buffer, proc, known, up, running, server>>

\* BridgeManager.disconnect, by the user: the processes stop, and their calls fail. The
\* socket lives until they have.
Quit(b) ==
  /\ app[b] \in {"connecting", "connected"}
  /\ app' = [app EXCEPT ![b] = "quitting"]
  /\ proc' = [proc EXCEPT ![b] = IF @ = "none" THEN "none" ELSE "stopping"]
  /\ UNCHANGED <<sock, buffer, known, link, up, asked, running, server>>

\* The processes are forgotten, one spawned during the await too, and the socket goes. After
\* a connect() during the await it is another one that goes: the app's own stays open, deaf.
\* (Without a connection nothing can come in between.)
QuitEnd(b) ==
  /\ app[b] \in {"quitting", "kicked"}
  /\ \/ Lose(b, "off")
     \/ /\ app' = [app EXCEPT ![b] = "off"]
        /\ sock' = [sock EXCEPT ![b] = None]
        /\ UNCHANGED <<link, asked>>
  /\ buffer' = [buffer EXCEPT ![b] = <<>>]
  /\ proc' = [proc EXCEPT ![b] = "none"]
  /\ known' = [known EXCEPT ![b] = FALSE]
  /\ running' = [running EXCEPT ![b] = {}]
  /\ UNCHANGED <<up, server>>

\* Mutant: the tools outlive the socket.
DisconnectedOnly(k) ==
  /\ link[k] \in {"open", "half"}
  /\ link' = [link EXCEPT ![k] = "closed"]
  /\ up' = [up EXCEPT ![k] = <<>>]
  /\ IF userSocket = k
     THEN userSocket' = None /\ bridgeSession' = FALSE
     ELSE UNCHANGED <<userSocket, bridgeSession>>
  /\ UNCHANGED <<client, asked, bridgeTools, call>>

\* The server finds the connection lost, before the app or after it: handleDisconnect of a
\* socket that is the user's clears the rest.
Disconnected(k) ==
  /\ link[k] \in {"open", "half"}
  /\ link' = [link EXCEPT ![k] = "closed"]
  /\ up' = [up EXCEPT ![k] = <<>>]
  /\ IF userSocket = k
     THEN userSocket' = None /\ bridgeSession' = FALSE /\ bridgeTools' = NoTools
     ELSE UNCHANGED <<userSocket, bridgeSession, bridgeTools>>
  /\ UNCHANGED <<client, asked, call>>

\* The backend dies with its maps and the agents that wait; the apps are to reconnect.
GatewayRestart ==
  /\ link' = [k \in Sockets |-> IF link[k] = "free" THEN "free" ELSE "closed"]
  /\ up' = [k \in Sockets |-> <<>>]
  /\ asked' = [k \in Sockets |-> {}]
  /\ userSocket' = None /\ bridgeSession' = FALSE /\ bridgeTools' = NoTools
  /\ call' = [c \in Calls |-> IF call[c] = "waiting" THEN "failed" ELSE call[c]]
  /\ UNCHANGED client
--------------------------------------------------------------------------------
Room(b) ==
  /\ Len(buffer[b]) < MaxQueue
  /\ sock[b] # None => Len(up[sock[b]]) < MaxQueue

\* handleConfig starts the server's process.
Spawn(b) ==
  /\ app[b] \in {"connected", "quitting"} /\ sock[b] # None /\ proc[b] = "none"
  /\ proc' = [proc EXCEPT ![b] = "down"]
  /\ UNCHANGED <<app, sock, buffer, known, link, up, asked, running, server>>

\* initialize and tools/list are answered: the 'tools' event registers them.
Ready(b) ==
  /\ proc[b] = "down" /\ Room(b)
  /\ proc' = [proc EXCEPT ![b] = "running"]
  /\ known' = [known EXCEPT ![b] = TRUE]
  /\ Emit(b, "listed")
  /\ UNCHANGED <<app, sock, link, asked, running, server>>

\* The process exits; scheduleRestart will spawn it again.
Exit(b) ==
  /\ proc[b] = "running"
  /\ proc' = [proc EXCEPT ![b] = "down"]
  /\ UNCHANGED <<app, sock, buffer, known, link, up, asked, running, server>>

\* handleToolCall: what it finds amiss, it answers; else the process is called.
TakeCall(b, c) ==
  /\ sock[b] # None /\ c \in asked[sock[b]]
  /\ asked' = [asked EXCEPT ![sock[b]] = @ \ {c}]
  /\ IF proc[b] = "running"
     THEN running' = [running EXCEPT ![b] = @ \cup {c}] /\ UNCHANGED <<up, buffer>>
     ELSE Emit(b, c) /\ UNCHANGED running
  /\ UNCHANGED <<app, sock, proc, known, link, server>>

\* The process answers, fails, exits, or its own limit of 30 s passes.
Answer(b, c) ==
  /\ c \in running[b]
  /\ running' = [running EXCEPT ![b] = @ \ {c}]
  /\ Emit(b, c)
  /\ UNCHANGED <<app, sock, proc, known, link, asked, server>>
--------------------------------------------------------------------------------
\* dispatchToolCall.
Dispatch(c) ==
  /\ call[c] = "idle"
  /\ IF userSocket = None
     THEN call' = [call EXCEPT ![c] = "failed"] /\ UNCHANGED asked
     ELSE /\ call' = [call EXCEPT ![c] = "waiting"]
          /\ asked' = IF link[userSocket] = "open"
                      THEN [asked EXCEPT ![userSocket] = @ \cup {c}] ELSE asked
  /\ UNCHANGED <<client, link, up, userSocket, bridgeSession, bridgeTools>>

\* handleToolsRegister and handleToolResult, for the next message of a socket.
Receive(k) ==
  /\ up[k] # <<>> /\ link[k] \in {"open", "half"}
  /\ up' = [up EXCEPT ![k] = Tail(@)]
  /\ LET m == Head(up[k]) IN
     \/ /\ m \in Lists
        /\ bridgeTools' = [list |-> m, by |-> k]
        /\ UNCHANGED call
     \/ /\ m \in Calls
        /\ call' = IF call[m] = "waiting" THEN [call EXCEPT ![m] = "answered"] ELSE call
        /\ UNCHANGED bridgeTools
  /\ UNCHANGED <<client, link, asked, userSocket, bridgeSession>>

\* Mutant: the timer is the session's.
TimeoutOfSession(c) ==
  /\ call[c] = "waiting" /\ bridgeSession
  /\ call' = [call EXCEPT ![c] = "failed"]
  /\ UNCHANGED <<client, link, up, asked, userSocket, bridgeSession, bridgeTools>>

\* 30 s without a response.
Timeout(c) ==
  /\ call[c] = "waiting"
  /\ call' = [call EXCEPT ![c] = "failed"]
  /\ UNCHANGED <<client, link, up, asked, userSocket, bridgeSession, bridgeTools>>

BridgeStep ==
  \/ \E b \in Apps :
       \/ StartApp(b) \/ Connect(b) \/ Refuse(b) \/ Drop(b) \/ Kicked(b)
       \/ Quit(b) \/ QuitEnd(b)
       \/ Spawn(b) \/ Ready(b) \/ Exit(b)
       \/ \E c \in Calls : TakeCall(b, c) \/ Answer(b, c)
  \/ \E k \in Sockets : Disconnected(k) \/ Receive(k)

BridgeNext ==
  \/ BridgeStep
  \/ \E c \in Calls : Dispatch(c) \/ Timeout(c)
  \/ GatewayRestart

\* What reached a live socket is handled, and timers fire.
BridgeFairness ==
  /\ \A k \in Sockets : WF_bridgeVars(Receive(k))
  /\ \A c \in Calls : WF_bridgeVars(Timeout(c))

BridgeSpec == BridgeInit /\ [][BridgeNext]_bridgeVars /\ BridgeFairness
--------------------------------------------------------------------------------
\* "One bridge per user": the sockets the server believes alive are the user's only one,
\* and a session exists exactly with it.
OneBridge ==
  /\ \A k \in Sockets : link[k] \in {"open", "half"} <=> userSocket = k
  /\ bridgeSession <=> userSocket # None

\* The gateway's list, from which a turn that begins loads its tools, is what the connected
\* app registered, never a former one's.
ToolsOfTheBridge == bridgeTools.list # "none" => bridgeTools.by = userSocket

Holds(s, m) == \E i \in DOMAIN s : s[i] = m

\* The tools of a process that has listed them are registered by its app's connection, or the
\* list that comes last on it will register them: who connects again says them again.
LastListed(s) ==
  \E i \in DOMAIN s : s[i] = "listed" /\ \A j \in DOMAIN s : j > i => s[j] # "empty"

Announced(k) ==
  \/ LastListed(up[k])
  \/ bridgeTools = [list |-> "listed", by |-> k] /\ ~Holds(up[k], "empty")

ToolsAnnounced ==
  \A b \in Apps :
    known[b] /\ sock[b] # None /\ link[sock[b]] = "open" => Announced(sock[b])

\* "Otherwise the agent would see none": an app that stays connected, and whose process has
\* listed its tools, has them registered, whatever happened before.
ToolsComeBack ==
  []<>(\A b \in Apps :
         known[b] /\ sock[b] # None /\ link[sock[b]] = "open" =>
           bridgeTools = [list |-> "listed", by |-> sock[b]])

\* Where a call is between the agent and the desktop's process.
WorkOn(c) ==
  IF \E k \in Sockets : c \in asked[k] THEN "asked"
  ELSE IF \E b \in Apps : c \in running[b] THEN "running"
  ELSE IF (\E b \in Apps : Holds(buffer[b], c)) \/ (\E k \in Sockets : Holds(up[k], c)) THEN "replied"
  ELSE IF call[c] = "idle" THEN "none" ELSE "over"

RemoteCall == INSTANCE RemoteCall WITH work <- [c \in Calls |-> WorkOn(c)]

\* Through lost, replaced and new connections, buffered answers, time-outs and restarts of
\* either side: the tool is run at most once for a call, and the agent gets that run's answer
\* or a failure, once.
ImplementsRemoteCall == RemoteCall!SafeSpec

\* Every dispatched call settles, with its answer or without.
CallsSettle == \A c \in Calls : call[c] = "waiting" ~> call[c] # "waiting"
==============================================================================
