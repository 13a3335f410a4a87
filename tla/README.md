# Arkimede: TLA+ models, checks and proofs

Arkimede is a self-hosted assistant: a NestJS backend (`src/backend`), a skill executor
that owns child processes (`src/executor`), a job broker, a desktop bridge, a web client,
a command line and a few model servers. This directory models the parts of it whose
correctness depends on the order in which things happen, checks them with TLC on small
instances and proves the most important properties with TLAPS for every instance.

Contents: [inventory](#inventory) · [modules](#modules-and-their-code) · [runs](#runs) ·
[disagreements](#disagreements-with-the-comments) · [proofs](#proofs) ·
[fairness](#fairness) · [bounds](#bounds) · [not modelled](#not-modelled) · [plan](#plan)

## Inventory

The backend is one Node process: one callback runs at a time, and every `await` is a
point where the rest of the system moves. Postgres keeps rows, Redis (BullMQ) keeps jobs,
Maps and timers live in memory and are lost at a restart.

| Component | State | Operations | What is hard | What makes it correct |
|---|---|---|---|---|
| Skill daemons (`daemons/`, `executor/src/daemon-manager.ts`) | rows `skill_daemons`; Maps of timers and attempts; the executor's Map of entries, its processes | start, stop, restart, remove; exit reports; back-off timers; sweep; boot | two processes that share no clock, reports sent once, handlers that overlap, timers lost at a restart, queries that fail | no process out of reach of a stop; no restart that nobody performs, but for a query that failed; a stopped daemon stays stopped; deaths are noticed |
| LLM dispatcher (`usage/llm-dispatcher.service.ts`) | a queue per config: slots in use, waiters, round-robin | schedule, release, register; streams that hold a slot | microtasks between a wake-up and its effect; streams that end in several ways; aging | slots counted exactly; no lost wake-up; FIFO per user; nobody starves; the cap |
| Recordare outbox (`recordare/`, `messages/`, `chats/`) | table `recordare_outbox`; a remote memory | enqueue on save, rewind, privacy, removal; drain; flush | lost answers, retries, messages that change while they are sent, two drains | nothing deleted or private stays public in the memory |
| Chat turns (`messages/`, the web client's chat window) | Map of runs, message rows; per window what it shows, the room of its socket | send, answer, fail, cancel; join, events, poll, reload | a handler with many awaits that may fail, sockets that miss events, answers that are stale when taken | a question and its reply stand together; no chat stays busy; a window follows the run and shows its reply |
| Flow engine (`flows/flow-engine.service.ts`) | counters of a graph, results, the waves | start, run a node, retry, next wave, save | branches of different lengths, skipped branches, conditions, error policies, cycles | each node at most once, and exactly those the edges reach; joins see all their branches |
| Desktop bridge and its gateway (`mcp-servers/mcp-bridge.gateway.ts`, `bridge/src/main`) | sockets, sessions, registered tools, pending calls; in the app a socket, its buffer, a process | connect, register, call, answer, time-out, disconnect, quit | two apps that take each other's place, half-open and refused sockets, buffered messages, an app that closes while it is spoken to, restarts of either side | one bridge per user; the tools offered are the connected app's and come back; each call settles |
| Local MCP servers (`mcp-servers/`) | per server an object in a Map, a second Map of starts; child process, timer, pending calls | ensure, create, call, stop; handshake, exit, restart | exits of replaced children, handshakes cut off, checks before an await | one child; an object that is to live is brought back; no call forgotten; one process per server |
| Automations (`scheduling/`) | rows `scheduled_tasks`; BullMQ jobs | create, confirm, edit, disable, remove, run | a run saves the row it read before; overdue jobs at boot | jobs agree with rows |
| Re-embedding (`vector-db/`) | shadow collections; configuration | plan, start, embed, verify, switch | crashes between copy and switch, double start | readers see the old collection or the new, complete |
| User memory (`user-memory/`) | notes, links, proposals | evolve, merge, revert | stale reads around a model call | links are symmetric |

The last three are not modelled. The rest (accounts, files, datasources, OCR, speech, backup, clients, scripts) is requests
and rows without a protocol; `PROJECT.json` lists each with its reason.

How they meet: the daemons' module composes backend, database and executor, since every
hazard is between them. The dispatcher stands under every call of a model. The outbox is
fed by messages and chats and drained beside them. A local MCP server is reached by every
turn that uses its tools and stopped by whoever manages it. A tool of a remote server is called
by a turn of the chat, which waits while the call goes through the gateway to the user's desktop
and back: one backend holds both, and its restart loses both.

## Modules and their code

### `SkillDaemons`

One (user, skill, script) tuple; rows of other tuples share nothing but loops.

| State | Code |
|---|---|
| `daemon[d]` | a row: `status`, `pid`, and `age`, the time since `startedAt` counted up to `STABLE_RUN_MS` |
| `restartTimers`, `restartAttempts` | the Maps of `DaemonsService`; a timer is the index of the delay it waits for |
| `task[s]` | a handler in progress: its kind, the await it is at, and its locals. Slots: the concurrent requests, the interval's sweep and the boot |
| `entry`, `process` | the executor's Map and its children (`up`, `stopping`, or a spawn that `failed`) |
| `reports` | exit notifications under way, which may come late or never |
| `dropped` | history: rows in 'restarting' whose handler ended at a query that failed |

Each await is a step; the code between two awaits belongs to the step before, with all it
changes. `Start*`, `Stop*`, `Restart*`, `Remove*` are the four requests, `ExitReport` the
executor's event, `TimerFires` and `AutoRead` autoRestart, `Reconcile` and `Sweep*` reconcile(), begun by the
interval (`Sweep`) or, beside it, by a user's list (`FindAll`, `daemons.service.ts:81` and `:160`), `Boot*`
onModuleInit; `Crash` and `Arm` are crashed(), shared by reports, the sweep and a failed
restart. A call of the executor succeeds (`CallOk`), is refused or never arrives
(`CallFails`), or takes effect and its answer is lost (`CallAnswerLost`). `BackendRestart`
loses handlers, Maps and timers; `ExecutorRestart` loses entries and processes.

`QueryFails` is a query of the database that throws: a start that failed within doStart, otherwise
the end of the handler. One case of it strands a daemon: autoRestart deletes its timer (line 407) before it reads the row, so that a
failure there, or in the crashed() of its catch, is swallowed (401) and leaves the row in 'restarting' with no timer; the
sweep reads only 'starting' and 'running' (464), so that it stays there until the user acts or the backend restarts. stop() and restart()
drop the timer before their queries too. `RestartNotStranded` and `RestartHappens` say so: they exempt `dropped`, and nothing else.

### `LlmDispatcher`

The queue of one config. `active`, `waiting` and `rr` are the fields of `ConfigQueue`;
`rr` is kept as the users in the order they were last served, and a waiter carries its
effective rank, which `Age` promotes as its wait grows, older waiters first. What the
model makes visible is the microtask: `release` takes a waiter out of the queue and
resolves its promise ("woken"), and `Resume` is its continuation, which alone adds to
`active`. Streams keep the slot until done, error, return or throw, and `StreamLeft` may
follow `StreamEnds`. A limit of 0 stands for none: `register` removes the entry, and while there is none calls pass
by the queue (`Gated`) and those already in it go on.

### `RecordareOutbox`

The rows about one chat. Enqueueing follows the code's statements: a save inserts its row
in the same transaction, while a rewind, a change of privacy and the removal of the chat
each take several (find, write, enqueue), with the rest of the system in between. A drain selects due
rows, sends the messages in one request from their current rows (`Read`, `Send`), then the
others one by one in order (`After`). Recordare is external: ingest dedups by message id, a change to
what it does not have is a 404, and 404 counts as done. Any number of drains may be in progress, the interval's
and those of flushChat(), and a failed row is written with the attempts its drain read (`Failed`). A query that fails
ends the drain, or counts as a failed request where the code catches it (`QueryFails`).

Two history variables say what the code does not keep: `unqueued`, messages whose change never reached the table,
and `raced`, messages of which two drains had, at the same time, rows whose order matters (`Conflict`: an ingest and
a deletion, an ingest and a flag, two flags).

### `LocalMcp`

One MCP server of transport `local`.

| State | Code |
|---|---|
| `localProcess`, `starting` | the server's entries in `localProcesses` and `startingProcesses`; the second names the object whose `start()` its promise waits for |
| `proc[p]` | a `LocalMcpProcess`: its fields, the request of the handshake it waits for, and whether `start()` is still under way (`booting`) |
| `child[k]` | a child process: its owner, whether it runs, was signalled or died unheard, whether its listeners were removed (`deaf`), the handshake requests it may still answer |
| `pending[p]`, `user[u]` | the calls of tools in `pendingRequests`; the turns that make them, at the awaits of `ensureLocalProcess` |
| `admin[a]` | a `remove()` or a change of transport that waits in `stop()` |

An object that the Map loses is not destroyed by that: its timer and its child keep it going, which
is why the module has several. `HandshakeAnswered` takes the line of any child of the object, since the
ids of the handshake are 1 and 2 every time and `removeAllListeners()` of a child leaves its
stdout heard. `Create` is the code after `await loadSecrets()`, up to the next await. The settling of
a promise and its continuation are one step here: nothing the module has can come between.
A turn whose server was removed while it waited holds `undefined` instead of an object (`Turn`): its tools throw, and it goes on. `Collected`
is the garbage collector, so that objects can be used again without end.

### `FlowRun` and `FlowEngine`

`FlowRun` is the abstract specification: what a run of a flow promises, whatever executes it. A node
starts once its predecessors have settled, runs if an edge to it was followed, is skipped
otherwise; a flow with a cycle is refused whole; the run ends when every node is accounted for.

`FlowEngine` is `FlowEngineService.run`, and implements it.

| State | Code |
|---|---|
| `flow` | the definition: nodes, edges, which nodes are conditions, each one's error policy |
| `phase` | where run() is: before `topoSort`, in the loop, saving, ended |
| `status`, `attempt` | what `nodeRuns` says of a node, "waiting" and "running" before; retries made |
| `pending`, `reached`, `wave`, `runError` | `pendingIn`, the `reached` set, the batch under `Promise.all`, `runError` |
| `seen` | the predecessors whose result was in `state` at the node's last attempt |

Nodes of a wave settle in any order (`NodeOk`, `NodeFails`); `NextWave` is the synchronous code
after `Promise.all`, with `Enter` for the nodes it skips and starts. `topoSort` is Kahn's
algorithm as its fixed point: the nodes that no cycle keeps from being taken. What a node computes is one of its outcomes.
The mapping of the refinement is `result <- status` and `outcome` the phase run() ended in.

### `ChatTurns`

One chat. `run` is `runs.get(chatId)`, `turn[r]` the await at which the handler of the POST `r` is,
`messages` the rows, each by its request and role. `Post` is the gate, `Ask` the question's row, `Title` the title of a new
chat and the branch of a team, `Fail` any await that throws, the agent that a cancel ends early among them; `SaveAnswer`,
`Touch`, `Report` (the catch block) and `Close` (the finally block) are the rest of
`streamMessage`, and a team's branch skips what it skips in the code. `page[p]` is a window that did not send:
what it shows, whether its socket is in the room, the events under way to it, and
the answers of `GET .../run` it has not taken yet (`gets`: they overlap, come in any order and may fail;
`Poll`, `TakeGet`, `FailGet`). `RunsLost` is the end of the process.

The runs are those of `streamMessage`. Automations (`scheduling.service.ts:519-538`), external and voice channels
(`external-chats.service.ts:86-114`) and initiatives (`recordare-initiatives.service.ts:303-306`) write messages into a chat without
taking its run: `NoInterleaving` says nothing of them, and they may stand between a question and its reply. Nor does `AnswerShown` speak of
a window that is opened during a run which ends before the window has joined the room and polled: it never showed the run, and
shows its reply only when it reads the messages again. A read of the messages is taken to succeed.

### `McpBridge`

One user and one remote server, any number of the user's apps and of connections.
`link[k]` is the socket as the server sees it ("half": the app is gone and the server does not know yet), `up` and
`asked` what is under way on it, `buffer[b]` what the client library keeps until it is
connected again. `Connect` is `handleConnection` with the `handleDisconnect` it provokes and
the app's 'connect' handler (`Greeting`), which republishes the tools; `Refuse` is a handshake without a valid token,
which the server closes and the client library does not repeat; `Disconnected` is a disconnect by itself,
noticed by the server before the app or after it. `userSocket`, `bridgeSession`,
`bridgeTools` and `call` are the gateway's Maps. A socket the server closed in favour of another is "kicked": the
client library does not reconnect after that.

The app's end takes two steps, because `disconnect()` awaits its processes for up to 3 s with its socket
alive (`bridge.ts:342-349`): after `Quit` it still hears calls, a `Spawn` of a 'config' or a connection, and
`QuitEnd` then forgets whatever is there. Two things the code does not clean up follow: a process spawned during the
await is dropped from `processes` and runs on as an orphan (for the model it is gone, and so is a call it was working on, whose late answer
nobody may count on), and a connect() in the await gets its new socket closed while the
former one stays open with nobody behind it. Until another connection replaces it, the gateway goes on offering the tools of that
app, and their calls time out. What is not followed further is such a left socket itself: should it drop, the library would
reconnect it, and the model does not.

`ToolsOfTheBridge` is about the gateway's list. A turn loads its tools when it begins (`mcp-servers.service.ts:562-588`) and may still hold a
former app's when it calls one; the call goes to whichever app is connected by then, and `ImplementsRemoteCall` says it is run at
most once, not where.

### `RemoteCall`

What a tool call promises the agent, whatever happens under it: run at most once, answered only by that run's
reply, settled once; all that is under way may be lost. `McpBridge` implements it: `call` is the same, and
`work[c]` is where the call is (`WorkOn`): asked of a socket, run by an app, replied in a buffer or on a socket.

### `RemoteTools`

`ChatTurns` and `McpBridge` composed: a call has the name of the turn that makes it, the turn does
nothing while it waits (`TurnStep`), unless it is cancelled (`CancelWaiting`), and a restart of the backend is
one step of both (`BackendRestart`).

## Runs

| Run | Shows |
|---|---|
| `daemons_safety` | `UnstoppedProcessIsReachable`, `RestartNotStranded`, `ReportNeverRevives` with two concurrent requests, all background handlers and a fault, a failed query among them |
| `daemons_liveness` | `DeathNoticed`, `RestartHappens` under `FairSpec`, with lost reports and restarts of either side |
| `daemons_stop`, `daemons_giveup` | violations, below |
| `dispatcher` | `SlotsCounted`, `NoLostWakeup`, `FifoPerUser`, `WaiterServed`: four calls, two users, two classes, caps 1, 2 and none, which change at any time; deadlock is checked |
| `dispatcher_cap` | a violation, below |
| `outbox` | `IngestQueued`, `DeletionQueued`, `PrivacyQueued`, `RestInStep`, `Settles` with a flush beside the interval's drain, two messages, three rows, a fault |
| `outbox_flush` | a violation, below: `RewindReachesRecordare` is `DeletionQueued` without its exemption of `raced` |
| `localmcp` | `UnsignalledIsCurrent`, `NotStranded`, `CallsTracked`, `StartEntryIsCurrent`: two requests and an admin, failing spawns, handshakes and children, late lines and late exits |
| `localmcp_duplicate` | a violation, below |
| `flow_engine` | `ImplementsFlowRun` (safety and the end of every run), `JoinSeesBranches`, `FlowAdvances`: some 730 flows, below |
| `remote_tools` | `NoInterleaving`, `BusyHasHandler`, `ChatFreed`, `PageFollows`, `AnswerShown` of the turns; `OneBridge`, `ToolsOfTheBridge`, `ToolsAnnounced`, `ToolsComeBack`, `CallsSettle`, `ImplementsRemoteCall` of the bridge; in the composition |

Each passing property has a variant of a mapped definition (a dropped guard, a stale read,
a wrong order: the operators commented "Variant" or "Mutant") that breaks it.

`CHECK_DEADLOCK FALSE` in the daemons' and the outbox's runs: with the bounds used up and
everything at rest nothing more happens. In `LocalMcp`'s it is that every object and child of the
instance may be in use by then. A flow's run and a chat's turns come to an end.

## Disagreements with the comments

1. `daemons_stop`: `doStart()` writes `running` after the executor answers, whatever the
   row says by then (`daemons.service.ts:511`). A stop that came in between is undone,
   though autoRestart takes care of a daemon "stopped, restarted or removed meanwhile".
2. `daemons_giveup`: a restart the executor refuses is counted with the `startedAt` of the
   run before (`daemons.service.ts:379`); a daemon that once ran long enough never runs out of attempts,
   though "after the last attempt it stays in 'error'".
3. `dispatcher_cap`: a call that arrives between a release and the continuation of the
   waiter it woke is admitted as well (`llm-dispatcher.service.ts:203`): one call more
   than the cap for each.
4. `outbox_flush`: a flush beside the interval's drain sends a deletion before the ingest
   that the drain is about to send (`recordare-outbox.service.ts:102`); the deletion's 404
   counts as done and the message stays in the memory.
5. `localmcp_duplicate`: `ensureLocalProcess` checks both Maps, then awaits the secrets
   (`mcp-servers.service.ts:1306`): two requests each create a process, against "Prevents
   two concurrent requests to the same server from creating two separate processes". The
   first one's object is in no Map and restarts its child for ever. The same happens to an object
   whose child died: it is replaced while its restart timer runs.

Read beside the model, without a run: the wait for a start under way is not reached (line
1294 returns first, with no tools), and `remove()` deletes the Map's entry after its await, whatever
object it holds by then.

Number 4 delimits what holds: whatever number of drains there is, `DeletionQueued` and `PrivacyQueued` hold through every lost answer,
retry, failed query and crash for each message of which no two drains had conflicting rows at the same time. Without that exemption both fail,
`PrivacyQueued` because the older of two flags may arrive last; `IngestQueued` needs none.

## Proofs

All for every value of the constants that satisfies the named assumptions of the modules
(finite callers, caps that are natural numbers, a sequence of positive delays, distinct null values).

`SkillDaemonsProofs`
- `TypeCorrect`: `[]TypeOK`, inductive as it stands, one step per action.
- `UnstoppedReachable`: the strengthening `ExecutorInv` adds that an entry names a process
  of its own daemon and that a process has a daemon. Without the first, a start that
  replaces an entry could take another daemon's; the step that matters is `Release`, whose
  identity check is what keeps the next process's entry.
- `NeverStranded`: `RestartNotStranded` is inductive beside `TypeOK`. The argument is about hand-overs:
  whoever takes a timer away (a stop, a timer that fires, a restart of the backend) is
  from that step on the handler that resolves the row (`Resolves`). Only `QueryFails` breaks a hand-over, and what it drops
  is in `dropped` until a timer or a restart of the backend takes the row up again.
- `NeverRevived`: the action property `ReportNeverRevives`. `crashed()` writes only over a status its handler
  expects (`From`), which no stopped, failed or removed row has; every other write of a row
  either keeps its status or gives one that is not "restarting".

`LlmDispatcherProofs`
- The invariant `IInv` is `TypeOK`, `SlotsCounted` and `NoLostWakeup` with three facts they need: a caller in
  the queue is waiting and there once (so waking one wakes nobody twice), a stream holds its slot
  exactly while it streams (so a second done() frees nothing), and the ranks of waiters of one class never cross.
- `TypeCorrect`, `NoSlotLeaks`, `QueueNotForgotten` follow. `InOrder` is the action
  property `FifoPerUser`: `pickNext` prefers the older of two waiters of one user and
  class, because aging, which starts earlier for the older, keeps its rank at most the other's.

`LocalMcpProofs`
- `Invariance`: `IInv` is the type invariant, the four properties, and what they need. Of one object:
  a handshake excludes the restart timer and has a child, `start()` is under way only in a
  handshake, and the object's process is a child of its own that it hears. So a timer that fires
  finds no start to confuse with its own, and an exit event is always heard by the object it
  would strand. Of those that hold objects: the Map's is in use, one being stopped stays stopped.
- `OneChild`, `KeptAlive`, `CallsKept`, `EntryCurrent` and `TypeCorrect` follow. The first two need each
  other's facts, so they are proved together; `ProcChange` reduces a step to the one object it changes.

`RecordareOutboxProofs`
- All for any number of drains. What two of them may spoil (disagreement 4) is kept apart by `raced`, a fact of the history and not an
  assumption: `RaceKnown` says that whatever conflicting rows two drains hold at once are of a message in it.
- `OutboxInvariant`: `OutboxInv` has two groups of conjuncts. `RowsInv`: rows past the sequence do not exist, so an
  enqueue overwrites nothing; the bound leaves room for the rows still owed; the rows a drain holds were in the table,
  though another drain may have removed them; a request is about messages to ingest, or one row of another kind. `SentInv`: a message that was
  rewound while its ingest is on its way has its deletion in the table as well; a deletion's row is removed when Recordare
  has forgotten the message; a flag on its way that is not the message's any more is corrected by another row than the one
  that sends it, and a flag's row is removed when Recordare has that flag.
- Steps of users are reduced to two obligations (`DeletionOwed`, `FlagOwed`: the change is about to be enqueued, is enqueued by
  the step or was owed before), steps of the drain to a new request and the table it leaves.
- `OutboxTypeCorrect`, `DeletionsNotLost`, `PrivacyNotLost` follow. For a message outside `raced` a second drain can only repeat
  what the first one sends, which is the step the proofs turn on.
- `IngestInvariant`: `IngestInv`, kept beside `OutboxInv`, is about what should be in the memory: only what was rewound is
  deleted and nothing is said of what was never saved (by rows or by changes about to be enqueued), a chat that is
  there has no deletion of the conversation waiting, a request speaks of all its messages that still exist, and an ingest's row is removed
  when Recordare has the message. `IngestsNotLost` (`IngestQueued`) follows, without any exemption for what drains race for.
- `RestAgrees`: whatever happened before, when no request is under way and no row is left to try, the memory is what the chat says,
  but for rows that were parked, changes that never reached the table and messages two drains raced for. That is the safety
  part of `Settles`; that the outbox comes to rest is the part TLC checks.

`FlowEngineProofs`
- `FlowInv` ties the executor's counters to the graph: `pending` is the number of edges whose source is not resolved,
  `reached` the targets of the edges that were followed, a node is entered exactly when its last edge is resolved. That
  the loop ends with no node left needs the topological order: were some left, each would have a predecessor among them.
- `FlowTypeCorrect` and `JoinsComplete` follow, and `WavesImplementDataflow`: every step of the executor is a step of
  `FlowRun` or a stutter. This is the safety part of `ImplementsFlowRun`, for every set of finite flows and any retries.
- `RunsAdvance`: `FlowAdvances`, the argument for termination without its fairness: every step raises the rank of a node
  (waiting, each attempt, settled) or of the run's phase, and lowers none. A node has `Retries + 2` ranks above
  the first and a run three, so a run of n nodes is over after `n * (Retries + 2) + 3` steps.

`ChatTurnsProofs`, `McpBridgeProofs`, `RemoteToolsProofs`
- `HistoryInOrder`: `TurnInv` adds that a handler past the gate has the run or is about to give it up, that a request that
  has not asked has no message, and that after the question of the run in progress come only its own messages and refusals.
- `BusyIsHandled`: a chat that `runs` says is busy has a handler that will close the run: the safety part of `ChatFreed`.
- `OneBridgePerUser` and `OnlyTheBridgesTools`: inductive with `SocketsInv`, by which an app's socket is no other app's.
- `ListsAnnounced`: `ToolsAnnounced`, the safety part of `ToolsComeBack`: for the app that is the user's bridge, the list of the running process is what the
  gateway has, or is on its way, last of the lists there. `AnnounceInv` adds that no buffer keeps an empty list (an app that is
  not connected says its list anew when it connects) and that a list that is known is of a process.
- `CallsImplementRemoteCall`: the gateway, the sockets and the apps' buffers implement `RemoteCall`, initial states and
  every step. `CallsInv` says that a call is in one place at a time (asked of one socket, run by one app, or replied once in one
  buffer or on one socket); then a step moves one call on, or only loses calls and gives up on them. Names of calls are assumed to be no
  payloads of lists (`CallsAreNoLists`).
- `PartsImplemented`: a step of the composition is a step or a stutter of each part (`StepOfBoth`), so the composition implements
  the specification of each, fairness aside. `TurnsAndBridgeSafe` and `CallsAndToolsSafe` carry the invariants and the
  refinement over without proving them again.

Only model-checked: liveness (`DeathNoticed`, `RestartHappens`, `WaiterServed`, `Settles`, `ChatFreed`, `PageFollows`,
`AnswerShown`, `ToolsComeBack`, `CallsSettle`, and the part of `ImplementsFlowRun` that says a run ends): fairness is
out of the prover's reach. What each of them rests on is proved where a state can tell it: `NeverStranded` for
`RestartHappens`, `QueueNotForgotten` for `WaiterServed`, `RestAgrees`, `BusyIsHandled`, `ListsAnnounced` and `RunsAdvance`. `PageFollows` and
`AnswerShown` rest on what a window does later, after any number of missed events, and have no such part. The cap of
the dispatcher has no bound to prove: calls that slip in (disagreement 3) may repeat while woken waiters are due.

## Fairness

- Daemons: handlers in progress go on, be it to fail (Node resumes a settled await, calls have
  time-outs), the interval's sweep comes round, timers fire, signalled processes end
  (stop falls back to SIGKILL). Nothing is assumed of users, faults or reports.
- Dispatcher: microtasks run, calls settle, consumers leave their streams (the gate's
  contract), time passes for waiters. Nobody has to call again.
- LocalMcp: none is assumed. Its promise to go on is stated as safety (`NotStranded`):
  something that will act is always there.
- Outbox: the interval drains, requests of users run to their end, back-offs pass.
- Flows: the loop's own steps follow one another, and every attempt of a node settles: its calls have time-outs of their own.
- Turns: a handler goes on (the agent's steps are limited, its calls time out), and a window that is open gets the events of a
  live socket, polls at every interval, reads its messages when it is told to, and does not see every one of its GETs fail (strong fairness of
  `TakeGet`: whoever is offline for ever learns nothing). Nothing is assumed of users, joins or sockets: they
  may never reconnect, and `PageFollows` holds all the same, through the polling.
- Bridge: what reached a live socket is handled, and the timer of a call fires. Nothing is assumed of apps and processes.
  `ToolsComeBack` is about those that stay connected.

## Bounds

- Daemons: one row, two processes, two requests beside sweep and boot, two user
  operations, one to three faults. One row is enough since rows of a tuple meet only in `start`'s
  clean-up; two processes let one replace the other. Delays and `STABLE_RUN_MS` are small integers in one unit:
  only their order matters.
- Dispatcher: four callers are the least that give two waiters of one user beside one of
  another and a slot holder; each calls any number of times.
- LocalMcp: two objects, two children, two requests, one admin, none of them bounded in
  time: what is out of use is used again, so restarts, replacements and duplicates repeat
  without end. Two objects are the least that lets one be replaced, two children the least
  for a restart beside the exit of the previous. With all children in use a spawn waits for an exit;
  the proofs have no such limit.
- Daemons, further: the interval's sweep is one at a time (a second one, thirty seconds later, differs from the
  user's list beside it by nothing), and one row makes two `start()`s of one skill and user impossible.
- Outbox: two messages (one to rewind with the one that follows), two drains, three rows (a message,
  its change, one more), one fault. A request that takes effect and fails is one fault. With one fault a row is parked only
  because Recordare rejects it; that attempts run out is in the proofs (`OutboxTypeCorrect`), for any number of each. Messages are
  saved public (`SavedAs`), one rewind is under way at a time, and one change of privacy of each message. The two flags of a message may be exchanged throughout without any property noticing.
- Flows: every graph of three nodes that follows an order, each of the first two a condition or not, the second with any
  error policy and the others all stopping or all continuing; two diamonds, with branches of different lengths; two cycles; the empty flow. Three nodes
  give a join of two branches and a skipped node before a node that runs; one retry is enough to have a wave's nodes settle apart.
- RemoteTools: either two turns and a window, or one turn that calls the desktop with two apps and two connections: `desktop` chooses, since
  the bridge's steps and the window's leave each other alone. `MaxInbox` and `MaxQueue` bound what is under way when a run shows progress or a process
  changes; they restrict neither an end of a run nor an answer. With `MaxQueue` 1 an empty list and the full one are never queued together: that
  order is left to the proof (`ListsAnnounced`). `MaxGets` bounds the GETs under way with the same answer, so that up to three are, one for each. `Ordered` breaks the symmetry of two names, `Bounded`
  lets the apps act until the agent has done its work, and keeps the second app to what the first one's replacement needs: it starts no process,
  is not refused, and neither quits while connected nor comes while the first one quits. The proofs have none of this. Of the bounds only `MaxGets` meets a step that
  fairness is assumed of: a window polls again once an answer like the next one has been taken.
- The proofs have no bounds but the modules' counters, which are arbitrary.

## Not modelled

- Daemons: logs, wording, ports, environment, emitted data; two rows of one tuple. Dispatcher: several
  configs (queues share nothing). Local MCP servers: the end of the backend, results of tools, other transports.
  That a spawn of a command that does not exist fails a moment later is the same as one that throws.
- Outbox: person, note and import rows, chat-wide privacy. Other chats: `Select` is of one.
- Flows: what a node computes (sub-flows, loops, bindings, the delivery to a chat), edges to nodes that do not exist,
  two equal edges, the notification after a run, and everything that starts a run (schedules, webhooks).
- Turns: the window that sends, files and attachments, what the agent and a team do, and the memory extracted afterwards. A cancel is an early end of the
  agent. Other writers of the chat's messages (above). A rewind during a run: the code looks at no run there, and promises nothing.
- Bridge: changes of its configuration, tools turned off, the latency ping, `server:status`, the later life of a socket that a connect() during
  disconnect() left open.
- Automations, flow schedules, re-embedding and the evolution of memories: rows kept in step with jobs or collections
  of other systems. Their hazards are listed in `PROJECT.json`.
- Saving in TypeORM, BullMQ, Recordare, socket.io and LangGraph are external.

The modelled lines are a small share of the repository's: most of it is user interface, CRUD over HTTP, adapters to
other systems and prompts, one request and one answer without a protocol. Each part is in `PROJECT.json` with its reason.

## Plan

Done: `SkillDaemons`, `LlmDispatcher`, `LocalMcp`, `RecordareOutbox`, `FlowEngine` with `FlowRun`, `ChatTurns`,
`McpBridge` with `RemoteCall` and their composition, each checked and its safety proved: every invariant and action property of the passing
runs, and the safety part of both refinements.

Next, in this order:
1. The removal of a chat in `RecordareOutbox`: which rows may still be sent after its deletion.
2. `McpBridge` with changes of configuration: two of them handled together.
3. `Reembed`: an abstract, atomic migration and the shadow copy that refines it.
4. `AutoScheduler`: rows against jobs; what a run's stale save overwrites.
5. `UserMemory`: symmetric links under concurrent evolutions.
