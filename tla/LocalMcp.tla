------------------------------- MODULE LocalMcp -------------------------------
(***************************************************************************)
(* One MCP server of transport 'local': the stdio process that the backend *)
(* launches for it. LocalMcpProcess supervises a child (handshake, restart *)
(* timer, pending calls); McpServersService keeps the object in its Map,   *)
(* creates it for the requests that need tools and stops it for an admin.  *)
(* An object that the Map has lost goes on by itself.                      *)
(***************************************************************************)
CONSTANTS
  Procs,     \* LocalMcpProcess objects; one out of use is used again
  Children,  \* child processes, used again after they end
  Users,     \* requests that need the server's tools
  Admins,    \* requests that remove the server or change its transport
  None

ASSUME NoneAssumption == None \notin Procs \cup Children

VARIABLES
  localProcess,  \* localProcesses.get(id)
  starting,      \* startingProcesses.get(id): the object whose start() it waits for
  proc,          \* the objects
  child,         \* the child processes
  pending,       \* pendingRequests of each object, the handshake's left out
  user,          \* where each request is, and the object it waits for or calls
  admin          \* the object each admin request is stopping

vars == <<localProcess, starting, proc, child, pending, user, admin>>

Requests == {"initialize", "tools/list"}

\* status "none": not constructed. handshake: the request it waits for; booting: start()
\* has not returned; tools: the cache of tools is not empty.
ProcStates ==
  [status : {"none", "stopped", "starting", "running", "error"}, shouldRestart : BOOLEAN,
   timer : BOOLEAN, process : Children \cup {None}, handshake : Requests \cup {"none"},
   booting : BOOLEAN, tools : BOOLEAN]

\* "killed" has been sent a signal, "dead" has ended by itself; both have their exit
\* event to come, which a deaf one's object does not hear. asked: requests of the
\* handshake it has not answered.
ChildStates ==
  [of : Procs \cup {None}, state : {"none", "up", "killed", "dead"}, deaf : BOOLEAN,
   asked : SUBSET Requests]

UserStates ==
  [pc : {"idle", "loading", "inFlight", "waiting", "ready", "calling"},
   ref : Procs \cup {None}]

NoProc ==
  [status |-> "none", shouldRestart |-> FALSE, timer |-> FALSE, process |-> None,
   handshake |-> "none", booting |-> FALSE, tools |-> FALSE]
NoChild == [of |-> None, state |-> "none", deaf |-> FALSE, asked |-> {}]
Idle == [pc |-> "idle", ref |-> None]

TypeOK ==
  /\ localProcess \in Procs \cup {None}
  /\ starting \in Procs \cup {None}
  /\ proc \in [Procs -> ProcStates]
  /\ child \in [Children -> ChildStates]
  /\ pending \in [Procs -> SUBSET Users]
  /\ user \in [Users -> UserStates]
  /\ admin \in [Admins -> Procs \cup {None}]

Init ==
  /\ localProcess = None
  /\ starting = None
  /\ proc = [p \in Procs |-> NoProc]
  /\ child = [k \in Children |-> NoChild]
  /\ pending = [p \in Procs |-> {}]
  /\ user = [u \in Users |-> Idle]
  /\ admin = [a \in Admins |-> None]

-----------------------------------------------------------------------------
(* LocalMcpProcess *)

scheduleRestart(o) == [o EXCEPT !.timer = o.timer \/ o.shouldRestart]

\* Variant: a failed handshake leaves the restart to the exit event.
HandshakeOverQuiet(o, status) ==
  [o EXCEPT !.status = IF o.handshake = "none" THEN status ELSE "error",
            !.handshake = "none", !.booting = FALSE]

\* The requests of o have been rejected: its handshake, if one was under way, fails
\* and asks for a restart; otherwise o has the given status.
HandshakeOver(o, status) ==
  LET over == [o EXCEPT !.status = IF o.handshake = "none" THEN status ELSE "error",
                        !.handshake = "none", !.booting = FALSE] IN
  IF o.handshake = "none" THEN over ELSE scheduleRestart(over)

\* start() of p returns when its first handshake ends; finally() then deletes the
\* server's entry of startingProcesses, whoever put it there.
StartReturns(p) ==
  starting' = IF proc[p].booting /\ ~proc'[p].booting THEN None ELSE starting

Signal(k) == [child EXCEPT ![k].state = IF @ = "up" THEN "killed" ELSE @]

\* The clean-up of spawnProcess(): removeAllListeners() of the child, not of its
\* stdout, and SIGKILL.
KillPrevious(k) == IF k = None THEN child ELSE [Signal(k) EXCEPT ![k].deaf = TRUE]

\* spawnProcess() of p, whose fields are o: a new child is asked to initialize.
Spawns(p, o) ==
  \E k \in Children :
    /\ child[k].state = "none"
    /\ proc' = [proc EXCEPT ![p] = [o EXCEPT !.status = "starting", !.process = k,
                                             !.handshake = "initialize"]]
    /\ child' = [KillPrevious(o.process) EXCEPT
                   ![k] = [of |-> p, state |-> "up", deaf |-> FALSE, asked |-> {"initialize"}]]

\* spawn() throws, or the command does not exist: no child, another try later.
SpawnFails(p, o) ==
  /\ proc' = [proc EXCEPT ![p] =
       scheduleRestart([o EXCEPT !.status = "error", !.process = None, !.booting = FALSE])]
  /\ child' = KillPrevious(o.process)

\* The restart timer: five seconds after it was last set.
TimerFires(p) ==
  /\ proc[p].timer /\ proc[p].shouldRestart
  /\ LET o == [proc[p] EXCEPT !.timer = FALSE] IN Spawns(p, o) \/ SpawnFails(p, o)
  /\ UNCHANGED <<localProcess, starting, pending, user, admin>>

\* Variant: the pending calls are forgotten, timers and all.
CallsForgotten(p) == pending' = [pending EXCEPT ![p] = {}] /\ UNCHANGED user

\* The tool calls of p settle: those that were pending go back to their turns.
CallsRejected(p) ==
  /\ pending' = [pending EXCEPT ![p] = {}]
  /\ user' = [u \in Users |-> IF u \in pending[p] THEN [user[u] EXCEPT !.pc = "ready"]
                              ELSE user[u]]

\* A line on stdout of k with the id of the request that the handshake waits for. The
\* ids are 1 and 2 for every child, so a killed one's late line counts too.
HandshakeAnswered(k) ==
  LET p == child[k].of IN
  /\ p # None
  /\ proc[p].handshake \in child[k].asked
  /\ \/ /\ proc[p].handshake = "initialize"
        /\ proc' = [proc EXCEPT ![p].handshake = "tools/list"]
        /\ child' = [c \in Children |-> [child[c] EXCEPT !.asked =
             (IF c = k THEN @ \ {"initialize"} ELSE @)
               \cup (IF c = proc[p].process THEN {"tools/list"} ELSE {})]]
     \/ /\ proc[p].handshake = "tools/list"
        /\ proc' = [proc EXCEPT ![p] = [@ EXCEPT !.handshake = "none", !.status = "running",
                                                !.tools = TRUE, !.booting = FALSE]]
        /\ child' = [child EXCEPT ![k].asked = @ \ {"tools/list"}]
  /\ StartReturns(p)
  /\ UNCHANGED <<localProcess, pending, user, admin>>

\* An error for an answer, thirty seconds without one, or a stdin that is not writable.
HandshakeFails(p) ==
  /\ proc[p].handshake # "none"
  /\ proc' = [proc EXCEPT ![p] = HandshakeOver(proc[p], "error")]
  /\ StartReturns(p)
  /\ UNCHANGED <<localProcess, child, pending, user, admin>>

\* A child ends by itself; the backend has not heard of it yet.
ChildDies(k) ==
  /\ child[k].state = "up"
  /\ child' = [child EXCEPT ![k].state = "dead"]
  /\ UNCHANGED <<localProcess, starting, proc, pending, user, admin>>

\* The exit event. A child that has ended is nobody's process: no signal reaches it and
\* its stdin is not writable.
Exit(k) ==
  LET p == child[k].of
      o == [proc[p] EXCEPT !.process = IF @ = k THEN None ELSE @] IN
  /\ child[k].state \in {"killed", "dead"}
  /\ child' = [child EXCEPT ![k] = NoChild]
  /\ IF child[k].deaf
     THEN UNCHANGED <<proc, starting, pending, user>>
     ELSE /\ proc' = [proc EXCEPT ![p] = scheduleRestart(HandshakeOver(o, "stopped"))]
          /\ StartReturns(p)
          /\ CallsRejected(p)
  /\ UNCHANGED <<localProcess, admin>>

-----------------------------------------------------------------------------
(* ensureLocalProcess, and a turn of the agent with the tools it returned *)

\* A turn with tools calls the object that the Map holds once it goes on; undefined when
\* the server was removed meanwhile.
Turn(hasTools) == IF hasTools THEN [pc |-> "ready", ref |-> localProcess] ELSE Idle

Healthy(p) == p # None /\ proc[p].status \in {"starting", "running"}

Ensure(u) ==
  /\ user[u].pc = "idle"
  /\ user' = [user EXCEPT ![u] =
       IF Healthy(localProcess) THEN Turn(proc[localProcess].tools)
       ELSE IF starting # None THEN [pc |-> "inFlight", ref |-> starting]
       ELSE [pc |-> "loading", ref |-> None]]
  /\ UNCHANGED <<localProcess, starting, proc, child, pending, admin>>

\* Variant: the start is entered in the Map even when it has returned.
EntryAfter(p) == p

\* startingProcesses after start() has been called: its finally() runs after the set().
EntryOf(p) == IF proc'[p].booting THEN p ELSE None

\* The secrets are loaded: a new object replaces whatever the Map holds by now.
Create(u) ==
  /\ user[u].pc = "loading"
  /\ \E p \in Procs :
       /\ proc[p].status = "none"
       /\ LET o == [NoProc EXCEPT !.shouldRestart = TRUE, !.booting = TRUE] IN
          Spawns(p, o) \/ SpawnFails(p, o)
       /\ localProcess' = p
       /\ starting' = EntryOf(p)
       /\ user' = [user EXCEPT ![u] = [pc |-> "waiting", ref |-> p]]
  /\ UNCHANGED <<pending, admin>>

\* waitForRunning() returns: 'running', 'error' or fifteen seconds. Or the start of
\* another request returns.
WaitOver(u) ==
  /\ user[u].pc \in {"waiting", "inFlight"}
  /\ user[u].pc = "inFlight" => ~proc[user[u].ref].booting
  /\ LET from == IF user[u].pc = "waiting" THEN user[u].ref ELSE localProcess IN
     user' = [user EXCEPT ![u] = Turn(from # None /\ proc[from].tools)]
  /\ UNCHANGED <<localProcess, starting, proc, child, pending, admin>>

\* A tool is called, if the object the turn holds is running. The tools of a turn that
\* holds undefined throw, and the turn goes on.
CallTool(u) ==
  LET p == user[u].ref IN
  /\ user[u].pc = "ready"
  /\ p # None /\ proc[p].status = "running"
  /\ pending' = [pending EXCEPT ![p] = @ \cup {u}]
  /\ user' = [user EXCEPT ![u].pc = "calling"]
  /\ UNCHANGED <<localProcess, starting, proc, child, admin>>

\* Its answer, an error, or thirty seconds.
CallSettles(u) ==
  LET p == user[u].ref IN
  /\ user[u].pc = "calling"
  /\ u \in pending[p]
  /\ pending' = [pending EXCEPT ![p] = @ \ {u}]
  /\ user' = [user EXCEPT ![u].pc = "ready"]
  /\ UNCHANGED <<localProcess, starting, proc, child, admin>>

\* The turn ends, or the secrets could not be loaded.
TurnEnds(u) ==
  /\ user[u].pc \in {"ready", "loading"}
  /\ user' = [user EXCEPT ![u] = Idle]
  /\ UNCHANGED <<localProcess, starting, proc, child, pending, admin>>

-----------------------------------------------------------------------------
(* remove(), and update() to another transport *)

\* Variant: a process that is not running needs no signal.
SignalRunning(p) ==
  IF proc[p].process = None \/ proc[p].status # "running" THEN child ELSE Signal(proc[p].process)

\* SIGTERM to the child of p.
Terminate(p) == IF proc[p].process = None THEN child ELSE Signal(proc[p].process)

\* stop() of the Map's object, up to its await.
Stop(a) ==
  LET p == localProcess IN
  /\ admin[a] = None
  /\ p # None
  /\ proc' = [proc EXCEPT ![p] = HandshakeOver([@ EXCEPT !.shouldRestart = FALSE,
                                                         !.timer = FALSE], "stopped")]
  /\ child' = Terminate(p)
  /\ StartReturns(p)
  /\ CallsRejected(p)
  /\ admin' = [admin EXCEPT ![a] = p]
  /\ UNCHANGED localProcess

\* The child has ended, or three seconds have passed and it is sent SIGKILL: the entries
\* of the Maps are deleted, whatever object they hold by now.
StopReturns(a) ==
  /\ admin[a] # None
  /\ proc' = [proc EXCEPT ![admin[a]].process = None]
  /\ localProcess' = None
  /\ starting' = None
  /\ admin' = [admin EXCEPT ![a] = None]
  /\ UNCHANGED <<child, pending, user>>

\* Nothing refers to a stopped object any more.
Collected(p) ==
  /\ proc[p].status # "none"
  /\ ~proc[p].shouldRestart
  /\ localProcess # p
  /\ \A k \in Children : child[k].of # p
  /\ \A u \in Users : user[u].ref # p
  /\ \A a \in Admins : admin[a] # p
  /\ proc' = [proc EXCEPT ![p] = NoProc]
  /\ UNCHANGED <<localProcess, starting, child, pending, user, admin>>

-----------------------------------------------------------------------------

Next ==
  \/ \E p \in Procs : TimerFires(p) \/ HandshakeFails(p) \/ Collected(p)
  \/ \E k \in Children : HandshakeAnswered(k) \/ ChildDies(k) \/ Exit(k)
  \/ \E u \in Users : \/ Ensure(u) \/ Create(u) \/ WaitOver(u)
                      \/ CallTool(u) \/ CallSettles(u) \/ TurnEnds(u)
  \/ \E a \in Admins : Stop(a) \/ StopReturns(a)

Spec == Init /\ [][Next]_vars

-----------------------------------------------------------------------------
(* Properties *)

\* A child that nobody has signalled is the current one of its object, which is not
\* stopped: no restart leaves the previous child running beside the new one, and after
\* stop() nothing of the object runs.
UnsignalledIsCurrent ==
  \A k \in Children :
    child[k].state = "up" =>
      LET o == proc[child[k].of] IN o.process = k /\ o.shouldRestart

\* Something will bring an object that is to be kept alive back: it runs, its handshake
\* will end, its timer is set, or the exit event that sets it is still to come.
NotStranded ==
  \A p \in Procs :
    LET o == proc[p] IN
    o.shouldRestart =>
      \/ o.timer
      \/ o.handshake # "none"
      \/ /\ o.process # None /\ ~child[o.process].deaf
         /\ child[o.process].state \in {"killed", "dead"} \/ o.status = "running"

\* Every tool call under way is one its object can still settle: exits, restarts and
\* stops drop none of them silently.
CallsTracked ==
  \A u \in Users : user[u].pc = "calling" => u \in pending[user[u].ref]

\* startingProcesses names only the Map's own object while its start() is under way: no
\* request can wait for a start that is over, or for that of an object that was replaced.
StartEntryIsCurrent ==
  starting # None => starting = localProcess /\ proc[starting].booting

\* "wait without duplicating": the server has one supervised process at a time.
OneProcessPerServer ==
  \A p, q \in Procs : proc[p].shouldRestart /\ proc[q].shouldRestart => p = q
=============================================================================
