---------------------------- MODULE SkillDaemons ----------------------------
(***************************************************************************)
(* Background processes ("daemons") of the skills: the backend's           *)
(* DaemonsService, the database rows it keeps, and the executor's          *)
(* daemon-manager that owns the processes.                                 *)
(*                                                                         *)
(* The rows modelled are those of ONE (user, skill, script) tuple: rows of *)
(* other tuples share nothing with them but the loops of boot and sweep.   *)
(* Each await of the backend (a query, an update, a call of the executor)  *)
(* is one step; what runs between two awaits belongs to the step before.   *)
(***************************************************************************)
EXTENDS Integers, Sequences, FiniteSets

CONSTANTS
  Daemons,    \* ids of the rows the tuple may ever have
  NoDaemon,
  Pids,       \* processes the executor can have at the same time
  NoPid,
  Requests,   \* handlers the backend runs concurrently
  Delays,     \* RESTART_DELAYS_S, in units of time
  StableRun,  \* STABLE_RUN_MS, in the same units
  MaxOps,     \* bound: requests made by users
  MaxFaults   \* bound: deaths, crashes, lost messages and failed calls

ASSUME DaemonsAssumption == NoDaemon \notin Daemons
ASSUME PidsAssumption == NoPid \notin Pids
ASSUME SlotsAssumption == {"sweep", "boot"} \cap Requests = {}
ASSUME DelaysAssumption == Delays \in Seq(Nat \ {0})
ASSUME StableRunAssumption == StableRun \in Nat \ {0}
ASSUME BoundsAssumption == MaxOps \in Nat /\ MaxFaults \in Nat

VARIABLES
  daemon,           \* the rows of skill_daemons
  restartTimers,    \* index of the delay a pending timer waits for, 0 for no timer
  restartAttempts,  \* attempts made so far, 0 when the map has no entry
  task,             \* the handlers in progress
  entry,            \* the executor's map daemonId -> process
  process,          \* the executor's processes
  reports,          \* daemon_exit notifications on their way, per daemon
  dropped,          \* history: rows whose restart was dropped by a failing query
  ops, faults       \* what is left of the bounds

backend  == <<restartTimers, restartAttempts>>
executor == <<entry, process>>
bounds   == <<ops, faults>>
vars == <<daemon, backend, task, executor, reports, dropped, bounds>>

-----------------------------------------------------------------------------
(* Types *)

Slots == Requests \cup {"sweep", "boot"}
ActiveStatuses == {"starting", "running", "restarting"}
\* "absent" is an id no row was created with yet, "removed" one whose row is gone.
Statuses == ActiveStatuses \cup {"stopped", "error", "absent", "removed"}

\* age: time since startedAt, counted up to StableRun; -1 when startedAt is null.
Rows == [status : Statuses, pid : Pids \cup {NoPid}, age : -1..StableRun]
NoRow == [status |-> "absent", pid |-> NoPid, age |-> -1]

\* The steps of each handler.
Phase(op, pc) ==
  \/ op = "idle"    /\ pc = "idle"
  \/ op = "start"   /\ pc \in {"list", "kill", "create", "call", "confirm", "failed"}
  \/ op = "stop"    /\ pc \in {"exec", "update"}
  \/ op = "restart" /\ pc \in {"exec", "mark", "call", "confirm"}
  \/ op = "remove"  /\ pc = "delete"
  \/ op = "exit"    /\ pc \in {"crash", "arm"}
  \/ op = "auto"    /\ pc \in {"read", "call", "confirm", "crash", "arm"}
  \/ op = "sweep"   /\ pc \in {"find", "each", "crash", "arm"}
  \/ op = "boot"    /\ pc \in {"find", "list", "each", "call", "confirm", "failed"}

Ops == {"idle", "start", "stop", "restart", "remove", "exit", "auto", "sweep", "boot"}
Pcs == {"idle", "list", "kill", "create", "call", "confirm", "failed", "exec", "update",
        "mark", "delete", "crash", "arm", "find", "read", "each"}

\* d: the daemon being handled; todo, rows: the loop's remaining ids and the rows
\* it read; live: the executor's answer to /daemon/list; attempt: local of crashed().
TaskRecords ==
  [op : Ops, pc : Pcs, d : Daemons \cup {NoDaemon}, pid : Pids \cup {NoPid},
   todo : SUBSET Daemons, rows : [Daemons -> Rows],
   live : [Daemons -> Pids \cup {NoPid}], attempt : 0..Len(Delays)]

Tasks == {t \in TaskRecords :
            /\ Phase(t.op, t.pc)
            /\ t.pc \in {"exec", "update", "mark", "call", "confirm", "failed", "delete",
                         "crash", "arm", "read"} => t.d \in Daemons}

NoLive == [d \in Daemons |-> NoPid]
Idle == [op |-> "idle", pc |-> "idle", d |-> NoDaemon, pid |-> NoPid, todo |-> {},
         rows |-> [d \in Daemons |-> NoRow], live |-> NoLive, attempt |-> 0]

\* A process is spawned, told to stop, or a spawn that failed and whose 'error'
\* event is still to come; a free pid is no process.
Processes == [st : {"free", "up", "stopping", "failed"}, d : Daemons \cup {NoDaemon}]
NoProcess == [st |-> "free", d |-> NoDaemon]

TypeOK ==
  /\ daemon \in [Daemons -> Rows]
  /\ restartTimers \in [Daemons -> 0..Len(Delays)]
  /\ restartAttempts \in [Daemons -> 0..Len(Delays)]
  /\ task \in [Slots -> Tasks]
  /\ entry \in [Daemons -> Pids \cup {NoPid}]
  /\ process \in [Pids -> Processes]
  /\ reports \in [Daemons -> Nat]
  /\ dropped \subseteq Daemons
  /\ ops \in 0..MaxOps
  /\ faults \in 0..MaxFaults

Init ==
  /\ daemon = [d \in Daemons |-> NoRow]
  /\ restartTimers = [d \in Daemons |-> 0]
  /\ restartAttempts = [d \in Daemons |-> 0]
  /\ task = [s \in Slots |-> Idle]
  /\ entry = NoLive
  /\ process = [p \in Pids |-> NoProcess]
  /\ reports = [d \in Daemons |-> 0]
  /\ dropped = {}
  /\ ops = MaxOps
  /\ faults = MaxFaults

-----------------------------------------------------------------------------
(* The executor: startDaemon, stopDaemon, listDaemons and the child's events *)

Active(d) == daemon[d].status \in ActiveStatuses
Serving == task["boot"] = Idle     \* HTTP is served once onModuleInit has returned
Fault == faults > 0 /\ faults' = faults - 1 /\ UNCHANGED ops
Request == ops > 0 /\ ops' = ops - 1 /\ UNCHANGED faults

\* stopDaemon: the entry goes at once, the process when it obeys the signal.
Signalled(d) ==
  IF entry[d] = NoPid \/ process[entry[d]].st = "failed" THEN process
  ELSE [process EXCEPT ![entry[d]].st = "stopping"]

StopInExecutor(d) ==
  /\ process' = Signalled(d)
  /\ entry' = [entry EXCEPT ![d] = NoPid]

\* startDaemon: a process with the same id is stopped first; spawn may fail, which
\* is known only later.
StartInExecutor(d, p) ==
  /\ process[p].st = "free"
  /\ \E st \in {"up", "failed"} :
        process' = [Signalled(d) EXCEPT ![p] = [st |-> st, d |-> d]]
  /\ entry' = [entry EXCEPT ![d] = p]

\* Variant: the exit of any process removes the entry.
ReleaseUnchecked(p) == [entry EXCEPT ![process[p].d] = NoPid]

\* release(): only the process the entry names removes it.
Release(p) ==
  LET d == process[p].d IN
  IF entry[d] = p THEN [entry EXCEPT ![d] = NoPid] ELSE entry

\* A process dies by itself: the entry is released and the exit is reported,
\* unless nobody listens; the report is best-effort and may be lost, a read of the
\* row that fails when it arrives included.
ProcessDies(p) ==
  /\ process[p].st = "up"
  /\ Fault
  /\ entry' = Release(p)
  /\ process' = [process EXCEPT ![p] = NoProcess]
  /\ \/ Serving /\ reports' = [reports EXCEPT ![process[p].d] = @ + 1]
     \/ UNCHANGED reports
  /\ UNCHANGED <<daemon, backend, task, dropped>>

\* A process told to stop obeys SIGTERM, or SIGKILL after the grace period: the
\* exit is intended and is not reported. A failed spawn raises 'error': no report.
ProcessEnds(p) ==
  /\ process[p].st \in {"stopping", "failed"}
  /\ entry' = Release(p)
  /\ process' = [process EXCEPT ![p] = NoProcess]
  /\ UNCHANGED <<daemon, backend, task, reports, dropped, bounds>>

\* The executor's container restarts: its processes and its map are gone.
ExecutorRestart ==
  /\ Fault
  /\ entry' = NoLive
  /\ process' = [p \in Pids |-> NoProcess]
  /\ UNCHANGED <<daemon, backend, task, reports, dropped>>

\* A process stays up for STABLE_RUN_MS.
LongRun(d) ==
  /\ daemon[d].status = "running" /\ entry[d] # NoPid
  /\ process[entry[d]].st = "up" /\ daemon[d].age \in 0..(StableRun - 1)
  /\ daemon' = [daemon EXCEPT ![d].age = StableRun]
  /\ UNCHANGED <<backend, task, executor, reports, dropped, bounds>>

-----------------------------------------------------------------------------
(* Steps shared by several handlers *)

Goto(s, pc) == task' = [task EXCEPT ![s].pc = pc]

\* What follows the handling of one daemon: the next of the loop, or the end.
NextOf(t) ==
  IF t.op \in {"sweep", "boot"} /\ t.todo # {}
  THEN [t EXCEPT !.pc = "each", !.d = NoDaemon, !.pid = NoPid, !.attempt = 0]
  ELSE Idle

Return(s) == task' = [task EXCEPT ![s] = NextOf(@)]

\* repo.update(id, ...): a removed row is not written.
Update(d, row) ==
  daemon' = IF daemon[d].status \in {"absent", "removed"} THEN daemon
            ELSE [daemon EXCEPT ![d] = row]

CancelRestart(d) ==
  /\ restartTimers' = [restartTimers EXCEPT ![d] = 0]
  /\ restartAttempts' = [restartAttempts EXCEPT ![d] = 0]

\* The synchronous head of crashed(): the attempt this crash counts as.
AttemptOf(d, row) == IF row.age >= StableRun THEN 0 ELSE restartAttempts[d]

EnterCrashed(s, t, d, row) ==
  /\ restartAttempts' = [restartAttempts EXCEPT ![d] = AttemptOf(d, row)]
  /\ task' = [task EXCEPT ![s] = [t EXCEPT !.pc = "crash", !.d = d,
                                           !.attempt = AttemptOf(d, row)]]

\* doStart: the answer of the executor arrives.
CallOk(s, p) ==
  LET d == task[s].d IN
  /\ task[s].pc = "call"
  /\ StartInExecutor(d, p)
  /\ task' = [task EXCEPT ![s].pc = "confirm", ![s].pid = p]
  /\ UNCHANGED <<daemon, backend, reports, dropped, bounds>>

\* doStart throws: start() and boot record the error, an automatic restart counts
\* as a crash, restart() lets the exception out.
CallThrows(s) ==
  LET t == task[s] IN
  \/ /\ t.op \in {"start", "boot"}
     /\ Goto(s, "failed") /\ UNCHANGED backend
  \/ /\ t.op = "restart"
     /\ task' = [task EXCEPT ![s] = Idle] /\ UNCHANGED backend
  \/ /\ t.op = "auto"
     /\ EnterCrashed(s, t, t.d, t.rows[t.d]) /\ UNCHANGED restartTimers

\* The executor is unreachable, refuses, or the skill is gone: nothing is started.
CallFails(s) ==
  /\ task[s].pc = "call"
  /\ Fault
  /\ CallThrows(s)
  /\ UNCHANGED <<daemon, executor, reports, dropped>>

\* The executor starts the process but its answer is lost.
CallAnswerLost(s, p) ==
  /\ task[s].pc = "call"
  /\ Fault
  /\ StartInExecutor(task[s].d, p)
  /\ CallThrows(s)
  /\ UNCHANGED <<daemon, reports, dropped>>

\* doStart's last step: the row becomes 'running' whatever it was.
Confirm(s) ==
  LET d == task[s].d IN
  /\ task[s].pc = "confirm"
  /\ Update(d, [status |-> "running", pid |-> task[s].pid, age |-> 0])
  /\ Return(s)
  /\ UNCHANGED <<backend, executor, reports, dropped, bounds>>

\* start() and boot: the failed start is recorded.
Failed(s) ==
  LET d == task[s].d IN
  /\ task[s].pc = "failed"
  /\ Update(d, [daemon[d] EXCEPT !.status = "error"])
  /\ Return(s)
  /\ UNCHANGED <<backend, executor, reports, dropped, bounds>>

\* Variant: the update of crashed() without its condition on the status.
FromAny(op) == Statuses \ {"absent", "removed"}

\* Variant: the sweep passes the status autoRestart passes.
FromSwapped(op) == IF op = "exit" THEN {"starting", "running"} ELSE {"restarting"}

\* The statuses from which a crash counts, by who noticed it.
From(op) == CASE op = "exit"  -> {"starting", "running"}
              [] op = "sweep" -> {"running"}
              [] op = "auto"  -> {"restarting"}

\* Variant: one attempt too many.
GivesUpLate(t) == t.attempt > Len(Delays)

GivesUp(t) == t.attempt >= Len(Delays)

\* crashed(): the conditional update. A row that is no longer in From is left alone.
Crash(s) ==
  LET t == task[s] IN
  /\ t.pc = "crash"
  /\ IF daemon[t.d].status \in From(t.op)
     THEN /\ daemon' = [daemon EXCEPT ![t.d].status =
                          IF GivesUp(t) THEN "error" ELSE "restarting"]
          /\ Goto(s, "arm")
     ELSE Return(s) /\ UNCHANGED daemon
  /\ UNCHANGED <<backend, executor, reports, dropped, bounds>>

\* crashed(): what follows the update, the timer of the next restart or nothing.
Arm(s) ==
  LET t == task[s] IN
  /\ t.pc = "arm"
  /\ IF GivesUp(t)
     THEN /\ restartAttempts' = [restartAttempts EXCEPT ![t.d] = 0]
          /\ UNCHANGED <<restartTimers, dropped>>
     ELSE /\ restartAttempts' = [restartAttempts EXCEPT ![t.d] = t.attempt + 1]
          /\ restartTimers' = [restartTimers EXCEPT ![t.d] = t.attempt + 1]
          /\ dropped' = dropped \ {t.d}
  /\ Return(s)
  /\ UNCHANGED <<daemon, executor, reports, bounds>>

\* Handler t will still move daemon d out of 'restarting', or arm its timer.
Resolves(t, d) ==
  \/ t.d = d /\ t.pc = "arm" /\ ~GivesUp(t)
  \/ t.d = d /\ t.op = "auto" /\ t.pc \in {"read", "call", "confirm", "crash"}
  \/ t.d = d /\ t.op = "stop"
  \/ t.d = d /\ t.op = "restart" /\ t.pc \in {"exec", "mark"}
  \/ t.d = d /\ t.op = "boot" /\ t.pc \in {"call", "confirm", "failed"}
  \/ t.op = "boot" /\ (t.pc = "find" \/ d \in t.todo)

\* reconcile() writes the row of a live daemon that changed since.
Confirms(t, d) ==
  t.live[d] # NoPid /\ (t.rows[d].pid # t.live[d] \/ t.rows[d].status # "running")

\* The handler awaits a query of the database, and not the executor.
Querying(t) ==
  \/ t.pc \in {"create", "failed", "update", "mark", "delete", "crash", "read"}
  \/ t.op = "sweep" /\ t.pc = "find"
  \/ t.op = "sweep" /\ t.pc = "each" /\ \E d \in t.todo : Confirms(t, d)

\* A query fails. Within doStart it is a start that failed; elsewhere the handler ends
\* where it is, the whole of reconcile() too, and a restart that autoRestart, stop or
\* restart() had taken from its timer is dropped. Out of onModuleInit it ends the
\* process, which is BackendRestart.
QueryFails(s) ==
  LET t == task[s] IN
  /\ Fault
  /\ \/ t.pc = "confirm" /\ CallThrows(s) /\ UNCHANGED dropped
     \/ /\ s # "boot" /\ Querying(t)
        /\ task' = [task EXCEPT ![s] = Idle]
        /\ dropped' = dropped \cup
             {d \in Daemons : daemon[d].status = "restarting" /\ Resolves(t, d)}
        /\ UNCHANGED backend
  /\ UNCHANGED <<daemon, executor, reports>>

-----------------------------------------------------------------------------
(* Requests of the user *)

Begin(s, op, pc, d) ==
  task' = [task EXCEPT ![s] = [Idle EXCEPT !.op = op, !.pc = pc, !.d = d]]

\* start(): no active row may exist.
Start(s) ==
  /\ s \in Requests /\ task[s] = Idle /\ Serving /\ Request
  /\ \A d \in Daemons : ~Active(d)
  /\ Begin(s, "start", "list", NoDaemon)
  /\ UNCHANGED <<daemon, backend, executor, reports, dropped>>

\* start(): which processes of the tuple the executor still has; unreachable, none.
StartList(s) ==
  /\ task[s].op = "start" /\ task[s].pc = "list"
  /\ \/ /\ task' = [task EXCEPT ![s].pc = "kill",
                                ![s].todo = {d \in Daemons : entry[d] # NoPid}]
        /\ UNCHANGED bounds
     \/ Fault /\ Goto(s, "create")
  /\ UNCHANGED <<daemon, backend, executor, reports, dropped>>

\* start(): the zombies are stopped, in any order; a failed stop is ignored.
StartKill(s) ==
  /\ task[s].pc = "kill"
  /\ \/ \E d \in task[s].todo :
          /\ task' = [task EXCEPT ![s].todo = @ \ {d}]
          /\ \/ StopInExecutor(d) /\ UNCHANGED bounds
             \/ Fault /\ UNCHANGED executor
     \/ task[s].todo = {} /\ Goto(s, "create") /\ UNCHANGED <<executor, bounds>>
  /\ UNCHANGED <<daemon, backend, reports, dropped>>

\* start(): the row is inserted, under a fresh id while Daemons (a bound) has one.
StartCreate(s) ==
  /\ task[s].pc = "create"
  /\ \/ \E d \in Daemons :
          /\ daemon[d].status = "absent"
          /\ daemon' = [daemon EXCEPT ![d].status = "starting"]
          /\ task' = [task EXCEPT ![s].pc = "call", ![s].d = d]
     \/ (\A d \in Daemons : daemon[d].status # "absent") /\ Return(s) /\ UNCHANGED daemon
  /\ UNCHANGED <<backend, executor, reports, dropped, bounds>>

\* stop(): refused unless active; the pending restart is dropped.
Stop(s, d) ==
  /\ s \in Requests /\ task[s] = Idle /\ Serving /\ Request
  /\ Active(d)
  /\ CancelRestart(d)
  /\ Begin(s, "stop", "exec", d)
  /\ UNCHANGED <<daemon, executor, reports, dropped>>

\* stop() and restart(): the executor is asked to stop the process, best-effort.
ExecStop(s) ==
  /\ task[s].pc = "exec"
  /\ \/ StopInExecutor(task[s].d) /\ UNCHANGED bounds
     \/ Fault /\ UNCHANGED executor
  /\ Goto(s, IF task[s].op = "stop" THEN "update" ELSE "mark")
  /\ UNCHANGED <<daemon, backend, reports, dropped>>

StopUpdate(s) ==
  LET d == task[s].d IN
  /\ task[s].pc = "update"
  /\ Update(d, [daemon[d] EXCEPT !.status = "stopped"])
  /\ Return(s)
  /\ UNCHANGED <<backend, executor, reports, dropped, bounds>>

\* restart(): the process is stopped first when the row says there is one.
Restart(s, d) ==
  /\ s \in Requests /\ task[s] = Idle /\ Serving /\ Request
  /\ daemon[d].status \notin {"absent", "removed"}
  /\ CancelRestart(d)
  /\ Begin(s, "restart",
           IF daemon[d].status \in {"starting", "running"} THEN "exec" ELSE "mark", d)
  /\ UNCHANGED <<daemon, executor, reports, dropped>>

\* restart(): the row starts over; a row removed meanwhile ends the request.
RestartMark(s) ==
  LET d == task[s].d IN
  /\ task[s].pc = "mark"
  /\ Update(d, [status |-> "starting", pid |-> NoPid, age |-> -1])
  /\ IF daemon[d].status = "removed" THEN Return(s) ELSE Goto(s, "call")
  /\ UNCHANGED <<backend, executor, reports, dropped, bounds>>

\* remove(): refused while active.
Remove(s, d) ==
  /\ s \in Requests /\ task[s] = Idle /\ Serving /\ Request
  /\ daemon[d].status \in {"stopped", "error"}
  /\ Begin(s, "remove", "delete", d)
  /\ UNCHANGED <<daemon, backend, executor, reports, dropped>>

RemoveDelete(s) ==
  /\ task[s].pc = "delete"
  /\ daemon' = [daemon EXCEPT ![task[s].d] = [NoRow EXCEPT !.status = "removed"]]
  /\ Return(s)
  /\ UNCHANGED <<backend, executor, reports, dropped, bounds>>

-----------------------------------------------------------------------------
(* Exit reports, timers, the sweep and the boot *)

\* POST /internal/daemons/events with daemon_exit: the row is read, crashed() begins.
ExitReport(s, d) ==
  /\ s \in Requests /\ task[s] = Idle /\ Serving
  /\ reports[d] > 0
  /\ reports' = [reports EXCEPT ![d] = @ - 1]
  /\ IF daemon[d].status = "removed" THEN UNCHANGED <<task, restartAttempts>>
     ELSE EnterCrashed(s, [Idle EXCEPT !.op = "exit"], d, daemon[d])
  /\ UNCHANGED <<daemon, restartTimers, executor, dropped, bounds>>

\* autoRestart: the timer fires. The wait counts as time since startedAt.
Waited(d) ==
  LET row == daemon[d]
      sum == row.age + Delays[restartTimers[d]] IN
  IF row.age = -1 THEN row
  ELSE [row EXCEPT !.age = IF sum > StableRun THEN StableRun ELSE sum]

TimerFires(s, d) ==
  /\ s \in Requests /\ task[s] = Idle
  /\ restartTimers[d] # 0
  /\ restartTimers' = [restartTimers EXCEPT ![d] = 0]
  /\ daemon' = [daemon EXCEPT ![d] = Waited(d)]
  /\ Begin(s, "auto", "read", d)
  /\ UNCHANGED <<restartAttempts, executor, reports, dropped, bounds>>

\* autoRestart: the row is read; stopped, restarted or removed meanwhile, nothing is done.
AutoRead(s) ==
  LET t == task[s] IN
  /\ t.pc = "read"
  /\ IF daemon[t.d].status = "restarting"
     THEN task' = [task EXCEPT ![s] = [t EXCEPT !.pc = "call", !.rows[t.d] = daemon[t.d]]]
     ELSE task' = [task EXCEPT ![s] = Idle]
  /\ UNCHANGED <<daemon, backend, executor, reports, dropped, bounds>>

\* reconcile(): the executor's list; an unreachable executor ends it at once.
Reconcile(s) ==
  /\ task[s] = Idle
  /\ task' = [task EXCEPT ![s] = [Idle EXCEPT !.op = "sweep", !.pc = "find", !.live = entry]]
  /\ UNCHANGED <<daemon, backend, executor, reports, dropped>>

\* The interval's reconcile(), every SWEEP_INTERVAL_MS: one at a time (a bound).
Sweep == Reconcile("sweep") /\ UNCHANGED bounds

\* findAll(): the user's list is reconciled first, beside the interval's sweep.
FindAll(s) == s \in Requests /\ Serving /\ Request /\ Reconcile(s)

\* reconcile(): the rows the database calls starting or running.
SweepFind(s) ==
  LET found == {d \in Daemons : daemon[d].status \in {"starting", "running"}}
      t == task[s] IN
  /\ t.op = "sweep" /\ t.pc = "find"
  /\ task' = [task EXCEPT ![s] = NextOf([t EXCEPT
                !.todo = found,
                !.rows = [d \in Daemons |-> IF d \in found THEN daemon[d] ELSE NoRow],
                !.live = [d \in Daemons |-> IF d \in found THEN @[d] ELSE NoPid]])]
  /\ UNCHANGED <<daemon, backend, executor, reports, dropped, bounds>>

\* reconcile(): one row, against the list and the row as they were read.
SweepEach(s, d) ==
  LET t == task[s]
      row == t.rows[d]
      next == [t EXCEPT !.todo = @ \ {d}, !.rows[d] = NoRow, !.live[d] = NoPid] IN
  /\ t.op = "sweep" /\ t.pc = "each" /\ d \in t.todo
  /\ \/ /\ t.live[d] # NoPid
        /\ IF Confirms(t, d)
           THEN Update(d, [daemon[d] EXCEPT !.status = "running", !.pid = t.live[d]])
           ELSE UNCHANGED daemon
        /\ task' = [task EXCEPT ![s] = NextOf(next)] /\ UNCHANGED backend
     \/ /\ t.live[d] = NoPid /\ row.status = "starting"
        /\ task' = [task EXCEPT ![s] = NextOf(next)] /\ UNCHANGED <<daemon, backend>>
     \/ /\ t.live[d] = NoPid /\ row.status = "running"
        /\ EnterCrashed(s, next, d, row)
        /\ UNCHANGED <<daemon, restartTimers>>
  /\ UNCHANGED <<executor, reports, dropped, bounds>>

\* The backend restarts: everything in memory is lost, requests and reports with it.
BackendRestart ==
  /\ Fault
  /\ restartTimers' = [d \in Daemons |-> 0]
  /\ restartAttempts' = [d \in Daemons |-> 0]
  /\ task' = [s \in Slots |-> IF s = "boot" THEN [Idle EXCEPT !.op = "boot", !.pc = "find"]
                              ELSE Idle]
  /\ reports' = [d \in Daemons |-> 0]
  /\ dropped' = {}
  /\ UNCHANGED <<daemon, executor>>

\* Variant: the boot forgets the daemons that were waiting for a restart.
BootRowsRunning == {d \in Daemons : daemon[d].status \in {"starting", "running"}}

\* onModuleInit: the rows meant to be alive.
BootRows == {d \in Daemons : Active(d)}

BootFind ==
  /\ task["boot"].op = "boot" /\ task["boot"].pc = "find"
  /\ task' = [task EXCEPT !["boot"] = IF BootRows = {} THEN Idle
                                      ELSE [@ EXCEPT !.pc = "list", !.todo = BootRows]]
  /\ UNCHANGED <<daemon, backend, executor, reports, dropped, bounds>>

\* onModuleInit: what the executor has; unreachable, every row is started again.
BootList ==
  /\ task["boot"].op = "boot" /\ task["boot"].pc = "list"
  /\ \/ /\ task' = [task EXCEPT !["boot"].pc = "each", !["boot"].live = entry]
        /\ UNCHANGED bounds
     \/ Fault /\ Goto("boot", "each")
  /\ UNCHANGED <<daemon, backend, executor, reports, dropped>>

\* onModuleInit: a live daemon is confirmed, another is started again.
BootEach(d) ==
  LET t == task["boot"]
      next == [t EXCEPT !.todo = @ \ {d}, !.live[d] = NoPid] IN
  /\ t.op = "boot" /\ t.pc = "each" /\ d \in t.todo
  /\ \/ /\ t.live[d] # NoPid
        /\ Update(d, [daemon[d] EXCEPT !.status = "running", !.pid = t.live[d]])
        /\ task' = [task EXCEPT !["boot"] = NextOf(next)]
     \/ /\ t.live[d] = NoPid
        /\ task' = [task EXCEPT !["boot"] = [next EXCEPT !.pc = "call", !.d = d]]
        /\ UNCHANGED daemon
  /\ UNCHANGED <<backend, executor, reports, dropped, bounds>>

-----------------------------------------------------------------------------
(* Specification *)

\* The steps a handler in progress takes.
Step(s) ==
  \/ \E p \in Pids : CallOk(s, p)
  \/ CallFails(s)
  \/ \E p \in Pids : CallAnswerLost(s, p)
  \/ Confirm(s) \/ Failed(s) \/ Crash(s) \/ Arm(s)
  \/ StartList(s) \/ StartKill(s) \/ StartCreate(s)
  \/ ExecStop(s) \/ StopUpdate(s) \/ RestartMark(s) \/ RemoveDelete(s) \/ AutoRead(s)
  \/ QueryFails(s)

SweepLoop(s) == SweepFind(s) \/ \E d \in Daemons : SweepEach(s, d)
BootLoop == BootFind \/ BootList \/ \E d \in Daemons : BootEach(d)

Users(s) ==
  \/ Start(s) \/ FindAll(s)
  \/ \E d \in Daemons : Stop(s, d) \/ Restart(s, d) \/ Remove(s, d)

Next ==
  \/ \E s \in Slots :
       \/ Step(s) \/ SweepLoop(s) \/ Users(s)
       \/ \E d \in Daemons : ExitReport(s, d) \/ TimerFires(s, d)
  \/ Sweep \/ BootLoop \/ BackendRestart \/ ExecutorRestart
  \/ \E p \in Pids : ProcessDies(p) \/ ProcessEnds(p)
  \/ \E d \in Daemons : LongRun(d)

Spec == Init /\ [][Next]_vars

\* A handler in progress goes on, the interval's sweep comes round, timers fire and
\* signalled processes end. Users, faults and deliveries of reports are not promised.
Fairness ==
  /\ \A s \in Requests : WF_vars(Step(s) \/ SweepLoop(s))
  /\ WF_vars(Step("sweep") \/ SweepLoop("sweep") \/ Sweep)
  /\ WF_vars(Step("boot") \/ BootLoop)
  /\ \A d \in Daemons : WF_vars(\E s \in Requests : TimerFires(s, d))
  /\ \A p \in Pids : WF_vars(ProcessEnds(p))

FairSpec == Spec /\ Fairness

-----------------------------------------------------------------------------
(* Safety *)

\* A process that was not told to stop is the one its daemon's entry names: the exit
\* of a previous process never takes the entry of the next one, so no process runs
\* that a stop could not reach (executor, release() and stopDaemon()).
UnstoppedProcessIsReachable ==
  \A p \in Pids : process[p].st = "up" => entry[process[p].d] = p

\* A daemon in 'restarting' has a timer, or a handler that is about to give it one or
\* to change its status: through stops, restarts, crashes of the backend and
\* concurrent reports, none is left waiting for a restart that will not come, except
\* for a query that failed in the handler that held the restart.
RestartNotStranded ==
  \A d \in Daemons : daemon[d].status = "restarting"
    => \/ restartTimers[d] # 0
       \/ \E s \in Slots : Resolves(task[s], d)
       \/ d \in dropped

\* A report or a sweep never moves a daemon the user stopped, or one that was given
\* up, back to 'restarting': crashed() writes only from the statuses it was given.
ReportNeverRevives ==
  [][\A d \in Daemons : daemon[d].status \in {"stopped", "error", "removed"}
       => daemon'[d].status # "restarting"]_vars

\* What autoRestart and crashed() say of themselves ("stopped, restarted or removed
\* meanwhile"): a daemon the user stopped starts again only through restart().
StoppedStaysStopped ==
  [][\A d \in Daemons : daemon[d].status = "stopped"
       => daemon'[d].status \in {"stopped", "starting", "removed"}]_vars

\* A failed automatic restart uses up one of the delays: it never starts the count
\* again, since the daemon did not run at all.
FailedRestartCounts ==
  [][\A s \in Slots : task[s].op = "auto" /\ task[s].pc = "call" /\ task'[s].pc = "crash"
       => task'[s].attempt = restartAttempts[task[s].d]]_vars

(* Liveness *)

\* A daemon the database calls running whose process is gone does not stay so: the
\* sweep finds it even when the report was lost.
DeathNoticed ==
  \A d \in Daemons : (daemon[d].status = "running" /\ entry[d] = NoPid)
    ~> (daemon[d].status # "running" \/ entry[d] # NoPid)

\* A daemon in 'restarting' leaves it, unless a failing query drops its restart.
RestartHappens ==
  \A d \in Daemons :
    daemon[d].status = "restarting" ~> (daemon[d].status # "restarting" \/ d \in dropped)
=============================================================================
