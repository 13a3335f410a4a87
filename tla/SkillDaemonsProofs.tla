------------------------- MODULE SkillDaemonsProofs -------------------------
(* Theorems about SkillDaemons, for every value of its constants. *)
EXTENDS SkillDaemons, TLAPS


-----------------------------------------------------------------------------
(* Type correctness *)

LEMMA DelaysLength == Len(Delays) \in Nat
BY DelaysAssumption

\* What a step may put in a slot.
LEMMA IdleIsTask == Idle \in Tasks
BY DelaysLength, StableRunAssumption DEF Idle, Tasks, TaskRecords, Rows, NoRow, NoLive, Statuses, ActiveStatuses, Ops, Pcs, Phase

LEMMA NextOfIsTask ==
  ASSUME NEW t \in Tasks
  PROVE  NextOf(t) \in Tasks
<1>1. CASE t.op \in {"sweep", "boot"} /\ t.todo # {}
  <2> DEFINE u == [t EXCEPT !.pc = "each", !.d = NoDaemon, !.pid = NoPid, !.attempt = 0]
  <2>0. t \in TaskRecords
    BY DEF Tasks
  <2>a. "each" \in Pcs /\ 0 \in 0..Len(Delays) /\ NoDaemon \in Daemons \cup {NoDaemon} /\ NoPid \in Pids \cup {NoPid}
    BY DelaysLength DEF Pcs
  <2>1. u \in TaskRecords
    BY <2>0, <2>a DEF TaskRecords
  <2>2. Phase(u.op, u.pc) /\ u.pc = "each"
    BY <1>1 DEF Tasks, TaskRecords, Phase
  <2>3. u \in Tasks
    BY <2>1, <2>2 DEF Tasks
  <2> QED BY <1>1, <2>3 DEF NextOf
<1>2. CASE ~(t.op \in {"sweep", "boot"} /\ t.todo # {})
  BY <1>2, IdleIsTask DEF NextOf
<1> QED BY <1>1, <1>2

\* Moving a handler on within its phases keeps it a task.
LEMMA MoveIsTask ==
  ASSUME NEW t \in Tasks, NEW pc \in Pcs, Phase(t.op, pc),
         t.d \in Daemons \/ pc \in {"kill", "create", "each", "list"}
  PROVE  [t EXCEPT !.pc = pc] \in Tasks
<1>1. t \in TaskRecords
  BY DEF Tasks
<1>2. [t EXCEPT !.pc = pc] \in TaskRecords
  BY <1>1 DEF TaskRecords
<1> QED BY <1>1, <1>2 DEF Tasks, TaskRecords

\* The fields of a handler.
LEMMA TaskFields ==
  ASSUME NEW t \in Tasks
  PROVE  /\ t \in TaskRecords
         /\ t.op \in Ops /\ t.pc \in Pcs /\ t.pid \in Pids \cup {NoPid}
         /\ t.todo \in SUBSET Daemons /\ t.rows \in [Daemons -> Rows]
         /\ t.live \in [Daemons -> Pids \cup {NoPid}] /\ t.attempt \in 0..Len(Delays)
         /\ Phase(t.op, t.pc)
BY DEF Tasks, TaskRecords

\* A row keeps its type when one column is written.
LEMMA RowColumns ==
  ASSUME NEW row \in Rows
  PROVE  /\ \A st \in Statuses : [row EXCEPT !.status = st] \in Rows
         /\ \A st \in Statuses, p \in Pids \cup {NoPid} :
              [row EXCEPT !.status = st, !.pid = p] \in Rows
         /\ \A a \in -1..StableRun : [row EXCEPT !.age = a] \in Rows
         /\ row.age \in -1..StableRun
BY DEF Rows

LEMMA StatusNames ==
  /\ {"starting", "running", "restarting", "stopped", "error", "removed"} \subseteq Statuses
  /\ NoRow \in Rows
BY StableRunAssumption DEF Statuses, ActiveStatuses, NoRow, Rows

\* update() writes rows only.
LEMMA UpdateType ==
  ASSUME daemon \in [Daemons -> Rows], NEW d \in Daemons, NEW row \in Rows, Update(d, row)
  PROVE  daemon' \in [Daemons -> Rows]
BY DEF Update

\* A handler begins.
LEMMA BeginType ==
  ASSUME task \in [Slots -> Tasks], NEW s \in Slots, NEW op \in Ops, NEW pc \in Pcs,
         NEW d \in Daemons \cup {NoDaemon}, Phase(op, pc), d \in Daemons \/ pc = "list",
         Begin(s, op, pc, d)
  PROVE  task' \in [Slots -> Tasks]
<1> DEFINE u == [Idle EXCEPT !.op = op, !.pc = pc, !.d = d]
<1>1. u \in TaskRecords
  BY IdleIsTask, TaskFields DEF TaskRecords
<1>2. u.op = op /\ u.pc = pc /\ u.d = d
  BY DEF Idle
<1>3. u \in Tasks
  BY <1>1, <1>2 DEF Tasks
<1> QED BY <1>3 DEF Begin

\* The next daemon of the loop, or the end.
LEMMA ReturnType ==
  ASSUME task \in [Slots -> Tasks], NEW s \in Slots, Return(s)
  PROVE  task' \in [Slots -> Tasks]
BY NextOfIsTask DEF Return

\* stopDaemon and startDaemon keep the executor's map and processes well typed.
LEMMA SignalledType ==
  ASSUME process \in [Pids -> Processes], entry \in [Daemons -> Pids \cup {NoPid}],
         NEW d \in Daemons
  PROVE  Signalled(d) \in [Pids -> Processes]
BY DEF Signalled, Processes

LEMMA StopInExecutorType ==
  ASSUME process \in [Pids -> Processes], entry \in [Daemons -> Pids \cup {NoPid}],
         NEW d \in Daemons, StopInExecutor(d)
  PROVE  process' \in [Pids -> Processes] /\ entry' \in [Daemons -> Pids \cup {NoPid}]
BY SignalledType DEF StopInExecutor

LEMMA StartInExecutorType ==
  ASSUME process \in [Pids -> Processes], entry \in [Daemons -> Pids \cup {NoPid}],
         NEW d \in Daemons, NEW p \in Pids, StartInExecutor(d, p)
  PROVE  process' \in [Pids -> Processes] /\ entry' \in [Daemons -> Pids \cup {NoPid}]
<1>1. Signalled(d) \in [Pids -> Processes]
  BY SignalledType
<1>2. PICK st \in {"up", "failed"} : process' = [Signalled(d) EXCEPT ![p] = [st |-> st, d |-> d]]
  BY DEF StartInExecutor
<1>3. [st |-> st, d |-> d] \in Processes
  BY DEF Processes
<1> QED BY <1>1, <1>2, <1>3 DEF StartInExecutor

LEMMA ReleaseType ==
  ASSUME process \in [Pids -> Processes], entry \in [Daemons -> Pids \cup {NoPid}],
         NEW p \in Pids
  PROVE  /\ Release(p) \in [Daemons -> Pids \cup {NoPid}]
         /\ [process EXCEPT ![p] = NoProcess] \in [Pids -> Processes]
BY DEF Release, Processes, NoProcess

\* crashed() begins.
LEMMA EnterCrashedType ==
  ASSUME TypeOK, NEW s \in Slots, NEW t \in TaskRecords, NEW d \in Daemons, NEW row \in Rows,
         t.op \in {"exit", "auto", "sweep"}, EnterCrashed(s, t, d, row)
  PROVE  task' \in [Slots -> Tasks] /\ restartAttempts' \in [Daemons -> 0..Len(Delays)]
<1> DEFINE u == [t EXCEPT !.pc = "crash", !.d = d, !.attempt = AttemptOf(d, row)]
<1>1. AttemptOf(d, row) \in 0..Len(Delays)
  BY DelaysLength DEF AttemptOf, TypeOK
<1>2. "crash" \in Pcs
  BY DEF Pcs
<1>3. u \in TaskRecords
  BY <1>1, <1>2 DEF TaskRecords
<1>4. u.op = t.op /\ u.pc = "crash" /\ u.d = d
  BY DEF TaskRecords
<1>5. u \in Tasks
  BY <1>3, <1>4 DEF Tasks, Phase
<1> QED BY <1>1, <1>5 DEF EnterCrashed, TypeOK

\* Every step keeps the types.
LEMMA TypeStep ==
  ASSUME TypeOK, [Next]_vars
  PROVE  TypeOK'
<1> USE DEF TypeOK
<1>a. Slots # {} /\ "sweep" \in Slots /\ "boot" \in Slots
  BY DEF Slots
<1>b. ASSUME Fault \/ Request \/ UNCHANGED bounds
      PROVE  ops' \in 0..MaxOps /\ faults' \in 0..MaxFaults
  BY <1>b, BoundsAssumption DEF Fault, Request, bounds
<1>1. ASSUME NEW s \in Slots, NEW p \in Pids, CallOk(s, p)
      PROVE  TypeOK'
  <2> DEFINE t == task[s]  u == [t EXCEPT !.pc = "confirm", !.pid = p]
  <2>1. t \in TaskRecords /\ Phase(t.op, t.pc) /\ t.pc = "call" /\ t.d \in Daemons
    BY <1>1 DEF CallOk, Tasks
  <2>2. "confirm" \in Pcs
    BY DEF Pcs
  <2>3. u \in TaskRecords /\ u.op = t.op /\ u.pc = "confirm" /\ u.d = t.d
    BY <2>1, <2>2 DEF TaskRecords
  <2>4. u \in Tasks
    BY <2>1, <2>3 DEF Tasks, Phase
  <2>5. task' = [task EXCEPT ![s] = u]
    BY <1>1 DEF CallOk
  <2> QED BY <1>1, <2>1, <2>4, <2>5, StartInExecutorType DEF CallOk, bounds, backend
<1>2. ASSUME NEW s \in Slots, task[s].pc \in {"call", "confirm"}, CallThrows(s)
      PROVE  /\ task' \in [Slots -> Tasks]
             /\ restartAttempts' \in [Daemons -> 0..Len(Delays)]
             /\ UNCHANGED restartTimers
  <2> DEFINE t == task[s]
  <2>1. t \in Tasks /\ t \in TaskRecords /\ t.d \in Daemons /\ t.rows \in [Daemons -> Rows]
    BY <1>2, TaskFields DEF Tasks
  <2>2. CASE t.op \in {"start", "boot"} /\ Goto(s, "failed") /\ UNCHANGED backend
    <3>1. "failed" \in Pcs /\ Phase(t.op, "failed")
      BY <2>2 DEF Pcs, Phase
    <3>2. [t EXCEPT !.pc = "failed"] \in Tasks
      BY <2>1, <3>1, MoveIsTask
    <3> QED BY <2>2, <3>2 DEF Goto, backend
  <2>3. CASE task' = [task EXCEPT ![s] = Idle] /\ UNCHANGED backend
    BY <2>3, IdleIsTask DEF backend
  <2>4. CASE t.op = "auto" /\ EnterCrashed(s, t, t.d, t.rows[t.d]) /\ UNCHANGED restartTimers
    BY <2>1, <2>4, EnterCrashedType
  <2> QED BY <1>2, <2>2, <2>3, <2>4 DEF CallThrows
<1>3. ASSUME NEW s \in Slots, CallFails(s)
      PROVE  TypeOK'
  BY <1>3, <1>2, <1>b DEF CallFails, executor
<1>4. ASSUME NEW s \in Slots, NEW p \in Pids, CallAnswerLost(s, p)
      PROVE  TypeOK'
  <2>1. task[s].d \in Daemons
    BY <1>4 DEF CallAnswerLost, Tasks
  <2> QED BY <1>4, <1>2, <1>b, <2>1, StartInExecutorType DEF CallAnswerLost
<1>29. ASSUME NEW s \in Slots, QueryFails(s)
       PROVE  TypeOK'
  <2>1. CASE task[s].pc = "confirm" /\ CallThrows(s) /\ UNCHANGED dropped
    BY <1>29, <1>2, <1>b, <2>1 DEF QueryFails, executor
  <2>2. CASE task' = [task EXCEPT ![s] = Idle] /\ UNCHANGED backend
    <3>1. dropped' \subseteq Daemons
      BY <1>29 DEF QueryFails
    <3> QED BY <1>29, <1>b, <2>2, <3>1, IdleIsTask DEF QueryFails, executor, backend
  <2> QED BY <1>29, <2>1, <2>2 DEF QueryFails
<1>5. ASSUME NEW s \in Slots, Confirm(s) \/ Failed(s) \/ StopUpdate(s)
      PROVE  TypeOK'
  <2> DEFINE t == task[s]
  <2>1. t.d \in Daemons /\ t.pid \in Pids \cup {NoPid}
    BY <1>5, TaskFields DEF Confirm, Failed, StopUpdate, Tasks
  <2>2. /\ [status |-> "running", pid |-> t.pid, age |-> 0] \in Rows
        /\ [daemon[t.d] EXCEPT !.status = "error"] \in Rows
        /\ [daemon[t.d] EXCEPT !.status = "stopped"] \in Rows
    <3>1. [status |-> "running", pid |-> t.pid, age |-> 0] \in Rows
      BY <2>1, StableRunAssumption, StatusNames DEF Rows
    <3> QED BY <2>1, <3>1, RowColumns, StatusNames
  <2>3. daemon' \in [Daemons -> Rows]
    BY <1>5, <2>1, <2>2, UpdateType DEF Confirm, Failed, StopUpdate
  <2>4. task' \in [Slots -> Tasks]
    BY <1>5, ReturnType DEF Confirm, Failed, StopUpdate
  <2> QED BY <1>5, <2>3, <2>4 DEF Confirm, Failed, StopUpdate, backend, executor, bounds
<1>6. ASSUME NEW s \in Slots, Crash(s)
      PROVE  TypeOK'
  <2> DEFINE t == task[s]
  <2>1. t \in Tasks /\ t.d \in Daemons /\ t.pc = "crash" /\ Phase(t.op, "crash")
    BY <1>6 DEF Crash, Tasks
  <2>2. daemon' \in [Daemons -> Rows]
    <3>1. daemon[t.d] \in Rows
      BY <2>1
    <3>2. CASE UNCHANGED daemon
      BY <3>2
    <3>3. CASE daemon' = [daemon EXCEPT ![t.d].status = IF GivesUp(t) THEN "error"
                                                        ELSE "restarting"]
      <4> DEFINE st == IF GivesUp(t) THEN "error" ELSE "restarting"
      <4>1. st \in Statuses
        BY StatusNames
      <4>2. [daemon[t.d] EXCEPT !.status = st] \in Rows
        BY <3>1, <4>1, RowColumns
      <4> QED BY <2>1, <3>3, <4>2
    <3> QED BY <1>6, <3>2, <3>3 DEF Crash
  <2>3. [t EXCEPT !.pc = "arm"] \in Tasks
    <3>1. "arm" \in Pcs /\ Phase(t.op, "arm")
      BY <2>1 DEF Pcs, Phase
    <3> QED BY <2>1, <3>1, MoveIsTask
  <2>4. task' \in [Slots -> Tasks]
    BY <1>6, <2>3, ReturnType DEF Crash, Goto
  <2> QED BY <1>6, <2>2, <2>4 DEF Crash, backend, executor, bounds
<1>7. ASSUME NEW s \in Slots, Arm(s)
      PROVE  TypeOK'
  <2> DEFINE t == task[s]
  <2>1. t.d \in Daemons /\ t.attempt \in 0..Len(Delays)
    BY <1>7, TaskFields DEF Arm, Tasks
  <2>2. ~GivesUp(t) => t.attempt + 1 \in 0..Len(Delays)
    BY <2>1, DelaysLength DEF GivesUp
  <2>3. task' \in [Slots -> Tasks]
    BY <1>7, ReturnType DEF Arm
  <2>4. restartTimers' \in [Daemons -> 0..Len(Delays)]
        /\ restartAttempts' \in [Daemons -> 0..Len(Delays)]
    <3>1. CASE GivesUp(t)
      BY <1>7, <2>1, <3>1, DelaysLength DEF Arm
    <3>2. CASE ~GivesUp(t)
      BY <1>7, <2>1, <2>2, <3>2 DEF Arm
    <3> QED BY <3>1, <3>2
  <2>5. dropped' \subseteq Daemons
    BY <1>7 DEF Arm
  <2> QED BY <1>7, <2>3, <2>4, <2>5 DEF Arm, executor, bounds
<1>8. ASSUME NEW s \in Slots, Start(s)
      PROVE  TypeOK'
  <2>1. "start" \in Ops /\ "list" \in Pcs /\ Phase("start", "list")
    BY DEF Ops, Pcs, Phase
  <2>2. task' \in [Slots -> Tasks]
    BY <1>8, <2>1, BeginType DEF Start
  <2> QED BY <1>8, <1>b, <2>2 DEF Start, backend, executor
<1>9. ASSUME NEW s \in Slots, StartList(s)
      PROVE  TypeOK'
  <2> DEFINE t == task[s]
             u == [t EXCEPT !.pc = "kill", !.todo = {d \in Daemons : entry[d] # NoPid}]
  <2>1. t \in Tasks /\ t \in TaskRecords /\ t.op = "start"
    BY <1>9 DEF StartList, Tasks
  <2>2. "kill" \in Pcs /\ "create" \in Pcs /\ Phase("start", "kill") /\ Phase("start", "create")
    BY DEF Pcs, Phase
  <2>3. u \in TaskRecords /\ u.op = "start" /\ u.pc = "kill"
    BY <2>1, <2>2 DEF TaskRecords
  <2>4. u \in Tasks
    BY <2>2, <2>3 DEF Tasks
  <2>5. [t EXCEPT !.pc = "create"] \in Tasks
    BY <2>1, <2>2, MoveIsTask
  <2>6. task' \in [Slots -> Tasks]
    BY <1>9, <2>4, <2>5 DEF StartList, Goto
  <2> QED BY <1>9, <1>b, <2>6 DEF StartList, backend, executor
<1>10. ASSUME NEW s \in Slots, StartKill(s)
       PROVE  TypeOK'
  <2> DEFINE t == task[s]
  <2>1. t \in Tasks /\ t \in TaskRecords /\ t.op = "start" /\ t.pc = "kill"
    BY <1>10 DEF StartKill, Tasks, Phase
  <2>2. CASE t.todo = {} /\ Goto(s, "create") /\ UNCHANGED <<executor, bounds>>
    <3>1. "create" \in Pcs /\ Phase("start", "create")
      BY DEF Pcs, Phase
    <3>2. [t EXCEPT !.pc = "create"] \in Tasks
      BY <2>1, <3>1, MoveIsTask
    <3> QED BY <1>10, <2>2, <3>2 DEF StartKill, Goto, backend, executor, bounds
  <2>3. CASE \E d \in t.todo : /\ task' = [task EXCEPT ![s].todo = @ \ {d}]
                               /\ \/ StopInExecutor(d) /\ UNCHANGED bounds
                                  \/ Fault /\ UNCHANGED executor
    <3>1. PICK d \in t.todo : /\ task' = [task EXCEPT ![s].todo = @ \ {d}]
                              /\ \/ StopInExecutor(d) /\ UNCHANGED bounds
                                 \/ Fault /\ UNCHANGED executor
      BY <2>3
    <3>2. d \in Daemons
      BY <2>1, TaskFields
    <3>3. [t EXCEPT !.todo = @ \ {d}] \in TaskRecords
      BY <2>1 DEF TaskRecords
    <3>4. [t EXCEPT !.todo = @ \ {d}] \in Tasks
      BY <2>1, <3>3 DEF Tasks, TaskRecords
    <3>5. task' \in [Slots -> Tasks]
      BY <3>1, <3>4
    <3> QED BY <1>10, <1>b, <3>1, <3>2, <3>5, StopInExecutorType DEF StartKill, backend, executor
  <2> QED BY <1>10, <2>2, <2>3 DEF StartKill
<1>11. ASSUME NEW s \in Slots, StartCreate(s)
       PROVE  TypeOK'
  <2> DEFINE t == task[s]
  <2>1. t \in Tasks /\ t \in TaskRecords /\ t.op = "start"
    BY <1>11 DEF StartCreate, Tasks, Phase
  <2>2. ASSUME NEW d \in Daemons,
               daemon' = [daemon EXCEPT ![d].status = "starting"],
               task' = [task EXCEPT ![s].pc = "call", ![s].d = d]
        PROVE  daemon' \in [Daemons -> Rows] /\ task' \in [Slots -> Tasks]
    <3> DEFINE u == [t EXCEPT !.pc = "call", !.d = d]
    <3>1. "call" \in Pcs /\ Phase("start", "call")
      BY DEF Pcs, Phase
    <3>2. u \in TaskRecords /\ u.op = "start" /\ u.pc = "call" /\ u.d = d
      BY <2>1, <3>1 DEF TaskRecords
    <3>3. u \in Tasks
      BY <3>1, <3>2 DEF Tasks
    <3>4. task' = [task EXCEPT ![s] = u]
      BY <2>2
    <3>5. [daemon[d] EXCEPT !.status = "starting"] \in Rows
      BY RowColumns, StatusNames
    <3> QED BY <2>2, <3>3, <3>4, <3>5
  <2>3. daemon' \in [Daemons -> Rows] /\ task' \in [Slots -> Tasks]
    BY <1>11, <2>2, ReturnType DEF StartCreate
  <2> QED BY <1>11, <2>3 DEF StartCreate, backend, executor, bounds
<1>12. ASSUME NEW s \in Slots, NEW d \in Daemons, Stop(s, d) \/ Restart(s, d) \/ Remove(s, d)
       PROVE  TypeOK'
  <2>1. /\ {"stop", "restart", "remove"} \subseteq Ops /\ {"exec", "mark", "delete"} \subseteq Pcs
        /\ Phase("stop", "exec") /\ Phase("restart", "exec") /\ Phase("restart", "mark")
        /\ Phase("remove", "delete")
    BY DEF Ops, Pcs, Phase
  <2>2. task' \in [Slots -> Tasks]
    <3>1. CASE Stop(s, d)
      BY <2>1, <3>1, BeginType DEF Stop
    <3>2. CASE Restart(s, d)
      <4>1. CASE daemon[d].status \in {"starting", "running"}
        <5>1. Begin(s, "restart", "exec", d)
          BY <3>2, <4>1 DEF Restart
        <5> QED BY <2>1, <5>1, BeginType
      <4>2. CASE daemon[d].status \notin {"starting", "running"}
        <5>1. Begin(s, "restart", "mark", d)
          BY <3>2, <4>2 DEF Restart
        <5> QED BY <2>1, <5>1, BeginType
      <4> QED BY <4>1, <4>2
    <3>3. CASE Remove(s, d)
      BY <2>1, <3>3, BeginType DEF Remove
    <3> QED BY <1>12, <3>1, <3>2, <3>3
  <2>3. restartTimers' \in [Daemons -> 0..Len(Delays)] /\ restartAttempts' \in [Daemons -> 0..Len(Delays)]
    <3>1. CASE CancelRestart(d)
      BY <3>1, DelaysLength DEF CancelRestart
    <3>2. CASE UNCHANGED backend
      BY <3>2 DEF backend
    <3> QED BY <1>12, <3>1, <3>2 DEF Stop, Restart, Remove
  <2> QED BY <1>12, <1>b, <2>2, <2>3 DEF Stop, Restart, Remove, executor
<1>13. ASSUME NEW s \in Slots, ExecStop(s)
       PROVE  TypeOK'
  <2> DEFINE t == task[s]
  <2>1. t \in Tasks /\ t.d \in Daemons /\ t.op \in {"stop", "restart"}
    BY <1>13 DEF ExecStop, Tasks, Phase
  <2>2. PICK pc \in {"update", "mark"} : Goto(s, pc) /\ Phase(t.op, pc)
    BY <1>13, <2>1 DEF ExecStop, Phase
  <2>3. pc \in Pcs
    BY DEF Pcs
  <2>4. [t EXCEPT !.pc = pc] \in Tasks
    BY <2>1, <2>2, <2>3, MoveIsTask
  <2>5. task' \in [Slots -> Tasks]
    BY <2>2, <2>4 DEF Goto
  <2> QED BY <1>13, <1>b, <2>1, <2>5, StopInExecutorType DEF ExecStop, backend, executor
<1>14. ASSUME NEW s \in Slots, RestartMark(s)
       PROVE  TypeOK'
  <2> DEFINE t == task[s]
  <2>1. t \in Tasks /\ t.d \in Daemons /\ t.op = "restart"
    BY <1>14 DEF RestartMark, Tasks, Phase
  <2>2. "call" \in Pcs /\ Phase("restart", "call")
    BY DEF Pcs, Phase
  <2>3. [t EXCEPT !.pc = "call"] \in Tasks
    BY <2>1, <2>2, MoveIsTask
  <2>4. task' \in [Slots -> Tasks]
    BY <1>14, <2>3, ReturnType DEF RestartMark, Goto
  <2>5. [status |-> "starting", pid |-> NoPid, age |-> -1] \in Rows
    BY StableRunAssumption DEF Rows, Statuses, ActiveStatuses
  <2>6. daemon' \in [Daemons -> Rows]
    BY <1>14, <2>1, <2>5, UpdateType DEF RestartMark
  <2> QED BY <1>14, <2>4, <2>6 DEF RestartMark, backend, executor, bounds
<1>15. ASSUME NEW s \in Slots, RemoveDelete(s)
       PROVE  TypeOK'
  <2>1. task[s].d \in Daemons
    BY <1>15 DEF RemoveDelete, Tasks
  <2>2. [NoRow EXCEPT !.status = "removed"] \in Rows
    BY RowColumns, StatusNames
  <2>3. task' \in [Slots -> Tasks]
    BY <1>15, ReturnType DEF RemoveDelete
  <2> QED BY <1>15, <2>1, <2>2, <2>3 DEF RemoveDelete, backend, executor, bounds
<1>16. ASSUME NEW s \in Slots, NEW d \in Daemons, ExitReport(s, d)
       PROVE  TypeOK'
  <2> DEFINE u == [Idle EXCEPT !.op = "exit"]
  <2>1. u \in TaskRecords /\ u.op = "exit"
    BY IdleIsTask, TaskFields DEF Idle, TaskRecords, Ops
  <2>2. task' \in [Slots -> Tasks] /\ restartAttempts' \in [Daemons -> 0..Len(Delays)]
    BY <1>16, <2>1, EnterCrashedType DEF ExitReport
  <2>3. reports' \in [Daemons -> Nat]
    BY <1>16 DEF ExitReport
  <2> QED BY <1>16, <2>2, <2>3 DEF ExitReport, executor, bounds
<1>17. ASSUME NEW s \in Slots, NEW d \in Daemons, TimerFires(s, d)
       PROVE  TypeOK'
  <2>1. Waited(d) \in Rows
    <3>1. restartTimers[d] \in 1..Len(Delays)
      BY <1>17, DelaysLength DEF TimerFires
    <3>2. Delays[restartTimers[d]] \in Nat
      BY <3>1, DelaysAssumption
    <3>3. daemon[d].age \in -1..StableRun
      BY RowColumns
    <3> DEFINE sum == daemon[d].age + Delays[restartTimers[d]]
    <3>4. CASE daemon[d].age = -1
      BY <3>4 DEF Waited
    <3>5. CASE daemon[d].age # -1
      <4>1. (IF sum > StableRun THEN StableRun ELSE sum) \in -1..StableRun
        BY <3>2, <3>3, <3>5, StableRunAssumption
      <4>2. \A a \in -1..StableRun : [daemon[d] EXCEPT !.age = a] \in Rows
        BY RowColumns
      <4>3. [daemon[d] EXCEPT !.age = IF sum > StableRun THEN StableRun ELSE sum] \in Rows
        BY ONLY <4>1, <4>2
      <4> QED BY <3>5, <4>3 DEF Waited
    <3> QED BY <3>4, <3>5
  <2>2. "auto" \in Ops /\ "read" \in Pcs /\ Phase("auto", "read")
    BY DEF Ops, Pcs, Phase
  <2>3. task' \in [Slots -> Tasks]
    BY <1>17, <2>2, BeginType DEF TimerFires
  <2> QED BY <1>17, <2>1, <2>3, DelaysLength DEF TimerFires, executor, bounds
<1>28. ASSUME NEW s \in Slots, AutoRead(s)
       PROVE  TypeOK'
  <2> DEFINE t == task[s]  u == [t EXCEPT !.pc = "call", !.rows[t.d] = daemon[t.d]]
  <2>1. t \in TaskRecords /\ t.op = "auto" /\ t.d \in Daemons /\ t.rows \in [Daemons -> Rows]
    BY <1>28, TaskFields DEF AutoRead, Tasks, Phase
  <2>2. "call" \in Pcs /\ Phase("auto", "call")
    BY DEF Pcs, Phase
  <2>3. u \in TaskRecords /\ u.op = "auto" /\ u.pc = "call" /\ u.d = t.d
    BY <2>1, <2>2 DEF TaskRecords
  <2>4. u \in Tasks
    BY <2>1, <2>2, <2>3 DEF Tasks
  <2>5. task' \in [Slots -> Tasks]
    BY <1>28, <2>4, IdleIsTask DEF AutoRead
  <2> QED BY <1>28, <2>5 DEF AutoRead, backend, executor, bounds
<1>18. ASSUME NEW s \in Slots, Reconcile(s), Request \/ UNCHANGED bounds
       PROVE  TypeOK'
  <2> DEFINE u == [Idle EXCEPT !.op = "sweep", !.pc = "find", !.live = entry]
  <2>1. "sweep" \in Ops /\ "find" \in Pcs /\ Phase("sweep", "find")
    BY DEF Ops, Pcs, Phase
  <2>2. u \in TaskRecords /\ u.op = "sweep" /\ u.pc = "find"
    BY <2>1, IdleIsTask, TaskFields DEF Idle, TaskRecords
  <2>3. u \in Tasks
    BY <2>1, <2>2 DEF Tasks
  <2> QED BY <1>18, <1>b, <2>3 DEF Reconcile, backend, executor
<1>19. ASSUME NEW s \in Slots, SweepFind(s)
       PROVE  TypeOK'
  <2> DEFINE t == task[s]
             found == {d \in Daemons : daemon[d].status \in {"starting", "running"}}
             u == [t EXCEPT !.todo = found,
                     !.rows = [d \in Daemons |-> IF d \in found THEN daemon[d] ELSE NoRow],
                     !.live = [d \in Daemons |-> IF d \in found THEN @[d] ELSE NoPid]]
  <2>1. t \in Tasks /\ t \in TaskRecords /\ t.op = "sweep" /\ t.pc = "find"
    BY <1>19, <1>a DEF SweepFind, Tasks
  <2>2. NoRow \in Rows
    BY StableRunAssumption DEF NoRow, Rows, Statuses
  <2>3. u \in TaskRecords /\ u.op = "sweep" /\ u.pc = "find"
    BY <2>1, <2>2 DEF TaskRecords
  <2>4. u \in Tasks
    BY <2>3 DEF Tasks, Phase
  <2>5. task' = [task EXCEPT ![s] = NextOf(u)]
    BY <1>19 DEF SweepFind
  <2>6. task' \in [Slots -> Tasks]
    BY <2>4, <2>5, NextOfIsTask
  <2> QED BY <1>19, <2>6 DEF SweepFind, backend, executor, bounds
<1>20. ASSUME NEW s \in Slots, NEW d \in Daemons, SweepEach(s, d)
       PROVE  TypeOK'
  <2> DEFINE t == task[s]
             u == [t EXCEPT !.todo = @ \ {d}, !.rows[d] = NoRow, !.live[d] = NoPid]
  <2>1. t \in Tasks /\ t \in TaskRecords /\ t.op = "sweep" /\ t.pc = "each"
        /\ t.rows[d] \in Rows /\ t.live[d] \in Pids \cup {NoPid}
    BY <1>20, TaskFields DEF SweepEach, Tasks
  <2>2. NoRow \in Rows
    BY StableRunAssumption DEF NoRow, Rows, Statuses
  <2>3. u \in TaskRecords /\ u.op = "sweep" /\ u.pc = "each"
    BY <2>1, <2>2 DEF TaskRecords
  <2>4. u \in Tasks
    BY <2>3 DEF Tasks, Phase
  <2>5. [daemon[d] EXCEPT !.status = "running", !.pid = t.live[d]] \in Rows
    BY <2>1 DEF Rows, Statuses, ActiveStatuses
  <2>6. CASE task' = [task EXCEPT ![s] = NextOf(u)] /\ UNCHANGED backend
    <3>1. task' \in [Slots -> Tasks]
      BY <2>4, <2>6, NextOfIsTask
    <3>2. daemon' \in [Daemons -> Rows]
      BY <1>20, <2>5, UpdateType DEF SweepEach
    <3> QED BY <1>20, <2>6, <3>1, <3>2 DEF SweepEach, backend, executor, bounds
  <2>7. CASE EnterCrashed(s, u, d, t.rows[d]) /\ UNCHANGED <<daemon, restartTimers>>
    BY <1>20, <2>1, <2>3, <2>7, EnterCrashedType DEF SweepEach, executor, bounds
  <2> QED BY <1>20, <2>6, <2>7 DEF SweepEach
<1>21. ASSUME BackendRestart
       PROVE  TypeOK'
  <2>1. [Idle EXCEPT !.op = "boot", !.pc = "find"] \in Tasks
    BY IdleIsTask DEF Idle, Tasks, TaskRecords, Ops, Pcs, Phase
  <2> QED BY <1>21, <1>b, <2>1, IdleIsTask, DelaysLength DEF BackendRestart, executor
<1>22. ASSUME BootFind \/ BootList
       PROVE  TypeOK'
  <2> DEFINE t == task["boot"]
             u == [t EXCEPT !.pc = "list", !.todo = BootRows]
             v == [t EXCEPT !.pc = "each", !.live = entry]
  <2>1. t \in Tasks /\ t \in TaskRecords /\ t.op = "boot"
    BY <1>22, <1>a DEF BootFind, BootList, Tasks
  <2>2. {"list", "each"} \subseteq Pcs /\ Phase("boot", "list") /\ Phase("boot", "each")
    BY DEF Pcs, Phase
  <2>3. u \in TaskRecords /\ u.op = "boot" /\ u.pc = "list"
    BY <2>1, <2>2 DEF TaskRecords, BootRows
  <2>4. v \in TaskRecords /\ v.op = "boot" /\ v.pc = "each"
    BY <2>1, <2>2 DEF TaskRecords
  <2>5. u \in Tasks /\ v \in Tasks
    BY <2>2, <2>3, <2>4 DEF Tasks
  <2>6. [t EXCEPT !.pc = "each"] \in Tasks
    BY <2>1, <2>2, MoveIsTask
  <2>7. task' \in [Slots -> Tasks]
    BY <1>22, <1>a, <2>5, <2>6, IdleIsTask DEF BootFind, BootList, Goto
  <2> QED BY <1>22, <1>b, <2>7 DEF BootFind, BootList, backend, executor
<1>23. ASSUME NEW d \in Daemons, BootEach(d)
       PROVE  TypeOK'
  <2> DEFINE t == task["boot"]
             u == [t EXCEPT !.todo = @ \ {d}, !.live[d] = NoPid]
             v == [u EXCEPT !.pc = "call", !.d = d]
  <2>1. t \in Tasks /\ t \in TaskRecords /\ t.op = "boot" /\ t.pc = "each"
        /\ t.live[d] \in Pids \cup {NoPid}
    BY <1>23, <1>a, TaskFields DEF BootEach, Tasks
  <2>2. u \in TaskRecords /\ u.op = "boot" /\ u.pc = "each"
    BY <2>1 DEF TaskRecords
  <2>3. "call" \in Pcs /\ Phase("boot", "call") /\ Phase("boot", "each")
    BY DEF Pcs, Phase
  <2>4. v \in TaskRecords /\ v.op = "boot" /\ v.pc = "call" /\ v.d = d
    BY <2>2, <2>3 DEF TaskRecords
  <2>5. u \in Tasks /\ v \in Tasks
    BY <2>2, <2>3, <2>4 DEF Tasks
  <2>6. task' \in [Slots -> Tasks]
    BY <1>23, <1>a, <2>5, NextOfIsTask DEF BootEach
  <2>7. [daemon[d] EXCEPT !.status = "running", !.pid = t.live[d]] \in Rows
    BY <2>1 DEF Rows, Statuses, ActiveStatuses
  <2>8. daemon' \in [Daemons -> Rows]
    BY <1>23, <2>7, UpdateType DEF BootEach
  <2> QED BY <1>23, <2>6, <2>8 DEF BootEach, backend, executor, bounds
<1>24. ASSUME NEW p \in Pids, ProcessDies(p) \/ ProcessEnds(p)
       PROVE  TypeOK'
  <2>1. reports' \in [Daemons -> Nat]
    BY <1>24 DEF ProcessDies, ProcessEnds, bounds
  <2> QED BY <1>24, <1>b, <2>1, ReleaseType DEF ProcessDies, ProcessEnds, backend
<1>25. ASSUME ExecutorRestart
       PROVE  TypeOK'
  BY <1>25, <1>b DEF ExecutorRestart, NoLive, NoProcess, Processes, backend
<1>26. ASSUME NEW d \in Daemons, LongRun(d)
       PROVE  TypeOK'
  <2>1. [daemon[d] EXCEPT !.age = StableRun] \in Rows
    <3>1. StableRun \in -1..StableRun
      BY StableRunAssumption
    <3>2. \A a \in -1..StableRun : [daemon[d] EXCEPT !.age = a] \in Rows
      BY RowColumns
    <3> QED BY ONLY <3>1, <3>2
  <2>2. daemon' = [daemon EXCEPT ![d] = [daemon[d] EXCEPT !.age = StableRun]]
    BY <1>26 DEF LongRun
  <2>3. daemon' \in [Daemons -> Rows]
    BY <2>1, <2>2
  <2>4. UNCHANGED <<restartTimers, restartAttempts, task, entry, process, reports,
                  dropped, ops, faults>>
    BY <1>26 DEF LongRun, backend, executor, bounds
  <2> QED BY <2>3, <2>4
<1>27. CASE UNCHANGED vars
  BY <1>27 DEF vars, backend, executor, bounds
<1> QED
  BY <1>1, <1>3, <1>4, <1>5, <1>6, <1>7, <1>8, <1>9, <1>10, <1>11, <1>12, <1>13, <1>14, <1>15,
     <1>16, <1>17, <1>18, <1>19, <1>20, <1>21, <1>22, <1>23, <1>24, <1>25, <1>26, <1>27, <1>28,
     <1>29, <1>a DEF Next, Step, Users, Sweep, FindAll, SweepLoop, BootLoop

\* The state always has its type.
THEOREM TypeCorrect == Spec => []TypeOK
<1>1. Init => TypeOK
  BY IdleIsTask, StableRunAssumption, BoundsAssumption, DelaysLength
     DEF Init, TypeOK, NoRow, Rows, Statuses, NoLive, NoProcess, Processes
<1>2. TypeOK /\ [Next]_vars => TypeOK'
  BY TypeStep
<1> QED BY <1>1, <1>2, PTL DEF Spec

-----------------------------------------------------------------------------
(* The executor reaches every process it has not told to stop *)

\* The entry of a daemon names a process of that daemon that was not told to stop.
EntryNamesOwnProcess ==
  \A d \in Daemons : entry[d] # NoPid =>
    process[entry[d]].d = d /\ process[entry[d]].st \in {"up", "failed"}

ProcessHasDaemon == \A p \in Pids : process[p].st # "free" => process[p].d \in Daemons

ExecutorInv == EntryNamesOwnProcess /\ ProcessHasDaemon /\ UnstoppedProcessIsReachable

LEMMA StopKeepsExecutor ==
  ASSUME TypeOK, ExecutorInv, NEW d \in Daemons, StopInExecutor(d)
  PROVE  ExecutorInv'
<1> USE DEF TypeOK, ExecutorInv, EntryNamesOwnProcess, ProcessHasDaemon, UnstoppedProcessIsReachable
<1>1. entry' = [entry EXCEPT ![d] = NoPid] /\ process' = Signalled(d)
  BY DEF StopInExecutor
<1>2. \A p \in Pids : /\ process'[p].d = process[p].d
                      /\ p # entry[d] => process'[p].st = process[p].st
                      /\ p = entry[d] => process'[p].st # "up"
                      /\ process'[p].st = "free" <=> process[p].st = "free"
  <2> SUFFICES ASSUME NEW p \in Pids
               PROVE  /\ process'[p].d = process[p].d
                      /\ p # entry[d] => process'[p].st = process[p].st
                      /\ p = entry[d] => process'[p].st # "up"
                      /\ process'[p].st = "free" <=> process[p].st = "free"
    OBVIOUS
  <2>1. CASE p # entry[d]
    BY <1>1, <2>1 DEF Signalled, Processes
  <2>2. CASE p = entry[d]
    BY <1>1, <2>2, PidsAssumption DEF Signalled, Processes
  <2> QED BY <2>1, <2>2
<1>3. ProcessHasDaemon'
  BY <1>2
<1>4. \A e \in Daemons : entry'[e] = IF e = d THEN NoPid ELSE entry[e]
  BY <1>1
<1>5. EntryNamesOwnProcess'
  <2> SUFFICES ASSUME NEW e \in Daemons, entry'[e] # NoPid
               PROVE  process'[entry'[e]].d = e /\ process'[entry'[e]].st \in {"up", "failed"}
    OBVIOUS
  <2>1. e # d /\ entry'[e] = entry[e] /\ entry[e] \in Pids
    BY <1>4
  <2>2. process[entry[e]].d = e /\ process[entry[e]].st \in {"up", "failed"}
    BY <2>1
  <2>3. entry[e] # entry[d]
    BY <2>1, <2>2, SMTT(30)
  <2>4. process'[entry[e]].d = process[entry[e]].d /\ process'[entry[e]].st = process[entry[e]].st
    BY <1>2, <2>1, <2>3
  <2> QED BY <2>1, <2>2, <2>4
<1>6. UnstoppedProcessIsReachable'
  <2> SUFFICES ASSUME NEW p \in Pids, process'[p].st = "up"
               PROVE  entry'[process'[p].d] = p
    OBVIOUS
  <2>1. p # entry[d] /\ process[p].st = "up" /\ process'[p].d = process[p].d
    BY <1>2
  <2>2. process[p].d \in Daemons /\ entry[process[p].d] = p /\ process[p].d # d
    BY <2>1
  <2> QED BY <1>4, <2>1, <2>2
<1> QED BY <1>3, <1>5, <1>6

LEMMA StartKeepsExecutor ==
  ASSUME TypeOK, ExecutorInv, NEW d \in Daemons, NEW q \in Pids, StartInExecutor(d, q)
  PROVE  ExecutorInv'
<1> USE DEF TypeOK, ExecutorInv, EntryNamesOwnProcess, ProcessHasDaemon, UnstoppedProcessIsReachable
<1>1. PICK st \in {"up", "failed"} : process' = [Signalled(d) EXCEPT ![q] = [st |-> st, d |-> d]]
  BY DEF StartInExecutor
<1>2. entry' = [entry EXCEPT ![d] = q] /\ process[q].st = "free"
  BY DEF StartInExecutor
<1>3. process'[q].d = d /\ process'[q].st = st
  BY <1>1, SignalledType
<1>4. \A p \in Pids \ {q} : /\ process'[p].d = process[p].d
                            /\ p # entry[d] => process'[p].st = process[p].st
                            /\ p = entry[d] => process'[p].st # "up"
                            /\ process'[p].st = "free" <=> process[p].st = "free"
  <2> SUFFICES ASSUME NEW p \in Pids \ {q}
               PROVE  /\ process'[p].d = process[p].d
                      /\ p # entry[d] => process'[p].st = process[p].st
                      /\ p = entry[d] => process'[p].st # "up"
                      /\ process'[p].st = "free" <=> process[p].st = "free"
    OBVIOUS
  <2>1. process'[p] = Signalled(d)[p]
    BY <1>1, SignalledType
  <2>2. CASE p # entry[d]
    BY <2>1, <2>2 DEF Signalled, Processes
  <2>3. CASE p = entry[d]
    BY <2>1, <2>3, PidsAssumption DEF Signalled, Processes
  <2> QED BY <2>2, <2>3
<1>5. ProcessHasDaemon'
  BY <1>3, <1>4
<1>6. \A e \in Daemons : entry'[e] = IF e = d THEN q ELSE entry[e]
  BY <1>2
<1>7. EntryNamesOwnProcess'
  <2> SUFFICES ASSUME NEW e \in Daemons, entry'[e] # NoPid
               PROVE  process'[entry'[e]].d = e /\ process'[entry'[e]].st \in {"up", "failed"}
    OBVIOUS
  <2>1. CASE e = d
    BY <1>3, <1>6, <2>1
  <2>2. CASE e # d
    <3>1. entry'[e] = entry[e] /\ entry[e] \in Pids
      BY <1>6, <2>2
    <3>2. process[entry[e]].d = e /\ process[entry[e]].st \in {"up", "failed"}
      BY <3>1
    <3>3. entry[e] # entry[d]
      BY <2>2, <3>1, <3>2
    <3>4. entry[e] # q
      BY <1>2, <3>2
    <3> DEFINE p == entry[e]
    <3>5. process'[p].d = process[p].d /\ process'[p].st = process[p].st
      BY <1>4, <3>1, <3>3, <3>4
    <3> QED BY <3>1, <3>2, <3>5
  <2> QED BY <2>1, <2>2
<1>8. UnstoppedProcessIsReachable'
  <2> SUFFICES ASSUME NEW p \in Pids, process'[p].st = "up"
               PROVE  entry'[process'[p].d] = p
    OBVIOUS
  <2>1. CASE p = q
    BY <1>3, <1>6, <2>1
  <2>2. CASE p # q
    <3>1. p # entry[d] /\ process[p].st = "up" /\ process'[p].d = process[p].d
      BY <1>4, <2>2
    <3> DEFINE e == process[p].d
    <3>2. e \in Daemons /\ entry[e] = p
      BY <3>1
    <3>3. e # d
      BY <3>1, <3>2
    <3>4. entry'[e] = entry[e]
      BY <1>6, <3>2, <3>3
    <3> QED BY ONLY <3>1, <3>2, <3>4
  <2> QED BY <2>1, <2>2
<1> QED BY <1>5, <1>7, <1>8

LEMMA ReleaseKeepsExecutor ==
  ASSUME TypeOK, ExecutorInv, NEW q \in Pids, process[q].st # "free",
         entry' = Release(q), process' = [process EXCEPT ![q] = NoProcess]
  PROVE  ExecutorInv'
<1> USE DEF TypeOK, ExecutorInv, EntryNamesOwnProcess, ProcessHasDaemon, UnstoppedProcessIsReachable
<1>1. process'[q].st = "free" /\ \A p \in Pids \ {q} : process'[p] = process[p]
  BY DEF NoProcess
<1>2. \A d \in Daemons : entry'[d] = IF entry[d] = q THEN NoPid ELSE entry[d]
  BY DEF Release
<1>3. ProcessHasDaemon'
  BY <1>1
<1>4. EntryNamesOwnProcess'
  BY <1>1, <1>2
<1>5. UnstoppedProcessIsReachable'
  BY <1>1, <1>2
<1> QED BY <1>3, <1>4, <1>5

LEMMA ExecutorStep ==
  ASSUME TypeOK, ExecutorInv, [Next]_vars
  PROVE  ExecutorInv'
<1>1. CASE UNCHANGED executor
  BY <1>1 DEF executor, ExecutorInv, EntryNamesOwnProcess, ProcessHasDaemon,
              UnstoppedProcessIsReachable
<1>2. ASSUME NEW d \in Daemons, StopInExecutor(d)
      PROVE  ExecutorInv'
  BY <1>2, StopKeepsExecutor
<1>3. ASSUME NEW s \in Slots, NEW p \in Pids, CallOk(s, p) \/ CallAnswerLost(s, p)
      PROVE  ExecutorInv'
  <2>1. task[s].d \in Daemons /\ StartInExecutor(task[s].d, p)
    BY <1>3 DEF CallOk, CallAnswerLost, TypeOK, Tasks
  <2> QED BY <2>1, StartKeepsExecutor
<1>4. ASSUME NEW s \in Slots, StartKill(s) \/ ExecStop(s)
      PROVE  ExecutorInv'
  <2>1. CASE ExecStop(s)
    <3>1. task[s].d \in Daemons
      BY <2>1 DEF ExecStop, TypeOK, Tasks
    <3> QED BY <1>1, <1>2, <2>1, <3>1 DEF ExecStop
  <2>2. CASE StartKill(s)
    <3>1. task[s].todo \in SUBSET Daemons
      BY TaskFields DEF TypeOK
    <3> QED BY <1>1, <1>2, <2>2, <3>1 DEF StartKill
  <2> QED BY <1>4, <2>1, <2>2
<1>5. ASSUME NEW p \in Pids, ProcessDies(p) \/ ProcessEnds(p)
      PROVE  ExecutorInv'
  BY <1>5, ReleaseKeepsExecutor DEF ProcessDies, ProcessEnds
<1>6. CASE ExecutorRestart
  BY <1>6 DEF ExecutorRestart, NoLive, NoProcess, ExecutorInv, EntryNamesOwnProcess,
              ProcessHasDaemon, UnstoppedProcessIsReachable
<1>7. ASSUME NEW s \in Slots, Step(s)
      PROVE  UNCHANGED executor \/ StartKill(s) \/ ExecStop(s)
             \/ \E p \in Pids : CallOk(s, p) \/ CallAnswerLost(s, p)
  BY <1>7 DEF Step, CallFails, Confirm, Failed, Crash, Arm, StartList, StartCreate, StopUpdate,
              RestartMark, RemoveDelete, AutoRead, QueryFails
<1>8. ASSUME NEW s \in Slots, Users(s) \/ \E d \in Daemons : ExitReport(s, d) \/ TimerFires(s, d)
      PROVE  UNCHANGED executor
  BY <1>8 DEF Users, Start, FindAll, Reconcile, Stop, Restart, Remove, ExitReport, TimerFires
<1>9. CASE Sweep \/ (\E s \in Slots : SweepLoop(s)) \/ BootLoop \/ BackendRestart
           \/ UNCHANGED vars \/ \E d \in Daemons : LongRun(d)
  <2>1. UNCHANGED executor
    BY <1>9 DEF Sweep, Reconcile, SweepLoop, SweepFind, SweepEach, BootLoop, BootFind, BootList, BootEach,
                BackendRestart, LongRun, vars
  <2> QED BY <1>1, <2>1
<1> QED
  BY <1>1, <1>3, <1>4, <1>5, <1>6, <1>7, <1>8, <1>9 DEF Next

\* Every process that was not told to stop is the one its daemon's entry names.
THEOREM UnstoppedReachable == Spec => []UnstoppedProcessIsReachable
<1>1. Init => ExecutorInv
  BY DEF Init, NoLive, NoProcess, ExecutorInv, EntryNamesOwnProcess, ProcessHasDaemon,
         UnstoppedProcessIsReachable
<1>2. TypeOK /\ ExecutorInv /\ [Next]_vars => ExecutorInv'
  BY ExecutorStep
<1>3. ExecutorInv => UnstoppedProcessIsReachable
  BY DEF ExecutorInv
<1> QED BY <1>1, <1>2, <1>3, TypeCorrect, PTL DEF Spec

-----------------------------------------------------------------------------
(* No daemon is left waiting for a restart *)

Waiting(d) == daemon[d].status = "restarting"

\* A step of one handler keeps every waiting daemon resolved when, for each, either the
\* new state resolves it or nothing that resolved it was the handler's.
LEMMA OneHandler ==
  ASSUME RestartNotStranded, NEW s \in Slots,
         \A r \in Slots \ {s} : task'[r] = task[r],
         \A d \in Daemons : d \in dropped => d \in dropped' \/ restartTimers'[d] # 0,
         \A d \in Daemons : Waiting(d)' =>
            \/ restartTimers'[d] # 0 \/ Resolves(task'[s], d) \/ d \in dropped'
            \/ Waiting(d) /\ restartTimers'[d] = restartTimers[d] /\ ~Resolves(task[s], d)
  PROVE  RestartNotStranded'
<1> SUFFICES ASSUME NEW d \in Daemons, Waiting(d)', restartTimers'[d] = 0, d \notin dropped',
                    ~Resolves(task'[s], d)
             PROVE  \E r \in Slots : Resolves(task'[r], d)
  BY DEF RestartNotStranded, Waiting
<1>1. Waiting(d) /\ restartTimers[d] = 0 /\ d \notin dropped /\ ~Resolves(task[s], d)
  OBVIOUS
<1>2. PICK r \in Slots : Resolves(task[r], d)
  BY <1>1 DEF RestartNotStranded, Waiting
<1>3. r # s /\ task'[r] = task[r]
  BY <1>1, <1>2
<1> QED BY <1>2, <1>3

\* Leaving a daemon of a loop to go to the next keeps the rest of the loop.
LEMMA NextOfResolves ==
  ASSUME NEW t \in Tasks, NEW d \in Daemons, t.op = "boot", d \in t.todo
  PROVE  Resolves(NextOf(t), d)
<1>1. NextOf(t) = [t EXCEPT !.pc = "each", !.d = NoDaemon, !.pid = NoPid, !.attempt = 0]
  BY DEF NextOf
<1>2. NextOf(t).op = "boot" /\ NextOf(t).todo = t.todo
  BY <1>1 DEF Tasks, TaskRecords
<1> QED BY <1>2 DEF Resolves

\* What a handler resolves, by its kind.
LEMMA ResolvesByOp ==
  ASSUME NEW t \in Tasks, NEW d \in Daemons, Resolves(t, d)
  PROVE  \/ t.op \in {"exit", "auto", "sweep"} /\ t.d = d /\ t.pc = "arm" /\ ~GivesUp(t)
         \/ t.op = "auto" /\ t.d = d /\ t.pc \in {"read", "call", "confirm", "crash"}
         \/ t.op = "stop" /\ t.d = d
         \/ t.op = "restart" /\ t.d = d /\ t.pc \in {"exec", "mark"}
         \/ t.op = "boot" /\ (t.pc = "find" \/ d \in t.todo)
         \/ t.op = "boot" /\ t.d = d /\ t.pc \in {"call", "confirm", "failed"}
<1>1. Phase(t.op, t.pc)
  BY DEF Tasks
<1>2. CASE t.d = d /\ t.pc = "arm" /\ ~GivesUp(t)
  <2>1. t.op \in {"exit", "auto", "sweep"}
    BY <1>1, <1>2 DEF Phase
  <2> QED BY <1>2, <2>1
<1>3. CASE t.op = "boot" /\ (t.pc = "find" \/ d \in t.todo)
  BY <1>3
<1> QED BY <1>2, <1>3 DEF Resolves

LEMMA IdleResolvesNothing == \A d \in Daemons : ~Resolves(Idle, d)
BY DEF Resolves, Idle

\* doStart answers, one way or the other.
LEMMA CallStep ==
  ASSUME TypeOK, RestartNotStranded, NEW s \in Slots, task[s].pc \in {"call", "confirm"},
         UNCHANGED <<daemon, restartTimers, dropped>>,
         \/ \E p \in Pids : task' = [task EXCEPT ![s].pc = "confirm", ![s].pid = p]
         \/ CallThrows(s)
  PROVE  RestartNotStranded'
<1> DEFINE t == task[s]
<1>1. t \in Tasks /\ t \in TaskRecords /\ t.pc \in {"call", "confirm"}
      /\ t.op \in {"start", "restart", "auto", "boot"}
  BY DEF TypeOK, Tasks, Phase
<1>2. \A r \in Slots \ {s} : task'[r] = task[r]
  BY DEF TypeOK, CallThrows, Goto, EnterCrashed
<1>3. ASSUME NEW d \in Daemons, Resolves(t, d)
      PROVE  Resolves(task'[s], d)
  <2>1. \/ t.op = "auto" /\ t.d = d
        \/ t.op = "boot" /\ (t.d = d \/ d \in t.todo)
    BY <1>1, <1>3, ResolvesByOp
  <2>2. CASE \E p \in Pids : task' = [task EXCEPT ![s].pc = "confirm", ![s].pid = p]
    <3>1. task'[s].op = t.op /\ task'[s].d = t.d /\ task'[s].todo = t.todo /\ task'[s].pc = "confirm"
      <4>1. PICK p \in Pids : task' = [task EXCEPT ![s] = [t EXCEPT !.pc = "confirm", !.pid = p]]
        BY <2>2
      <4>2. task'[s] = [t EXCEPT !.pc = "confirm", !.pid = p]
        BY <4>1 DEF TypeOK
      <4> QED BY <1>1, <4>2 DEF TaskRecords
    <3> QED BY <2>1, <3>1 DEF Resolves
  <2>3. CASE CallThrows(s)
    <3>1. CASE t.op = "boot"
      <4>1. task'[s].op = t.op /\ task'[s].d = t.d /\ task'[s].todo = t.todo /\ task'[s].pc = "failed"
        <5>1. task'[s] = [t EXCEPT !.pc = "failed"]
          BY <2>3, <3>1 DEF CallThrows, Goto, TypeOK
        <5> QED BY <1>1, <5>1 DEF TaskRecords
      <4> QED BY <2>1, <3>1, <4>1 DEF Resolves
    <3>2. CASE t.op = "auto"
      <4>1. task'[s].op = t.op /\ task'[s].d = t.d /\ task'[s].pc = "crash"
        <5>1. PICK a : task'[s] = [t EXCEPT !.pc = "crash", !.d = t.d, !.attempt = a]
          BY <2>3, <3>2 DEF CallThrows, EnterCrashed, TypeOK
        <5> QED BY <1>1, <5>1 DEF TaskRecords
      <4> QED BY <2>1, <3>2, <4>1 DEF Resolves
    <3> QED BY <2>1, <3>1, <3>2
  <2> QED BY <2>2, <2>3
<1>4. \A d \in Daemons : Waiting(d)' => Waiting(d) /\ restartTimers'[d] = restartTimers[d]
  BY DEF Waiting
<1> QED BY <1>2, <1>3, <1>4, OneHandler

\* A handler starts in an idle slot, and timers of other daemons stay.
LEMMA BeginStep ==
  ASSUME TypeOK, RestartNotStranded, NEW s \in Slots, task[s] = Idle, UNCHANGED dropped,
         \A r \in Slots \ {s} : task'[r] = task[r],
         \A d \in Daemons : Waiting(d)' =>
            Waiting(d) /\ (restartTimers'[d] = restartTimers[d] \/ Resolves(task'[s], d))
  PROVE  RestartNotStranded'
<1>1. \A d \in Daemons : ~Resolves(task[s], d)
  BY IdleResolvesNothing
<1> QED BY <1>1, OneHandler

\* A handler that resolves nothing keeps what others resolve.
LEMMA NeutralStep ==
  ASSUME TypeOK, RestartNotStranded, NEW s \in Slots, task[s].op \in {"start", "remove", "sweep"},
         task[s].pc # "arm", UNCHANGED dropped,
         \A r \in Slots \ {s} : task'[r] = task[r],
         \A d \in Daemons : Waiting(d)' => Waiting(d), UNCHANGED restartTimers
  PROVE  RestartNotStranded'
<1>1. task[s] \in Tasks
  BY DEF TypeOK
<1>2. \A d \in Daemons : ~Resolves(task[s], d)
  BY <1>1, ResolvesByOp
<1> QED BY <1>2, OneHandler

\* The update that ends the handling of a daemon, and the return.
LEMMA FinishStep ==
  ASSUME TypeOK, RestartNotStranded, NEW s \in Slots,
         task[s].pc \in {"confirm", "failed", "update", "delete"},
         NEW row, row.status # "restarting",
         \/ Update(task[s].d, row)
         \/ daemon' = [daemon EXCEPT ![task[s].d] = row],
         Return(s), UNCHANGED <<restartTimers, dropped>>
  PROVE  RestartNotStranded'
<1> DEFINE t == task[s]
<1>1. t \in Tasks /\ t.d \in Daemons /\ Phase(t.op, t.pc)
  BY DEF TypeOK, Tasks
<1>e. PICK e \in Daemons : e = t.d
  BY <1>1
<1>2. task'[s] = NextOf(t) /\ \A r \in Slots \ {s} : task'[r] = task[r]
  BY DEF Return, TypeOK
<1>3. ~Waiting(e)'
  <2>1. CASE UNCHANGED daemon /\ daemon[t.d].status \in {"absent", "removed"}
    BY <1>e, <2>1 DEF Waiting
  <2>2. CASE daemon' = [daemon EXCEPT ![t.d] = row]
    <3>1. daemon'[e] = row
      BY <1>e, <2>2 DEF TypeOK
    <3> QED BY <3>1 DEF Waiting
  <2> QED BY <2>1, <2>2 DEF Update
<1>4. ASSUME NEW d \in Daemons, d # e
      PROVE  Waiting(d)' => Waiting(d)
  BY <1>e, <1>4 DEF Update, Waiting, TypeOK
<1>5. ASSUME NEW d \in Daemons, d # e, Resolves(t, d)
      PROVE  Resolves(NextOf(t), d)
  <2>1. t.op = "boot" /\ d \in t.todo
    BY <1>1, <1>e, <1>5, ResolvesByOp DEF Phase
  <2> QED BY <1>1, <2>1, NextOfResolves
<1>6. ASSUME NEW d \in Daemons, Waiting(d)'
      PROVE  \/ Resolves(task'[s], d)
             \/ Waiting(d) /\ restartTimers'[d] = restartTimers[d] /\ ~Resolves(task[s], d)
  BY <1>2, <1>3, <1>4, <1>5, <1>6
<1> QED BY <1>2, <1>6, OneHandler

LEMMA CrashStep ==
  ASSUME TypeOK, RestartNotStranded, NEW s \in Slots, Crash(s)
  PROVE  RestartNotStranded'
<1> DEFINE t == task[s]
<1>1. t \in Tasks /\ t \in TaskRecords /\ t.d \in Daemons /\ t.pc = "crash"
      /\ t.op \in {"exit", "auto", "sweep"}
  BY DEF Crash, TypeOK, Tasks, Phase
<1>e. PICK e \in Daemons : e = t.d
  BY <1>1
<1>2. \A r \in Slots \ {s} : task'[r] = task[r]
  BY DEF Crash, Goto, Return, TypeOK
<1>3. UNCHANGED <<restartTimers, dropped>>
  BY DEF Crash, backend
<1>4. \A d \in Daemons : Resolves(t, d) => t.op = "auto" /\ t.d = d
  BY <1>1, ResolvesByOp
<1>5. CASE daemon[t.d].status \notin From(t.op)
  <2>1. UNCHANGED daemon
    BY <1>5 DEF Crash
  <2>2. t.op = "auto" => ~Waiting(e)
    BY <1>e, <1>5 DEF From, Waiting
  <2> QED BY <1>2, <1>3, <1>4, <1>e, <2>1, <2>2, OneHandler DEF Waiting
<1>6. CASE daemon[t.d].status \in From(t.op)
  <2>1. task'[s] = [t EXCEPT !.pc = "arm"]
    BY <1>6 DEF Crash, Goto, TypeOK
  <2>2. task'[s].d = t.d /\ task'[s].pc = "arm" /\ task'[s].attempt = t.attempt
    BY <1>1, <2>1 DEF TaskRecords
  <2>3. GivesUp(task'[s]) = GivesUp(t)
    BY <2>2 DEF GivesUp
  <2>4. \A d \in Daemons : d # e => (Waiting(d)' <=> Waiting(d))
    BY <1>e, <1>6 DEF Crash, Waiting, TypeOK
  <2>5. Waiting(e)' => ~GivesUp(t)
    <3>1. CASE GivesUp(t)
      <4>1. daemon' = [daemon EXCEPT ![t.d] = [daemon[t.d] EXCEPT !.status = "error"]]
        BY <1>6, <3>1 DEF Crash
      <4>2. daemon'[e].status = "error"
        BY <1>e, <4>1 DEF TypeOK, Rows
      <4> QED BY <4>2 DEF Waiting
    <3> QED BY <3>1
  <2>6. Waiting(e)' => Resolves(task'[s], e)
    BY <1>e, <2>2, <2>3, <2>5 DEF Resolves
  <2>7. ASSUME NEW d \in Daemons, Waiting(d)'
        PROVE  \/ Resolves(task'[s], d)
               \/ Waiting(d) /\ restartTimers'[d] = restartTimers[d] /\ ~Resolves(task[s], d)
    BY <1>e, <1>3, <1>4, <2>4, <2>6, <2>7
  <2> QED BY <1>2, <1>3, <2>7, OneHandler
<1> QED BY <1>5, <1>6

LEMMA ArmStep ==
  ASSUME TypeOK, RestartNotStranded, NEW s \in Slots, Arm(s)
  PROVE  RestartNotStranded'
<1> DEFINE t == task[s]
<1>1. t \in Tasks /\ t.d \in Daemons /\ t.pc = "arm" /\ t.op \in {"exit", "auto", "sweep"}
      /\ t.attempt \in 0..Len(Delays)
  BY TaskFields DEF Arm, TypeOK, Tasks, Phase
<1>2. \A r \in Slots \ {s} : task'[r] = task[r]
  BY DEF Arm, Return, TypeOK
<1>3. \A d \in Daemons : Resolves(t, d) => t.d = d /\ ~GivesUp(t)
  BY <1>1, ResolvesByOp
<1>4. UNCHANGED daemon
  BY DEF Arm
<1>5. CASE GivesUp(t)
  <2>1. UNCHANGED <<restartTimers, dropped>>
    BY <1>5 DEF Arm
  <2> QED BY <1>2, <1>3, <1>4, <1>5, <2>1, OneHandler DEF Waiting
<1>6. CASE ~GivesUp(t)
  <2>1. restartTimers' = [restartTimers EXCEPT ![t.d] = t.attempt + 1]
    BY <1>6 DEF Arm
  <2>2. restartTimers'[t.d] # 0 /\ \A d \in Daemons : d # t.d => restartTimers'[d] = restartTimers[d]
    BY <1>1, <2>1, DelaysLength DEF TypeOK
  <2>3. \A d \in Daemons : d \in dropped => d \in dropped' \/ restartTimers'[d] # 0
    BY <1>6, <2>2 DEF Arm
  <2> QED BY <1>2, <1>3, <1>4, <2>2, <2>3, OneHandler DEF Waiting
<1> QED BY <1>5, <1>6

\* A query fails: what the handler held in 'restarting' is dropped.
LEMMA QueryStep ==
  ASSUME TypeOK, RestartNotStranded, NEW s \in Slots, QueryFails(s)
  PROVE  RestartNotStranded'
<1>1. UNCHANGED daemon
  BY DEF QueryFails
<1>2. CASE task[s].pc = "confirm" /\ CallThrows(s) /\ UNCHANGED dropped
  <2>1. UNCHANGED restartTimers
    BY <1>2 DEF CallThrows, backend
  <2> QED BY <1>1, <1>2, <2>1, CallStep
<1>3. CASE /\ task' = [task EXCEPT ![s] = Idle] /\ UNCHANGED backend
           /\ dropped' = dropped \cup
                {d \in Daemons : daemon[d].status = "restarting" /\ Resolves(task[s], d)}
  <2>1. UNCHANGED restartTimers /\ \A r \in Slots \ {s} : task'[r] = task[r]
    BY <1>3 DEF backend, TypeOK
  <2>2. \A d \in Daemons : Waiting(d)' => d \in dropped' \/ ~Resolves(task[s], d)
    BY <1>1, <1>3 DEF Waiting
  <2> QED BY <1>1, <1>3, <2>1, <2>2, OneHandler DEF Waiting
<1> QED BY <1>2, <1>3 DEF QueryFails

\* The requests of users.
LEMMA UsersStep ==
  ASSUME TypeOK, RestartNotStranded, NEW s \in Slots, Users(s)
  PROVE  RestartNotStranded'
<1>1. task[s] = Idle /\ UNCHANGED <<daemon, dropped>>
  BY DEF Users, Start, FindAll, Reconcile, Stop, Restart, Remove
<1>2. \A r \in Slots \ {s} : task'[r] = task[r]
  BY DEF Users, Start, FindAll, Reconcile, Stop, Restart, Remove, Begin, TypeOK
<1>3. CASE UNCHANGED restartTimers
  BY <1>1, <1>2, <1>3, BeginStep DEF Waiting
<1>4. ASSUME NEW d \in Daemons, Stop(s, d) \/ Restart(s, d)
      PROVE  RestartNotStranded'
  <2>1. \A e \in Daemons : e # d => restartTimers'[e] = restartTimers[e]
    BY <1>4 DEF Stop, Restart, CancelRestart, TypeOK
  <2>2. PICK op \in {"stop", "restart"}, pc \in {"exec", "mark"} :
           task'[s] = [Idle EXCEPT !.op = op, !.pc = pc, !.d = d]
    BY <1>4 DEF Stop, Restart, Begin, TypeOK
  <2>3. task'[s].op = op /\ task'[s].pc = pc /\ task'[s].d = d
    BY <2>2 DEF Idle
  <2>4. Resolves(task'[s], d)
    BY <2>3 DEF Resolves
  <2> QED BY <1>1, <1>2, <2>1, <2>4, BeginStep DEF Waiting
<1> QED BY <1>3, <1>4 DEF Users, Start, FindAll, Reconcile, Remove, backend

\* start()'s own steps, and restart()'s.
LEMMA RequestStep ==
  ASSUME TypeOK, RestartNotStranded, NEW s \in Slots,
         StartList(s) \/ StartKill(s) \/ StartCreate(s) \/ ExecStop(s) \/ RestartMark(s)
  PROVE  RestartNotStranded'
<1> DEFINE t == task[s]
<1>1. t \in Tasks /\ t \in TaskRecords /\ Phase(t.op, t.pc)
  BY DEF TypeOK, Tasks
<1>2. CASE StartList(s) \/ StartKill(s) \/ StartCreate(s)
  <2>1. t.op = "start" /\ t.pc # "arm"
    BY <1>1, <1>2 DEF StartList, StartKill, StartCreate, Phase
  <2>2. \A r \in Slots \ {s} : task'[r] = task[r]
    BY <1>2 DEF StartList, StartKill, StartCreate, Goto, Return, TypeOK
  <2>3. UNCHANGED <<restartTimers, dropped>>
    BY <1>2 DEF StartList, StartKill, StartCreate, backend
  <2>4. ASSUME NEW d \in Daemons, Waiting(d)'
        PROVE  Waiting(d)
    <3>1. CASE UNCHANGED daemon
      BY <2>4, <3>1 DEF Waiting
    <3>2. CASE \E e \in Daemons : daemon' = [daemon EXCEPT ![e].status = "starting"]
      BY <2>4, <3>2 DEF Waiting, TypeOK, Rows
    <3> QED BY <1>2, <3>1, <3>2 DEF StartList, StartKill, StartCreate
  <2> QED BY <2>1, <2>2, <2>3, <2>4, NeutralStep
<1>3. CASE ExecStop(s)
  <2>1. PICK pc \in {"update", "mark"} : /\ task' = [task EXCEPT ![s] = [t EXCEPT !.pc = pc]]
                                         /\ t.op = "restart" => pc = "mark"
    BY <1>1, <1>3 DEF ExecStop, Goto, Phase
  <2>2. /\ task'[s] = [t EXCEPT !.pc = pc]
        /\ \A r \in Slots \ {s} : task'[r] = task[r]
    BY <2>1 DEF TypeOK
  <2>3. task'[s].pc = pc /\ task'[s].op = t.op /\ task'[s].d = t.d
    BY <1>1, <2>2 DEF TaskRecords
  <2>4. t.op \in {"stop", "restart"} /\ UNCHANGED <<daemon, restartTimers, dropped>>
    BY <1>1, <1>3 DEF ExecStop, Phase, backend
  <2>5. ASSUME NEW d \in Daemons, Resolves(t, d)
        PROVE  Resolves(task'[s], d)
    <3>1. t.d = d
      BY <1>1, <2>4, <2>5, ResolvesByOp
    <3> QED BY <2>1, <2>3, <2>4, <3>1 DEF Resolves
  <2> QED BY <2>2, <2>4, <2>5, OneHandler DEF Waiting
<1>4. CASE RestartMark(s)
  <2>1. t.op = "restart" /\ t.d \in Daemons /\ UNCHANGED <<restartTimers, dropped>>
    BY <1>1, <1>4 DEF RestartMark, Phase, Tasks, backend
  <2>2. PICK e \in Daemons : e = t.d
    BY <2>1
  <2>3. \A r \in Slots \ {s} : task'[r] = task[r]
    BY <1>4 DEF RestartMark, Goto, Return, TypeOK
  <2>4. ~Waiting(e)'
    <3>1. CASE UNCHANGED daemon /\ daemon[e].status \in {"absent", "removed"}
      BY <3>1 DEF Waiting
    <3>2. CASE daemon' = [daemon EXCEPT ![e] = [status |-> "starting", pid |-> NoPid, age |-> -1]]
      BY <3>2 DEF Waiting, TypeOK
    <3> QED BY <1>4, <2>2, <3>1, <3>2 DEF RestartMark, Update
  <2>5. \A d \in Daemons : d # e => (Waiting(d)' <=> Waiting(d))
    BY <1>4, <2>2 DEF RestartMark, Update, Waiting, TypeOK
  <2>6. \A d \in Daemons : d # e => ~Resolves(t, d)
    BY <1>1, <2>1, <2>2, ResolvesByOp
  <2>7. ASSUME NEW d \in Daemons, Waiting(d)'
        PROVE  Waiting(d) /\ restartTimers'[d] = restartTimers[d] /\ ~Resolves(task[s], d)
    BY <2>1, <2>4, <2>5, <2>6, <2>7
  <2> QED BY <2>1, <2>3, <2>7, OneHandler
<1> QED BY <1>2, <1>3, <1>4

\* autoRestart reads the row.
LEMMA AutoReadStep ==
  ASSUME TypeOK, RestartNotStranded, NEW s \in Slots, AutoRead(s)
  PROVE  RestartNotStranded'
<1> DEFINE t == task[s]
<1>1. t \in Tasks /\ t \in TaskRecords /\ t.op = "auto" /\ t.d \in Daemons /\ t.pc = "read"
  BY DEF AutoRead, TypeOK, Tasks, Phase
<1>2. UNCHANGED <<daemon, restartTimers, dropped>> /\ \A r \in Slots \ {s} : task'[r] = task[r]
  BY DEF AutoRead, TypeOK, backend
<1>3. \A d \in Daemons : Resolves(t, d) => t.d = d
  BY <1>1, ResolvesByOp
<1>4. CASE daemon[t.d].status = "restarting"
  <2>1. task'[s] = [t EXCEPT !.pc = "call", !.rows[t.d] = daemon[t.d]]
    BY <1>4 DEF AutoRead, TypeOK
  <2>2. task'[s].op = "auto" /\ task'[s].pc = "call" /\ task'[s].d = t.d
    BY <1>1, <2>1 DEF TaskRecords
  <2>3. \A d \in Daemons : Resolves(t, d) => Resolves(task'[s], d)
    BY <1>3, <2>2 DEF Resolves
  <2> QED BY <1>2, <2>3, OneHandler DEF Waiting
<1>5. CASE daemon[t.d].status # "restarting"
  BY <1>2, <1>3, <1>5, OneHandler DEF Waiting
<1> QED BY <1>4, <1>5

\* A report arrives, or a timer fires.
LEMMA EventStep ==
  ASSUME TypeOK, RestartNotStranded, NEW s \in Slots, NEW e \in Daemons,
         ExitReport(s, e) \/ TimerFires(s, e)
  PROVE  RestartNotStranded'
<1>1. task[s] = Idle /\ UNCHANGED dropped /\ \A r \in Slots \ {s} : task'[r] = task[r]
  BY DEF ExitReport, TimerFires, EnterCrashed, Begin, TypeOK
<1>2. CASE ExitReport(s, e)
  BY <1>1, <1>2, BeginStep DEF ExitReport, Waiting
<1>3. CASE TimerFires(s, e)
  <2>1. Waited(e).status = daemon[e].status
    <3>1. daemon[e] \in Rows
      BY DEF TypeOK
    <3> QED BY <3>1 DEF Waited, Rows
  <2>2. daemon' = [daemon EXCEPT ![e] = Waited(e)] /\ restartTimers' = [restartTimers EXCEPT ![e] = 0]
    BY <1>3 DEF TimerFires
  <2>3. ASSUME NEW d \in Daemons
        PROVE  (Waiting(d)' <=> Waiting(d)) /\ (d # e => restartTimers'[d] = restartTimers[d])
    BY <2>1, <2>2 DEF Waiting, TypeOK
  <2>4. Resolves(task'[s], e)
    <3>1. task'[s] = [Idle EXCEPT !.op = "auto", !.pc = "read", !.d = e]
      BY <1>3 DEF TimerFires, Begin, TypeOK
    <3>2. task'[s].op = "auto" /\ task'[s].pc = "read" /\ task'[s].d = e
      BY <3>1 DEF Idle
    <3> QED BY <3>2 DEF Resolves
  <2>5. ASSUME NEW d \in Daemons, Waiting(d)'
        PROVE  Waiting(d) /\ (restartTimers'[d] = restartTimers[d] \/ Resolves(task'[s], d))
    <3>1. CASE d = e
      BY <2>3, <2>4, <2>5, <3>1
    <3>2. CASE d # e
      BY <2>3, <2>5, <3>2
    <3> QED BY <3>1, <3>2
  <2> QED BY <1>1, <2>5, BeginStep
<1> QED BY <1>2, <1>3

\* The sweep.
LEMMA SweepStep ==
  ASSUME TypeOK, RestartNotStranded, NEW s \in Slots, Reconcile(s) \/ SweepLoop(s)
  PROVE  RestartNotStranded'
<1> DEFINE t == task[s]
<1>1. \A r \in Slots \ {s} : task'[r] = task[r]
  BY DEF Reconcile, SweepLoop, SweepFind, SweepEach, EnterCrashed, TypeOK
<1>2. UNCHANGED <<restartTimers, dropped>>
  BY DEF Reconcile, SweepLoop, SweepFind, SweepEach, backend
<1>3. CASE Reconcile(s)
  BY <1>1, <1>2, <1>3, BeginStep DEF Reconcile, Waiting
<1>4. CASE SweepLoop(s)
  <2>1. t.op = "sweep" /\ t.pc # "arm"
    BY <1>4 DEF SweepLoop, SweepFind, SweepEach
  <2>2. ASSUME NEW d \in Daemons, Waiting(d)'
        PROVE  Waiting(d)
    <3>1. CASE UNCHANGED daemon
      BY <2>2, <3>1 DEF Waiting
    <3>2. CASE \E e \in Daemons : \E p : Update(e, [daemon[e] EXCEPT !.status = "running", !.pid = p])
      <4>0. PICK e \in Daemons : \E p : Update(e, [daemon[e] EXCEPT !.status = "running", !.pid = p])
        BY <3>2
      <4>1. PICK p : Update(e, [daemon[e] EXCEPT !.status = "running", !.pid = p])
        BY <4>0
      <4>2. [daemon[e] EXCEPT !.status = "running", !.pid = p].status = "running"
        BY DEF TypeOK, Rows
      <4> QED BY <2>2, <4>1, <4>2 DEF Update, Waiting, TypeOK
    <3> QED BY <1>4, <3>1, <3>2 DEF SweepLoop, SweepFind, SweepEach
  <2> QED BY <1>1, <1>2, <2>1, <2>2, NeutralStep
<1> QED BY <1>3, <1>4

\* The boot.
LEMMA BootStep ==
  ASSUME TypeOK, RestartNotStranded, BootLoop
  PROVE  RestartNotStranded'
<1> DEFINE t == task["boot"]
<1>0. "boot" \in Slots
  BY DEF Slots
<1>1. t \in Tasks /\ t \in TaskRecords /\ t.op = "boot"
  BY <1>0 DEF BootLoop, BootFind, BootList, BootEach, TypeOK, Tasks
<1>2. \A r \in Slots \ {"boot"} : task'[r] = task[r]
  BY DEF BootLoop, BootFind, BootList, BootEach, Goto, TypeOK
<1>3. UNCHANGED <<restartTimers, dropped>>
  BY DEF BootLoop, BootFind, BootList, BootEach, backend
<1>4. CASE BootFind
  <2>1. ASSUME NEW d \in Daemons, Waiting(d)'
        PROVE  Resolves(task'["boot"], d)
    <3>1. d \in BootRows
      BY <1>4, <2>1 DEF BootFind, Waiting, BootRows, Active, ActiveStatuses
    <3>2. task'["boot"] = [t EXCEPT !.pc = "list", !.todo = BootRows]
      BY <1>0, <1>4, <3>1 DEF BootFind, TypeOK
    <3>3. task'["boot"].op = "boot" /\ task'["boot"].todo = BootRows
      BY <1>1, <3>2 DEF TaskRecords
    <3> QED BY <3>1, <3>3 DEF Resolves
  <2> QED BY <1>0, <1>2, <1>3, <2>1, OneHandler
<1>5. CASE BootList
  <2>1. task'["boot"].op = "boot" /\ task'["boot"].todo = t.todo
    BY <1>0, <1>1, <1>5 DEF BootList, Goto, TypeOK, TaskRecords
  <2>2. t.pc = "list" /\ UNCHANGED daemon
    BY <1>5 DEF BootList
  <2>3. ASSUME NEW d \in Daemons, Resolves(t, d)
        PROVE  Resolves(task'["boot"], d)
    <3>1. d \in t.todo
      BY <1>1, <2>2, <2>3, ResolvesByOp
    <3> QED BY <2>1, <3>1 DEF Resolves
  <2> QED BY <1>0, <1>2, <1>3, <2>2, <2>3, OneHandler DEF Waiting
<1>6. ASSUME NEW e \in Daemons, BootEach(e)
      PROVE  RestartNotStranded'
  <2> DEFINE u == [t EXCEPT !.todo = @ \ {e}, !.live[e] = NoPid]
             v == [u EXCEPT !.pc = "call", !.d = e]
  <2>1. t.pc = "each" /\ e \in t.todo
    BY <1>6 DEF BootEach
  <2>2. u \in Tasks /\ u.op = "boot" /\ u.todo = t.todo \ {e}
    BY <1>1, <2>1 DEF Tasks, TaskRecords
  <2>3. \A d \in Daemons : Resolves(t, d) => d \in t.todo
    BY <1>1, <2>1, ResolvesByOp
  <2>4. CASE /\ task' = [task EXCEPT !["boot"] = NextOf(u)]
             /\ Update(e, [daemon[e] EXCEPT !.status = "running", !.pid = t.live[e]])
    <3>1. task'["boot"] = NextOf(u)
      BY <1>0, <2>4 DEF TypeOK
    <3>2. [daemon[e] EXCEPT !.status = "running", !.pid = t.live[e]].status = "running"
      BY DEF TypeOK, Rows
    <3>3. ~Waiting(e)' /\ \A d \in Daemons : d # e => (Waiting(d)' <=> Waiting(d))
      BY <2>4, <3>2 DEF Update, Waiting, TypeOK
    <3>4. ASSUME NEW d \in Daemons, Waiting(d)'
          PROVE  \/ Resolves(task'["boot"], d)
                 \/ Waiting(d) /\ restartTimers'[d] = restartTimers[d] /\ ~Resolves(task["boot"], d)
      <4>1. d # e /\ Waiting(d)
        BY <3>3, <3>4
      <4>2. CASE d \in t.todo
        <5>1. d \in u.todo
          BY ONLY <2>2, <4>1, <4>2
        <5>2. Resolves(NextOf(u), d)
          BY ONLY <2>2, <3>4, <5>1, NextOfResolves
        <5> QED BY ONLY <3>1, <5>2
      <4>3. CASE d \notin t.todo
        BY <1>3, <2>3, <4>1, <4>3
      <4> QED BY <4>2, <4>3
    <3> QED BY <1>0, <1>2, <1>3, <3>4, OneHandler
  <2>5. CASE task' = [task EXCEPT !["boot"] = v] /\ UNCHANGED daemon
    <3>1. task'["boot"] = v
      BY <1>0, <2>5 DEF TypeOK
    <3>2. v.op = "boot" /\ v.todo = t.todo \ {e} /\ v.d = e /\ v.pc = "call"
      BY <1>1 DEF TaskRecords
    <3>3. ASSUME NEW d \in Daemons, d \in t.todo
          PROVE  Resolves(v, d)
      <4>1. CASE d = e
        BY <3>2, <4>1 DEF Resolves
      <4>2. CASE d # e
        BY <3>2, <3>3, <4>2 DEF Resolves
      <4> QED BY <4>1, <4>2
    <3> QED BY <1>0, <1>2, <1>3, <2>3, <2>5, <3>1, <3>3, OneHandler DEF Waiting
  <2> QED BY <1>6, <2>4, <2>5 DEF BootEach
<1> QED BY <1>4, <1>5, <1>6 DEF BootLoop

LEMMA StrandedStep ==
  ASSUME TypeOK, RestartNotStranded, [Next]_vars
  PROVE  RestartNotStranded'
<1>1. ASSUME NEW s \in Slots, Step(s)
      PROVE  RestartNotStranded'
  <2>1. CASE \/ \E p \in Pids : CallOk(s, p) \/ CallAnswerLost(s, p)
             \/ CallFails(s)
    <3>1. task[s].pc = "call" /\ UNCHANGED <<daemon, restartTimers, dropped>>
      BY <2>1 DEF CallOk, CallAnswerLost, CallFails, CallThrows, backend
    <3>2. \/ \E p \in Pids : task' = [task EXCEPT ![s].pc = "confirm", ![s].pid = p]
          \/ CallThrows(s)
      BY <2>1 DEF CallOk, CallAnswerLost, CallFails
    <3> QED BY <3>1, <3>2, CallStep
  <2>2. CASE Confirm(s) \/ Failed(s) \/ StopUpdate(s) \/ RemoveDelete(s)
    <3>1. daemon[task[s].d] \in Rows /\ NoRow \in Rows
      BY <2>2, StatusNames DEF Confirm, Failed, StopUpdate, RemoveDelete, TypeOK, Tasks
    <3>2. PICK row : /\ row.status # "restarting"
                     /\ \/ Update(task[s].d, row)
                        \/ daemon' = [daemon EXCEPT ![task[s].d] = row]
      <4>1. [daemon[task[s].d] EXCEPT !.status = "error"].status = "error"
        BY <3>1 DEF Rows
      <4>2. [daemon[task[s].d] EXCEPT !.status = "stopped"].status = "stopped"
        BY <3>1 DEF Rows
      <4>3. [NoRow EXCEPT !.status = "removed"].status = "removed"
        BY DEF NoRow
      <4> QED BY <2>2, <4>1, <4>2, <4>3 DEF Confirm, Failed, StopUpdate, RemoveDelete
    <3>3. /\ task[s].pc \in {"confirm", "failed", "update", "delete"} /\ Return(s)
          /\ UNCHANGED <<restartTimers, dropped>>
      BY <2>2 DEF Confirm, Failed, StopUpdate, RemoveDelete, backend
    <3> QED BY <3>2, <3>3, FinishStep
  <2> QED BY <1>1, <2>1, <2>2, CrashStep, ArmStep, RequestStep, AutoReadStep,
            QueryStep DEF Step
<1>2. CASE BackendRestart
  <2>1. task'["boot"] = [Idle EXCEPT !.op = "boot", !.pc = "find"] /\ "boot" \in Slots
    BY <1>2 DEF BackendRestart, Slots
  <2>2. task'["boot"].op = "boot" /\ task'["boot"].pc = "find"
    BY <2>1 DEF Idle
  <2>3. \A d \in Daemons : Resolves(task'["boot"], d)
    BY <2>2 DEF Resolves
  <2> QED BY <2>1, <2>3 DEF RestartNotStranded
<1>3. CASE UNCHANGED <<task, daemon, restartTimers, dropped>>
  BY <1>3 DEF RestartNotStranded
<1>4. ASSUME NEW e \in Daemons, LongRun(e)
      PROVE  RestartNotStranded'
  <2>1. \A d \in Daemons : daemon'[d].status = daemon[d].status
    BY <1>4 DEF LongRun, TypeOK, Rows
  <2>2. UNCHANGED <<task, restartTimers, dropped>>
    BY <1>4 DEF LongRun, backend
  <2> QED BY <2>1, <2>2 DEF RestartNotStranded
<1>5. ASSUME \E p \in Pids : ProcessDies(p) \/ ProcessEnds(p)
      PROVE  RestartNotStranded'
  BY <1>3, <1>5 DEF ProcessDies, ProcessEnds, backend
<1>6. CASE ExecutorRestart \/ UNCHANGED vars
  BY <1>3, <1>6 DEF ExecutorRestart, vars, backend
<1>7. CASE Sweep
  BY <1>7, SweepStep DEF Sweep, Slots
<1> QED BY <1>1, <1>2, <1>4, <1>5, <1>6, <1>7, UsersStep, EventStep, SweepStep, BootStep DEF Next

\* A daemon in 'restarting' always has a timer, or a handler that will move it on, except
\* when a query failed in the handler that held its restart.
THEOREM NeverStranded == Spec => []RestartNotStranded
<1>1. Init => RestartNotStranded
  BY DEF Init, RestartNotStranded, NoRow
<1>2. TypeOK /\ RestartNotStranded /\ [Next]_vars => RestartNotStranded'
  BY StrandedStep
<1> QED BY <1>1, <1>2, TypeCorrect, PTL DEF Spec

-----------------------------------------------------------------------------
(* What may put a daemon in 'restarting' *)

\* An update with a status of its own, or that keeps the row's.
LEMMA UpdateKeepsDown ==
  ASSUME TypeOK, NEW d \in Daemons, NEW e \in Daemons, NEW row,
         Update(e, row), row.status # "restarting"
  PROVE  daemon'[d].status = "restarting" => daemon[d].status = "restarting"
<1>1. CASE UNCHANGED daemon
  BY <1>1
<1>2. CASE daemon' = [daemon EXCEPT ![e] = row]
  BY <1>2 DEF TypeOK
<1> QED BY <1>1, <1>2 DEF Update

\* crashed() writes only over a status of From, which no finished daemon has.
LEMMA CrashKeepsDown ==
  ASSUME TypeOK, NEW s \in Slots, Crash(s), NEW d \in Daemons,
         daemon[d].status \in {"stopped", "error", "removed"}
  PROVE  daemon'[d].status # "restarting"
<1> DEFINE t == task[s]
<1>1. t.op \in {"exit", "auto", "sweep"} /\ t.d \in Daemons
  BY DEF Crash, TypeOK, Tasks, Phase
<1>2. CASE UNCHANGED daemon
  BY <1>2
<1>3. CASE daemon[t.d].status \in From(t.op)
  <2>1. t.d # d
    BY <1>1, <1>3 DEF From
  <2>2. daemon' = [daemon EXCEPT ![t.d].status = IF GivesUp(t) THEN "error" ELSE "restarting"]
    BY <1>3 DEF Crash
  <2> QED BY <1>1, <2>1, <2>2 DEF TypeOK
<1> QED BY <1>2, <1>3 DEF Crash

\* The other steps of a handler in progress.
LEMMA HandlerKeepsDown ==
  ASSUME TypeOK, NEW s \in Slots, Step(s), NEW d \in Daemons,
         daemon[d].status \in {"stopped", "error", "removed"}
  PROVE  daemon'[d].status # "restarting"
<1> DEFINE t == task[s]
<1>t. t.pc \in {"confirm", "failed", "update", "mark", "delete"} => t.d \in Daemons
  BY DEF TypeOK, Tasks
<1>r. \A e \in Daemons : daemon[e] \in Rows
  BY DEF TypeOK
<1>1. CASE UNCHANGED daemon
  BY <1>1
<1>2. CASE Confirm(s)
  BY <1>t, <1>2, UpdateKeepsDown DEF Confirm
<1>3. CASE Failed(s)
  <2>1. t.d \in Daemons /\ Update(t.d, [daemon[t.d] EXCEPT !.status = "error"])
    BY <1>t, <1>3 DEF Failed
  <2>2. [daemon[t.d] EXCEPT !.status = "error"].status = "error"
    BY <1>r, <2>1 DEF Rows
  <2> QED BY <2>1, <2>2, UpdateKeepsDown
<1>4. CASE StopUpdate(s)
  <2>1. t.d \in Daemons /\ Update(t.d, [daemon[t.d] EXCEPT !.status = "stopped"])
    BY <1>t, <1>4 DEF StopUpdate
  <2>2. [daemon[t.d] EXCEPT !.status = "stopped"].status = "stopped"
    BY <1>r, <2>1 DEF Rows
  <2> QED BY <2>1, <2>2, UpdateKeepsDown
<1>5. CASE RestartMark(s)
  BY <1>t, <1>5, UpdateKeepsDown DEF RestartMark
<1>6. CASE RemoveDelete(s)
  <2>1. daemon' = [daemon EXCEPT ![t.d] = [NoRow EXCEPT !.status = "removed"]]
    BY <1>6 DEF RemoveDelete
  <2>2. [NoRow EXCEPT !.status = "removed"].status = "removed"
    BY DEF NoRow
  <2> QED BY <2>1, <2>2 DEF TypeOK
<1>7. ASSUME NEW e \in Daemons, daemon[e].status = "absent",
             daemon' = [daemon EXCEPT ![e].status = "starting"]
      PROVE  daemon'[d].status # "restarting"
  BY <1>7 DEF TypeOK
<1>8. CASE StartCreate(s)
  BY <1>1, <1>7, <1>8 DEF StartCreate
<1> QED BY <1>1, <1>2, <1>3, <1>4, <1>5, <1>6, <1>8, CrashKeepsDown
        DEF Step, CallOk, CallFails, CallAnswerLost, Arm, StartList, StartKill, ExecStop,
            AutoRead, QueryFails

\* The loops of the sweep and of the boot call a daemon running or leave its row.
LEMMA LoopsKeepDown ==
  ASSUME TypeOK, (\E s \in Slots : SweepLoop(s)) \/ BootLoop, NEW d \in Daemons,
         daemon[d].status \in {"stopped", "error", "removed"}
  PROVE  daemon'[d].status # "restarting"
<1>1. CASE UNCHANGED daemon
  BY <1>1
<1>2. ASSUME NEW e \in Daemons, NEW pid,
             Update(e, [daemon[e] EXCEPT !.status = "running", !.pid = pid])
      PROVE  daemon'[d].status # "restarting"
  <2>1. [daemon[e] EXCEPT !.status = "running", !.pid = pid].status = "running"
    BY DEF TypeOK, Rows
  <2> QED BY <1>2, <2>1, UpdateKeepsDown
<1>3. ASSUME NEW s \in Slots, NEW e \in Daemons, SweepEach(s, e)
      PROVE  daemon'[d].status # "restarting"
  <2>1. \/ UNCHANGED daemon
        \/ Update(e, [daemon[e] EXCEPT !.status = "running", !.pid = task[s].live[e]])
    BY <1>3 DEF SweepEach
  <2> QED BY <1>1, <1>2, <2>1
<1>4. ASSUME NEW e \in Daemons, BootEach(e)
      PROVE  daemon'[d].status # "restarting"
  <2>1. \/ UNCHANGED daemon
        \/ Update(e, [daemon[e] EXCEPT !.status = "running", !.pid = task["boot"].live[e]])
    BY <1>4 DEF BootEach
  <2> QED BY <1>1, <1>2, <2>1
<1> QED BY <1>1, <1>3, <1>4 DEF SweepLoop, BootLoop, SweepFind, BootFind, BootList

LEMMA ReviveStep ==
  ASSUME TypeOK, [Next]_vars
  PROVE  \A d \in Daemons : daemon[d].status \in {"stopped", "error", "removed"}
           => daemon'[d].status # "restarting"
<1> SUFFICES ASSUME NEW d \in Daemons, daemon[d].status \in {"stopped", "error", "removed"}
             PROVE  daemon'[d].status # "restarting"
  OBVIOUS
<1>1. CASE UNCHANGED daemon
  BY <1>1
<1>2. ASSUME NEW s \in Slots, Step(s)
      PROVE  daemon'[d].status # "restarting"
  BY <1>2, HandlerKeepsDown
<1>3. CASE (\E s \in Slots : SweepLoop(s)) \/ BootLoop
  BY <1>3, LoopsKeepDown
<1>4. ASSUME NEW s \in Slots, NEW e \in Daemons, TimerFires(s, e)
      PROVE  daemon'[d].status # "restarting"
  <2>1. daemon[e] \in Rows /\ daemon' = [daemon EXCEPT ![e] = Waited(e)]
    BY <1>4 DEF TimerFires, TypeOK
  <2>2. Waited(e).status = daemon[e].status
    BY <2>1 DEF Waited, Rows
  <2> QED BY <2>1, <2>2 DEF TypeOK
<1>5. ASSUME NEW e \in Daemons, LongRun(e)
      PROVE  daemon'[d].status # "restarting"
  BY <1>5 DEF LongRun, TypeOK, Rows
<1>6. CASE \E s \in Slots : Users(s) \/ \E e \in Daemons : ExitReport(s, e)
  BY <1>1, <1>6 DEF Users, Start, FindAll, Reconcile, Stop, Restart, Remove, ExitReport
<1>7. CASE Sweep \/ BackendRestart \/ ExecutorRestart
  BY <1>1, <1>7 DEF Sweep, Reconcile, BackendRestart, ExecutorRestart
<1>8. CASE \E p \in Pids : ProcessDies(p) \/ ProcessEnds(p)
  BY <1>1, <1>8 DEF ProcessDies, ProcessEnds
<1> QED BY <1>1, <1>2, <1>3, <1>4, <1>5, <1>6, <1>7, <1>8 DEF Next, vars

\* No report, sweep or failed restart puts a daemon back in 'restarting' once the user
\* stopped or removed it, or it was given up, however late it acts on what it read.
THEOREM NeverRevived == Spec => ReportNeverRevives
<1>1. TypeOK /\ [Next]_vars =>
        [\A d \in Daemons : daemon[d].status \in {"stopped", "error", "removed"}
           => daemon'[d].status # "restarting"]_vars
  BY ReviveStep
<1> QED BY <1>1, TypeCorrect, PTL DEF Spec, ReportNeverRevives
=============================================================================
