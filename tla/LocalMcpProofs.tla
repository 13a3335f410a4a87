---------------------------- MODULE LocalMcpProofs ----------------------------
(***************************************************************************)
(* Proofs about LocalMcp: type correctness and its four safety invariants, *)
(* for any number of objects, children, requests and admins.               *)
(***************************************************************************)
EXTENDS LocalMcp, TLAPS

\* What the fields of one object say of each other. The handshake excludes the timer:
\* that is why a timer never fires while start() is under way.
ProcOK(p) ==
  LET o == proc[p] IN
  /\ o.status = "none" => o = NoProc
  /\ o.timer => o.shouldRestart
  /\ o.handshake # "none" => ~o.timer /\ o.shouldRestart /\ o.process # None
  /\ o.booting => o.handshake # "none"
  /\ o.process # None =>
       /\ child[o.process].of = p
       /\ child[o.process].state # "none"
       /\ ~child[o.process].deaf

\* A child belongs to an object in use.
ChildOK(k) ==
  child[k].state # "none" => child[k].of \in Procs /\ proc[child[k].of].status # "none"

ProcsInv ==
  /\ \A p \in Procs : ProcOK(p)
  /\ \A k \in Children : ChildOK(k)
  /\ UnsignalledIsCurrent
  /\ NotStranded

\* The Map's object is in use; one that is being stopped is in use and stays stopped.
HeldInv ==
  /\ localProcess # None => proc[localProcess].status # "none"
  /\ \A a \in Admins : admin[a] # None => /\ proc[admin[a]].status # "none"
                                          /\ ~proc[admin[a]].shouldRestart

\* A request that waits or calls holds an object; a pending call is one under way.
UsersInv ==
  /\ \A u \in Users : user[u].pc \in {"inFlight", "waiting", "calling"} => user[u].ref \in Procs
  /\ \A p \in Procs : \A u \in pending[p] : user[u].pc = "calling" /\ user[u].ref = p
  /\ CallsTracked

IInv == TypeOK /\ ProcsInv /\ HeldInv /\ UsersInv /\ StartEntryIsCurrent

-----------------------------------------------------------------------------
(* The operators *)

\* A restart that is asked for sets the timer and nothing else.
LEMMA ScheduleType ==
  ASSUME NEW o \in ProcStates
  PROVE  /\ scheduleRestart(o) \in ProcStates
         /\ scheduleRestart(o).handshake = o.handshake
         /\ scheduleRestart(o).booting = o.booting
         /\ scheduleRestart(o).status = o.status
         /\ scheduleRestart(o).shouldRestart = o.shouldRestart
         /\ scheduleRestart(o).process = o.process
         /\ scheduleRestart(o).timer <=> o.timer \/ o.shouldRestart
BY DEF scheduleRestart, ProcStates

\* The end of a handshake: no request, no start under way, and a timer if it failed.
LEMMA HandshakeOverType ==
  ASSUME NEW o \in ProcStates, NEW s \in {"stopped", "error"}
  PROVE  /\ HandshakeOver(o, s) \in ProcStates
         /\ HandshakeOver(o, s).handshake = "none"
         /\ ~HandshakeOver(o, s).booting
         /\ HandshakeOver(o, s).status \in {"stopped", "error"}
         /\ HandshakeOver(o, s).shouldRestart = o.shouldRestart
         /\ HandshakeOver(o, s).process = o.process
         /\ HandshakeOver(o, s).timer <=> o.timer \/ (o.handshake # "none" /\ o.shouldRestart)
<1>1. CASE o.handshake = "none"
  BY <1>1 DEF HandshakeOver, ProcStates
<1>2. CASE o.handshake # "none"
  <2> DEFINE over == [o EXCEPT !.status = "error", !.handshake = "none", !.booting = FALSE]
  <2>1. HandshakeOver(o, s) = scheduleRestart(over)
    BY <1>2 DEF HandshakeOver
  <2>2. /\ over \in ProcStates
        /\ over.handshake = "none" /\ ~over.booting /\ over.status = "error"
        /\ over.shouldRestart = o.shouldRestart /\ over.process = o.process
        /\ over.timer = o.timer
    BY DEF ProcStates
  <2> HIDE DEF over
  <2>3. QED BY <1>2, <2>1, <2>2, ScheduleType
<1>3. QED BY <1>1, <1>2

\* The fields after a handshake that succeeded.
LEMMA RunningType ==
  ASSUME NEW o \in ProcStates
  PROVE  [o EXCEPT !.handshake = "none", !.status = "running",
                   !.tools = TRUE, !.booting = FALSE] \in ProcStates
BY DEF ProcStates

\* The records of an object and a child that do not exist.
LEMMA NoProcType == NoProc \in ProcStates /\ NoChild \in ChildStates
BY DEF NoProc, NoChild, ProcStates, ChildStates

\* A signal changes only whether the child runs.
LEMMA SignalType ==
  ASSUME TypeOK, NEW k \in Children
  PROVE  /\ Signal(k) \in [Children -> ChildStates]
         /\ \A c \in Children :
              /\ Signal(k)[c].of = child[c].of
              /\ Signal(k)[c].deaf = child[c].deaf
              /\ Signal(k)[c].asked = child[c].asked
              /\ (Signal(k)[c].state = "none") <=> (child[c].state = "none")
              /\ Signal(k)[c].state = "up" => child[c].state = "up" /\ c # k
              /\ c # k => Signal(k)[c] = child[c]
BY DEF Signal, TypeOK, ChildStates

\* Killing the previous child changes only whether it runs and is heard.
LEMMA KillType ==
  ASSUME TypeOK, NEW k \in Children \cup {None}
  PROVE  /\ KillPrevious(k) \in [Children -> ChildStates]
         /\ \A c \in Children :
              /\ KillPrevious(k)[c].of = child[c].of
              /\ (KillPrevious(k)[c].state = "none") <=> (child[c].state = "none")
              /\ KillPrevious(k)[c].state = "up" => child[c].state = "up" /\ c # k
              /\ c # k => KillPrevious(k)[c] = child[c]
<1>1. CASE k = None
  <2>1. \A c \in Children : c # k
    BY <1>1, NoneAssumption
  <2>2. KillPrevious(k) = child
    BY <1>1 DEF KillPrevious
  <2>3. QED BY <2>1, <2>2 DEF TypeOK
<1>2. CASE k # None
  <2> DEFINE sent == Signal(k)
  <2>1. k \in Children
    BY <1>2
  <2>2. KillPrevious(k) = [sent EXCEPT ![k].deaf = TRUE]
    BY <1>2 DEF KillPrevious
  <2>3. /\ sent \in [Children -> ChildStates]
        /\ \A c \in Children :
             /\ sent[c].of = child[c].of
             /\ (sent[c].state = "none") <=> (child[c].state = "none")
             /\ sent[c].state = "up" => child[c].state = "up" /\ c # k
             /\ c # k => sent[c] = child[c]
    BY <2>1, SignalType
  <2> HIDE DEF sent
  <2> DEFINE new == [sent[k] EXCEPT !.deaf = TRUE]
  <2>4. /\ new \in ChildStates
        /\ new.of = sent[k].of /\ new.state = sent[k].state
    BY <2>1, <2>3 DEF ChildStates
  <2>5. KillPrevious(k) = [sent EXCEPT ![k] = new]
    BY <2>2
  <2> HIDE DEF new
  <2>6. QED BY <2>1, <2>3, <2>4, <2>5
<1>3. QED BY <1>1, <1>2

\* So does the SIGTERM of stop().
LEMMA TerminateType ==
  ASSUME TypeOK, NEW p \in Procs
  PROVE  /\ Terminate(p) \in [Children -> ChildStates]
         /\ \A c \in Children :
              /\ Terminate(p)[c].of = child[c].of
              /\ Terminate(p)[c].deaf = child[c].deaf
              /\ (Terminate(p)[c].state = "none") <=> (child[c].state = "none")
              /\ Terminate(p)[c].state = "up" => child[c].state = "up" /\ c # proc[p].process
              /\ c # proc[p].process => Terminate(p)[c] = child[c]
<1>1. proc[p].process \in Children \cup {None}
  BY DEF TypeOK, ProcStates
<1>2. CASE proc[p].process = None
  BY <1>2, NoneAssumption DEF Terminate, TypeOK
<1>3. CASE proc[p].process # None
  BY <1>1, <1>3, SignalType DEF Terminate
<1>4. QED BY <1>2, <1>3

\* What spawnProcess() does, in one fact for both outcomes: p is given the fields new,
\* and its previous child is killed.
LEMMA SpawnEffect ==
  ASSUME TypeOK, NEW p \in Procs, NEW o \in ProcStates, o.shouldRestart,
         ~o.timer, o.handshake = "none", o.booting => o.process = None,
         Spawns(p, o) \/ SpawnFails(p, o)
  PROVE  \E new \in ProcStates :
           /\ proc' = [proc EXCEPT ![p] = new]
           /\ new.shouldRestart /\ new.status # "none"
           /\ \/ \E k \in Children :
                   /\ child[k].state = "none"
                   /\ new.process = k /\ new.handshake = "initialize" /\ ~new.timer
                   /\ new.booting = o.booting
                   /\ child' = [KillPrevious(o.process) EXCEPT
                        ![k] = [of |-> p, state |-> "up", deaf |-> FALSE, asked |-> {"initialize"}]]
              \/ /\ new.process = None /\ new.handshake = "none" /\ new.timer
                 /\ ~new.booting
                 /\ child' = KillPrevious(o.process)
<1>1. CASE Spawns(p, o)
  <2>1. PICK k \in Children :
          /\ child[k].state = "none"
          /\ proc' = [proc EXCEPT ![p] = [o EXCEPT !.status = "starting", !.process = k,
                                                   !.handshake = "initialize"]]
          /\ child' = [KillPrevious(o.process) EXCEPT
               ![k] = [of |-> p, state |-> "up", deaf |-> FALSE, asked |-> {"initialize"}]]
    BY <1>1 DEF Spawns
  <2> DEFINE new == [o EXCEPT !.status = "starting", !.process = k, !.handshake = "initialize"]
  <2>2. /\ new \in ProcStates
        /\ new.shouldRestart /\ new.status # "none" /\ new.process = k
        /\ new.handshake = "initialize" /\ ~new.timer /\ new.booting = o.booting
    BY DEF ProcStates, Requests
  <2>3. proc' = [proc EXCEPT ![p] = new]
    BY <2>1
  <2> HIDE DEF new
  <2>4. QED BY <2>1, <2>2, <2>3
<1>2. CASE SpawnFails(p, o)
  <2> DEFINE down == [o EXCEPT !.status = "error", !.process = None, !.booting = FALSE]
             new == scheduleRestart(down)
  <2>1. /\ down \in ProcStates /\ down.shouldRestart /\ down.status = "error"
        /\ down.process = None /\ down.handshake = "none" /\ ~down.booting
    BY DEF ProcStates
  <2>2. proc' = [proc EXCEPT ![p] = new] /\ child' = KillPrevious(o.process)
    BY <1>2 DEF SpawnFails
  <2> HIDE DEF down
  <2>3. /\ new \in ProcStates /\ new.shouldRestart /\ new.status # "none"
        /\ new.process = None /\ new.handshake = "none" /\ new.timer /\ ~new.booting
    BY <2>1, ScheduleType
  <2> HIDE DEF new
  <2>4. QED BY <2>2, <2>3
<1>3. QED BY <1>1, <1>2

-----------------------------------------------------------------------------
(* Type correctness *)

\* Before the first request.
LEMMA TypeInit == Init => TypeOK
BY NoProcType DEF Init, TypeOK, Idle, UserStates

\* Both outcomes of a spawn.
LEMMA SpawnTypes ==
  ASSUME TypeOK, NEW p \in Procs, NEW o \in ProcStates, Spawns(p, o) \/ SpawnFails(p, o)
  PROVE  proc' \in [Procs -> ProcStates] /\ child' \in [Children -> ChildStates]
<1>1. o.process \in Children \cup {None}
  BY DEF ProcStates
<1>2. KillPrevious(o.process) \in [Children -> ChildStates]
  BY <1>1, KillType
<1>3. CASE Spawns(p, o)
  <2>1. PICK k \in Children :
          /\ proc' = [proc EXCEPT ![p] = [o EXCEPT !.status = "starting", !.process = k,
                                                   !.handshake = "initialize"]]
          /\ child' = [KillPrevious(o.process) EXCEPT
               ![k] = [of |-> p, state |-> "up", deaf |-> FALSE, asked |-> {"initialize"}]]
    BY <1>3 DEF Spawns
  <2>2. [o EXCEPT !.status = "starting", !.process = k, !.handshake = "initialize"] \in ProcStates
    BY DEF ProcStates, Requests
  <2>3. [of |-> p, state |-> "up", deaf |-> FALSE, asked |-> {"initialize"}] \in ChildStates
    BY DEF ChildStates, Requests
  <2>4. QED BY <1>2, <2>1, <2>2, <2>3 DEF TypeOK
<1>4. CASE SpawnFails(p, o)
  <2>1. [o EXCEPT !.status = "error", !.process = None, !.booting = FALSE] \in ProcStates
    BY DEF ProcStates
  <2>2. QED BY <1>2, <1>4, <2>1, ScheduleType DEF SpawnFails, TypeOK
<1>5. QED BY <1>3, <1>4

\* Rejected calls leave requests and pending calls well typed.
LEMMA CallsRejectedType ==
  ASSUME TypeOK, NEW p \in Procs, CallsRejected(p)
  PROVE  pending' \in [Procs -> SUBSET Users] /\ user' \in [Users -> UserStates]
BY DEF TypeOK, CallsRejected, UserStates

\* Every step keeps the types; an exit event needs that its child has an object.
LEMMA TypeNext == TypeOK /\ ProcsInv /\ [Next]_vars => TypeOK'
<1> SUFFICES ASSUME TypeOK, ProcsInv, [Next]_vars PROVE TypeOK'
  OBVIOUS
<1>1. ASSUME NEW p \in Procs, TimerFires(p) PROVE TypeOK'
  <2> DEFINE o == [proc[p] EXCEPT !.timer = FALSE]
  <2>1. o \in ProcStates
    BY ZenonT(60) DEF TypeOK, ProcStates
  <2>2. Spawns(p, o) \/ SpawnFails(p, o)
    BY <1>1 DEF TimerFires
  <2> HIDE DEF o
  <2>3. proc' \in [Procs -> ProcStates] /\ child' \in [Children -> ChildStates]
    BY <2>1, <2>2, SpawnTypes
  <2>4. QED BY <1>1, <2>3 DEF TimerFires, TypeOK
<1>2. ASSUME NEW p \in Procs, HandshakeFails(p) PROVE TypeOK'
  <2>1. HandshakeOver(proc[p], "error") \in ProcStates
    BY HandshakeOverType DEF TypeOK
  <2>2. QED BY <1>2, <2>1 DEF HandshakeFails, StartReturns, TypeOK
<1>3. ASSUME NEW p \in Procs, Collected(p) PROVE TypeOK'
  BY <1>3, NoProcType DEF Collected, TypeOK
<1>4. ASSUME NEW k \in Children, HandshakeAnswered(k) PROVE TypeOK'
  <2> DEFINE p == child[k].of
  <2>1. p \in Procs
    BY <1>4 DEF HandshakeAnswered, TypeOK, ChildStates
  <2>2. proc' \in [Procs -> ProcStates]
    <3>1. CASE proc' = [proc EXCEPT ![p].handshake = "tools/list"]
      BY <2>1, <3>1 DEF TypeOK, ProcStates, Requests
    <3>2. CASE proc' = [proc EXCEPT ![p] =
                 [@ EXCEPT !.handshake = "none", !.status = "running",
                           !.tools = TRUE, !.booting = FALSE]]
      <4> DEFINE new == [proc[p] EXCEPT !.handshake = "none", !.status = "running",
                                        !.tools = TRUE, !.booting = FALSE]
      <4>1. new \in ProcStates
        <5>1. proc[p] \in ProcStates
          BY <2>1 DEF TypeOK
        <5>2. QED BY <5>1, RunningType
      <4>2. proc' = [proc EXCEPT ![p] = new]
        BY <3>2
      <4> HIDE DEF new
      <4>3. QED BY <2>1, <4>1, <4>2 DEF TypeOK
    <3>3. QED BY <1>4, <3>1, <3>2 DEF HandshakeAnswered
  <2>3. child' \in [Children -> ChildStates]
    <3>1. CASE child' = [child EXCEPT ![k].asked = @ \ {"tools/list"}]
      BY <3>1 DEF TypeOK, ChildStates
    <3>2. CASE child' = [c \in Children |-> [child[c] EXCEPT !.asked =
             (IF c = k THEN @ \ {"initialize"} ELSE @)
               \cup (IF c = proc[p].process THEN {"tools/list"} ELSE {})]]
      <4>1. \A c \in Children : [child[c] EXCEPT !.asked =
             (IF c = k THEN @ \ {"initialize"} ELSE @)
               \cup (IF c = proc[p].process THEN {"tools/list"} ELSE {})] \in ChildStates
        BY DEF TypeOK, ChildStates, Requests
      <4>2. QED BY <3>2, <4>1
    <3>3. QED BY <1>4, <3>1, <3>2 DEF HandshakeAnswered
  <2>4. QED BY <1>4, <2>2, <2>3 DEF HandshakeAnswered, StartReturns, TypeOK
<1>5. ASSUME NEW k \in Children, ChildDies(k) PROVE TypeOK'
  BY <1>5 DEF ChildDies, TypeOK, ChildStates
<1>6. ASSUME NEW k \in Children, Exit(k) PROVE TypeOK'
  <2> DEFINE p == child[k].of
             o == [proc[p] EXCEPT !.process = IF @ = k THEN None ELSE @]
  <2>1. p \in Procs
    BY <1>6 DEF Exit, ProcsInv, ChildOK
  <2>2. child' \in [Children -> ChildStates]
    BY <1>6, NoProcType DEF Exit, TypeOK
  <2>3. CASE child[k].deaf
    BY <1>6, <2>2, <2>3 DEF Exit, TypeOK
  <2>4. CASE ~child[k].deaf
    <3>1. o \in ProcStates
      BY <2>1 DEF TypeOK, ProcStates
    <3>2. /\ proc' = [proc EXCEPT ![p] = scheduleRestart(HandshakeOver(o, "stopped"))]
          /\ StartReturns(p) /\ CallsRejected(p)
      BY <1>6, <2>4 DEF Exit
    <3> HIDE DEF o
    <3>3. scheduleRestart(HandshakeOver(o, "stopped")) \in ProcStates
      BY <3>1, HandshakeOverType, ScheduleType
    <3>4. proc' \in [Procs -> ProcStates]
      BY <2>1, <3>2, <3>3 DEF TypeOK
    <3>5. QED BY <1>6, <2>1, <2>2, <3>2, <3>4, CallsRejectedType DEF Exit, StartReturns, TypeOK
  <2>5. QED BY <2>3, <2>4
<1>7. ASSUME NEW u \in Users, Ensure(u) PROVE TypeOK'
  BY <1>7 DEF Ensure, Turn, Healthy, Idle, TypeOK, UserStates
<1>8. ASSUME NEW u \in Users, Create(u) PROVE TypeOK'
  <2> DEFINE o == [NoProc EXCEPT !.shouldRestart = TRUE, !.booting = TRUE]
  <2>1. o \in ProcStates
    BY DEF NoProc, ProcStates
  <2> HIDE DEF o
  <2>2. PICK p \in Procs :
          /\ Spawns(p, o) \/ SpawnFails(p, o)
          /\ localProcess' = p
          /\ starting' = EntryOf(p)
          /\ user' = [user EXCEPT ![u] = [pc |-> "waiting", ref |-> p]]
    BY <1>8 DEF Create, o
  <2>3. proc' \in [Procs -> ProcStates] /\ child' \in [Children -> ChildStates]
    BY <2>1, <2>2, SpawnTypes
  <2>4. QED BY <1>8, <2>2, <2>3 DEF Create, EntryOf, TypeOK, UserStates
<1>9. ASSUME NEW u \in Users, WaitOver(u) PROVE TypeOK'
  BY <1>9 DEF WaitOver, Turn, Idle, TypeOK, UserStates
<1>10. ASSUME NEW u \in Users, CallTool(u) PROVE TypeOK'
  BY <1>10 DEF CallTool, TypeOK, UserStates
<1>11. ASSUME NEW u \in Users, CallSettles(u) PROVE TypeOK'
  BY <1>11 DEF CallSettles, TypeOK, UserStates
<1>12. ASSUME NEW u \in Users, TurnEnds(u) PROVE TypeOK'
  BY <1>12 DEF TurnEnds, Idle, TypeOK, UserStates
<1>13. ASSUME NEW a \in Admins, Stop(a) PROVE TypeOK'
  <2> DEFINE p == localProcess
             o == [proc[p] EXCEPT !.shouldRestart = FALSE, !.timer = FALSE]
  <2>1. p \in Procs
    BY <1>13 DEF Stop, TypeOK
  <2>2. o \in ProcStates
    BY <2>1, ZenonT(60) DEF TypeOK, ProcStates
  <2>3. proc' = [proc EXCEPT ![p] = HandshakeOver(o, "stopped")]
    BY <1>13 DEF Stop
  <2> HIDE DEF o
  <2>4. proc' \in [Procs -> ProcStates]
    BY <2>1, <2>2, <2>3, HandshakeOverType DEF TypeOK
  <2>5. child' \in [Children -> ChildStates]
    BY <1>13, <2>1, TerminateType DEF Stop
  <2>6. QED
    BY <1>13, <2>1, <2>4, <2>5, CallsRejectedType DEF Stop, StartReturns, TypeOK
<1>14. ASSUME NEW a \in Admins, StopReturns(a) PROVE TypeOK'
  BY <1>14, ZenonT(60) DEF StopReturns, TypeOK, ProcStates
<1>15. CASE UNCHANGED vars
  BY <1>15 DEF vars, TypeOK
<1>16. QED
  BY <1>1, <1>2, <1>3, <1>4, <1>5, <1>6, <1>7, <1>8, <1>9, <1>10, <1>11, <1>12, <1>13,
     <1>14, <1>15 DEF Next

-----------------------------------------------------------------------------
(* Objects and children *)

\* A step of object p and of children of p or free ones leaves the others alone: it is
\* enough to look at p and at its children.
LEMMA ProcChange ==
  ASSUME TypeOK, TypeOK', ProcsInv, NEW p \in Procs,
         \A q \in Procs : q # p => proc'[q] = proc[q],
         \A k \in Children :
           \/ /\ child'[k].of = child[k].of
              /\ child'[k].state = child[k].state
              /\ child'[k].deaf = child[k].deaf
           \/ /\ child[k].of = p \/ child[k].state = "none"
              /\ child'[k].of = p \/ child'[k].state = "none",
         ProcOK(p)',
         \A k \in Children : child'[k].of = p /\ child'[k].state # "none"
                              => proc'[p].status # "none",
         \A k \in Children : child'[k].of = p /\ child'[k].state = "up"
                              => proc'[p].process = k /\ proc'[p].shouldRestart,
         proc'[p].shouldRestart =>
           \/ proc'[p].timer
           \/ proc'[p].handshake # "none"
           \/ /\ proc'[p].process # None /\ ~child'[proc'[p].process].deaf
              /\ \/ child'[proc'[p].process].state \in {"killed", "dead"}
                 \/ proc'[p].status = "running"
  PROVE  ProcsInv'
<1>1. ASSUME NEW q \in Procs, q # p, proc[q].process # None
      PROVE  LET c == proc[q].process IN
             /\ c \in Children
             /\ child[c].of = q /\ child[c].state # "none" /\ ~child[c].deaf
             /\ child'[c].of = child[c].of
             /\ child'[c].state = child[c].state
             /\ child'[c].deaf = child[c].deaf
  <2>1. proc[q].process \in Children
    BY <1>1 DEF TypeOK, ProcStates
  <2>2. QED BY <1>1, <2>1 DEF ProcsInv, ProcOK
<1>2. ASSUME NEW q \in Procs PROVE ProcOK(q)'
  <2>1. CASE q = p
    BY <2>1
  <2>2. CASE q # p
    BY <1>1, <2>2 DEF ProcsInv, ProcOK
  <2>3. QED BY <2>1, <2>2
<1>3. ASSUME NEW k \in Children PROVE ChildOK(k)'
  BY DEF ProcsInv, ChildOK
<1>4. UnsignalledIsCurrent'
  <2> SUFFICES ASSUME NEW k \in Children, child'[k].state = "up"
               PROVE  /\ proc'[child'[k].of].process = k
                      /\ proc'[child'[k].of].shouldRestart
    BY DEF UnsignalledIsCurrent
  <2>1. CASE child'[k].of = p
    BY <2>1
  <2>2. CASE child'[k].of # p
    <3>1. child[k].of = child'[k].of /\ child[k].state = "up"
      BY <2>2
    <3>2. child[k].of \in Procs
      BY <3>1 DEF ProcsInv, ChildOK
    <3>3. QED BY <2>2, <3>1, <3>2 DEF ProcsInv, UnsignalledIsCurrent
  <2>3. QED BY <2>1, <2>2
<1>5. NotStranded'
  <2> SUFFICES ASSUME NEW q \in Procs, q # p, proc'[q].shouldRestart
               PROVE  \/ proc'[q].timer
                      \/ proc'[q].handshake # "none"
                      \/ /\ proc'[q].process # None /\ ~child'[proc'[q].process].deaf
                         /\ \/ child'[proc'[q].process].state \in {"killed", "dead"}
                            \/ proc'[q].status = "running"
    BY DEF NotStranded
  <2>1. proc'[q] = proc[q]
    OBVIOUS
  <2>2. QED BY <1>1, <2>1 DEF ProcsInv, NotStranded
<1>6. QED BY <1>2, <1>3, <1>4, <1>5 DEF ProcsInv

\* A spawn of p, whose handshake is over and whose timer has been cleared.
LEMMA ProcsSpawn ==
  ASSUME TypeOK, TypeOK', ProcsInv, NEW p \in Procs, NEW o \in ProcStates, o.shouldRestart,
         ~o.timer, o.handshake = "none", o.booting => o.process = None,
         o.process = proc[p].process,
         Spawns(p, o) \/ SpawnFails(p, o)
  PROVE  ProcsInv'
<1> DEFINE old == o.process
<1>1. old \in Children \cup {None}
  BY DEF ProcStates
<1>2. \A c \in Children :
        /\ KillPrevious(old)[c].of = child[c].of
        /\ (KillPrevious(old)[c].state = "none") <=> (child[c].state = "none")
        /\ KillPrevious(old)[c].state = "up" => child[c].state = "up" /\ c # old
        /\ c # old => KillPrevious(old)[c] = child[c]
  BY <1>1, KillType
<1>3. KillPrevious(old) \in [Children -> ChildStates]
  BY <1>1, KillType
<1>4. \A c \in Children : c = old => child[c].of = p
  BY NoneAssumption DEF ProcsInv, ProcOK
<1>5. \A c \in Children : KillPrevious(old)[c].of = p => KillPrevious(old)[c].state # "up"
  BY <1>2 DEF ProcsInv, UnsignalledIsCurrent
<1> HIDE DEF old
<1>6. PICK new \in ProcStates :
        /\ proc' = [proc EXCEPT ![p] = new]
        /\ new.shouldRestart /\ new.status # "none"
        /\ \/ \E k \in Children :
                /\ child[k].state = "none"
                /\ new.process = k /\ new.handshake = "initialize" /\ ~new.timer
                /\ new.booting = o.booting
                /\ child' = [KillPrevious(old) EXCEPT
                     ![k] = [of |-> p, state |-> "up", deaf |-> FALSE, asked |-> {"initialize"}]]
           \/ /\ new.process = None /\ new.handshake = "none" /\ new.timer
              /\ ~new.booting
              /\ child' = KillPrevious(old)
  BY SpawnEffect DEF old
<1>7. proc'[p] = new /\ \A q \in Procs : q # p => proc'[q] = proc[q]
  BY <1>6 DEF TypeOK
<1>8. CASE \E k \in Children :
                /\ child[k].state = "none"
                /\ new.process = k /\ new.handshake = "initialize" /\ ~new.timer
                /\ new.booting = o.booting
                /\ child' = [KillPrevious(old) EXCEPT
                     ![k] = [of |-> p, state |-> "up", deaf |-> FALSE, asked |-> {"initialize"}]]
  <2>1. PICK k \in Children :
                /\ child[k].state = "none"
                /\ new.process = k /\ new.handshake = "initialize" /\ ~new.timer
                /\ new.booting = o.booting
                /\ child' = [KillPrevious(old) EXCEPT
                     ![k] = [of |-> p, state |-> "up", deaf |-> FALSE, asked |-> {"initialize"}]]
    BY <1>8
  <2>2. /\ child'[k].of = p /\ child'[k].state = "up" /\ ~child'[k].deaf
        /\ \A c \in Children : c # k => child'[c] = KillPrevious(old)[c]
    BY <1>3, <2>1
  <2>3. k # None
    BY NoneAssumption
  <2>4. ProcOK(p)'
    BY <1>6, <1>7, <2>1, <2>2, <2>3 DEF ProcOK
  <2>5. \A c \in Children :
          \/ /\ child'[c].of = child[c].of
             /\ child'[c].state = child[c].state
             /\ child'[c].deaf = child[c].deaf
          \/ /\ child[c].of = p \/ child[c].state = "none"
             /\ child'[c].of = p \/ child'[c].state = "none"
    <3> TAKE c \in Children
    <3>1. CASE c = k
      BY <2>1, <2>2, <3>1
    <3>2. CASE c # k /\ c = old
      BY <1>2, <1>4, <2>2, <3>2
    <3>3. CASE c # k /\ c # old
      BY <1>2, <2>2, <3>3
    <3>4. QED BY <3>1, <3>2, <3>3
  <2>6. \A c \in Children : child'[c].of = p /\ child'[c].state = "up" => c = k
    BY <1>5, <2>2
  <2>7. /\ proc'[p].status # "none" /\ proc'[p].process = k /\ proc'[p].shouldRestart
        /\ proc'[p].handshake # "none"
    BY <1>6, <1>7, <2>1
  <2>8. QED BY <1>7, <2>4, <2>5, <2>6, <2>7, ProcChange
<1>9. CASE /\ new.process = None /\ new.handshake = "none" /\ new.timer
           /\ ~new.booting
           /\ child' = KillPrevious(old)
  <2>1. ProcOK(p)'
    BY <1>6, <1>7, <1>9 DEF ProcOK
  <2>2. \A c \in Children :
          \/ /\ child'[c].of = child[c].of
             /\ child'[c].state = child[c].state
             /\ child'[c].deaf = child[c].deaf
          \/ /\ child[c].of = p \/ child[c].state = "none"
             /\ child'[c].of = p \/ child'[c].state = "none"
    BY <1>2, <1>4, <1>9
  <2>3. QED BY <1>5, <1>6, <1>7, <1>9, <2>1, <2>2, ProcChange
<1>10. QED BY <1>6, <1>8, <1>9

\* A step that leaves objects and children alone.
LEMMA ProcsFrame == ProcsInv /\ UNCHANGED <<proc, child>> => ProcsInv'
BY DEF ProcsInv, ProcOK, ChildOK, UnsignalledIsCurrent, NotStranded

\* What an answer to the handshake does.
LEMMA AnsweredEffect ==
  ASSUME TypeOK, ProcsInv, NEW k \in Children, NEW p \in Procs, p = child[k].of,
         HandshakeAnswered(k)
  PROVE  /\ /\ proc[p] \in ProcStates
            /\ proc[p].handshake # "none" /\ proc[p].process # None
            /\ ~proc[p].timer /\ proc[p].shouldRestart /\ proc[p].status # "none"
         /\ /\ \A q \in Procs : q # p => proc'[q] = proc[q]
            /\ proc'[p].process = proc[p].process /\ proc'[p].timer = proc[p].timer
            /\ proc'[p].shouldRestart = proc[p].shouldRestart
            /\ \/ /\ proc'[p].handshake = "tools/list" /\ proc'[p].status = proc[p].status
                  /\ proc'[p].booting = proc[p].booting
               \/ /\ proc'[p].handshake = "none" /\ proc'[p].status = "running"
                  /\ ~proc'[p].booting
         /\ \A c \in Children : /\ child'[c].of = child[c].of
                                /\ child'[c].state = child[c].state
                                /\ child'[c].deaf = child[c].deaf
<1>1. /\ proc[p] \in ProcStates
      /\ proc[p].handshake # "none" /\ proc[p].process # None
      /\ ~proc[p].timer /\ proc[p].shouldRestart /\ proc[p].status # "none"
  <2>1. proc[p].handshake # "none"
    BY DEF HandshakeAnswered, TypeOK, ChildStates, Requests
  <2>2. QED BY <2>1 DEF ProcsInv, ProcOK, NoProc, TypeOK
<1>2. /\ \A q \in Procs : q # p => proc'[q] = proc[q]
      /\ proc'[p].process = proc[p].process /\ proc'[p].timer = proc[p].timer
      /\ proc'[p].shouldRestart = proc[p].shouldRestart
      /\ \/ /\ proc'[p].handshake = "tools/list" /\ proc'[p].status = proc[p].status
            /\ proc'[p].booting = proc[p].booting
         \/ /\ proc'[p].handshake = "none" /\ proc'[p].status = "running"
            /\ ~proc'[p].booting
  <2>1. CASE proc' = [proc EXCEPT ![p].handshake = "tools/list"]
    BY <1>1, <2>1 DEF TypeOK, ProcStates
  <2>2. CASE proc' = [proc EXCEPT ![p] =
               [@ EXCEPT !.handshake = "none", !.status = "running",
                         !.tools = TRUE, !.booting = FALSE]]
    <3>1. /\ proc'[p] = [proc[p] EXCEPT !.handshake = "none", !.status = "running",
                                        !.tools = TRUE, !.booting = FALSE]
          /\ \A q \in Procs : q # p => proc'[q] = proc[q]
      BY <2>2 DEF TypeOK
    <3>2. QED BY <1>1, <3>1 DEF ProcStates
  <2>3. QED BY <2>1, <2>2 DEF HandshakeAnswered
<1>3. \A c \in Children : /\ child'[c].of = child[c].of
                          /\ child'[c].state = child[c].state
                          /\ child'[c].deaf = child[c].deaf
  BY DEF HandshakeAnswered, TypeOK, ChildStates
<1>4. QED BY <1>1, <1>2, <1>3

\* What an exit event that its object hears does to the object.
LEMMA ExitEffect ==
  ASSUME TypeOK, NEW k \in Children, NEW p \in Procs, p = child[k].of, ~child[k].deaf, Exit(k)
  PROVE  LET new == proc'[p] IN
         /\ \A q \in Procs : q # p => proc'[q] = proc[q]
         /\ new.handshake = "none" /\ ~new.booting /\ new.status \in {"stopped", "error"}
         /\ new.shouldRestart = proc[p].shouldRestart
         /\ new.process = IF proc[p].process = k THEN None ELSE proc[p].process
         /\ new.timer => proc[p].timer \/ proc[p].shouldRestart
         /\ proc[p].shouldRestart => new.timer
<1> DEFINE o == [proc[p] EXCEPT !.process = IF @ = k THEN None ELSE @]
           over == HandshakeOver(o, "stopped")
           new == scheduleRestart(over)
<1>1. /\ o \in ProcStates /\ o.shouldRestart = proc[p].shouldRestart
      /\ o.process = IF proc[p].process = k THEN None ELSE proc[p].process
      /\ o.timer = proc[p].timer
  BY DEF TypeOK, ProcStates
<1>2. proc' = [proc EXCEPT ![p] = new]
  BY DEF Exit
<1> HIDE DEF o
<1>3. /\ over \in ProcStates /\ over.handshake = "none" /\ ~over.booting
      /\ over.status \in {"stopped", "error"}
      /\ over.shouldRestart = o.shouldRestart /\ over.process = o.process
      /\ over.timer => o.timer \/ o.shouldRestart
  BY <1>1, HandshakeOverType
<1> HIDE DEF over
<1>4. /\ new.handshake = "none" /\ ~new.booting /\ new.status \in {"stopped", "error"}
      /\ new.shouldRestart = o.shouldRestart /\ new.process = o.process
      /\ new.timer <=> over.timer \/ over.shouldRestart
  BY <1>3, ScheduleType
<1> HIDE DEF new
<1>5. proc'[p] = new /\ \A q \in Procs : q # p => proc'[q] = proc[q]
  BY <1>2 DEF TypeOK
<1>6. QED BY <1>1, <1>3, <1>4, <1>5

\* What stop() does to its object before it waits.
LEMMA StopEffect ==
  ASSUME TypeOK, NEW a \in Admins, NEW p \in Procs, p = localProcess, Stop(a)
  PROVE  LET new == proc'[p] IN
         /\ \A q \in Procs : q # p => proc'[q] = proc[q]
         /\ new.handshake = "none" /\ ~new.booting /\ new.status \in {"stopped", "error"}
         /\ ~new.shouldRestart /\ ~new.timer /\ new.process = proc[p].process
<1> DEFINE o == [proc[p] EXCEPT !.shouldRestart = FALSE, !.timer = FALSE]
           new == HandshakeOver(o, "stopped")
<1>1. o \in ProcStates /\ ~o.shouldRestart /\ ~o.timer /\ o.process = proc[p].process
  <2>1. proc[p] \in ProcStates
    BY DEF TypeOK
  <2>2. QED BY <2>1 DEF ProcStates
<1>2. proc' = [proc EXCEPT ![p] = new]
  BY DEF Stop
<1> HIDE DEF o
<1>3. /\ new.handshake = "none" /\ ~new.booting /\ new.status \in {"stopped", "error"}
      /\ ~new.shouldRestart /\ ~new.timer /\ new.process = proc[p].process
  BY <1>1, HandshakeOverType
<1> HIDE DEF new
<1>4. proc'[p] = new /\ \A q \in Procs : q # p => proc'[q] = proc[q]
  BY <1>2 DEF TypeOK
<1>5. QED BY <1>3, <1>4

\* Every step keeps the facts about objects and children.
LEMMA ProcsNext == TypeOK /\ TypeOK' /\ ProcsInv /\ HeldInv /\ [Next]_vars => ProcsInv'
<1> SUFFICES ASSUME TypeOK, TypeOK', ProcsInv, HeldInv, [Next]_vars PROVE ProcsInv'
  OBVIOUS
<1>1. ASSUME NEW p \in Procs, TimerFires(p) PROVE ProcsInv'
  <2> DEFINE o == [proc[p] EXCEPT !.timer = FALSE]
  <2>1. /\ o \in ProcStates /\ o.shouldRestart /\ ~o.timer /\ o.handshake = "none"
        /\ ~o.booting /\ o.process = proc[p].process
    <3>1. proc[p] \in ProcStates
      BY DEF TypeOK
    <3>2. /\ proc[p].timer /\ proc[p].shouldRestart
          /\ proc[p].handshake = "none" /\ ~proc[p].booting
      BY <1>1 DEF TimerFires, ProcsInv, ProcOK
    <3>3. QED BY <3>1, <3>2 DEF ProcStates
  <2>2. Spawns(p, o) \/ SpawnFails(p, o)
    BY <1>1 DEF TimerFires
  <2> HIDE DEF o
  <2>3. QED BY <2>1, <2>2, ProcsSpawn
<1>2. ASSUME NEW p \in Procs, HandshakeFails(p) PROVE ProcsInv'
  <2> DEFINE new == HandshakeOver(proc[p], "error")
  <2>1. proc[p] \in ProcStates
    BY DEF TypeOK
  <2>2. /\ new.handshake = "none" /\ ~new.booting /\ new.status \in {"stopped", "error"}
        /\ new.shouldRestart = proc[p].shouldRestart /\ new.process = proc[p].process
        /\ new.timer <=> proc[p].timer \/ (proc[p].handshake # "none" /\ proc[p].shouldRestart)
    BY <2>1, HandshakeOverType
  <2> HIDE DEF new
  <2>3. /\ proc'[p] = new /\ child' = child
        /\ \A q \in Procs : q # p => proc'[q] = proc[q]
    BY <1>2 DEF HandshakeFails, TypeOK, new
  <2>4. proc[p].handshake # "none" /\ proc[p].shouldRestart
    BY <1>2 DEF HandshakeFails, ProcsInv, ProcOK
  <2>5. ProcOK(p)'
    BY <2>2, <2>3, <2>4 DEF ProcsInv, ProcOK
  <2>6. \A k \in Children : child[k].of = p /\ child[k].state = "up"
                              => proc[p].process = k /\ proc[p].shouldRestart
    BY DEF ProcsInv, UnsignalledIsCurrent
  <2>7. QED BY <2>2, <2>3, <2>4, <2>5, <2>6, ProcChange
<1>3. ASSUME NEW p \in Procs, Collected(p) PROVE ProcsInv'
  <2>1. /\ proc'[p] = NoProc /\ child' = child
        /\ \A q \in Procs : q # p => proc'[q] = proc[q]
        /\ \A k \in Children : child[k].of # p
    BY <1>3 DEF Collected, TypeOK
  <2>2. ProcOK(p)'
    BY <2>1 DEF ProcOK, NoProc
  <2>3. QED BY <2>1, <2>2, ProcChange DEF NoProc
<1>4. ASSUME NEW k \in Children, HandshakeAnswered(k) PROVE ProcsInv'
  <2>0. PICK p \in Procs : p = child[k].of
    BY <1>4 DEF HandshakeAnswered, TypeOK, ChildStates
  <2>1. /\ proc[p] \in ProcStates
        /\ proc[p].handshake # "none" /\ proc[p].process # None
        /\ ~proc[p].timer /\ proc[p].shouldRestart /\ proc[p].status # "none"
    BY <1>4, <2>0, AnsweredEffect
  <2>2. /\ \A q \in Procs : q # p => proc'[q] = proc[q]
        /\ proc'[p].process = proc[p].process /\ proc'[p].timer = proc[p].timer
        /\ proc'[p].shouldRestart = proc[p].shouldRestart
        /\ \/ /\ proc'[p].handshake = "tools/list" /\ proc'[p].status = proc[p].status
              /\ proc'[p].booting = proc[p].booting
           \/ /\ proc'[p].handshake = "none" /\ proc'[p].status = "running"
              /\ ~proc'[p].booting
    BY <1>4, <2>0, AnsweredEffect
  <2>3. \A c \in Children : /\ child'[c].of = child[c].of
                            /\ child'[c].state = child[c].state
                            /\ child'[c].deaf = child[c].deaf
    BY <1>4, <2>0, AnsweredEffect
  <2>4. LET c == proc[p].process IN
        /\ c \in Children /\ child[c].of = p /\ child[c].state # "none" /\ ~child[c].deaf
    BY <2>1 DEF ProcsInv, ProcOK, TypeOK, ProcStates
  <2>5. ProcOK(p)'
    BY <2>1, <2>2, <2>3, <2>4 DEF ProcOK, NoProc
  <2>6. \A c \in Children : child[c].of = p /\ child[c].state = "up" => proc[p].process = c
    BY DEF ProcsInv, UnsignalledIsCurrent
  <2>7. \A c \in Children : child'[c].of = p /\ child'[c].state = "up"
                           => proc'[p].process = c /\ proc'[p].shouldRestart
    BY <2>1, <2>2, <2>3, <2>6
  <2>8. \/ proc'[p].handshake # "none"
        \/ /\ proc'[p].process # None /\ ~child'[proc'[p].process].deaf
           /\ proc'[p].status = "running"
    BY <2>1, <2>2, <2>3, <2>4
  <2>9. proc'[p].status # "none"
    BY <2>1, <2>2
  <2>10. QED BY <2>2, <2>3, <2>5, <2>7, <2>8, <2>9, ProcChange
<1>5. ASSUME NEW k \in Children, ChildDies(k) PROVE ProcsInv'
  <2>1. child[k].state = "up"
    BY <1>5 DEF ChildDies
  <2>2. /\ proc' = proc
        /\ child'[k].of = child[k].of /\ child'[k].state = "dead" /\ child'[k].deaf = child[k].deaf
        /\ \A c \in Children : c # k => child'[c] = child[c]
    BY <1>5 DEF ChildDies, TypeOK, ChildStates
  <2>3. ASSUME NEW p \in Procs PROVE ProcOK(p)'
    BY <2>1, <2>2 DEF ProcsInv, ProcOK, TypeOK, ProcStates
  <2>4. ASSUME NEW c \in Children PROVE ChildOK(c)'
    BY <2>1, <2>2 DEF ProcsInv, ChildOK
  <2>5. UnsignalledIsCurrent'
    BY <2>2 DEF ProcsInv, UnsignalledIsCurrent
  <2>6. NotStranded'
    BY <2>2 DEF ProcsInv, NotStranded, TypeOK, ProcStates
  <2>7. QED BY <2>3, <2>4, <2>5, <2>6 DEF ProcsInv
<1>6. ASSUME NEW k \in Children, Exit(k) PROVE ProcsInv'
  <2>1. PICK p \in Procs : p = child[k].of
    BY <1>6 DEF Exit, ProcsInv, ChildOK
  <2>2. /\ child'[k].state = "none"
        /\ \A c \in Children : c # k => child'[c] = child[c]
    BY <1>6 DEF Exit, TypeOK, NoChild
  <2>3. \A c \in Children : child[c].of = p /\ child[c].state = "up"
                            => proc[p].process = c /\ proc[p].shouldRestart
    BY DEF ProcsInv, UnsignalledIsCurrent
  <2>4. child[k].of = p /\ child[k].state \in {"killed", "dead"} /\ proc[p].status # "none"
    BY <1>6, <2>1 DEF Exit, ProcsInv, ChildOK
  <2>5. CASE child[k].deaf
    <3>1. proc' = proc /\ proc[p].process # k
      BY <1>6, <2>5, NoneAssumption DEF Exit, ProcsInv, ProcOK
    <3>2. ProcOK(p)'
      BY <2>2, <3>1 DEF ProcsInv, ProcOK, TypeOK, ProcStates
    <3>3. proc[p].shouldRestart =>
            \/ proc[p].timer
            \/ proc[p].handshake # "none"
            \/ /\ proc[p].process # None /\ ~child[proc[p].process].deaf
               /\ \/ child[proc[p].process].state \in {"killed", "dead"}
                  \/ proc[p].status = "running"
      BY DEF ProcsInv, NotStranded
    <3>4. proc[p].process # None => child'[proc[p].process] = child[proc[p].process]
      BY <2>2, <3>1 DEF TypeOK, ProcStates
    <3>5. QED BY <2>1, <2>2, <2>3, <2>4, <3>1, <3>2, <3>3, <3>4, ProcChange
  <2>6. CASE ~child[k].deaf
    <3>5. LET new == proc'[p] IN
          /\ \A q \in Procs : q # p => proc'[q] = proc[q]
          /\ new.handshake = "none" /\ ~new.booting /\ new.status \in {"stopped", "error"}
          /\ new.shouldRestart = proc[p].shouldRestart
          /\ new.process = IF proc[p].process = k THEN None ELSE proc[p].process
          /\ new.timer => proc[p].timer \/ proc[p].shouldRestart
          /\ proc[p].shouldRestart => new.timer
      BY <1>6, <2>1, <2>6, ExitEffect
    <3>6. proc[p].timer => proc[p].shouldRestart
      BY DEF ProcsInv, ProcOK
    <3>7. proc[p].process # None => /\ child[proc[p].process].of = p
                                    /\ child[proc[p].process].state # "none"
                                    /\ ~child[proc[p].process].deaf
                                    /\ proc[p].process \in Children
      BY DEF ProcsInv, ProcOK, TypeOK, ProcStates
    <3>8. ProcOK(p)'
      BY <2>2, <3>5, <3>6, <3>7 DEF ProcOK
    <3>9. \A c \in Children : child'[c].of = p /\ child'[c].state = "up"
                              => proc'[p].process = c /\ proc'[p].shouldRestart
      BY <2>2, <2>3, <3>5
    <3>10. proc'[p].shouldRestart => proc'[p].timer
      BY <3>5
    <3>11. \A c \in Children :
             \/ /\ child'[c].of = child[c].of
                /\ child'[c].state = child[c].state
                /\ child'[c].deaf = child[c].deaf
             \/ /\ child[c].of = p \/ child[c].state = "none"
                /\ child'[c].of = p \/ child'[c].state = "none"
      BY <2>2, <2>4
    <3>12. proc'[p].status # "none"
      BY <3>5
    <3>13. QED BY <3>5, <3>8, <3>9, <3>10, <3>11, <3>12, ProcChange
  <2>7. QED BY <2>5, <2>6
<1>7. ASSUME NEW u \in Users, Create(u) PROVE ProcsInv'
  <2> DEFINE o == [NoProc EXCEPT !.shouldRestart = TRUE, !.booting = TRUE]
  <2>1. /\ o \in ProcStates /\ o.shouldRestart /\ ~o.timer /\ o.handshake = "none"
        /\ o.process = None
    BY DEF NoProc, ProcStates
  <2>2. PICK p \in Procs : /\ proc[p].status = "none"
                           /\ Spawns(p, o) \/ SpawnFails(p, o)
    BY <1>7 DEF Create
  <2>3. proc[p].process = None
    BY <2>2 DEF ProcsInv, ProcOK, NoProc
  <2> HIDE DEF o
  <2>4. QED BY <2>1, <2>2, <2>3, ProcsSpawn
<1>8. ASSUME NEW u \in Users,
             \/ Ensure(u) \/ WaitOver(u) \/ CallTool(u) \/ CallSettles(u) \/ TurnEnds(u)
      PROVE  ProcsInv'
  BY <1>8, ProcsFrame DEF Ensure, WaitOver, CallTool, CallSettles, TurnEnds
<1>9. ASSUME NEW a \in Admins, Stop(a) PROVE ProcsInv'
  <2>1. PICK p \in Procs : p = localProcess
    BY <1>9 DEF Stop, TypeOK
  <2>4. child' = Terminate(p)
    BY <1>9, <2>1 DEF Stop
  <2>5. LET new == proc'[p] IN
        /\ \A q \in Procs : q # p => proc'[q] = proc[q]
        /\ new.handshake = "none" /\ ~new.booting /\ new.status \in {"stopped", "error"}
        /\ ~new.shouldRestart /\ ~new.timer /\ new.process = proc[p].process
    BY <1>9, <2>1, StopEffect
  <2>6. \A c \in Children :
          /\ child'[c].of = child[c].of
          /\ child'[c].deaf = child[c].deaf
          /\ (child'[c].state = "none") <=> (child[c].state = "none")
          /\ child'[c].state = "up" => child[c].state = "up" /\ c # proc[p].process
          /\ c # proc[p].process => child'[c] = child[c]
    BY <2>4, TerminateType
  <2>7. proc[p].process # None => /\ child[proc[p].process].of = p
                                  /\ child[proc[p].process].state # "none"
                                  /\ ~child[proc[p].process].deaf
                                  /\ proc[p].process \in Children
    BY DEF ProcsInv, ProcOK, TypeOK, ProcStates
  <2>8. ProcOK(p)'
    BY <2>5, <2>6, <2>7 DEF ProcOK
  <2>9. \A c \in Children : child'[c].of = p => child'[c].state # "up"
    BY <2>6 DEF ProcsInv, UnsignalledIsCurrent
  <2>10. \A c \in Children :
           \/ /\ child'[c].of = child[c].of
              /\ child'[c].state = child[c].state
              /\ child'[c].deaf = child[c].deaf
           \/ child[c].of = p /\ child'[c].of = p
    BY <2>6, <2>7, NoneAssumption
  <2>11. QED BY <2>5, <2>8, <2>9, <2>10, ProcChange
<1>10. ASSUME NEW a \in Admins, StopReturns(a) PROVE ProcsInv'
  <2>1. PICK p \in Procs : p = admin[a]
    BY <1>10 DEF StopReturns, TypeOK
  <2>2. /\ proc[p].status # "none" /\ ~proc[p].shouldRestart
        /\ ~proc[p].timer /\ proc[p].handshake = "none" /\ ~proc[p].booting
    BY <1>10, <2>1 DEF StopReturns, HeldInv, ProcsInv, ProcOK
  <2>3. /\ child' = child /\ proc'[p].process = None
        /\ proc'[p].status = proc[p].status /\ proc'[p].shouldRestart = proc[p].shouldRestart
        /\ proc'[p].timer = proc[p].timer /\ proc'[p].handshake = proc[p].handshake
        /\ proc'[p].booting = proc[p].booting
        /\ \A q \in Procs : q # p => proc'[q] = proc[q]
    BY <1>10, <2>1 DEF StopReturns, TypeOK, ProcStates
  <2>4. ProcOK(p)'
    BY <2>2, <2>3 DEF ProcOK
  <2>5. \A c \in Children : child[c].of = p => child[c].state # "up"
    BY <2>2 DEF ProcsInv, UnsignalledIsCurrent
  <2>6. QED BY <2>2, <2>3, <2>4, <2>5, ProcChange
<1>11. CASE UNCHANGED vars
  BY <1>11, ProcsFrame DEF vars
<1>12. QED
  BY <1>1, <1>2, <1>3, <1>4, <1>5, <1>6, <1>7, <1>8, <1>9, <1>10, <1>11 DEF Next

\* An object in use stays in use, and is not restarted once it is stopped, by every step
\* but its collection.
LEMMA ProcSteps ==
  ASSUME TypeOK, ProcsInv, HeldInv, [Next]_vars
  PROVE  \/ \E q \in Procs : Collected(q)
         \/ \A q \in Procs : proc[q].status # "none" =>
               /\ proc'[q].status # "none"
               /\ ~proc[q].shouldRestart => ~proc'[q].shouldRestart
<1> DEFINE Keeps ==
      \A q \in Procs : proc[q].status # "none" =>
        /\ proc'[q].status # "none"
        /\ ~proc[q].shouldRestart => ~proc'[q].shouldRestart
<1>1. ASSUME NEW p \in Procs, TimerFires(p) PROVE Keeps
  <2> DEFINE o == [proc[p] EXCEPT !.timer = FALSE]
  <2>1. o \in ProcStates /\ o.shouldRestart /\ ~o.timer /\ o.handshake = "none" /\ ~o.booting
    <3>1. proc[p] \in ProcStates
      BY DEF TypeOK
    <3>2. /\ proc[p].timer /\ proc[p].shouldRestart
          /\ proc[p].handshake = "none" /\ ~proc[p].booting
      BY <1>1 DEF TimerFires, ProcsInv, ProcOK
    <3>3. QED BY <3>1, <3>2 DEF ProcStates
  <2>2. Spawns(p, o) \/ SpawnFails(p, o)
    BY <1>1 DEF TimerFires
  <2> HIDE DEF o
  <2>3. PICK new \in ProcStates : /\ proc' = [proc EXCEPT ![p] = new]
                                  /\ new.shouldRestart /\ new.status # "none"
    BY <2>1, <2>2, SpawnEffect
  <2>4. QED BY <1>1, <2>3 DEF TimerFires, TypeOK
<1>2. ASSUME NEW p \in Procs, HandshakeFails(p) PROVE Keeps
  <2>1. proc[p] \in ProcStates
    BY DEF TypeOK
  <2>2. /\ HandshakeOver(proc[p], "error").status \in {"stopped", "error"}
        /\ HandshakeOver(proc[p], "error").shouldRestart = proc[p].shouldRestart
    BY <2>1, HandshakeOverType
  <2>3. QED BY <1>2, <2>2 DEF HandshakeFails, TypeOK
<1>3. ASSUME NEW k \in Children, HandshakeAnswered(k) PROVE Keeps
  <2>1. PICK p \in Procs : p = child[k].of
    BY <1>3 DEF HandshakeAnswered, TypeOK, ChildStates
  <2>2. QED BY <1>3, <2>1, AnsweredEffect
<1>4. ASSUME NEW k \in Children, ChildDies(k) PROVE Keeps
  BY <1>4 DEF ChildDies
<1>5. ASSUME NEW k \in Children, Exit(k) PROVE Keeps
  <2>1. PICK p \in Procs : p = child[k].of
    BY <1>5 DEF Exit, ProcsInv, ChildOK
  <2>2. CASE child[k].deaf
    BY <1>5, <2>2 DEF Exit
  <2>3. CASE ~child[k].deaf
    BY <1>5, <2>1, <2>3, ExitEffect
  <2>4. QED BY <2>2, <2>3
<1>6. ASSUME NEW u \in Users, Create(u) PROVE Keeps
  <2> DEFINE o == [NoProc EXCEPT !.shouldRestart = TRUE, !.booting = TRUE]
  <2>1. /\ o \in ProcStates /\ o.shouldRestart /\ ~o.timer /\ o.handshake = "none"
        /\ o.process = None
    BY DEF NoProc, ProcStates
  <2>2. PICK p \in Procs : /\ proc[p].status = "none"
                           /\ Spawns(p, o) \/ SpawnFails(p, o)
    BY <1>6 DEF Create
  <2> HIDE DEF o
  <2>3. PICK new \in ProcStates : /\ proc' = [proc EXCEPT ![p] = new]
                                  /\ new.shouldRestart /\ new.status # "none"
    BY <2>1, <2>2, SpawnEffect
  <2>4. QED BY <2>2, <2>3 DEF TypeOK
<1>7. ASSUME NEW u \in Users,
             \/ Ensure(u) \/ WaitOver(u) \/ CallTool(u) \/ CallSettles(u) \/ TurnEnds(u)
      PROVE  Keeps
  BY <1>7 DEF Ensure, WaitOver, CallTool, CallSettles, TurnEnds
<1>8. ASSUME NEW a \in Admins, Stop(a) PROVE Keeps
  <2>1. PICK p \in Procs : p = localProcess
    BY <1>8 DEF Stop, TypeOK
  <2>2. QED BY <1>8, <2>1, StopEffect
<1>9. ASSUME NEW a \in Admins, StopReturns(a) PROVE Keeps
  BY <1>9 DEF StopReturns, TypeOK, ProcStates
<1>10. CASE UNCHANGED vars
  BY <1>10 DEF vars
<1>11. QED
  BY <1>1, <1>2, <1>3, <1>4, <1>5, <1>6, <1>7, <1>8, <1>9, <1>10 DEF Next

\* Only an object that nothing holds is collected.
LEMMA HeldNext == TypeOK /\ ProcsInv /\ HeldInv /\ [Next]_vars => HeldInv'
<1> SUFFICES ASSUME TypeOK, ProcsInv, HeldInv, [Next]_vars PROVE HeldInv'
  OBVIOUS
<1> DEFINE Keeps ==
      \A q \in Procs : proc[q].status # "none" =>
        /\ proc'[q].status # "none"
        /\ ~proc[q].shouldRestart => ~proc'[q].shouldRestart
<1>1. ASSUME NEW q \in Procs, Collected(q) PROVE HeldInv'
  <2>1. /\ localProcess' = localProcess /\ localProcess # q
        /\ admin' = admin /\ \A a \in Admins : admin[a] # q
        /\ \A r \in Procs : r # q => proc'[r] = proc[r]
    BY <1>1 DEF Collected, TypeOK
  <2>2. QED BY <2>1 DEF HeldInv, TypeOK
<1>2. ASSUME Keeps, localProcess' = localProcess, admin' = admin PROVE HeldInv'
  BY <1>2 DEF HeldInv, TypeOK
<1>3. ASSUME Keeps, NEW u \in Users, Create(u) PROVE HeldInv'
  <2> DEFINE o == [NoProc EXCEPT !.shouldRestart = TRUE, !.booting = TRUE]
  <2>1. /\ o \in ProcStates /\ o.shouldRestart /\ ~o.timer /\ o.handshake = "none"
        /\ o.process = None
    BY DEF NoProc, ProcStates
  <2>2. PICK r \in Procs : /\ Spawns(r, o) \/ SpawnFails(r, o)
                           /\ localProcess' = r
    BY <1>3 DEF Create
  <2> HIDE DEF o
  <2>4. PICK new \in ProcStates : proc' = [proc EXCEPT ![r] = new] /\ new.status # "none"
    BY <2>1, <2>2, SpawnEffect
  <2>5. admin' = admin
    BY <1>3 DEF Create
  <2>6. QED BY <1>3, <2>2, <2>4, <2>5 DEF HeldInv, TypeOK
<1>4. ASSUME Keeps, NEW a \in Admins, Stop(a) PROVE HeldInv'
  <2>1. PICK p \in Procs : p = localProcess
    BY <1>4 DEF Stop, TypeOK
  <2>2. ~proc'[p].shouldRestart
    BY <1>4, <2>1, StopEffect
  <2>3. localProcess' = p /\ admin' = [admin EXCEPT ![a] = p] /\ p # None
    BY <1>4, <2>1 DEF Stop
  <2>4. proc[p].status # "none"
    BY <2>1, <2>3 DEF HeldInv
  <2>5. QED BY <1>4, <2>2, <2>3, <2>4 DEF HeldInv, TypeOK
<1>5. ASSUME Keeps, NEW a \in Admins, StopReturns(a) PROVE HeldInv'
  BY <1>5 DEF StopReturns, HeldInv, TypeOK
<1>6. ASSUME Keeps PROVE HeldInv'
  <2>1. \/ localProcess' = localProcess /\ admin' = admin
        \/ \E u \in Users : Create(u)
        \/ \E a \in Admins : Stop(a) \/ StopReturns(a)
    BY DEF Next, vars, TimerFires, HandshakeFails, Collected, HandshakeAnswered, ChildDies,
           Exit, Ensure, WaitOver, CallTool, CallSettles, TurnEnds
  <2>2. QED BY <1>2, <1>3, <1>4, <1>5, <1>6, <2>1
<1>7. QED BY <1>1, <1>6, ProcSteps

-----------------------------------------------------------------------------
(* Requests and their calls *)

\* An exit or a stop sends the callers of p, and nobody else, back to their turns.
LEMMA UsersRejected ==
  ASSUME TypeOK, UsersInv, NEW p \in Procs, CallsRejected(p)
  PROVE  UsersInv'
<1>1. \A u \in Users :
        /\ u \in pending[p] => user'[u].pc = "ready" /\ user'[u].ref = user[u].ref
        /\ u \notin pending[p] => user'[u] = user[u]
  BY DEF CallsRejected, TypeOK, UserStates
<1>2. pending'[p] = {} /\ \A q \in Procs : q # p => pending'[q] = pending[q]
  BY DEF CallsRejected, TypeOK
<1>3. \A u \in Users : user'[u].pc \in {"inFlight", "waiting", "calling"} => user'[u].ref \in Procs
  BY <1>1 DEF UsersInv
<1>4. \A q \in Procs : \A u \in pending'[q] : user'[u].pc = "calling" /\ user'[u].ref = q
  BY <1>1, <1>2 DEF UsersInv, TypeOK
<1>5. CallsTracked'
  BY <1>1, <1>2 DEF UsersInv, CallsTracked
<1>6. QED BY <1>3, <1>4, <1>5 DEF UsersInv

\* A step that leaves requests and calls alone.
LEMMA UsersFrame == UsersInv /\ UNCHANGED <<pending, user>> => UsersInv'
BY DEF UsersInv, CallsTracked

\* A request that has no call under way goes to a state without one.
LEMMA UsersMove ==
  ASSUME TypeOK, UsersInv, NEW u \in Users, NEW s \in UserStates, pending' = pending,
         user' = [user EXCEPT ![u] = s], user[u].pc # "calling", s.pc # "calling",
         s.pc \in {"inFlight", "waiting", "calling"} => s.ref \in Procs
  PROVE  UsersInv'
BY DEF UsersInv, CallsTracked, TypeOK

\* Every step keeps the facts about requests and their calls.
LEMMA UsersNext == TypeOK /\ ProcsInv /\ UsersInv /\ StartEntryIsCurrent /\ [Next]_vars => UsersInv'
<1> SUFFICES ASSUME TypeOK, ProcsInv, UsersInv, StartEntryIsCurrent, [Next]_vars PROVE UsersInv'
  OBVIOUS
<1>1. ASSUME NEW p \in Procs, TimerFires(p) \/ HandshakeFails(p) \/ Collected(p) PROVE UsersInv'
  BY <1>1, UsersFrame DEF TimerFires, HandshakeFails, Collected
<1>2. ASSUME NEW k \in Children, HandshakeAnswered(k) \/ ChildDies(k) PROVE UsersInv'
  BY <1>2, UsersFrame DEF HandshakeAnswered, ChildDies
<1>3. ASSUME NEW k \in Children, Exit(k) PROVE UsersInv'
  <2>1. child[k].of \in Procs
    BY <1>3 DEF Exit, ProcsInv, ChildOK
  <2>2. QED BY <1>3, <2>1, UsersRejected, UsersFrame DEF Exit
<1>4. ASSUME NEW u \in Users, Ensure(u) PROVE UsersInv'
  <2> DEFINE s == IF Healthy(localProcess) THEN Turn(proc[localProcess].tools)
                  ELSE IF starting # None THEN [pc |-> "inFlight", ref |-> starting]
                  ELSE [pc |-> "loading", ref |-> None]
  <2>1. /\ s \in UserStates /\ s.pc # "calling"
        /\ s.pc \in {"inFlight", "waiting", "calling"} => s.ref \in Procs
    BY DEF Turn, Idle, UserStates, TypeOK
  <2>2. user' = [user EXCEPT ![u] = s] /\ user[u].pc = "idle" /\ pending' = pending
    BY <1>4 DEF Ensure
  <2> HIDE DEF s
  <2>3. QED BY <2>1, <2>2, UsersMove
<1>5. ASSUME NEW u \in Users, Create(u) PROVE UsersInv'
  <2>1. PICK p \in Procs : user' = [user EXCEPT ![u] = [pc |-> "waiting", ref |-> p]]
    BY <1>5 DEF Create
  <2>2. [pc |-> "waiting", ref |-> p] \in UserStates
    BY DEF UserStates
  <2>3. QED BY <1>5, <2>1, <2>2, UsersMove DEF Create
<1>6. ASSUME NEW u \in Users, WaitOver(u) PROVE UsersInv'
  <2>1. PICK t \in BOOLEAN : user' = [user EXCEPT ![u] = Turn(t)]
    BY <1>6 DEF WaitOver
  <2>2. /\ Turn(t) \in UserStates /\ Turn(t).pc # "calling"
        /\ Turn(t).pc \in {"inFlight", "waiting", "calling"} => Turn(t).ref \in Procs
    BY DEF Turn, Idle, UserStates, TypeOK
  <2>3. QED BY <1>6, <2>1, <2>2, UsersMove DEF WaitOver
<1>7. ASSUME NEW u \in Users, CallTool(u) PROVE UsersInv'
  <2>1. user[u].ref \in Procs /\ user[u].pc = "ready"
    BY <1>7 DEF CallTool, TypeOK, UserStates
  <2>2. QED BY <1>7, <2>1 DEF CallTool, UsersInv, CallsTracked, TypeOK, UserStates
<1>8. ASSUME NEW u \in Users, CallSettles(u) PROVE UsersInv'
  <2>1. user[u].ref \in Procs /\ user[u].pc = "calling"
    BY <1>8 DEF CallSettles, UsersInv
  <2>2. QED BY <1>8, <2>1 DEF CallSettles, UsersInv, CallsTracked, TypeOK, UserStates
<1>9. ASSUME NEW u \in Users, TurnEnds(u) PROVE UsersInv'
  <2>1. Idle \in UserStates /\ Idle.pc = "idle"
    BY DEF Idle, UserStates
  <2>2. QED BY <1>9, <2>1, UsersMove DEF TurnEnds
<1>10. ASSUME NEW a \in Admins, Stop(a) PROVE UsersInv'
  <2>1. localProcess \in Procs
    BY <1>10 DEF Stop, TypeOK
  <2>2. QED BY <1>10, <2>1, UsersRejected DEF Stop
<1>11. ASSUME NEW a \in Admins, StopReturns(a) PROVE UsersInv'
  BY <1>11, UsersFrame DEF StopReturns
<1>12. CASE UNCHANGED vars
  BY <1>12, UsersFrame DEF vars
<1>13. QED
  BY <1>1, <1>2, <1>3, <1>4, <1>5, <1>6, <1>7, <1>8, <1>9, <1>10, <1>11, <1>12 DEF Next

-----------------------------------------------------------------------------
(* The entry of startingProcesses *)

\* A step of p that runs finally() when the start of p ends keeps the entry right.
LEMMA EntryReturns ==
  ASSUME TypeOK, StartEntryIsCurrent, NEW p \in Procs, StartReturns(p),
         localProcess' = localProcess, \A q \in Procs : q # p => proc'[q] = proc[q]
  PROVE  StartEntryIsCurrent'
<1> SUFFICES ASSUME starting' # None
             PROVE  starting' = localProcess' /\ proc'[starting'].booting
  BY DEF StartEntryIsCurrent
<1>1. starting' = starting /\ ~(proc[p].booting /\ ~proc'[p].booting)
  BY DEF StartReturns
<1>2. starting = localProcess /\ proc[starting].booting /\ starting \in Procs
  BY <1>1 DEF StartEntryIsCurrent, TypeOK
<1>3. QED BY <1>1, <1>2

\* A step that leaves both Maps and the objects alone.
LEMMA EntryFrame ==
  StartEntryIsCurrent /\ UNCHANGED <<starting, localProcess, proc>> => StartEntryIsCurrent'
BY DEF StartEntryIsCurrent

\* Every step keeps the entry; a timer cannot fire under a start, whose handshake excludes it.
LEMMA EntryNext == TypeOK /\ ProcsInv /\ StartEntryIsCurrent /\ [Next]_vars => StartEntryIsCurrent'
<1> SUFFICES ASSUME TypeOK, ProcsInv, StartEntryIsCurrent, [Next]_vars
             PROVE  StartEntryIsCurrent'
  OBVIOUS
<1>1. ASSUME NEW p \in Procs, TimerFires(p) PROVE StartEntryIsCurrent'
  <2>1. ~proc[p].booting
    BY <1>1 DEF TimerFires, ProcsInv, ProcOK
  <2>2. \A q \in Procs : q # p => proc'[q] = proc[q]
    BY <1>1 DEF TimerFires, Spawns, SpawnFails, TypeOK
  <2>3. UNCHANGED <<starting, localProcess>>
    BY <1>1 DEF TimerFires
  <2>4. QED BY <2>1, <2>2, <2>3 DEF StartEntryIsCurrent, TypeOK
<1>2. ASSUME NEW p \in Procs, HandshakeFails(p) PROVE StartEntryIsCurrent'
  <2>1. \A q \in Procs : q # p => proc'[q] = proc[q]
    BY <1>2 DEF HandshakeFails, TypeOK
  <2>2. QED BY <1>2, <2>1, EntryReturns DEF HandshakeFails
<1>3. ASSUME NEW p \in Procs, Collected(p) PROVE StartEntryIsCurrent'
  BY <1>3 DEF Collected, StartEntryIsCurrent, TypeOK
<1>4. ASSUME NEW k \in Children, HandshakeAnswered(k) PROVE StartEntryIsCurrent'
  <2>1. PICK p \in Procs : p = child[k].of
    BY <1>4 DEF HandshakeAnswered, TypeOK, ChildStates
  <2>2. \A q \in Procs : q # p => proc'[q] = proc[q]
    BY <1>4, <2>1, AnsweredEffect
  <2>3. StartReturns(p) /\ localProcess' = localProcess
    BY <1>4, <2>1 DEF HandshakeAnswered
  <2>4. QED BY <2>2, <2>3, EntryReturns
<1>5. ASSUME NEW k \in Children, ChildDies(k) PROVE StartEntryIsCurrent'
  BY <1>5, EntryFrame DEF ChildDies
<1>6. ASSUME NEW k \in Children, Exit(k) PROVE StartEntryIsCurrent'
  <2>1. PICK p \in Procs : p = child[k].of
    BY <1>6 DEF Exit, ProcsInv, ChildOK
  <2>2. CASE child[k].deaf
    BY <1>6, <2>2, EntryFrame DEF Exit
  <2>3. CASE ~child[k].deaf
    <3>1. \A q \in Procs : q # p => proc'[q] = proc[q]
      BY <1>6, <2>1, <2>3, ExitEffect
    <3>2. StartReturns(p) /\ localProcess' = localProcess
      BY <1>6, <2>1, <2>3 DEF Exit
    <3>3. QED BY <3>1, <3>2, EntryReturns
  <2>4. QED BY <2>2, <2>3
<1>7. ASSUME NEW u \in Users, Create(u) PROVE StartEntryIsCurrent'
  BY <1>7 DEF Create, EntryOf, StartEntryIsCurrent
<1>8. ASSUME NEW u \in Users,
             \/ Ensure(u) \/ WaitOver(u) \/ CallTool(u) \/ CallSettles(u) \/ TurnEnds(u)
      PROVE  StartEntryIsCurrent'
  BY <1>8, EntryFrame DEF Ensure, WaitOver, CallTool, CallSettles, TurnEnds
<1>9. ASSUME NEW a \in Admins, Stop(a) PROVE StartEntryIsCurrent'
  <2>1. PICK p \in Procs : p = localProcess
    BY <1>9 DEF Stop, TypeOK
  <2>2. \A q \in Procs : q # p => proc'[q] = proc[q]
    BY <1>9, <2>1, StopEffect
  <2>3. StartReturns(p) /\ localProcess' = localProcess
    BY <1>9, <2>1 DEF Stop
  <2>4. QED BY <2>2, <2>3, EntryReturns
<1>10. ASSUME NEW a \in Admins, StopReturns(a) PROVE StartEntryIsCurrent'
  BY <1>10 DEF StopReturns, StartEntryIsCurrent
<1>11. CASE UNCHANGED vars
  BY <1>11, EntryFrame DEF vars
<1>12. QED
  BY <1>1, <1>2, <1>3, <1>4, <1>5, <1>6, <1>7, <1>8, <1>9, <1>10, <1>11 DEF Next

-----------------------------------------------------------------------------
(* The theorems *)

\* Nothing exists yet.
LEMMA InitIInv == Init => IInv
<1> SUFFICES ASSUME Init PROVE IInv
  OBVIOUS
<1>1. TypeOK
  BY TypeInit
<1>2. ProcsInv
  BY DEF Init, ProcsInv, ProcOK, ChildOK, UnsignalledIsCurrent, NotStranded, NoProc, NoChild
<1>3. HeldInv /\ UsersInv /\ StartEntryIsCurrent
  BY DEF Init, HeldInv, UsersInv, CallsTracked, StartEntryIsCurrent, Idle
<1>4. QED BY <1>1, <1>2, <1>3 DEF IInv

\* The invariant the others follow from: every step of both classes keeps it.
THEOREM Invariance == Spec => []IInv
<1>1. IInv /\ [Next]_vars => IInv'
  BY TypeNext, ProcsNext, HeldNext, UsersNext, EntryNext DEF IInv
<1>2. QED BY InitIInv, <1>1, PTL DEF Spec

\* The fields of LocalMcpProcess, the Maps of McpServersService and the requests have
\* their types.
THEOREM TypeCorrect == Spec => []TypeOK
<1>1. IInv => TypeOK
  BY DEF IInv
<1>2. QED BY <1>1, Invariance, PTL

\* spawnProcess() and stop() leave no child running but the current one of an object that
\* is not stopped.
THEOREM OneChild == Spec => []UnsignalledIsCurrent
<1>1. IInv => UnsignalledIsCurrent
  BY DEF IInv, ProcsInv
<1>2. QED BY <1>1, Invariance, PTL

\* Whatever fails (a spawn, a handshake, a child), an object that is not stopped runs or
\* has something under way that starts it again.
THEOREM KeptAlive == Spec => []NotStranded
<1>1. IInv => NotStranded
  BY DEF IInv, ProcsInv
<1>2. QED BY <1>1, Invariance, PTL

\* The exit handler and stop() reject the calls they cut off: none waits for an object
\* that has forgotten it.
THEOREM CallsKept == Spec => []CallsTracked
<1>1. IInv => CallsTracked
  BY DEF IInv, UsersInv
<1>2. QED BY <1>1, Invariance, PTL

\* The deletions of startingProcesses, by key and by whoever comes first, never leave the
\* entry of a start that is over or of an object that was replaced.
THEOREM EntryCurrent == Spec => []StartEntryIsCurrent
<1>1. IInv => StartEntryIsCurrent
  BY DEF IInv
<1>2. QED BY <1>1, Invariance, PTL
=============================================================================
