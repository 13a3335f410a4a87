------------------------------ MODULE FlowEngine ------------------------------
(***************************************************************************)
(* FlowEngineService.run: a flow's definition executed in waves. A wave's  *)
(* reached nodes run in parallel; when all have settled their outgoing     *)
(* edges are resolved in one go, and the nodes left with no edge to wait   *)
(* for are the next wave. FlowRun is what it implements.                   *)
(***************************************************************************)
EXTENDS Naturals, FiniteSets

CONSTANTS
  Nodes,    \* node ids
  Flows,    \* the definitions a run may be given
  Retries   \* retries of a node whose policy is 'retry'

Policies == {"stop", "continue", "retry"}

\* branch: an edge without one counts as 'true' and only a condition looks at it.
Edges == [source : Nodes, target : Nodes, branch : BOOLEAN]

FlowDefinition(f) ==
  /\ f = [nodes |-> f.nodes, edges |-> f.edges, conditions |-> f.conditions, onError |-> f.onError]
  /\ f.nodes \subseteq Nodes /\ f.conditions \subseteq f.nodes
  /\ f.edges \subseteq Edges /\ IsFiniteSet(f.edges)
  /\ \A e \in f.edges : e.source \in f.nodes /\ e.target \in f.nodes
  /\ f.onError \in [f.nodes -> Policies]

ASSUME FlowsAssumption ==
  /\ Retries \in Nat
  /\ \A f \in Flows : FlowDefinition(f)

VARIABLES
  flow,      \* flow.definition
  phase,     \* "new", "waves", "saving", then how run() ended
  status,    \* of each node: what nodeRuns will say, "waiting" and "running" until then
  attempt,   \* retries already made
  pending,   \* incoming edges not yet resolved
  reached,   \* nodes an active edge leads to
  wave,      \* the nodes under way, or just settled
  seen,      \* nodes whose result a node found in the state at its last attempt
  runError   \* runError is set

flowVars == <<flow, phase, status, attempt, pending, reached, wave, seen, runError>>

FlowTypeOK ==
  /\ flow \in Flows
  /\ phase \in {"new", "waves", "saving", "completed", "error", "lost"}
  /\ status \in [flow.nodes -> {"waiting", "running", "ok", "true", "false", "error", "skipped"}]
  /\ attempt \in [flow.nodes -> 0..Retries]
  /\ pending \in [flow.nodes -> Nat]
  /\ reached \subseteq flow.nodes
  /\ wave \subseteq flow.nodes
  /\ seen \in [flow.nodes -> SUBSET flow.nodes]
  /\ runError \in BOOLEAN

FlowInit ==
  /\ flow \in Flows
  /\ phase = "new"
  /\ status = [n \in flow.nodes |-> "waiting"]
  /\ attempt = [n \in flow.nodes |-> 0]
  /\ pending = [n \in flow.nodes |-> 0]
  /\ reached = {}
  /\ wave = {}
  /\ seen = [n \in flow.nodes |-> {}]
  /\ runError = FALSE

settled == {n \in flow.nodes : status[n] \notin {"waiting", "running"}}

Into(n) == {e \in flow.edges : e.target = n}
OutOf(S) == {e \in flow.edges : e.source \in S}

\* The state's results: skipped nodes leave none.
Results(st) == {n \in flow.nodes : st[n] \notin {"waiting", "running", "skipped"}}

\* Kahn's queue ends up holding the least set that has every node whose predecessors it has.
topoSort ==
  {n \in flow.nodes :
     \A S \in SUBSET flow.nodes :
       (\A m \in flow.nodes : (\A e \in Into(m) : e.source \in S) => m \in S) => n \in S}

\* The nodes of a new wave: those reached start their first attempt, the others are skipped.
Enter(w, r) ==
  /\ wave' = w
  /\ status' = [n \in flow.nodes |->
       IF n \in w THEN (IF n \in r THEN "running" ELSE "skipped") ELSE status[n]]
  /\ seen' = [n \in flow.nodes |-> IF n \in w \cap r THEN Results(status) ELSE seen[n]]

\* run(): the topology is validated, then the nodes that wait for no edge are the first wave.
Start ==
  /\ phase = "new"
  /\ IF topoSort # flow.nodes
     THEN /\ runError' = TRUE /\ phase' = "saving"
          /\ UNCHANGED <<pending, reached, wave, status, seen>>
     ELSE LET entries == {n \in flow.nodes : Into(n) = {}} IN
          /\ pending' = [n \in flow.nodes |-> Cardinality(Into(n))]
          /\ reached' = entries
          /\ Enter(entries, entries)
          /\ phase' = IF entries = {} THEN "saving" ELSE "waves"
          /\ UNCHANGED runError
  /\ UNCHANGED <<flow, attempt>>

Outcomes(n) == IF n \in flow.conditions THEN {"true", "false"} ELSE {"ok"}

NodeOk(n) ==
  /\ status[n] = "running"
  /\ \E r \in Outcomes(n) : status' = [status EXCEPT ![n] = r]
  /\ UNCHANGED <<flow, phase, attempt, pending, reached, wave, seen, runError>>

\* Mutant: one retry too many.
MayRetryOnce(n) == flow.onError[n] = "retry" /\ attempt[n] <= Retries

\* executeNodeWithPolicy: the error of a node with retries left is tried again.
MayRetry(n) == flow.onError[n] = "retry" /\ attempt[n] < Retries

\* Mutant: the retries are not counted.
NodeFailsUncounted(n) ==
  /\ status[n] = "running"
  /\ IF MayRetry(n)
     THEN seen' = [seen EXCEPT ![n] = Results(status)] /\ UNCHANGED status
     ELSE status' = [status EXCEPT ![n] = "error"] /\ UNCHANGED seen
  /\ UNCHANGED <<flow, phase, attempt, pending, reached, wave, runError>>

NodeFails(n) ==
  /\ status[n] = "running"
  /\ IF MayRetry(n)
     THEN /\ attempt' = [attempt EXCEPT ![n] = @ + 1]
          /\ seen' = [seen EXCEPT ![n] = Results(status)]
          /\ UNCHANGED status
     ELSE /\ status' = [status EXCEPT ![n] = "error"]
          /\ UNCHANGED <<attempt, seen>>
  /\ UNCHANGED <<flow, phase, pending, reached, wave, runError>>

Halts(n) == status[n] = "error" /\ flow.onError[n] # "continue"

\* Mutant: a skipped node's edges propagate.
ActiveOfAny(e) ==
  /\ ~Halts(e.source)
  /\ (e.source \in flow.conditions /\ status[e.source] # "error")
       => (e.branch <=> status[e.source] = "true")

\* The edges that propagate from a settled wave.
Active(e) ==
  /\ e.source \in reached
  /\ ~Halts(e.source)
  /\ (e.source \in flow.conditions /\ status[e.source] # "error")
       => (e.branch <=> status[e.source] = "true")

Left(n) == pending[n] - Cardinality(OutOf(wave) \cap Into(n))

\* Mutant: one resolved edge is enough.
ReadyByOne == {n \in flow.nodes \ settled : OutOf(wave) \cap Into(n) # {}}

ReadyNext == {n \in flow.nodes \ settled : OutOf(wave) \cap Into(n) # {} /\ Left(n) = 0}

\* Promise.all is over: the wave's edges are resolved and the next wave entered, with no
\* other code in between.
NextWave ==
  /\ phase = "waves" /\ wave \subseteq settled
  /\ runError' = (runError \/ \E n \in wave : Halts(n))
  /\ reached' = reached \cup {e.target : e \in {d \in OutOf(wave) : Active(d)}}
  /\ pending' = [n \in flow.nodes |-> Left(n)]
  /\ Enter(ReadyNext, reached')
  /\ phase' = IF ReadyNext = {} THEN "saving" ELSE "waves"
  /\ UNCHANGED <<flow, attempt>>

\* The run is recorded; when the row cannot be written run() throws. The notification that
\* follows is best effort and left out.
SaveRun ==
  /\ phase = "saving"
  /\ phase' \in {IF runError THEN "error" ELSE "completed", "lost"}
  /\ UNCHANGED <<flow, status, attempt, pending, reached, wave, seen, runError>>

NodeStep(n) == NodeOk(n) \/ NodeFails(n)

FlowNext ==
  \/ Start
  \/ \E n \in flow.nodes : NodeStep(n)
  \/ NextWave
  \/ SaveRun

\* The executor's own steps follow one another; every attempt of a node settles, its calls
\* having time-outs of their own.
FlowFairness ==
  /\ WF_flowVars(Start \/ NextWave \/ SaveRun)
  /\ \A n \in Nodes : WF_flowVars(n \in flow.nodes /\ NodeStep(n))

FlowSpec == FlowInit /\ [][FlowNext]_flowVars /\ FlowFairness
--------------------------------------------------------------------------------
Outcome == IF phase \in {"completed", "error", "lost"} THEN phase ELSE "none"

Abstract == INSTANCE FlowRun WITH result <- status, outcome <- Outcome

\* The wave executor implements the dataflow: waves, counters and the set of reached nodes
\* start and skip the nodes that the edges say, once each, and account for all of them.
ImplementsFlowRun == Abstract!Spec

\* How far a node is, and how far the run.
Rank(n) ==
  CASE status[n] = "waiting" -> 0
    [] status[n] = "running" -> 1 + attempt[n]
    [] OTHER -> 2 + Retries

PhaseRank == CASE phase = "new" -> 0 [] phase = "waves" -> 1 [] phase = "saving" -> 2 [] OTHER -> 3

\* Every step takes some node, or the run, further, and none back: the ranks being bounded, no
\* retry, join or error keeps a run going for ever.
Advances ==
  /\ flow' = flow
  /\ PhaseRank' >= PhaseRank
  /\ \A n \in flow.nodes : Rank(n)' >= Rank(n)
  /\ PhaseRank' > PhaseRank \/ \E n \in flow.nodes : Rank(n)' > Rank(n)

FlowAdvances == [][Advances]_flowVars

\* A node that runs found in the state the result of every predecessor that was not
\* skipped: a join never collects a branch that is still under way.
JoinSeesBranches ==
  \A n \in flow.nodes :
    status[n] \in {"running", "ok", "true", "false", "error"} =>
      \A e \in Into(n) : e.source \in seen[n] \/ status[e.source] = "skipped"
================================================================================
