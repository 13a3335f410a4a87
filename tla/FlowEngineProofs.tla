--------------------------- MODULE FlowEngineProofs ---------------------------
(***************************************************************************)
(* Proofs about FlowEngine for every set of finite flows: its types, that  *)
(* a join collects only what has settled, and that the executor of waves   *)
(* implements the safety part of FlowRun.                                  *)
(***************************************************************************)
EXTENDS FlowEngine, FiniteSetTheorems, TLAPS

\* The topology was validated: topoSort did not throw.
Sorted == topoSort = flow.nodes

\* The nodes whose outgoing edges have been resolved: a wave's are when it is over.
Resolved == settled \ wave
Unresolved(n) == {e \in Into(n) : e.source \notin Resolved}

Untouched == wave = {} /\ reached = {} /\ \A n \in flow.nodes : status[n] = "waiting"

\* pending counts the edges not yet resolved.
Counters == \A n \in flow.nodes : pending[n] = Cardinality(Unresolved(n))

\* A wave's nodes are under way or have just settled; no other node runs.
WaveNodes == \A n \in flow.nodes : IF n \in wave THEN status[n] # "waiting" ELSE status[n] # "running"

\* A node is entered when, and only when, all its edges are resolved.
EnteredLate == \A n \in flow.nodes : status[n] # "waiting" => Unresolved(n) = {}
EnteredSoon == \A n \in flow.nodes : status[n] = "waiting" => Unresolved(n) # {}

Entries == {n \in flow.nodes : Into(n) = {}}

\* reached: the entry nodes and the targets of the edges the results follow.
ReachedByEdges ==
  reached = Entries \cup
    {e.target : e \in {d \in OutOf(Resolved) : Abstract!Follows(flow, status, d)}}

SkippedUnreached ==
  \A n \in flow.nodes : status[n] # "waiting" => (status[n] = "skipped" <=> n \notin reached)

OutcomesOK ==
  \A n \in flow.nodes :
    /\ status[n] \in {"true", "false"} => n \in flow.conditions
    /\ status[n] = "ok" => n \notin flow.conditions

ErrorKept == runError <=> \E n \in Resolved : Halts(n)

AllAccounted == phase # "waves" => wave = {} /\ \A n \in flow.nodes : status[n] # "waiting"

WaveInv ==
  /\ Counters /\ WaveNodes /\ EnteredLate /\ EnteredSoon
  /\ ReachedByEdges /\ SkippedUnreached /\ OutcomesOK /\ ErrorKept /\ AllAccounted

FlowInv ==
  /\ FlowTypeOK
  /\ phase = "new" => Untouched /\ ~runError
  /\ phase # "new" /\ ~Sorted => Untouched /\ runError /\ phase # "waves"
  /\ phase # "new" /\ Sorted => WaveInv
  /\ JoinSeesBranches
--------------------------------------------------------------------------------
\* What a flow given to a run is.
LEMMA FlowFacts ==
  ASSUME flow \in Flows
  PROVE  /\ flow.conditions \subseteq flow.nodes
         /\ flow.onError \in [flow.nodes -> Policies]
         /\ IsFiniteSet(flow.edges)
         /\ \A e \in flow.edges : e.source \in flow.nodes /\ e.target \in flow.nodes /\ e.branch \in BOOLEAN
<1>1. FlowDefinition(flow)
  BY FlowsAssumption
<1>2. flow.edges \subseteq Edges
  BY <1>1 DEF FlowDefinition
<1>3. \A e \in flow.edges : e.branch \in BOOLEAN
  BY <1>2 DEF Edges
<1>. QED
  BY <1>1, <1>3 DEF FlowDefinition

LEMMA FiniteInto ==
  ASSUME flow \in Flows, NEW n, NEW S \in SUBSET Into(n)
  PROVE  IsFiniteSet(S) /\ Cardinality(S) \in Nat
<1>1. IsFiniteSet(flow.edges) /\ S \subseteq flow.edges
  BY FlowFacts DEF Into
<1>. QED
  BY <1>1, FS_Subset, FS_CardinalityType

\* The topology is refused exactly when some nodes form a cycle.
LEMMA SortedIffAcyclic == flow \in Flows => (Sorted <=> ~Abstract!HasCycle(flow))
<1>. SUFFICES ASSUME flow \in Flows PROVE Sorted <=> ~Abstract!HasCycle(flow)
  OBVIOUS
<1>1. ASSUME Sorted, NEW C \in SUBSET flow.nodes, C # {},
             \A n \in C : \E e \in Into(n) : e.source \in C
      PROVE  FALSE
  <2>. DEFINE S == flow.nodes \ C
  <2>1. \A m \in flow.nodes : (\A e \in Into(m) : e.source \in S) => m \in S
    BY <1>1
  <2>2. PICK n \in C : TRUE
    BY <1>1
  <2>3. n \in topoSort
    BY <1>1, <2>2 DEF Sorted
  <2>4. S \in SUBSET flow.nodes
    OBVIOUS
  <2>5. n \in S
    BY <2>1, <2>3, <2>4 DEF topoSort
  <2>. QED
    BY <2>2, <2>5
<1>2. ASSUME ~Sorted PROVE Abstract!HasCycle(flow)
  <2>. DEFINE C == flow.nodes \ topoSort
  <2>1. C # {} /\ C \in SUBSET flow.nodes
    BY <1>2 DEF Sorted, topoSort
  <2>2. ASSUME NEW n \in C PROVE \E e \in Into(n) : e.source \in C
    <3>1. PICK S \in SUBSET flow.nodes :
            /\ \A m \in flow.nodes : (\A e \in Into(m) : e.source \in S) => m \in S
            /\ n \notin S
      BY DEF topoSort
    <3>2. PICK e \in Into(n) : e.source \notin S
      BY <3>1
    <3>3. e.source \in flow.nodes
      BY FlowFacts DEF Into
    <3>4. e.source \notin topoSort
      BY <3>1, <3>2 DEF topoSort
    <3>. QED
      BY <3>2, <3>3, <3>4
  <2>. QED
    BY <2>1, <2>2 DEF Abstract!HasCycle, Abstract!Incoming, Into
<1>. QED
  BY <1>1, <1>2 DEF Abstract!HasCycle, Abstract!Incoming, Into

\* The definition of a run does not change, and with it what is derived from it alone.
LEMMA SameFlow ==
  ASSUME flow' = flow
  PROVE  /\ Sorted' <=> Sorted
         /\ Entries' = Entries
         /\ \A n : Into(n)' = Into(n)
  BY DEF Sorted, topoSort, Entries, Into
--------------------------------------------------------------------------------
LEMMA FlowInitInv == FlowInit => FlowInv
<1>. SUFFICES ASSUME FlowInit PROVE FlowInv
  OBVIOUS
<1>1. Retries \in Nat /\ 0 \in 0..Retries
  BY FlowsAssumption
<1>2. FlowTypeOK
  BY <1>1 DEF FlowInit, FlowTypeOK
<1>. QED
  BY <1>2 DEF FlowInit, FlowInv, Untouched, JoinSeesBranches

\* No step of a run but Start begins before its topology is validated.
LEMMA StartInv == FlowInv /\ Start => FlowInv'
<1>. SUFFICES ASSUME FlowInv, Start PROVE FlowInv'
  OBVIOUS
<1>. USE DEF FlowInv
<1>0. FlowTypeOK /\ Untouched /\ ~runError /\ flow' = flow /\ attempt' = attempt /\ phase' # "new"
  BY DEF Start
<1>1. CASE ~Sorted
  <2>1. /\ runError' = TRUE /\ phase' = "saving"
        /\ UNCHANGED <<flow, attempt, pending, reached, wave, status, seen>>
    BY <1>1 DEF Start, Sorted
  <2>2. FlowTypeOK' /\ Untouched'
    BY <1>0, <2>1 DEF FlowTypeOK, Untouched
  <2>3. JoinSeesBranches'
    BY <2>2 DEF JoinSeesBranches, Untouched
  <2>. QED
    BY <1>1, <2>1, <2>2, <2>3, SameFlow
<1>2. CASE Sorted
  <2>1. /\ pending' = [n \in flow.nodes |-> Cardinality(Into(n))]
        /\ reached' = Entries
        /\ Enter(Entries, Entries)
        /\ phase' = (IF Entries = {} THEN "saving" ELSE "waves")
        /\ runError' = runError
    BY <1>2 DEF Start, Sorted, Entries
  <2>2. /\ wave' = Entries
        /\ status' = [n \in flow.nodes |-> IF n \in Entries THEN "running" ELSE status[n]]
        /\ seen' = [n \in flow.nodes |-> IF n \in Entries THEN Results(status) ELSE seen[n]]
    BY <2>1 DEF Enter
  <2>3. Entries \subseteq flow.nodes /\ Results(status) \subseteq flow.nodes
    BY DEF Entries, Results
  <2>4. \A n \in flow.nodes : status'[n] = IF n \in Entries THEN "running" ELSE "waiting"
    BY <1>0, <2>2 DEF Untouched
  <2>5. settled' = {} /\ Resolved' = {}
    BY <1>0, <2>4 DEF settled, Resolved
  <2>6. \A n : Unresolved(n)' = Into(n)
    BY <1>0, <2>5, SameFlow DEF Unresolved
  <2>7. FlowTypeOK'
    <3>1. pending' \in [flow.nodes -> Nat]
      <4>1. \A n \in flow.nodes : Cardinality(Into(n)) \in Nat
        BY <1>0, FiniteInto DEF FlowTypeOK
      <4>. QED
        BY <2>1, <4>1
    <3>2. seen' \in [flow.nodes -> SUBSET flow.nodes]
      BY <1>0, <2>2, <2>3 DEF FlowTypeOK
    <3>3. status' \in [flow.nodes -> {"waiting", "running", "ok", "true", "false", "error", "skipped"}]
      BY <1>0, <2>2 DEF FlowTypeOK
    <3>. QED
      BY <1>0, <2>1, <2>2, <2>3, <3>1, <3>2, <3>3 DEF FlowTypeOK
  <2>8. Counters' /\ EnteredLate' /\ EnteredSoon'
    <3>1. \A n \in flow.nodes : pending'[n] = Cardinality(Into(n))
      BY <2>1
    <3>. QED
      BY <1>0, <2>4, <2>6, <3>1 DEF Counters, EnteredLate, EnteredSoon, Entries
  <2>9. WaveNodes' /\ SkippedUnreached' /\ OutcomesOK'
    BY <1>0, <2>1, <2>2, <2>4 DEF WaveNodes, SkippedUnreached, OutcomesOK
  <2>10. ReachedByEdges'
    BY <1>0, <2>1, <2>5, SameFlow DEF ReachedByEdges, OutOf
  <2>11. ErrorKept'
    BY <1>0, <2>1, <2>5 DEF ErrorKept
  <2>12. AllAccounted'
    <3>. SUFFICES ASSUME Entries = {} PROVE \A n \in flow.nodes : FALSE
      BY <1>0, <2>1, <2>2 DEF AllAccounted
    <3>1. \A n \in flow.nodes : \E e \in Into(n) : e.source \in flow.nodes
      BY <1>0, FlowFacts DEF Entries, Into, FlowTypeOK
    <3>2. flow.nodes # {} => Abstract!HasCycle(flow)
      BY <3>1 DEF Abstract!HasCycle, Abstract!Incoming, Into
    <3>. QED
      BY <1>0, <1>2, <3>2, SortedIffAcyclic DEF FlowTypeOK
  <2>13. JoinSeesBranches'
    BY <1>0, <2>4, SameFlow DEF JoinSeesBranches, Entries
  <2>. QED
    BY <1>0, <1>2, <2>7, <2>8, <2>9, <2>10, <2>11, <2>12, <2>13, SameFlow DEF WaveInv
<1>. QED
  BY <1>1, <1>2

\* What a node's attempt may change: its own status, from "running" to a result, its
\* attempts, and what it has seen.
Attempted(n) ==
  /\ status[n] = "running"
  /\ \/ \E r \in Outcomes(n) \cup {"error"} : status' = [status EXCEPT ![n] = r] /\ seen' = seen
     \/ status' = status /\ seen' = [seen EXCEPT ![n] = Results(status)]
  /\ UNCHANGED <<flow, phase, pending, reached, wave, runError>>

LEMMA NodeStepTypes ==
  ASSUME FlowTypeOK, NEW n \in flow.nodes, NodeStep(n)
  PROVE  FlowTypeOK' /\ Attempted(n)
<1>1. CASE NodeOk(n)
  <2>1. PICK r \in Outcomes(n) : status' = [status EXCEPT ![n] = r]
    BY <1>1 DEF NodeOk
  <2>2. status' \in [flow.nodes -> {"waiting", "running", "ok", "true", "false", "error", "skipped"}]
    BY <2>1 DEF Outcomes, FlowTypeOK
  <2>. QED
    BY <1>1, <2>1, <2>2 DEF NodeOk, FlowTypeOK, Attempted
<1>2. CASE NodeFails(n) /\ MayRetry(n)
  <2>1. /\ attempt' = [attempt EXCEPT ![n] = @ + 1]
        /\ seen' = [seen EXCEPT ![n] = Results(status)]
        /\ UNCHANGED <<flow, phase, status, pending, reached, wave, runError>>
        /\ status[n] = "running"
    BY <1>2 DEF NodeFails
  <2>2. attempt[n] \in 0..Retries /\ attempt[n] < Retries /\ Retries \in Nat
    BY <1>2, FlowsAssumption DEF MayRetry, FlowTypeOK
  <2>3. attempt[n] + 1 \in 0..Retries
    BY <2>2
  <2>4. attempt' \in [flow.nodes -> 0..Retries]
    BY <2>1, <2>3 DEF FlowTypeOK
  <2>5. seen' \in [flow.nodes -> SUBSET flow.nodes]
    <3>1. Results(status) \in SUBSET flow.nodes
      BY DEF Results
    <3>. QED
      BY <2>1, <3>1 DEF FlowTypeOK
  <2>. QED
    BY <2>1, <2>4, <2>5 DEF FlowTypeOK, Attempted
<1>3. CASE NodeFails(n) /\ ~MayRetry(n)
  <2>1. /\ status[n] = "running"
        /\ status' = [status EXCEPT ![n] = "error"]
        /\ UNCHANGED <<flow, phase, attempt, pending, reached, wave, seen, runError>>
    BY <1>3 DEF NodeFails
  <2>2. status' \in [flow.nodes -> {"waiting", "running", "ok", "true", "false", "error", "skipped"}]
    BY <2>1 DEF FlowTypeOK
  <2>. QED
    BY <2>1, <2>2 DEF FlowTypeOK, Attempted
<1>. QED
  BY <1>1, <1>2, <1>3 DEF NodeStep

\* A node settles inside its wave: nothing that was resolved moves.
LEMMA NodeStepInv ==
  ASSUME FlowInv, NEW n \in flow.nodes, NodeStep(n)
  PROVE  FlowInv'
<1>. USE DEF FlowInv
<1>1. FlowTypeOK' /\ Attempted(n) /\ status[n] = "running"
  BY NodeStepTypes DEF Attempted
<1>2. phase # "new" /\ Sorted /\ WaveInv
  BY <1>1 DEF Untouched
<1>3. UNCHANGED <<flow, phase, pending, reached, wave, runError>>
  BY <1>1 DEF Attempted
<1>4. /\ n \in wave
      /\ \A m \in flow.nodes : m # n => status'[m] = status[m] /\ seen'[m] = seen[m]
      /\ status'[n] = "running" \/ status'[n] \in Outcomes(n) \cup {"error"}
      /\ seen'[n] = seen[n] \/ seen'[n] = Results(status)
  BY <1>1, <1>2 DEF WaveInv, WaveNodes, Attempted, FlowTypeOK
<1>5. status'[n] \notin {"waiting", "skipped"}
  BY <1>4 DEF Outcomes
<1>6. Resolved' = Resolved
  BY <1>3, <1>4 DEF Resolved, settled
<1>7. \A m : Unresolved(m)' = Unresolved(m)
  BY <1>3, <1>6, SameFlow DEF Unresolved
<1>8. n \notin Resolved /\ Resolved \subseteq flow.nodes
  BY <1>4 DEF Resolved, settled
<1>9. Counters' /\ WaveNodes' /\ EnteredLate' /\ EnteredSoon' /\ SkippedUnreached'
  BY <1>1, <1>2, <1>3, <1>4, <1>5, <1>7
     DEF WaveInv, Counters, WaveNodes, EnteredLate, EnteredSoon, SkippedUnreached
<1>10. ReachedByEdges'
  <2>1. \A e \in OutOf(Resolved) :
          Abstract!Follows(flow, status', e) <=> Abstract!Follows(flow, status, e)
    BY <1>4, <1>8 DEF OutOf, Abstract!Follows
  <2>2. OutOf(Resolved)' = OutOf(Resolved)
    BY <1>3, <1>6 DEF OutOf
  <2>. QED
    BY <1>2, <1>3, <2>1, <2>2, SameFlow DEF WaveInv, ReachedByEdges
<1>11. OutcomesOK'
  BY <1>2, <1>3, <1>4 DEF WaveInv, OutcomesOK, Outcomes
<1>12. ErrorKept'
  BY <1>2, <1>3, <1>4, <1>6, <1>8 DEF WaveInv, ErrorKept, Halts
<1>13. AllAccounted'
  BY <1>2, <1>3, <1>4 DEF WaveInv, AllAccounted
<1>14. JoinSeesBranches'
  <2>1. \A e \in Into(n) : e.source \in Resolved
    BY <1>1, <1>2 DEF WaveInv, EnteredLate, Unresolved
  <2>2. \A e \in Into(n) : e.source \in Results(status) \/ status[e.source] = "skipped"
    BY <2>1, <1>8 DEF Results, Resolved, settled
  <2>3. \A m \in flow.nodes : status[m] # "waiting" => \A e \in Into(m) : e.source # n
    BY <1>2, <1>8 DEF WaveInv, EnteredLate, Unresolved
  <2>4. \A m : \A e \in Into(m) : e.source \in flow.nodes
    BY FlowFacts DEF Into, FlowTypeOK
  <2>. QED
    BY <1>1, <1>3, <1>4, <2>2, <2>3, <2>4, SameFlow DEF JoinSeesBranches
<1>. QED
  BY <1>1, <1>2, <1>3, <1>9, <1>10, <1>11, <1>12, <1>13, <1>14, SameFlow DEF WaveInv
--------------------------------------------------------------------------------
\* A wave that is over: no node runs, and its edges are the next to be resolved.
WaveOver == phase = "waves" /\ wave \subseteq settled

\* The edges of n left over by a wave.
LeftOver(n) == {e \in Into(n) : e.source \notin settled}

LEMMA OverFacts ==
  ASSUME FlowInv, WaveOver
  PROVE  /\ Sorted /\ WaveInv
         /\ settled = Resolved \cup wave /\ Resolved \cap wave = {}
         /\ \A n \in flow.nodes : n \in settled <=> status[n] # "waiting"
         /\ \A n \in flow.nodes : Left(n) = Cardinality(LeftOver(n))
<1>. USE DEF FlowInv
<1>1. Sorted /\ WaveInv
  BY DEF WaveOver, Untouched
<1>2. settled = Resolved \cup wave /\ Resolved \cap wave = {}
  BY DEF WaveOver, Resolved
<1>3. \A n \in flow.nodes : n \in settled <=> status[n] # "waiting"
  BY <1>1 DEF WaveOver, WaveInv, WaveNodes, settled
<1>4. ASSUME NEW n \in flow.nodes PROVE Left(n) = Cardinality(LeftOver(n))
  <2>. DEFINE U == Unresolved(n)
              T == OutOf(wave) \cap Into(n)
  <2>1. IsFiniteSet(U) /\ Cardinality(U) \in Nat
    <3>1. U \subseteq Into(n)
      BY DEF Unresolved
    <3>. QED
      BY <3>1, FiniteInto DEF FlowTypeOK
  <2>2. T \subseteq U
    BY <1>2 DEF Unresolved, OutOf, Into
  <2>3. U \ T = LeftOver(n)
    BY <1>2 DEF Unresolved, OutOf, LeftOver, Into
  <2>4. Cardinality(U \ T) = Cardinality(U) - Cardinality(U \cap T)
    BY <2>1, FS_Difference
  <2>5. U \cap T = T
    BY <2>2
  <2>6. pending[n] = Cardinality(U)
    BY <1>1 DEF WaveInv, Counters
  <2>7. Left(n) = Cardinality(U) - Cardinality(T)
    BY <2>6 DEF Left
  <2>. HIDE DEF U, T
  <2>. QED
    BY <2>3, <2>4, <2>5, <2>7
<1>. QED
  BY <1>1, <1>2, <1>3, <1>4

\* The next wave is exactly the nodes with no edge left over.
LEMMA ReadyFacts ==
  ASSUME FlowInv, WaveOver, NEW n \in flow.nodes, status[n] = "waiting"
  PROVE  n \in ReadyNext <=> LeftOver(n) = {}
<1>. USE DEF FlowInv
<1>1. IsFiniteSet(LeftOver(n)) /\ Cardinality(LeftOver(n)) \in Nat
  <2>1. LeftOver(n) \subseteq Into(n)
    BY DEF LeftOver
  <2>. QED
    BY <2>1, FiniteInto DEF FlowTypeOK
<1>2. Left(n) = 0 <=> LeftOver(n) = {}
  BY <1>1, OverFacts, FS_EmptySet
<1>3. LeftOver(n) = {} => OutOf(wave) \cap Into(n) # {}
  <2>1. Unresolved(n) # {}
    BY OverFacts DEF WaveInv, EnteredSoon
  <2>2. PICK e \in Into(n) : e.source \notin Resolved
    BY <2>1 DEF Unresolved
  <2>. QED
    BY <2>2, OverFacts DEF LeftOver, OutOf, Into
<1>4. n \in flow.nodes \ settled
  BY OverFacts
<1>. QED
  BY <1>2, <1>3, <1>4 DEF ReadyNext

\* What propagates from a settled wave is what the results of its nodes follow.
LEMMA ActiveFollows ==
  ASSUME FlowInv, WaveOver, NEW e \in OutOf(wave)
  PROVE  Active(e) <=> Abstract!Follows(flow, status, e)
<1>. USE DEF FlowInv
<1>1. /\ e.source \in flow.nodes /\ e.source \in settled /\ e.branch \in BOOLEAN
      /\ flow.onError[e.source] \in Policies
  BY FlowFacts DEF OutOf, WaveOver, FlowTypeOK
<1>2. status[e.source] \in {"ok", "true", "false", "error", "skipped"}
  BY <1>1 DEF FlowTypeOK, settled
<1>3. /\ status[e.source] = "skipped" <=> e.source \notin reached
      /\ status[e.source] \in {"true", "false"} => e.source \in flow.conditions
      /\ status[e.source] = "ok" => e.source \notin flow.conditions
  BY <1>1, <1>2, OverFacts DEF WaveInv, SkippedUnreached, OutcomesOK
<1>. QED
  BY <1>1, <1>2, <1>3 DEF Active, Halts, Abstract!Follows

\* What NextWave assigns, said of the nodes.
LEMMA NextWaveFacts ==
  ASSUME FlowInv, NextWave
  PROVE  /\ WaveOver
         /\ flow' = flow /\ attempt' = attempt /\ phase \notin {"new", "saving"}
         /\ wave' = ReadyNext /\ ReadyNext \subseteq flow.nodes
         /\ \A n \in ReadyNext : status[n] = "waiting"
         /\ \A n \in flow.nodes : status'[n] =
              IF n \in ReadyNext THEN (IF n \in reached' THEN "running" ELSE "skipped") ELSE status[n]
         /\ reached' = Entries \cup
              {e.target : e \in {d \in OutOf(settled) : Abstract!Follows(flow, status, d)}}
         /\ Resolved' = settled
<1>. USE DEF FlowInv
<1>1. /\ WaveOver /\ flow' = flow /\ attempt' = attempt /\ phase \notin {"new", "saving"}
      /\ wave' = ReadyNext /\ ReadyNext \subseteq flow.nodes
  BY DEF NextWave, Enter, WaveOver, ReadyNext
<1>2. \A n \in ReadyNext : status[n] = "waiting"
  BY <1>1, OverFacts DEF ReadyNext
<1>3. \A n \in flow.nodes : status'[n] =
        IF n \in ReadyNext THEN (IF n \in reached' THEN "running" ELSE "skipped") ELSE status[n]
  BY DEF NextWave, Enter
<1>4. reached' = Entries \cup
        {e.target : e \in {d \in OutOf(settled) : Abstract!Follows(flow, status, d)}}
  <2>1. reached' = reached \cup {e.target : e \in {d \in OutOf(wave) : Active(d)}}
    BY DEF NextWave
  <2>2. {d \in OutOf(wave) : Active(d)} = {d \in OutOf(wave) : Abstract!Follows(flow, status, d)}
    BY <1>1, ActiveFollows
  <2>3. OutOf(settled) = OutOf(Resolved) \cup OutOf(wave)
    BY <1>1, OverFacts DEF OutOf
  <2>4. reached = Entries \cup
          {e.target : e \in {d \in OutOf(Resolved) : Abstract!Follows(flow, status, d)}}
    BY <1>1, OverFacts DEF WaveInv, ReachedByEdges
  <2>. QED
    BY <2>1, <2>2, <2>3, <2>4
<1>5. Resolved' = settled
  BY <1>1, <1>2, <1>3, OverFacts DEF Resolved, settled
<1>. QED
  BY <1>1, <1>2, <1>3, <1>4, <1>5

LEMMA NextWaveTypes == FlowInv /\ NextWave => FlowTypeOK'
<1>. SUFFICES ASSUME FlowInv, NextWave PROVE FlowTypeOK'
  OBVIOUS
<1>. USE DEF FlowInv
<1>1. WaveOver /\ flow' = flow /\ attempt' = attempt
  BY NextWaveFacts
<1>2. status' \in [flow.nodes -> {"waiting", "running", "ok", "true", "false", "error", "skipped"}]
  BY DEF NextWave, Enter, FlowTypeOK
<1>3. pending' \in [flow.nodes -> Nat]
  <2>1. \A n \in flow.nodes : Left(n) \in Nat
    <3>1. \A n : LeftOver(n) \subseteq Into(n)
      BY DEF LeftOver
    <3>. QED
      BY <1>1, <3>1, OverFacts, FiniteInto, ZenonT(60) DEF FlowTypeOK
  <2>. QED
    BY <2>1 DEF NextWave
<1>4. reached' \subseteq flow.nodes
  BY NextWaveFacts, FlowFacts DEF Entries, OutOf, FlowTypeOK
<1>5. seen' \in [flow.nodes -> SUBSET flow.nodes]
  <2>1. Results(status) \in SUBSET flow.nodes
    BY DEF Results
  <2>. QED
    BY <2>1 DEF NextWave, Enter, FlowTypeOK
<1>6. wave' \subseteq flow.nodes
  BY NextWaveFacts
<1>7. runError' \in BOOLEAN
  BY DEF NextWave, FlowTypeOK
<1>8. phase' \in {"saving", "waves"}
  BY DEF NextWave
<1>. QED
  BY <1>1, <1>2, <1>3, <1>4, <1>5, <1>6, <1>7, <1>8 DEF FlowTypeOK

\* When no wave follows, every node has been entered: those left would form a cycle.
LEMMA NothingLeft ==
  ASSUME FlowInv, WaveOver, ReadyNext = {}
  PROVE  \A n \in flow.nodes : status[n] # "waiting"
<1>. USE DEF FlowInv
<1>. DEFINE W == {n \in flow.nodes : status[n] = "waiting"}
<1>1. ASSUME NEW n \in W PROVE \E e \in Into(n) : e.source \in W
  <2>1. LeftOver(n) # {}
    BY ReadyFacts
  <2>2. PICK e \in Into(n) : e.source \notin settled
    BY <2>1 DEF LeftOver
  <2>3. e.source \in flow.nodes
    BY FlowFacts DEF Into, FlowTypeOK
  <2>. QED
    BY <2>2, <2>3, OverFacts
<1>2. W # {} => Abstract!HasCycle(flow)
  BY <1>1 DEF Abstract!HasCycle, Abstract!Incoming, Into
<1>3. W = {}
  BY <1>2, OverFacts, SortedIffAcyclic DEF FlowTypeOK
<1>. QED
  BY <1>3

LEMMA NextWaveInv == FlowInv /\ NextWave => FlowInv'
<1>. SUFFICES ASSUME FlowInv, NextWave PROVE FlowInv'
  OBVIOUS
<1>1. /\ WaveOver /\ flow' = flow
      /\ wave' = ReadyNext /\ ReadyNext \subseteq flow.nodes
      /\ \A n \in ReadyNext : status[n] = "waiting"
      /\ \A n \in flow.nodes : status'[n] =
           IF n \in ReadyNext THEN (IF n \in reached' THEN "running" ELSE "skipped") ELSE status[n]
      /\ Resolved' = settled
  BY NextWaveFacts
<1>2. FlowTypeOK' /\ phase' # "new" /\ Sorted'
  BY <1>1, NextWaveTypes, OverFacts, SameFlow DEF NextWave
<1>3. /\ WaveInv /\ FlowTypeOK
      /\ settled = Resolved \cup wave
      /\ \A n \in flow.nodes : n \in settled <=> status[n] # "waiting"
  BY <1>1, OverFacts DEF FlowInv
<1>4. \A n : Unresolved(n)' = LeftOver(n)
  BY <1>1, SameFlow DEF Unresolved, LeftOver
<1>5. \A n \in flow.nodes : status[n] = "waiting" => (n \in ReadyNext <=> LeftOver(n) = {})
  BY <1>1, ReadyFacts
<1>6. Counters'
  <2>1. \A n \in flow.nodes : pending'[n] = Cardinality(LeftOver(n))
    BY <1>1, OverFacts DEF NextWave
  <2>. QED
    BY <1>1, <1>4, <2>1 DEF Counters
<1>7. \A n \in flow.nodes : status[n] # "waiting" => LeftOver(n) = {}
  BY <1>3 DEF WaveInv, EnteredLate, Unresolved, LeftOver
<1>8. WaveNodes' /\ EnteredLate' /\ EnteredSoon'
  <2>1. \A n \in flow.nodes : n \in settled => status[n] # "running"
    BY DEF settled
  <2>. QED
    BY <1>1, <1>3, <1>4, <1>5, <1>7, <2>1 DEF WaveNodes, EnteredLate, EnteredSoon
<1>9. \A e \in OutOf(settled) :
        Abstract!Follows(flow, status', e) <=> Abstract!Follows(flow, status, e)
  <2>1. \A m \in settled : m \in flow.nodes /\ status'[m] = status[m]
    BY <1>1, <1>3 DEF settled
  <2>. QED
    BY <2>1 DEF OutOf, Abstract!Follows
<1>10. ReachedByEdges'
  <2>1. OutOf(Resolved)' = OutOf(settled)
    BY <1>1 DEF OutOf
  <2>. QED
    BY <1>1, <1>9, <2>1, NextWaveFacts, SameFlow DEF ReachedByEdges
<1>11. SkippedUnreached'
  <2>1. ASSUME NEW n \in flow.nodes, status[n] # "waiting"
        PROVE  n \in reached' <=> n \in reached
    <3>1. \A e \in Into(n) : e.source \in Resolved
      BY <1>3, <2>1 DEF WaveInv, EnteredLate, Unresolved
    <3>2. \A e \in OutOf(settled) : e.target = n => e \in OutOf(Resolved)
      BY <3>1 DEF OutOf, Into
    <3>3. OutOf(Resolved) \subseteq OutOf(settled)
      BY <1>3 DEF OutOf
    <3>4. reached = Entries \cup
            {e.target : e \in {d \in OutOf(Resolved) : Abstract!Follows(flow, status, d)}}
      BY <1>3 DEF WaveInv, ReachedByEdges
    <3>. QED
      BY <3>2, <3>3, <3>4, NextWaveFacts
  <2>. QED
    BY <1>1, <1>3, <2>1 DEF WaveInv, SkippedUnreached
<1>12. OutcomesOK'
  BY <1>1, <1>3 DEF WaveInv, OutcomesOK
<1>13. ErrorKept'
  <2>1. runError' = (runError \/ \E n \in wave : Halts(n))
    BY DEF NextWave
  <2>2. \A n \in settled : Halts(n)' <=> Halts(n)
    BY <1>1, <1>3 DEF Halts, settled
  <2>. QED
    BY <1>1, <1>3, <2>1, <2>2 DEF WaveInv, ErrorKept
<1>14. AllAccounted'
  BY <1>1, NothingLeft DEF AllAccounted, NextWave
<1>15. JoinSeesBranches'
  <2>1. seen' = [n \in flow.nodes |-> IF n \in ReadyNext \cap reached' THEN Results(status) ELSE seen[n]]
    BY DEF NextWave, Enter
  <2>2. \A n \in ReadyNext : \A e \in Into(n) : e.source \in settled
    BY <1>1, <1>5 DEF LeftOver
  <2>3. \A m \in settled : m \in Results(status) \/ status[m] = "skipped"
    BY DEF settled, Results
  <2>4. \A m \in settled : m \in flow.nodes /\ status'[m] = status[m]
    BY <1>1, <1>3 DEF settled
  <2>5. \A n \in flow.nodes : n \notin ReadyNext /\ status[n] # "waiting" =>
          \A e \in Into(n) : e.source \in settled
    BY <1>7 DEF LeftOver
  <2>. QED
    BY <1>1, <2>1, <2>2, <2>3, <2>4, <2>5, SameFlow DEF JoinSeesBranches, FlowInv
<1>. QED
  BY <1>2, <1>6, <1>8, <1>10, <1>11, <1>12, <1>13, <1>14, <1>15 DEF FlowInv, WaveInv

LEMMA SaveRunInv ==
  ASSUME FlowInv, SaveRun \/ UNCHANGED flowVars
  PROVE  FlowInv'
<1>1. /\ UNCHANGED <<flow, status, attempt, pending, reached, wave, seen, runError>>
      /\ phase' = phase \/ (phase = "saving" /\ phase' \in {"completed", "error", "lost"})
  BY DEF SaveRun, flowVars
<1>2. FlowTypeOK' /\ JoinSeesBranches'
  BY <1>1, SameFlow DEF FlowInv, FlowTypeOK, JoinSeesBranches
<1>3. Untouched => Untouched'
  BY <1>1 DEF Untouched
<1>4. Resolved' = Resolved
  BY <1>1 DEF Resolved, settled
<1>5. \A n : Unresolved(n)' = Unresolved(n)
  BY <1>1, <1>4, SameFlow DEF Unresolved
<1>6. WaveInv => WaveInv'
  <2>. SUFFICES ASSUME WaveInv PROVE WaveInv'
    OBVIOUS
  <2>1. Counters' /\ WaveNodes' /\ EnteredLate' /\ EnteredSoon' /\ SkippedUnreached' /\ OutcomesOK'
    BY <1>1, <1>5 DEF WaveInv, Counters, WaveNodes, EnteredLate, EnteredSoon, SkippedUnreached, OutcomesOK
  <2>2. ReachedByEdges'
    <3>1. OutOf(Resolved)' = OutOf(Resolved)
      BY <1>1, <1>4 DEF OutOf
    <3>. QED
      BY <1>1, <3>1, SameFlow DEF WaveInv, ReachedByEdges
  <2>3. ErrorKept'
    BY <1>1, <1>4 DEF WaveInv, ErrorKept, Halts
  <2>4. AllAccounted'
    BY <1>1 DEF WaveInv, AllAccounted
  <2>. QED
    BY <2>1, <2>2, <2>3, <2>4 DEF WaveInv
<1>. QED
  BY <1>1, <1>2, <1>3, <1>6, SameFlow DEF FlowInv

LEMMA FlowNextInv == FlowInv /\ [FlowNext]_flowVars => FlowInv'
  BY StartInv, NodeStepInv, NextWaveInv, SaveRunInv DEF FlowNext

LEMMA FlowInvariance == FlowSpec => []FlowInv
<1>1. FlowInit => FlowInv
  BY FlowInitInv
<1>2. FlowInv /\ [FlowNext]_flowVars => FlowInv'
  BY FlowNextInv
<1>. QED
  BY <1>1, <1>2, PTL DEF FlowSpec

\* The executor's data keeps its types for every set of finite flows and every number of
\* retries.
THEOREM FlowTypeCorrect == FlowSpec => []FlowTypeOK
<1>1. FlowInv => FlowTypeOK
  BY DEF FlowInv
<1>. QED
  BY <1>1, FlowInvariance, PTL

\* In every flow a node that runs found the result of every predecessor that ran.
THEOREM JoinsComplete == FlowSpec => []JoinSeesBranches
<1>1. FlowInv => JoinSeesBranches
  BY DEF FlowInv
<1>. QED
  BY <1>1, FlowInvariance, PTL
--------------------------------------------------------------------------------
\* Abstractly no node starts before its predecessors have settled; only Start, NextWave
\* and the nodes' steps move the results, only SaveRun the outcome.
LEMMA StartRefines == FlowInv /\ Start => [Abstract!Next]_(Abstract!vars)
<1>. SUFFICES ASSUME FlowInv, Start PROVE [Abstract!Next]_(Abstract!vars)
  OBVIOUS
<1>1. /\ phase = "new" /\ phase' \in {"saving", "waves"} /\ flow' = flow
      /\ FlowTypeOK /\ Untouched
  BY DEF Start, FlowInv
<1>2. Outcome = "none" /\ Outcome' = "none"
  BY <1>1 DEF Outcome
<1>3. CASE ~Sorted
  BY <1>1, <1>2, <1>3 DEF Start, Sorted, Abstract!vars
<1>4. CASE Sorted
  <2>1. status' = [n \in flow.nodes |-> IF n \in Entries THEN "running" ELSE status[n]]
    BY <1>4 DEF Start, Sorted, Enter, Entries
  <2>2. Entries = {} => status' = status
    BY <1>1, <2>1 DEF FlowTypeOK
  <2>3. \A n \in Entries : Abstract!Open(n)
    BY <1>1 DEF Entries, Into, Untouched, Abstract!Open, Abstract!Incoming
  <2>4. \A n \in Entries : Abstract!Wanted(n)
    BY DEF Entries, Into, Abstract!Wanted, Abstract!Incoming
  <2>5. status' = [n \in flow.nodes |->
          IF n \in Entries THEN (IF Abstract!Wanted(n) THEN "running" ELSE "skipped") ELSE status[n]]
    BY <2>1, <2>4
  <2>6. ~Abstract!HasCycle(flow)
    BY <1>1, <1>4, SortedIffAcyclic DEF FlowTypeOK
  <2>7. Entries # {} => Abstract!Begin(Entries)
    BY <1>1, <1>2, <2>3, <2>5, <2>6 DEF Abstract!Begin
  <2>8. Entries \in SUBSET flow.nodes
    BY DEF Entries
  <2>. QED
    BY <1>1, <1>2, <2>2, <2>7, <2>8 DEF Abstract!Next, Abstract!vars
<1>. QED
  BY <1>3, <1>4

LEMMA NodeStepRefines ==
  ASSUME FlowInv, NEW n \in flow.nodes, NodeStep(n)
  PROVE  [Abstract!Next]_(Abstract!vars)
<1>1. Attempted(n)
  BY NodeStepTypes DEF FlowInv
<1>2. flow' = flow /\ Outcome' = Outcome /\ status[n] = "running"
  BY <1>1 DEF Attempted, Outcome
<1>3. CASE status' = status
  BY <1>2, <1>3 DEF Abstract!vars
<1>4. CASE \E r \in Outcomes(n) \cup {"error"} : status' = [status EXCEPT ![n] = r]
  <2>1. Outcomes(n) \cup {"error"} =
          IF n \in flow.conditions THEN {"true", "false", "error"} ELSE {"ok", "error"}
    BY DEF Outcomes
  <2>2. Abstract!Settle(n)
    BY <1>2, <1>4, <2>1 DEF Abstract!Settle
  <2>. QED
    BY <2>2 DEF Abstract!Next
<1>. QED
  BY <1>1, <1>3, <1>4 DEF Attempted

LEMMA NextWaveRefines == FlowInv /\ NextWave => [Abstract!Next]_(Abstract!vars)
<1>. SUFFICES ASSUME FlowInv, NextWave PROVE [Abstract!Next]_(Abstract!vars)
  OBVIOUS
<1>1. WaveOver /\ flow' = flow /\ ReadyNext \subseteq flow.nodes /\ FlowTypeOK
  BY NextWaveFacts DEF FlowInv
<1>2. Outcome = "none" /\ Outcome' = "none"
  BY <1>1 DEF NextWave, Outcome
<1>3. status' = [n \in flow.nodes |->
        IF n \in ReadyNext THEN (IF n \in reached' THEN "running" ELSE "skipped") ELSE status[n]]
  BY DEF NextWave, Enter
<1>4. ReadyNext = {} => status' = status
  BY <1>1, <1>3 DEF FlowTypeOK
<1>5. ASSUME NEW n \in ReadyNext
      PROVE  Abstract!Open(n) /\ (Abstract!Wanted(n) <=> n \in reached')
  <2>1. n \in flow.nodes /\ status[n] = "waiting" /\ LeftOver(n) = {}
    BY <1>1, NextWaveFacts, ReadyFacts
  <2>2. \A e \in Into(n) : e.source \in settled
    BY <2>1 DEF LeftOver
  <2>3. Abstract!Open(n)
    BY <2>1, <2>2 DEF Abstract!Open, Abstract!Incoming, Abstract!Settled, Into, settled
  <2>4. Into(n) # {}
    BY DEF ReadyNext
  <2>5. Into(n) = {e \in OutOf(settled) : e.target = n}
    BY <2>2 DEF OutOf, Into
  <2>6. n \in reached' <=> \E e \in Into(n) : Abstract!Follows(flow, status, e)
    BY <2>4, <2>5, NextWaveFacts DEF Entries
  <2>7. Abstract!Wanted(n) <=> \E e \in Into(n) : Abstract!Follows(flow, status, e)
    BY <2>4 DEF Abstract!Wanted, Abstract!Incoming, Into
  <2>. QED
    BY <2>3, <2>6, <2>7
<1>6. status' = [n \in flow.nodes |->
        IF n \in ReadyNext THEN (IF Abstract!Wanted(n) THEN "running" ELSE "skipped") ELSE status[n]]
  BY <1>3, <1>5
<1>7. ~Abstract!HasCycle(flow)
  BY <1>1, OverFacts, SortedIffAcyclic DEF FlowTypeOK
<1>8. ReadyNext # {} => Abstract!Begin(ReadyNext)
  BY <1>1, <1>2, <1>5, <1>6, <1>7 DEF Abstract!Begin
<1>. QED
  BY <1>1, <1>2, <1>4, <1>8 DEF Abstract!Next, Abstract!vars

LEMMA SaveRunRefines == FlowInv /\ SaveRun => [Abstract!Next]_(Abstract!vars)
<1>. SUFFICES ASSUME FlowInv, SaveRun PROVE [Abstract!Next]_(Abstract!vars)
  OBVIOUS
<1>1. /\ phase = "saving" /\ FlowTypeOK /\ UNCHANGED <<flow, status>>
      /\ phase' \in {IF runError THEN "error" ELSE "completed", "lost"}
  BY DEF SaveRun, FlowInv
<1>2. Outcome = "none" /\ Outcome' = phase'
  BY <1>1 DEF Outcome
<1>3. CASE ~Sorted
  <2>1. runError /\ \A n \in flow.nodes : status[n] = "waiting"
    BY <1>1, <1>3 DEF FlowInv, Untouched
  <2>2. Abstract!HasCycle(flow)
    BY <1>1, <1>3, SortedIffAcyclic DEF FlowTypeOK
  <2>3. Abstract!Refuse
    BY <1>1, <1>2, <2>1, <2>2 DEF Abstract!Refuse
  <2>. QED
    BY <2>3 DEF Abstract!Next
<1>4. CASE Sorted
  <2>1. wave = {} /\ (\A n \in flow.nodes : status[n] # "waiting") /\ WaveInv
    BY <1>1, <1>4 DEF FlowInv, WaveInv, AllAccounted
  <2>2. \A n \in flow.nodes : Abstract!Settled(status[n])
    BY <2>1 DEF WaveInv, WaveNodes, Abstract!Settled
  <2>3. Resolved = flow.nodes
    BY <2>1, <2>2 DEF Resolved, settled, Abstract!Settled
  <2>4. runError <=> Abstract!Stopped(flow, status)
    BY <2>1, <2>3 DEF WaveInv, ErrorKept, Halts, Abstract!Stopped
  <2>5. ~Abstract!HasCycle(flow)
    BY <1>1, <1>4, SortedIffAcyclic DEF FlowTypeOK
  <2>6. Abstract!End
    BY <1>1, <1>2, <2>2, <2>4, <2>5 DEF Abstract!End
  <2>. QED
    BY <2>6 DEF Abstract!Next
<1>. QED
  BY <1>3, <1>4

LEMMA StepRefines == FlowInv /\ [FlowNext]_flowVars => [Abstract!Next]_(Abstract!vars)
<1>1. UNCHANGED flowVars => UNCHANGED Abstract!vars
  BY DEF flowVars, Abstract!vars, Outcome
<1>. QED
  BY <1>1, StartRefines, NodeStepRefines, NextWaveRefines, SaveRunRefines DEF FlowNext

\* Whatever the flow, the waves, counters and reached sets of the executor start, skip
\* and account for its nodes as the dataflow says, and a cycle is refused whole.
THEOREM WavesImplementDataflow == FlowSpec => Abstract!SafeSpec
<1>1. FlowInit => Abstract!Init
  BY DEF FlowInit, Abstract!Init, Outcome
<1>2. FlowInv /\ [FlowNext]_flowVars => [Abstract!Next]_(Abstract!vars)
  BY StepRefines
<1>. QED
  BY <1>1, <1>2, FlowInvariance, PTL DEF FlowSpec, Abstract!SafeSpec
--------------------------------------------------------------------------------
\* The ranks of nodes are numbers, and what raises one.
LEMMA RankTypes ==
  ASSUME FlowTypeOK, FlowTypeOK', flow' = flow
  PROVE  \A n \in flow.nodes : Rank(n) \in 0..(2 + Retries) /\ Rank(n)' \in 0..(2 + Retries)
BY FlowsAssumption DEF FlowTypeOK, Rank

LEMMA Entered ==
  ASSUME FlowTypeOK, FlowTypeOK', flow' = flow, attempt' = attempt,
         \A n \in flow.nodes : status'[n] = status[n] \/ status[n] = "waiting",
         PhaseRank' >= PhaseRank,
         PhaseRank' > PhaseRank \/ \E n \in flow.nodes : status[n] = "waiting" /\ status'[n] # "waiting"
  PROVE  Advances
<1>1. \A n \in flow.nodes : attempt[n] \in 0..Retries
  BY DEF FlowTypeOK
<1>2. \A n \in flow.nodes : status'[n] # status[n] => Rank(n)' > Rank(n)
  BY <1>1, FlowsAssumption DEF Rank
<1>3. \A n \in flow.nodes : status'[n] = status[n] => Rank(n)' = Rank(n)
  BY DEF Rank
<1>4. \A n \in flow.nodes : Rank(n)' >= Rank(n)
  BY <1>2, <1>3, RankTypes
<1>. QED
  BY <1>2, <1>4 DEF Advances

LEMMA AttemptAdvances ==
  ASSUME FlowTypeOK, FlowTypeOK', NEW n \in flow.nodes, NodeStep(n)
  PROVE  Advances
<1>1. status[n] = "running" /\ flow' = flow /\ phase' = phase
  BY DEF NodeStep, NodeOk, NodeFails
<1>2. PhaseRank' = PhaseRank /\ PhaseRank \in 0..3
  BY <1>1 DEF PhaseRank
<1>3. attempt[n] \in 0..Retries /\ Retries \in Nat
  BY FlowsAssumption DEF FlowTypeOK
<1>4. CASE MayRetry(n) /\ NodeFails(n)
  <2>1. attempt' = [attempt EXCEPT ![n] = @ + 1] /\ status' = status
    BY <1>4 DEF NodeFails
  <2>2. Rank(n)' > Rank(n)
    BY <2>1, <1>1, <1>3 DEF Rank, FlowTypeOK
  <2>3. \A m \in flow.nodes : m # n => Rank(m)' = Rank(m)
    BY <2>1 DEF Rank, FlowTypeOK
  <2>4. \A m \in flow.nodes : Rank(m)' >= Rank(m)
    BY <2>2, <2>3, <1>1, RankTypes
  <2>. QED
    BY <1>1, <1>2, <2>2, <2>4 DEF Advances
<1>5. CASE \E r \in Outcomes(n) \cup {"error"} : status' = [status EXCEPT ![n] = r] /\ attempt' = attempt
  <2>1. PICK r \in Outcomes(n) \cup {"error"} :
          status' = [status EXCEPT ![n] = r] /\ attempt' = attempt
    BY <1>5
  <2>2. r \notin {"waiting", "running"}
    BY DEF Outcomes
  <2>3. Rank(n)' > Rank(n)
    BY <2>1, <2>2, <1>1, <1>3 DEF Rank, FlowTypeOK
  <2>4. \A m \in flow.nodes : m # n => Rank(m)' = Rank(m)
    BY <2>1 DEF Rank, FlowTypeOK
  <2>5. \A m \in flow.nodes : Rank(m)' >= Rank(m)
    BY <2>3, <2>4, <1>1, RankTypes
  <2>. QED
    BY <1>1, <1>2, <2>3, <2>5 DEF Advances
<1>. QED
  BY <1>4, <1>5 DEF NodeStep, NodeOk, NodeFails

LEMMA StepAdvances == FlowInv /\ FlowInv' /\ FlowNext => Advances
<1>. SUFFICES ASSUME FlowInv, FlowInv', FlowNext PROVE Advances
  OBVIOUS
<1>0. FlowTypeOK /\ FlowTypeOK'
  BY DEF FlowInv
<1>1. CASE Start
  <2>1. phase = "new" /\ phase' \in {"saving", "waves"} /\ flow' = flow /\ attempt' = attempt
    BY <1>1 DEF Start
  <2>2. \A n \in flow.nodes : status[n] = "waiting"
    BY <2>1 DEF FlowInv, Untouched
  <2>. QED
    BY <2>1, <2>2, <1>0, Entered DEF PhaseRank
<1>2. ASSUME NEW n \in flow.nodes, NodeStep(n) PROVE Advances
  BY <1>0, <1>2, AttemptAdvances
<1>3. CASE NextWave
  <2>1. /\ flow' = flow /\ attempt' = attempt /\ ReadyNext \subseteq flow.nodes
        /\ \A n \in ReadyNext : status[n] = "waiting"
        /\ \A n \in flow.nodes : status'[n] =
             IF n \in ReadyNext THEN (IF n \in reached' THEN "running" ELSE "skipped") ELSE status[n]
    BY <1>3, NextWaveFacts
  <2>2. phase = "waves" /\ phase' = (IF ReadyNext = {} THEN "saving" ELSE "waves")
    BY <1>3 DEF NextWave
  <2>. QED
    BY <2>1, <2>2, <1>0, Entered DEF PhaseRank
<1>4. CASE SaveRun
  <2>1. phase = "saving" /\ phase' \in {"completed", "error", "lost"} /\ UNCHANGED <<flow, attempt, status>>
    BY <1>4 DEF SaveRun
  <2>. QED
    BY <2>1, <1>0, Entered DEF PhaseRank
<1>. QED
  BY <1>1, <1>2, <1>3, <1>4 DEF FlowNext

\* Every step of a run takes a node or the run further and none back, whatever the flow: a run
\* is over after (Retries + 2) steps for each node and three for itself, at the latest.
THEOREM RunsAdvance == FlowSpec => FlowAdvances
<1>1. FlowInv /\ FlowInv' /\ [FlowNext]_flowVars => [Advances]_flowVars
  BY StepAdvances
<1>. QED
  BY <1>1, FlowInvariance, PTL DEF FlowSpec, FlowAdvances
================================================================================
