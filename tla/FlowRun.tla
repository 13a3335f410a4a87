-------------------------------- MODULE FlowRun --------------------------------
(***************************************************************************)
(* What a run of a flow promises, however it is executed: a node starts    *)
(* once the nodes before it have settled, it runs if an edge that leads to *)
(* it was followed and is skipped otherwise, a flow with a cycle is        *)
(* refused whole, and the run ends when every node is accounted for.       *)
(***************************************************************************)
CONSTANT Flows  \* the definitions a run may be given

VARIABLES
  flow,    \* the definition of this run
  result,  \* what has become of each node
  outcome  \* the status the run is recorded with

vars == <<flow, result, outcome>>

Settled(r) == r \notin {"waiting", "running"}

\* The edges into a node, and the ones its source's result follows: all after an answer,
\* one branch after a condition, all or none after an error, as the node's policy says.
Incoming(f, n) == {e \in f.edges : e.target = n}

Follows(f, r, e) ==
  \/ r[e.source] = "ok"
  \/ r[e.source] = (IF e.branch THEN "true" ELSE "false")
  \/ r[e.source] = "error" /\ f.onError[e.source] = "continue"

Open(n) == result[n] = "waiting" /\ \A e \in Incoming(flow, n) : Settled(result[e.source])

Wanted(n) ==
  Incoming(flow, n) # {} => \E e \in Incoming(flow, n) : Follows(flow, result, e)

\* A set of nodes each of which has a predecessor in it.
HasCycle(f) ==
  \E C \in SUBSET f.nodes :
    /\ C # {}
    /\ \A n \in C : \E e \in Incoming(f, n) : e.source \in C

Stopped(f, r) == \E n \in f.nodes : r[n] = "error" /\ f.onError[n] # "continue"

Init ==
  /\ flow \in Flows
  /\ result = [n \in flow.nodes |-> "waiting"]
  /\ outcome = "none"

\* Some nodes whose predecessors have settled start, or are skipped.
Begin(S) ==
  /\ outcome = "none" /\ ~HasCycle(flow)
  /\ S # {} /\ \A n \in S : Open(n)
  /\ result' = [n \in flow.nodes |->
       IF n \in S THEN (IF Wanted(n) THEN "running" ELSE "skipped") ELSE result[n]]
  /\ UNCHANGED <<flow, outcome>>

Settle(n) ==
  /\ result[n] = "running"
  /\ \E r \in IF n \in flow.conditions THEN {"true", "false", "error"} ELSE {"ok", "error"} :
       result' = [result EXCEPT ![n] = r]
  /\ UNCHANGED <<flow, outcome>>

Refuse ==
  /\ outcome = "none" /\ HasCycle(flow) /\ \A n \in flow.nodes : result[n] = "waiting"
  /\ outcome' \in {"error", "lost"}
  /\ UNCHANGED <<flow, result>>

\* "lost": the row could not be written.
End ==
  /\ outcome = "none" /\ ~HasCycle(flow) /\ \A n \in flow.nodes : Settled(result[n])
  /\ outcome' \in {IF Stopped(flow, result) THEN "error" ELSE "completed", "lost"}
  /\ UNCHANGED <<flow, result>>

Next ==
  \/ \E S \in SUBSET flow.nodes : Begin(S)
  \/ \E n \in flow.nodes : Settle(n)
  \/ Refuse
  \/ End

SafeSpec == Init /\ [][Next]_vars
Spec == SafeSpec /\ WF_vars(Next)
================================================================================
