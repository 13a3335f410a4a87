------------------------------ MODULE RemoteCall ------------------------------
(***************************************************************************)
(* What a call of a remote tool promises the agent, whatever connections   *)
(* come and go under it: the tool is run at most once, the call is         *)
(* answered only by what that one run replied, and what it is settled with *)
(* stays. Everything under way may be lost.                                *)
(***************************************************************************)
CONSTANT Calls

VARIABLES
  work,  \* how far each call is: "none", "asked", "running", "replied", or "over"
  call   \* what the agent has of it: "idle", "waiting", "answered", "failed"

vars == <<work, call>>

Init ==
  /\ work = [c \in Calls |-> "none"]
  /\ call = [c \in Calls |-> "idle"]

\* The agent calls; with nobody to ask it fails at once, or only later.
Ask(c) ==
  /\ call[c] = "idle"
  /\ \/ work' = [work EXCEPT ![c] = "asked"] /\ call' = [call EXCEPT ![c] = "waiting"]
     \/ /\ work' = [work EXCEPT ![c] = "over"]
        /\ \E r \in {"waiting", "failed"} : call' = [call EXCEPT ![c] = r]

\* The tool is run, or the call is refused.
Take(c) ==
  /\ work[c] = "asked"
  /\ \E w \in {"running", "replied"} : work' = [work EXCEPT ![c] = w]
  /\ UNCHANGED call

Reply(c) ==
  /\ work[c] = "running"
  /\ work' = [work EXCEPT ![c] = "replied"]
  /\ UNCHANGED call

\* A reply that comes too late changes nothing.
Deliver(c) ==
  /\ work[c] = "replied"
  /\ work' = [work EXCEPT ![c] = "over"]
  /\ call' = IF call[c] = "waiting" THEN [call EXCEPT ![c] = "answered"] ELSE call

\* Some calls are lost on their way, and some that wait are given up.
Fails(Lost, GivenUp) ==
  /\ \A c \in Lost : work[c] # "none"
  /\ \A c \in GivenUp : call[c] = "waiting"
  /\ work' = [c \in Calls |-> IF c \in Lost THEN "over" ELSE work[c]]
  /\ call' = [c \in Calls |-> IF c \in GivenUp THEN "failed" ELSE call[c]]

Next ==
  \/ \E c \in Calls : Ask(c) \/ Take(c) \/ Reply(c) \/ Deliver(c)
  \/ \E Lost, GivenUp \in SUBSET Calls : Fails(Lost, GivenUp)

SafeSpec == Init /\ [][Next]_vars
===============================================================================
