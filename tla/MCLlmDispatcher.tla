---------------------------- MODULE MCLlmDispatcher ----------------------------
(* Instances of LlmDispatcher for TLC: who the callers work for, and their classes. *)
EXTENDS LlmDispatcher

CONSTANTS a1, a2, b1, b2, alice, bob

MCUserOf == (a1 :> alice @@ a2 :> alice @@ b1 :> bob @@ b2 :> bob)
MCPriorityOf == (a1 :> 0 @@ a2 :> 0 @@ b1 :> 0 @@ b2 :> 2)
=============================================================================
