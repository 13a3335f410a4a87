------------------------------ MODULE MCRemoteTools ------------------------------
(***************************************************************************)
(* Either two turns and a window that follows them, or one turn whose      *)
(* agent calls the desktop, with two apps.                                 *)
(***************************************************************************)
EXTENDS RemoteTools
CONSTANTS r1, r2, b1, b2
VARIABLE desktop

\* Requests, like apps, differ only by name: the first is the first to act.
Ordered ==
  /\ turn'[r2] # "idle" => turn[r1] # "idle"
  /\ app'[b2] # "off" => app[b1] # "off" \/ app[b2] # "off"

\* Bounds: the apps act before the turn and during its agent's work, and the second app,
\* which takes the first one's place, starts no process, is not refused, and neither quits
\* while connected nor comes while the first one quits.
Bounded ==
  IF desktop
  THEN /\ turn'[r2] = "idle" /\ turn'[r1] # "team" /\ \A p \in Pages : ~page'[p].open
       /\ turn[r1] \in {"idle", "agent"} \/ UNCHANGED <<app, proc, running>>
       /\ proc'[b2] = "none" /\ app'[b2] # "quitting" /\ ~Refuse(b2)
       /\ app'[b1] = "quitting" => app'[b2] = "off"
  ELSE (\A b \in Apps : app'[b] = "off") /\ UNCHANGED call

Init == RemoteInit /\ desktop \in BOOLEAN

Next == RemoteNext /\ Ordered /\ Bounded /\ UNCHANGED desktop

Spec == Init /\ [][Next]_<<remoteVars, desktop>> /\ RemoteFairness
================================================================================
