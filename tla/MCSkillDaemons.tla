--------------------------- MODULE MCSkillDaemons ---------------------------
(* Instances of SkillDaemons for TLC. *)
EXTENDS SkillDaemons, TLC

OneDelay == <<1>>
TwoDelays == <<1, 2>>
MCSymmetry == Permutations(Pids) \cup Permutations(Requests)
=============================================================================
