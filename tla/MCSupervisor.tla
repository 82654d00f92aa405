---------------------------- MODULE MCSupervisor ----------------------------
(* Supervisor for TLC.  Supervisors and versions are model values; the     *)
(* versions are only compared, so they may be permuted.                    *)
EXTENDS Supervisor, TLC

Versions == Permutations(Version)

(* For the symmetry that liveness does not allow: one version to begin     *)
(* with.                                                                   *)
First == CHOOSE v \in Version : TRUE
FromFirst == Init /\ source = [network |-> First, data |-> First]
FairFromFirst == FromFirst /\ [][Next]_vars /\ Fairness

(* A bound: one supervisor, an automatic or a manual one.  What those that *)
(* come after it meet is MCSupervisorRelaunch's, and the proofs'.          *)
OneLaunch == \A s, t \in Sup : pc[s] # "idle" /\ pc[t] # "idle" => s = t
=============================================================================
