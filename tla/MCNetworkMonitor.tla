-------------------------- MODULE MCNetworkMonitor --------------------------
(* NetworkMonitor for TLC.  The 3 s and 30 s of the code become 1 and 4.   *)
EXTENDS NetworkMonitor
=============================================================================
