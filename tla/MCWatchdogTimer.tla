-------------------------- MODULE MCWatchdogTimer --------------------------
(* WatchdogTimer on a small scale: the windows of 20 s and 30 s against    *)
(* the 3 s period of the heartbeat become 3 and 4 ticks against 2.         *)
EXTENDS WatchdogTimer
=============================================================================
