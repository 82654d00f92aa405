-------------------------- MODULE MCStatusWatcher --------------------------
(* StatusWatcher for TLC.                                                  *)
EXTENDS StatusWatcher
=============================================================================
