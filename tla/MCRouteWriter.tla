--------------------------- MODULE MCRouteWriter ---------------------------
(* RouteWriter for TLC.  The ten backups that are kept become two.         *)
EXTENDS RouteWriter

Symmetric == Permutations(Window)
=============================================================================
