----------------------------- MODULE MCControl -----------------------------
(* Control for TLC.  A supervisor is never used again: three of them allow *)
(* for a start and two restarts.                                           *)
EXTENDS Control, TLC

Supervisors == Permutations(Sup)
=============================================================================
