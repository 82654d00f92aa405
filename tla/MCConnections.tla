--------------------------- MODULE MCConnections ---------------------------
(* Connections for TLC.  The history of 100 and the ten rows of a tab      *)
(* become two and one: with three connections something falls off both.    *)
EXTENDS Connections
=============================================================================
