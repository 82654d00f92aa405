--------------------------- MODULE MCPreparation ---------------------------
(* Preparation for TLC: two profiles with a server each, the first of them *)
(* with two addresses.                                                     *)
EXTENDS Preparation

Servers == [p \in Profile |-> IF p = "a" THEN {2, 3} ELSE {4}]
Fakes   == {9}
Sites   == {1}
NoSites == {}
=============================================================================
