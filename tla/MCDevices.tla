------------------------------ MODULE MCDevices ------------------------------
(***************************************************************************)
(* Small instances of Devices for TLC: m1 is a manager, e1 reports to m1,  *)
(* a1 is the company administrator.                                        *)
(***************************************************************************)
EXTENDS Devices, TLC

CONSTANTS e1, m1, a1

ManagedByM1 == [e \in Employee |-> IF e = e1 THEN m1 ELSE None]
NoManager   == [e \in Employee |-> None]
LoseManager == {<<e1, None>>}

Symmetry == Permutations(Worker)
=============================================================================
