--------------------------- MODULE MCNotifications ---------------------------
(* A small instance of Notifications for TLC.                              *)
EXTENDS Notifications, TLC

CONSTANTS emp, adm1, adm2, c1, c2, q1, q2, w1, w2, t1, t2

MC_User == {emp, adm1, adm2}
MC_EmployerOf == [u \in MC_User |-> c1]
MC_ManagerOf  == [u \in MC_User |-> IF u = adm1 THEN adm2 ELSE None]
MC_OwnerOf    == (q1 :> emp) @@ (q2 :> adm1)
Symmetry      == Permutations({w1, w2}) \cup Permutations({t1, t2})
=============================================================================
