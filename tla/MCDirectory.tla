---------------------------- MODULE MCDirectory ----------------------------
(***************************************************************************)
(* A small instance of Directory for TLC. Company c1 has the administrator *)
(* ua without an employee row, the employee e1 of user ux, the manager e2  *)
(* of user um, two departments and a position; company c2 has a department *)
(* and a position, which a platform administrator (root) can name.         *)
(***************************************************************************)
EXTENDS Directory, TLC

CONSTANTS c1, c2, root, ua, um, ux, e1, e2, e3, d1, d2, d3, p1, p2, l1, l2, r1, r2

Person(label, user) ==
  [company |-> c1, label |-> label, user |-> user, department |-> d1, position |-> None,
   manager |-> None, status |-> "ACTIVE"]

MCRow == [i \in Id |->
  CASE i = e1 -> [Person(l1, ux) EXCEPT !.position = p1]
    [] i = e2 -> Person(l2, um)
    [] i = d1 -> [company |-> c1, label |-> l1, manager |-> None]
    [] i = d2 -> [company |-> c2, label |-> l1, manager |-> None]
    [] i = p1 -> [company |-> c1, label |-> l1, department |-> d1]
    [] i = p2 -> [company |-> c2, label |-> l1, department |-> d2]
    [] OTHER -> None]

MCMember == [u \in User |-> [c \in Company |->
  IF c = c2 \/ u = root THEN None
  ELSE [active |-> TRUE,
        role |-> CASE u = ua -> "COMPANY_ADMIN" [] u = um -> "MANAGER" [] u = ux -> "EMPLOYEE"]]]

MCPatches ==
  [employee   |-> ({"manager"} \X {None, e1, e2, e3}) \cup ({"user"} \X {None, ux})
                  \cup ({"department"} \X {d2, d3}) \cup {<<"position", p1>>, <<"position", p2>>,
                  <<"label", l2>>, <<"status", "INACTIVE">>},
   department |-> {<<"manager", e1>>, <<"label", l2>>},
   position   |-> {<<"department", d3>>, <<"department", d2>>}]

MCDrafts ==
  [employee   |-> {[label |-> l2, user |-> None, department |-> d1, position |-> p1,
                    manager |-> e2, status |-> "ACTIVE"]},
   department |-> {[label |-> l2, manager |-> e1]},
   position   |-> {}]

MCJoins ==
  {<<ux, c1, "EMPLOYEE", TRUE>>, <<ux, c1, "MANAGER", TRUE>>, <<ux, c1, "MANAGER", FALSE>>,
   <<ux, c2, "MANAGER", TRUE>>}

Symmetry == Permutations({r1, r2})
=============================================================================
