------------------------------- MODULE MCLeave -------------------------------
(***************************************************************************)
(* Small instances of Leave for TLC: employee e1 asks for leave, m1 is a   *)
(* manager, a1 the company administrator; dates 1 and 2 are in 2026, date  *)
(* 3 in 2027; a leave type allows two days.                                *)
(***************************************************************************)
EXTENDS Leave, TLC

CONSTANTS e1, m1, a1, annual

MCYearOf == [d \in Day |-> IF d <= 2 THEN 2026 ELSE 2027]

ActiveTwo   == [status |-> "ACTIVE", allowed |-> 2]
InactiveOne == [status |-> "INACTIVE", allowed |-> 1]
OneType  == {ActiveTwo}
TwoTypes == {ActiveTwo, InactiveOne}

ManagedByM1 == [e \in Employee |-> IF e = e1 THEN m1 ELSE None]
NoManager   == [e \in Employee |-> None]
LoseManager == {<<e1, None>>}

AllSpans    == (Day \X Day)
FirstDay    == {<<1, 1>>}

BalanceOfE1 == {<<e1, annual, 2026>>}

Symmetry == Permutations(Request) \cup Permutations(Worker)
=============================================================================
