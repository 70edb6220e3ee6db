------------------------------- MODULE Custody -------------------------------
(***************************************************************************)
(* What device assignment promises: a device is with one employee at a     *)
(* time, and passes to another one only after it came back or was lost.    *)
(***************************************************************************)
CONSTANTS Employee, Device

VARIABLE holders

Init == holders = [d \in Device |-> {}]

Take(d, e) ==
  /\ holders[d] = {}
  /\ holders' = [holders EXCEPT ![d] = {e}]

LetGo(d) ==
  /\ holders[d] # {}
  /\ holders' = [holders EXCEPT ![d] = {}]

Next == \E d \in Device : LetGo(d) \/ \E e \in Employee : Take(d, e)

Spec == Init /\ [][Next]_holders
=============================================================================
