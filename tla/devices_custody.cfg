SPECIFICATION Spec
CONSTANTS
  e1 = e1
  m1 = m1
  a1 = a1
  None = None
  Employee = {e1, m1}
  Manager = {m1}
  Admin = {a1}
  Device = {d1}
  Worker = {w1, w2}
  Operator = {o1}
  FirstManager <- ManagedByM1
  ReportingLine = {}
  NewStatus = {"AVAILABLE", "MAINTENANCE", "LOST"}
  MaxAssignments = 2
  MaxCrashes = 0
SYMMETRY Symmetry
INVARIANT TypeOK
INVARIANT StatusMatchesAssignments
INVARIANT CustodyAudited
PROPERTY HandedOverOnce
