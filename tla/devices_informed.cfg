SPECIFICATION FairSpec
CONSTANTS
  e1 = e1
  m1 = m1
  a1 = a1
  None = None
  Employee = {e1, m1}
  Manager = {m1}
  Admin = {a1}
  Device = {d1}
  Worker = {w1, w2}
  Operator = {}
  FirstManager <- ManagedByM1
  ReportingLine <- LoseManager
  NewStatus = {"LOST"}
  MaxAssignments = 2
  MaxCrashes = 1
PROPERTY AssigneeInformed
