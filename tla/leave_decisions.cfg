SPECIFICATION Spec
CONSTANTS
  e1 = e1
  m1 = m1
  a1 = a1
  annual = annual
  None = None
  Employee = {e1, m1}
  Manager = {m1}
  Admin = {}
  LeaveType = {annual}
  Request = {r1, r2}
  Worker = {w1, w2}
  Day = {1, 2}
  YearOf <- MCYearOf
  WorkingDay = {1, 2}
  Submitter = {e1}
  Span <- AllSpans
  Allocation = {}
  OpenedBalance <- BalanceOfE1
  BatchYear = {}
  TypeEdit <- OneType
  FirstManager <- ManagedByM1
  ReportingLine <- LoseManager
  Leaver = {e1}
  MaxCrashes = 0
SYMMETRY Symmetry
INVARIANT NoOverlap
INVARIANT UsedMatchesApproved
INVARIANT AuditTellsHistory
PROPERTY DecidedAtOnce
