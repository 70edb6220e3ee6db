SPECIFICATION FairSpec
CONSTANTS
  e1 = e1
  m1 = m1
  a1 = a1
  annual = annual
  None = None
  Employee = {e1}
  Manager = {}
  Admin = {a1}
  LeaveType = {annual}
  Request = {r1}
  Worker = {w1, w2}
  Day = {1}
  YearOf <- MCYearOf
  WorkingDay = {1}
  Submitter = {e1}
  Span <- FirstDay
  Allocation = {0}
  OpenedBalance = {}
  BatchYear = {2026}
  TypeEdit <- TwoTypes
  FirstManager <- NoManager
  ReportingLine = {}
  Leaver = {e1}
  MaxCrashes = 1
INVARIANT TypeOK
INVARIANT SavesAreAccepted
PROPERTY CommandKeepsBalances
PROPERTY HandlersFinish
PROPERTY OutcomeNotified
