SPECIFICATION Spec
CONSTANTS
  None = None
  e1 = e1  w1 = w1  w2 = w2  o1 = o1  r1 = r1  r2 = r2
  Employee = {e1}
  Row = {r1, r2}
  Worker = {w1, w2}
  Operator = {o1}
  MinutesPerDay = 3
  LastInstant = 4
  Zone <- MC_Zone
  Offset <- MC_Offset
  Date <- MC_Date
  Setting <- MC_Setting
  FirstSetting <- Office
  MaxChanges = 1
  FirstHoliday <- MC_FirstHoliday
SYMMETRY Symmetry
INVARIANTS
  TypeOK
  OneRowPerDate
  ShiftsRecorded
  StatusFollowsFacts
  SummaryConsistent
PROPERTY InstantsKept
CHECK_DEADLOCK FALSE
