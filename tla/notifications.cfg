SPECIFICATION Spec
CONSTANTS
  None = None
  emp = emp  adm1 = adm1  adm2 = adm2  c1 = c1  c2 = c2  q1 = q1  q2 = q2
  w1 = w1  w2 = w2  t1 = t1  t2 = t2
  User = {emp, adm1, adm2}
  Company = {c1, c2}
  EmployerOf <- MC_EmployerOf
  ManagerOf <- MC_ManagerOf
  AdminRole = {adm1, adm2}
  LeaveRequest = {q1, q2}
  OwnerOf <- MC_OwnerOf
  Device = {d1}
  FcmToken = {t1, t2}
  Worker = {w1, w2}
  Backend = "fcm"
  MaxCalls = 3
  MaxMoves = 1
SYMMETRY Symmetry
INVARIANTS
  TypeOK
  RowsUnique
PROPERTIES
  EveryoneTold
  ReadStays
  SwitchedOffByOwner
CHECK_DEADLOCK FALSE
