SPECIFICATION FairSpec
CONSTANTS
  None = None
  u1 = u1  u2 = u2  a1 = a1  a2 = a2  s1 = s1
  User = {u1, u2}
  HasCompany = {u1}
  Api = {a1, a2}
  Slot = {s1}
  MaxCalls = 2
  MaxLogins = 2
  MaxPairs = 6
  MaxFaults = 2
  MaxEnds = 2
  MaxEvents = 3
INVARIANTS
  TypeOK
  SessionSound
  OneLivePair
PROPERTY RestoreEnds
CHECK_DEADLOCK FALSE
