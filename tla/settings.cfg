SPECIFICATION Spec
CONSTANTS
  None = None
  Keep = Keep
  n1 = n1
  n2 = n2
  Worker = {w1, w2}
  Name = {n1, n2}
  Hours = {1, 2, 3}
  Request <- Requests
  MaxLogos = 2
  MaxSaves = 1
  MaxFaults = 1
SYMMETRY Symmetry
INVARIANT TypeOK
INVARIANT Saveable
INVARIANT SettingsAudited
CHECK_DEADLOCK FALSE
