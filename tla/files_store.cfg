SPECIFICATION Spec
CONSTANTS
  None = None
  Document = {d1}
  Request = {r1}
  Employee = {e1}
  Worker = {w1, w2}
  MaxObjects = 3
  MaxFaults = 1
SYMMETRY Symmetry
INVARIANT TypeOK
INVARIANT FilePresent
INVARIANT NoOrphan
CHECK_DEADLOCK FALSE
