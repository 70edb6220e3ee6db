SPECIFICATION Spec
CONSTANTS
  None = None
  c1 = c1  c2 = c2  root = root  ua = ua  um = um  ux = ux
  e1 = e1  e2 = e2  e3 = e3  d1 = d1  d2 = d2  d3 = d3  p1 = p1  p2 = p2
  l1 = l1  l2 = l2  r1 = r1  r2 = r2
  Company = {c1, c2}
  User = {root, ua, um, ux}
  PlatformAdmin = {root}
  Employee = {e1, e2, e3}
  Department = {d1, d2, d3}
  Position = {p1, p2}
  Label = {l1, l2}
  Request = {r1, r2}
  MaxWrites = 3
  Patches <- MCPatches
  Drafts <- MCDrafts
  Joins <- MCJoins
  Holding = {e2}
  FirstRow <- MCRow
  FirstMember <- MCMember
SYMMETRY Symmetry
INVARIANTS
  TypeOK
  ReferencesHold
  NoneTwice
  AuditTellsRow
  ListMatchesDetail
CHECK_DEADLOCK FALSE
