\* Two requests; any call may fail.
CONSTANTS
  Requests = {r1, r2}
  n1 = n1
  n2 = n2
  n3 = n3
  Nodes = {n1, n2, n3}
  Cluster = {n1, n2}
  MaxLocations = 3
  MaxChanges = 1
  Names = {x}
  Statuses <- MCStatuses
  Seed <- MCSeed
  None = None
SPECIFICATION Spec
INVARIANTS TypeOK ChoosesBest EqualLocations
SYMMETRY MCSymmetry
CHECK_DEADLOCK FALSE
