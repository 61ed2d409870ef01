\* One request that writes at a time, agents at any time, no call fails half-way.
CONSTANTS
  Requests = {r1, r2}
  VmIds = {v1, v2}
  a1 = a1
  a2 = a2
  Addrs = {a1, a2}
  Outside = Outside
  None = None
  k1 = k1
  k2 = k2
  k3 = k3
  Keys = {k1, k2}
  n1 = n1
  n2 = n2
  Nodes = {n1}
  l1 = l1
  Locations = {l1}
  LocationOf <- MCLocationOf
  SeedAddr <- MCSeedAddr
  SeedLinks <- MCSeedLinks
  AddrLists <- MCAddrLists
  Exclusive = {"create", "delete", "pool"}
  RejectionKills = FALSE
  Env = {"refuseCreate", "operator", "stranger", "refuseRename"}
SPECIFICATION MishapSpec
INVARIANTS SerialInv Agreement
PROPERTIES CreatedIsTrue OutsideUntouched ImplementsFleet ReadyIsNamedUnlessLate
