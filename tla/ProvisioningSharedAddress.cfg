\* Requests interleave and nothing fails.
CONSTANTS
  Requests = {r1, r2}
  VmIds = {v1, v2}
  a1 = a1
  a2 = a2
  Addrs = {a1, a2}
  Outside = Outside
  None = None
  k1 = k1
  k2 = k2
  k3 = k3
  Keys = {k1, k2}
  n1 = n1
  n2 = n2
  Nodes = {n1}
  l1 = l1
  Locations = {l1}
  LocationOf <- MCLocationOf
  SeedAddr <- MCSeedAddr
  SeedLinks <- MCSeedLinks
  AddrLists <- MCAddrLists
  Exclusive = {}
  RejectionKills = FALSE
  Env = {}
SPECIFICATION Spec
INVARIANTS DistinctAddresses
