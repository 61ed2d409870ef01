\* Two requests, two tokens, two containers that may have the same address, whose
\* ids are given again.  Orphans are in ProxyManagerFair.cfg.
CONSTANTS
  Requests = {r1, r2}
  Tokens = {k1, k2}
  Containers = {c1, c2}
  Addrs = {a1}
  MaxStarts = 2
  RejectionKills = TRUE
  Env = {"restart", "replace"}
  None = None
SPECIFICATION Spec
INVARIANTS TypeOK   ClientsAreForTheirTokens
SYMMETRY MCSymmetry
VIEW MCView
CHECK_DEADLOCK FALSE
