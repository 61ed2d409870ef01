\* Whether requests end, whatever happens: with orphans too, whose token is never told.
CONSTANTS
  Requests = {r1, r2}
  Tokens = {k1}
  Containers = {c1}
  Addrs = {a1}
  MaxStarts = 2
  RejectionKills = FALSE
  Env = {"restart", "orphan", "serviceEnds", "drop", "replace", "throw"}
  None = None
SPECIFICATION FairSpec
PROPERTIES RequestsEnd
CHECK_DEADLOCK FALSE
