\* One caller, and everything that can happen around it: of the other requests
\* it notices only that one of them may end the process, which crash does too.
CONSTANTS
  TaskIds = {t1}
  Containers = {c1, c2}
  Addrs = {a1, a2}
  MaxCommands = 2
  RejectionKills = TRUE
  Env = {"drop", "agentCrash", "replace", "crash", "throw"}
  None = None
SPECIFICATION FairSpec
PROPERTIES RequestsEnd 
CHECK_DEADLOCK FALSE
