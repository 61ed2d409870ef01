\* Two tasks, two containers that may have the same address one after the other.
CONSTANTS
  TaskIds = {t1, t2}
  Containers = {c1, c2}
  Addrs = {a1}
  MaxCommands = 2
  RejectionKills = FALSE
  Env = {"drop", "agentCrash", "replace", "crash", "throw"}
  None = None
SPECIFICATION Spec
INVARIANTS TypeOK   OneOutcome OutcomesAreRecorded
SYMMETRY MCSymmetry
CHECK_DEADLOCK FALSE
