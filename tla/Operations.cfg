\* Two requests for one container, and everything that may happen.
CONSTANTS
  Requests = {r1, r2}
  VmIds = {v1}
  BackupIds = {b1}
  Env = {"refuse", "lost", "stranger"}
  None = None
SPECIFICATION Spec
INVARIANTS TypeOK StrangersUnharmed RevivedOnlyInMuddle EndsOnlyForCause
SYMMETRY MCSymmetry
