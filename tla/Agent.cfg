\* One agent and one request that updates the configuration, every event.
CONSTANTS
  Callers = {p1}
  o1 = o1
  OptionSets = {o1}
  c1 = c1
  CommandLists <- MCCommandLists
  Seed <- MCSeed
  None = None
  Env = {"crash", "reboot", "command", "install", "lost", "drop"}
  Sockets = {s1, s2}
  MaxDrops = 1
  MaxHandlers = 1
SPECIFICATION FairSpec
INVARIANTS TypeOK MarkedKnowsDaemon MarkedHasBegun OneListener
PROPERTIES Connects
CHECK_DEADLOCK FALSE
