\* Three calls at once; two tickets may expire, two calls or logins may fail.
CONSTANTS
  Calls = {c1, c2, c3}
  Startup = Startup
  MaxFaults = 2
  MaxExpired = 2
SPECIFICATION FairSpec
INVARIANTS TypeOK
PROPERTIES ImplementsRemoteCall CallsEnd
CHECK_DEADLOCK FALSE
