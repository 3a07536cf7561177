CONSTANTS
  w1 = w1  w2 = w2  alice = alice  bob = bob
  cfgA = cfgA  cfgB = cfgB  runA = runA  None = None
  Workers = {w1, w2}
  Operators = {alice}
  Cleared = {}
  Configs = {cfgA}
  RunIds = {runA}
  RunIdOf <- OneRun
  MaxVersion = 2
  MaxClaims = 1
  MaxAttempts = 2
  MaxFaults = 0
SPECIFICATION FairSpec
CHECK_DEADLOCK FALSE
PROPERTIES AttemptsTerminate ImplementsLedger
