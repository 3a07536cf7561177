CONSTANTS
  w1 = w1  w2 = w2  alice = alice  bob = bob
  cfgA = cfgA  cfgB = cfgB  runA = runA  None = None
  Workers = {w1, w2}
  Operators = {alice}
  Cleared = {}
  Configs = {cfgA, cfgB}
  RunIds = {runA}
  RunIdOf <- OneRun
  MaxVersion = 1
  MaxClaims = 1
  MaxAttempts = 1
  MaxFaults = 0
SPECIFICATION Spec
CHECK_DEADLOCK FALSE
PROPERTIES OutboundGateSeesRaise
