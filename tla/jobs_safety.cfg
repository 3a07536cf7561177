CONSTANTS
  w1 = w1  w2 = w2  alice = alice  bob = bob
  cfgA = cfgA  cfgB = cfgB  runA = runA  None = None
  Workers = {w1, w2}
  Operators = {alice, bob}
  Cleared = {bob}
  Configs = {cfgA}
  RunIds = {runA}
  RunIdOf <- OneRun
  MaxVersion = 1
  MaxClaims = 2
  MaxAttempts = 2
  MaxFaults = 2
SPECIFICATION Spec
SYMMETRY Symmetric
CHECK_DEADLOCK FALSE
INVARIANTS OneActiveAttempt AttemptHistory SucceededIsComplete ClaimsComeFromProposals SubmittedOnce
PROPERTIES NoNeedlessOutbound TerminalIsFinal
