CONSTANTS
  a1 = a1
  a2 = a2
  b1 = b1
  LoopA = LoopA
  LoopB = LoopB
  None = None
  Calls = {a1, a2, b1}
  Thread <- ThreadOf
  FailureThreshold = 1
  MaxToken = 1
  MaxFaults = 2
SPECIFICATION FairSpec
INVARIANTS RefreshedOnce RefreshTokenSurvives TrialHasRequest
PROPERTIES EveryResolveReturns
