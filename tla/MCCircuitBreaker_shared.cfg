CONSTANTS
  Callers = {"once", "each", "stream"}
  Style <- OneOfEach
  FailureThreshold = 2
  MaxAttempts = 3
  MaxFaults = 2
SPECIFICATION FairSpec
INVARIANTS TrialHasOwner UnsafeSentOnce
PROPERTIES Recovers
