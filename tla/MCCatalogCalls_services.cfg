SPECIFICATION ClientSpec
CONSTANTS
    c1 = c1
    c2 = c2
    Credentials = {c1, c2}
    None = None
    MaxAttempts = 2
    MaxRedirects = 2
    MaxChunks = 3
    MaxBytes = 2
    MaxPolls = 2
    Intervals = {0, 1, 2}
    Budget = 4
    MaxDelay = 3
    MaxWaits = 2
INVARIANTS ReceiptIsTruthful WriteIsSentOnce NothingSentUnchecked FailureIsSettled RedirectsKeepSecrets
INVARIANTS OutcomeMatchesResult SucceededIsWhole  LeaseIsHonoured
PROPERTIES EveryCallEnds WaitEnds
CHECK_DEADLOCK FALSE
