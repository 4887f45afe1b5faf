CONSTANTS
  Clients = {c1}
  Keys = {k1, k2}
  Payloads = {a}
  None = None
  OldRows = TRUE
  MaxFaults = 2
SPECIFICATION FairSpec
INVARIANTS RowsHaveContent
PROPERTIES OrphansAreCollected
