CONSTANTS
  Clients = {c1, c2}
  Keys = {k1, k2}
  Payloads = {a, b}
  None = None
  OldRows = FALSE
  MaxFaults = 0
SPECIFICATION Spec
INVARIANTS HitMatchesRow
SYMMETRY Symmetry
