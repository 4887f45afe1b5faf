CONSTANTS
  Threads = {t1, t2}
  Tasks = {a1, a2}
  Requests = {r1}
  Placements <- OneLoopOrTwo
  a1 = a1  a2 = a2
  Scopes = {s1}
  Ops = {o1}
  None = None
  MaxEntries = 1
  MaxInvalidations = 1
SPECIFICATION FairSpec
INVARIANTS NoProbeOutlivesInvalidation RegistryIsExact
PROPERTIES EveryCallIsAnswered
CHECK_DEADLOCK FALSE
