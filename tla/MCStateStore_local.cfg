CONSTANTS
  t1 = t1  t2 = t2  t3 = t3  p1 = p1  p2 = p2
  Threads = {t1, t2, t3}
  Procs = {p1, p2}
  Proc <- TwoProcs
  Values = {v1, v2}
  Absent = Absent
  LockIds = {l1, l2}
  NoLock = NoLock
  NoThread = NoThread
  Backend = "local"
  LockTimeout = FALSE
  UnlockedOps = FALSE
SPECIFICATION Spec
INVARIANTS MutualExclusion OneLockPerProcess TransactionIsolated
PROPERTIES ImplementsCasRegister
SYMMETRY Symmetry
