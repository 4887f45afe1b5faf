---------------------------- MODULE MCStateStore ----------------------------
(* StateStore on small instances: two threads of one process and a third    *)
(* thread in another process; on the memory backend all share one process.  *)
EXTENDS StateStore, TLC

CONSTANTS t1, t2, t3, p1, p2

TwoProcs == t1 :> p1 @@ t2 :> p1 @@ t3 :> p2
OneProc  == t1 :> p1 @@ t2 :> p1 @@ t3 :> p1
TwoApart == t1 :> p1 @@ t3 :> p2

\* Interchangeable in every run: values and lock objects are only compared, and
\* t1 and t2 always belong to the same process.
Symmetry == Permutations({t1, t2}) \cup Permutations(Values) \cup Permutations(LockIds)
=============================================================================
