-------------------------- MODULE StateStoreProofs --------------------------
(***************************************************************************)
(* Theorems about StateStore, for any set of threads and processes, any    *)
(* number of values and lock objects, on the local and memory backends.    *)
(***************************************************************************)
EXTENDS StateStore, FiniteSetTheorems, TLAPS

\* Frames of t that have acquired the RLock and not released it yet.
RFrames(t) == IF pc[t] \in {"rlock", "exitGuard"} THEN frames[t] - 1 ELSE frames[t]

\* t is between taking and releasing the file lock of its outermost frame.
InsideFileLock(t) == inTxn[t] \/ pc[t] \in {"compare", "publish", "exit"}

\* The frames registered in process p, each counted once in users[p].
FramesOf(p) == {x \in Threads \X (1..Depth) : Proc[x[1]] = p /\ x[2] <= frames[x[1]]}

\* A thread's stack is determined by where it is: one frame for the transaction
\* it is in, one for the call it is entering or leaving.
StackInv ==
    \A t \in Threads :
        /\ pc[t] = "idle" <=> call[t] = "none"
        /\ call[t] = "txn" => ~inTxn[t] /\ pc[t] \notin {"compare", "publish"}
        /\ frames[t] = (IF inTxn[t] THEN 1 ELSE 0) + (IF call[t] = "none" THEN 0 ELSE 1)

\* Every registered frame refers to its process's registry entry, and to nothing
\* once it is gone; entries of different processes are different objects.
RegistryInv ==
    /\ \A t \in Threads, f \in 1..Depth :
          IF f <= frames[t] THEN ref[t][f] = registry[Proc[t]] /\ ref[t][f] # NoLock
                            ELSE ref[t][f] = NoLock
    /\ \A p, q \in Procs : registry[p] = registry[q] /\ registry[p] # NoLock => p = q

\* The user count is the number of registered frames.
UsersInv == \A p \in Procs : users[p] = Cardinality(FramesOf(p))

\* The RLock of a process is owned exactly by the thread with entered frames.
OwnerInv ==
    /\ \A t \in Threads : RFrames(t) > 0 =>
          /\ owner[registry[Proc[t]]] = t
          /\ count[registry[Proc[t]]] = RFrames(t)
    /\ \A l \in LockIds : IF owner[l] = NoThread
                          THEN count[l] = 0
                          ELSE RFrames(owner[l]) > 0 /\ l = registry[Proc[owner[l]]]

\* The file lock belongs to the outermost frame of the thread inside it.
FileLockInv ==
    \A t \in Threads :
        /\ held[t] = IF HasFileLock /\ InsideFileLock(t) THEN 1 ELSE 0
        /\ flock = t <=> held[t] = 1

LockInv == TypeOK /\ StackInv /\ RegistryInv /\ UsersInv /\ OwnerInv /\ FileLockInv
-----------------------------------------------------------------------------
(* Counting frames                                                          *)

\* A process has finitely many frames, so its user count is a natural number.
LEMMA FramesFinite ==
    ASSUME NEW p \in Procs
    PROVE  IsFiniteSet(FramesOf(p))
<1>1. IsFiniteSet(Threads)
  BY StateStoreAssumption
<1>2. IsFiniteSet(1..Depth)
  <2>1. 1 \in Int /\ Depth \in Int
    BY DEF Depth
  <2> QED
    BY <2>1, FS_Interval
<1>3. IsFiniteSet(Threads \X (1..Depth))
  BY <1>1, <1>2, FS_Product
<1> QED
  BY <1>3, FS_Subset DEF FramesOf

\* Pushing a frame on t's stack adds one frame to t's process and to no other.
LEMMA FramesPush ==
    ASSUME TypeOK, NEW t \in Threads, frames[t] < Depth,
           frames' = [frames EXCEPT ![t] = @ + 1],
           NEW p \in Procs
    PROVE  Cardinality(FramesOf(p)') =
               Cardinality(FramesOf(p)) + (IF Proc[t] = p THEN 1 ELSE 0)
<1> DEFINE top == <<t, frames[t] + 1>>
<1>1. CASE Proc[t] = p
  <2>1. FramesOf(p)' = FramesOf(p) \cup {top}
    BY <1>1, StateStoreAssumption DEF FramesOf, TypeOK, Depth
  <2>2. top \notin FramesOf(p)
    BY DEF FramesOf, TypeOK, Depth
  <2>3. IsFiniteSet(FramesOf(p))
    BY FramesFinite
  <2>4. Cardinality(FramesOf(p) \cup {top}) = Cardinality(FramesOf(p)) + 1
    BY <2>2, <2>3, FS_AddElement
  <2> QED
    BY <1>1, <2>1, <2>4
<1>2. CASE Proc[t] # p
  <2>1. FramesOf(p)' = FramesOf(p)
    BY <1>2, StateStoreAssumption DEF FramesOf, TypeOK, Depth
  <2>2. Cardinality(FramesOf(p)) \in Nat
    BY FramesFinite, FS_CardinalityType
  <2> QED
    BY <1>2, <2>1, <2>2
<1> QED
  BY <1>1, <1>2

\* Popping t's top frame removes one frame from t's process and from no other.
LEMMA FramesPop ==
    ASSUME TypeOK, NEW t \in Threads, frames[t] > 0,
           frames' = [frames EXCEPT ![t] = @ - 1],
           NEW p \in Procs
    PROVE  Cardinality(FramesOf(p)') =
               Cardinality(FramesOf(p)) - (IF Proc[t] = p THEN 1 ELSE 0)
<1> DEFINE top == <<t, frames[t]>>
<1>1. CASE Proc[t] = p
  <2>1. FramesOf(p)' = FramesOf(p) \ {top}
    BY <1>1, StateStoreAssumption DEF FramesOf, TypeOK, Depth
  <2>2. top \in FramesOf(p)
    BY <1>1 DEF FramesOf, TypeOK, Depth
  <2>3. IsFiniteSet(FramesOf(p))
    BY FramesFinite
  <2>4. Cardinality(FramesOf(p) \ {top}) = Cardinality(FramesOf(p)) - 1
    BY <2>2, <2>3, FS_RemoveElement
  <2> QED
    BY <1>1, <2>1, <2>4
<1>2. CASE Proc[t] # p
  <2>1. FramesOf(p)' = FramesOf(p)
    BY <1>2, StateStoreAssumption DEF FramesOf, TypeOK, Depth
  <2>2. Cardinality(FramesOf(p)) \in Nat
    BY FramesFinite, FS_CardinalityType
  <2> QED
    BY <1>2, <2>1, <2>2
<1> QED
  BY <1>1, <1>2

\* A frame of another thread of t's process keeps the user count above one.
LEMMA OtherUser ==
    ASSUME TypeOK, UsersInv, NEW t \in Threads, NEW u \in Threads,
           Proc[u] = Proc[t], frames[t] > 0, frames[u] > 0,
           t # u \/ frames[t] > 1
    PROVE  users[Proc[t]] > 1
<1> DEFINE F == FramesOf(Proc[t])
           a == <<t, 1>>
           b == IF t # u THEN <<u, 1>> ELSE <<t, 2>>
<1>0. Proc[t] \in Procs
  BY StateStoreAssumption
<1>1. a \in F /\ b \in F /\ a # b
  BY DEF FramesOf, TypeOK, Depth
<1>2. IsFiniteSet(F)
  BY <1>0, FramesFinite
<1>3. Cardinality(F \ {a}) = Cardinality(F) - 1 /\ IsFiniteSet(F \ {a})
  BY <1>1, <1>2, FS_RemoveElement
<1>4. Cardinality(F \ {a}) # 0
  BY <1>1, <1>3, FS_EmptySet
<1>5. Cardinality(F) \in Nat /\ Cardinality(F \ {a}) \in Nat
  BY <1>2, <1>3, FS_CardinalityType
<1>6. users[Proc[t]] = Cardinality(F)
  BY <1>0 DEF UsersInv
<1> QED
  BY <1>3, <1>4, <1>5, <1>6
-----------------------------------------------------------------------------
(* LockInv is inductive                                                     *)

\* The lock invariant holds before the first call.
LEMMA LockInit == Init => LockInv
<1> SUFFICES ASSUME Init PROVE LockInv
  OBVIOUS
<1>1. TypeOK
  BY StateStoreAssumption DEF Init, TypeOK, Depth, Contents
<1>2. StackInv
  BY DEF Init, StackInv
<1>3. RegistryInv
  BY StateStoreAssumption DEF Init, RegistryInv, Depth
<1>4. UsersInv
  <2> SUFFICES ASSUME NEW p \in Procs PROVE users[p] = Cardinality(FramesOf(p))
    BY DEF UsersInv
  <2>1. FramesOf(p) = {}
    BY DEF Init, FramesOf, Depth
  <2> QED
    BY <2>1, FS_EmptySet DEF Init
<1>5. OwnerInv
  BY DEF Init, OwnerInv, RFrames
<1>6. FileLockInv
  BY StateStoreAssumption DEF Init, FileLockInv, InsideFileLock
<1> QED
  BY <1>1, <1>2, <1>3, <1>4, <1>5, <1>6 DEF LockInv

\* Steps that touch no lock and keep the thread inside, or outside, its frame.
LEMMA UnlockedSteps ==
    ASSUME LockInv, NEW t \in Threads,
           GetWithVersion(t) \/ Compare(t) \/ Publish(t) \/ BackendFails(t)
           \/ Put(t) \/ Delete(t)
    PROVE  LockInv'
<1> USE DEF GetWithVersion, Compare, Publish, BackendFails, Put, Delete, lockVars, callVars
<1>1. TypeOK'
  <2>1. sighted' \in [Threads -> BOOLEAN]
    <3>1. inTxn[t] \in BOOLEAN /\ sighted \in [Threads -> BOOLEAN]
      BY DEF LockInv, TypeOK
    <3>2. CASE sighted' = [sighted EXCEPT ![t] = inTxn[t]]
      BY <3>1, <3>2, Zenon
    <3>3. CASE sighted' = sighted
      BY <3>1, <3>3
    <3> QED
      BY <3>2, <3>3
  <2>2. /\ file' \in Contents /\ by' \in {"cas", "unlocked"}
        /\ known' \in [Threads -> Contents]
        /\ outcome' \in [Threads -> {"none", "ok", "conflict", "failed"}]
    <3>1. file' \in Contents
      BY DEF LockInv, TypeOK, Contents
    <3>2. by' \in {"cas", "unlocked"}
      BY DEF LockInv, TypeOK
    <3>3. known' \in [Threads -> Contents]
      BY DEF LockInv, TypeOK
    <3>4. outcome' \in [Threads -> {"none", "ok", "conflict", "failed"}]
      BY DEF LockInv, TypeOK
    <3> QED
      BY <3>1, <3>2, <3>3, <3>4
  <2>3. pc' \in [Threads -> {"idle", "rlock", "flock", "compare", "publish",
                             "exit", "exitRLock", "exitGuard"}]
    BY DEF LockInv, TypeOK
  <2>4. UNCHANGED <<lockVars, call, inTxn, new>>
    OBVIOUS
  <2> QED
    BY <2>1, <2>2, <2>3, <2>4 DEF LockInv, TypeOK
<1>2. StackInv'
  BY DEF LockInv, TypeOK, StackInv
<1>3. RegistryInv'
  BY DEF LockInv, RegistryInv
<1>4. UsersInv'
  BY DEF LockInv, UsersInv, FramesOf
<1>5. OwnerInv'
  <2>1. \A u \in Threads : RFrames(u)' = RFrames(u)
    BY DEF LockInv, TypeOK, RFrames
  <2>2. \A l \in LockIds : owner[l] # NoThread => owner[l] \in Threads
    BY DEF LockInv, TypeOK
  <2> QED
    BY <2>1, <2>2 DEF LockInv, OwnerInv
<1>6. FileLockInv'
  <2>1. \A u \in Threads : InsideFileLock(u)' = InsideFileLock(u)
    BY DEF LockInv, TypeOK, InsideFileLock
  <2> QED
    BY <2>1 DEF LockInv, FileLockInv, HasFileLock
<1> QED
  BY <1>1, <1>2, <1>3, <1>4, <1>5, <1>6 DEF LockInv

\* Entering a frame: the thread registers, and owns nothing new yet.
LEMMA RegisterSteps ==
    ASSUME LockInv, NEW t \in Threads, EnterKeyLock(t) \/ BeginConditionalPut(t)
    PROVE  LockInv'
<1>0. /\ pc[t] = "idle" /\ call[t] = "none"
      /\ frames[t] < Depth /\ frames[t] \in 0..Depth
      /\ Proc[t] \in Procs
  BY StateStoreAssumption DEF EnterKeyLock, BeginConditionalPut, LockInv, StackInv, TypeOK, Depth
<1>1. PICK l \in LockIds :
        /\ IF registry[Proc[t]] = NoLock THEN FreshLock(l) ELSE l = registry[Proc[t]]
        /\ registry' = [registry EXCEPT ![Proc[t]] = l]
        /\ ref' = [ref EXCEPT ![t][frames[t] + 1] = l]
  BY DEF EnterKeyLock, BeginConditionalPut, Register
<1>2. /\ users' = [users EXCEPT ![Proc[t]] = @ + 1]
      /\ frames' = [frames EXCEPT ![t] = @ + 1]
      /\ pc' = [pc EXCEPT ![t] = "rlock"]
      /\ UNCHANGED <<file, owner, count, flock, held, inTxn, known, sighted, by>>
  BY DEF EnterKeyLock, BeginConditionalPut, Register
<1>3. \/ EnterKeyLock(t) /\ ~inTxn[t] /\ call' = [call EXCEPT ![t] = "txn"]
         /\ UNCHANGED <<new, outcome>>
      \/ /\ call' = [call EXCEPT ![t] = "cas"]
         /\ \E v \in Values : new' = [new EXCEPT ![t] = v]
         /\ outcome' = [outcome EXCEPT ![t] = "none"]
  BY DEF EnterKeyLock, BeginConditionalPut
<1>4. TypeOK'
  <2>1. /\ registry' \in [Procs -> LockIds \cup {NoLock}]
        /\ users' \in [Procs -> Nat]
        /\ frames' \in [Threads -> 0..Depth]
    BY <1>0, <1>1, <1>2 DEF LockInv, TypeOK, Depth
  <2>2. ref' \in [Threads -> [1..Depth -> LockIds \cup {NoLock}]]
    BY <1>0, <1>1 DEF LockInv, TypeOK, Depth
  <2>3. /\ call' \in [Threads -> {"none", "txn", "cas"}]
        /\ outcome' \in [Threads -> {"none", "ok", "conflict", "failed"}]
    BY <1>3 DEF LockInv, TypeOK
  <2>5. new' \in [Threads -> Contents]
    <3>1. Values \subseteq Contents
      BY DEF Contents
    <3> QED
      BY <3>1, <1>3 DEF LockInv, TypeOK
  <2>4. pc' \in [Threads -> {"idle", "rlock", "flock", "compare", "publish",
                             "exit", "exitRLock", "exitGuard"}]
    BY <1>2 DEF LockInv, TypeOK
  <2> QED
    BY <2>1, <2>2, <2>3, <2>4, <2>5, <1>2 DEF LockInv, TypeOK
<1>5. StackInv'
  BY <1>0, <1>2, <1>3 DEF LockInv, TypeOK, StackInv
<1>6. RegistryInv'
  <2>1. \A u \in Threads, f \in 1..Depth :
          (IF f <= frames[u] THEN ref[u][f] = registry[Proc[u]] /\ ref[u][f] # NoLock
                             ELSE ref[u][f] = NoLock)'
    <3> SUFFICES ASSUME NEW u \in Threads, NEW f \in 1..Depth
                 PROVE  (IF f <= frames[u] THEN ref[u][f] = registry[Proc[u]] /\ ref[u][f] # NoLock
                                           ELSE ref[u][f] = NoLock)'
      OBVIOUS
    <3>0. Proc[u] \in Procs
      BY StateStoreAssumption
    <3>1. l # NoLock
      BY StateStoreAssumption
    <3>2. CASE u = t /\ f = frames[t] + 1
      BY <3>0, <3>1, <3>2, <1>0, <1>1, <1>2 DEF LockInv, TypeOK, Depth
    <3>3. CASE ~(u = t /\ f = frames[t] + 1)
      <4>1. ref[u][f]' = ref[u][f]
        BY <3>3, <1>0, <1>1 DEF LockInv, TypeOK, Depth
      <4>2. f <= frames[u]' <=> f <= frames[u]
        BY <3>3, <1>0, <1>2 DEF LockInv, TypeOK, Depth
      <4>3. f <= frames[u] => registry[Proc[u]]' = registry[Proc[u]]
        BY <3>0, <1>0, <1>1 DEF LockInv, RegistryInv, TypeOK
      <4> QED
        BY <4>1, <4>2, <4>3 DEF LockInv, RegistryInv
    <3> QED
      BY <3>2, <3>3
  <2>2. \A p, q \in Procs : (registry[p] = registry[q] /\ registry[p] # NoLock => p = q)'
    BY <1>0, <1>1 DEF LockInv, RegistryInv, TypeOK, FreshLock
  <2> QED
    BY <2>1, <2>2 DEF RegistryInv
<1>7. UsersInv'
  <2> SUFFICES ASSUME NEW p \in Procs PROVE users[p]' = Cardinality(FramesOf(p)')
    BY DEF UsersInv
  <2>1. Cardinality(FramesOf(p)') = Cardinality(FramesOf(p)) + (IF Proc[t] = p THEN 1 ELSE 0)
    BY <1>0, <1>2, FramesPush DEF LockInv
  <2>2. Cardinality(FramesOf(p)) \in Nat
    BY FramesFinite, FS_CardinalityType
  <2> QED
    BY <2>1, <2>2, <1>0, <1>2 DEF LockInv, UsersInv, TypeOK
<1>8. OwnerInv'
  <2>1. \A u \in Threads : RFrames(u)' = RFrames(u)
    BY <1>0, <1>2 DEF LockInv, TypeOK, RFrames
  <2>2. \A u \in Threads : RFrames(u) > 0 =>
          registry[Proc[u]]' = registry[Proc[u]] /\ registry[Proc[u]] # NoLock
    <3> SUFFICES ASSUME NEW u \in Threads, RFrames(u) > 0
                 PROVE  registry[Proc[u]]' = registry[Proc[u]] /\ registry[Proc[u]] # NoLock
      OBVIOUS
    <3>1. 1 <= frames[u] /\ 1 \in 1..Depth
      BY DEF RFrames, LockInv, TypeOK, Depth
    <3>2. registry[Proc[u]] # NoLock
      BY <3>1 DEF LockInv, RegistryInv
    <3>3. Proc[u] \in Procs
      BY StateStoreAssumption
    <3> QED
      BY <3>2, <3>3, <1>0, <1>1 DEF LockInv, TypeOK
  <2>3. \A k \in LockIds : owner[k] # NoThread => owner[k] \in Threads
    BY DEF LockInv, TypeOK
  <2> QED
    BY <2>1, <2>2, <2>3, <1>2 DEF LockInv, OwnerInv
<1>9. FileLockInv'
  <2>1. \A u \in Threads : InsideFileLock(u)' = InsideFileLock(u)
    BY <1>0, <1>2 DEF LockInv, TypeOK, InsideFileLock
  <2> QED
    BY <2>1, <1>2 DEF LockInv, FileLockInv, HasFileLock
<1> QED
  BY <1>4, <1>5, <1>6, <1>7, <1>8, <1>9 DEF LockInv

\* The pc values, as a name for the typing steps below.
PCs == {"idle", "rlock", "flock", "compare", "publish", "exit", "exitRLock", "exitGuard"}

\* Taking the RLock: free, or already owned by the same thread.
LEMMA AcquireRLockStep ==
    ASSUME LockInv, NEW t \in Threads, AcquireRLock(t)
    PROVE  LockInv'
<1> DEFINE l == TopLock(t)
<1>0. /\ pc[t] = "rlock" /\ owner[l] \in {NoThread, t}
      /\ owner' = [owner EXCEPT ![l] = t]
      /\ count' = [count EXCEPT ![l] = @ + 1]
      /\ pc' = [pc EXCEPT ![t] = "flock"]
      /\ UNCHANGED <<file, registry, users, flock, frames, ref, held,
                     call, inTxn, known, new, outcome, sighted, by>>
  BY DEF AcquireRLock
<1>1. /\ frames[t] \in 1..Depth
      /\ l = registry[Proc[t]] /\ l \in LockIds /\ l # NoLock
  BY <1>0 DEF LockInv, StackInv, RegistryInv, TypeOK, TopLock, Depth
<1> HIDE DEF l
<1>2. TypeOK'
  <2>1. pc' \in [Threads -> PCs]
    BY <1>0 DEF LockInv, TypeOK, PCs
  <2>2. owner' \in [LockIds -> Threads \cup {NoThread}] /\ count' \in [LockIds -> Nat]
    BY <1>0, <1>1 DEF LockInv, TypeOK
  <2> QED
    BY <1>0, <2>1, <2>2 DEF LockInv, TypeOK, PCs
<1>3. StackInv'
  BY <1>0 DEF LockInv, TypeOK, StackInv
<1>4. RegistryInv'
  BY <1>0 DEF LockInv, RegistryInv
<1>5. UsersInv'
  BY <1>0 DEF LockInv, UsersInv, FramesOf
<1>6. OwnerInv'
  <2>1. \A u \in Threads : u # t => RFrames(u)' = RFrames(u)
    BY <1>0 DEF LockInv, TypeOK, RFrames
  <2>2. RFrames(t)' = RFrames(t) + 1 /\ RFrames(t) = frames[t] - 1 /\ RFrames(t) \in Nat
    BY <1>0, <1>1 DEF LockInv, TypeOK, RFrames, Depth
  <2>3. count[l] = RFrames(t)
    <3>1. CASE owner[l] = NoThread
      <4>1. count[l] = 0
        BY <3>1, <1>1 DEF LockInv, OwnerInv
      <4>2. ~(RFrames(t) > 0)
        BY <3>1, <1>1, StateStoreAssumption DEF LockInv, OwnerInv
      <4>3. \A n \in Nat : ~(n > 0) => n = 0
        OBVIOUS
      <4> QED
        BY <4>1, <4>2, <4>3, <2>2
    <3>2. CASE owner[l] = t
      <4>1. t # NoThread
        BY StateStoreAssumption
      <4>2. RFrames(t) > 0
        BY <3>2, <4>1, <1>1 DEF LockInv, OwnerInv
      <4> QED
        BY <4>2, <1>1 DEF LockInv, OwnerInv
    <3> QED
      BY <3>1, <3>2, <1>0
  <2>4. \A u \in Threads : RFrames(u)' > 0 =>
           owner[registry[Proc[u]]]' = u /\ count[registry[Proc[u]]]' = RFrames(u)'
    <3> SUFFICES ASSUME NEW u \in Threads, RFrames(u)' > 0
                 PROVE  owner[registry[Proc[u]]]' = u /\ count[registry[Proc[u]]]' = RFrames(u)'
      OBVIOUS
    <3>1. CASE u = t
      BY <3>1, <1>0, <1>1, <2>2, <2>3 DEF LockInv, TypeOK
    <3>2. CASE u # t
      <4>1. owner[registry[Proc[u]]] = u /\ count[registry[Proc[u]]] = RFrames(u)
        BY <3>2, <2>1 DEF LockInv, OwnerInv
      <4>2. registry[Proc[u]] # l
        BY <4>1, <3>2, <1>0, StateStoreAssumption
      <4> QED
        BY <4>1, <4>2, <3>2, <2>1, <1>0
    <3> QED
      BY <3>1, <3>2
  <2>5. \A k \in LockIds : IF owner[k]' = NoThread THEN count[k]' = 0
                           ELSE RFrames(owner[k])' > 0 /\ k = registry[Proc[owner[k]]]'
    <3> SUFFICES ASSUME NEW k \in LockIds
                 PROVE  IF owner[k]' = NoThread THEN count[k]' = 0
                        ELSE RFrames(owner[k])' > 0 /\ k = registry[Proc[owner[k]]]'
      OBVIOUS
    <3>1. CASE k = l
      <4>1. owner[k]' = t /\ t # NoThread
        BY <3>1, <1>0, StateStoreAssumption DEF LockInv, TypeOK
      <4>2. RFrames(owner[k])' = RFrames(t)'
        BY <4>1 DEF RFrames
      <4> QED
        BY <4>1, <4>2, <3>1, <1>0, <1>1, <2>2
    <3>2. CASE k # l
      <4>1. owner[k]' = owner[k] /\ count[k]' = count[k]
        BY <3>2, <1>0 DEF LockInv, TypeOK
      <4>2. CASE owner[k] = NoThread
        BY <4>1, <4>2 DEF LockInv, OwnerInv
      <4>3. CASE owner[k] # NoThread
        <5>1. owner[k] \in Threads /\ owner[k] # t /\ k = registry[Proc[owner[k]]]
              /\ RFrames(owner[k]) > 0
          BY <4>3, <3>2, <1>1 DEF LockInv, OwnerInv, TypeOK
        <5>2. RFrames(owner[k])' = RFrames(owner[k])
          BY <5>1, <4>1, <1>0 DEF LockInv, TypeOK, RFrames
        <5>3. registry[Proc[owner[k]]]' = registry[Proc[owner[k]]]
          BY <4>1, <1>0
        <5> QED
          BY <5>1, <5>2, <5>3, <4>1, <4>3
      <4> QED
        BY <4>2, <4>3
    <3> QED
      BY <3>1, <3>2
  <2> QED
    BY <2>4, <2>5 DEF OwnerInv
<1>7. FileLockInv'
  <2>1. \A u \in Threads : InsideFileLock(u)' = InsideFileLock(u)
    BY <1>0 DEF LockInv, TypeOK, InsideFileLock
  <2> QED
    BY <2>1, <1>0 DEF LockInv, FileLockInv, HasFileLock
<1> QED
  BY <1>2, <1>3, <1>4, <1>5, <1>6, <1>7 DEF LockInv

\* The RLocks stay as they are when no thread's entered frames change.
LEMMA OwnerUnchanged ==
    ASSUME LockInv, UNCHANGED <<owner, count, registry>>,
           \A u \in Threads : RFrames(u)' = RFrames(u)
    PROVE  OwnerInv'
<1>1. \A l \in LockIds : owner[l] # NoThread => owner[l] \in Threads
  BY DEF LockInv, TypeOK
<1> QED
  BY <1>1 DEF LockInv, OwnerInv

\* Releasing, or giving up on, the file lock, and the end of a key_lock block.
LEMMA FileLockSteps ==
    ASSUME LockInv, NEW t \in Threads,
           FileLockTimesOut(t) \/ ExitKeyLock(t) \/ ReleaseFileLock(t)
    PROVE  LockInv'
<1> USE DEF FileLockTimesOut, ExitKeyLock, ReleaseFileLock, lockVars
<1>0. /\ pc[t] \in PCs /\ frames[t] \in 0..Depth /\ held[t] \in {0, 1}
      /\ UNCHANGED <<file, registry, users, owner, count, frames, ref, known, new, by>>
  BY DEF LockInv, TypeOK, FileLockInv, PCs
<1>1. TypeOK'
  <2>1. pc' \in [Threads -> PCs]
    <3>1. pc' = [pc EXCEPT ![t] = "exitRLock"] \/ pc' = [pc EXCEPT ![t] = "exit"]
      OBVIOUS
    <3>2. pc \in [Threads -> PCs] /\ "exitRLock" \in PCs /\ "exit" \in PCs
      BY DEF LockInv, TypeOK, PCs
    <3> QED
      BY ONLY <3>1, <3>2
  <2>2. call' \in [Threads -> {"none", "txn", "cas"}]
    BY DEF LockInv, TypeOK
  <2>3. outcome' \in [Threads -> {"none", "ok", "conflict", "failed"}]
    BY DEF LockInv, TypeOK
  <2>4. held' \in [Threads -> 0..Depth] /\ flock' \in Threads \cup {NoThread}
    BY DEF LockInv, TypeOK, Depth
  <2>5. inTxn' \in [Threads -> BOOLEAN]
    BY DEF LockInv, TypeOK
  <2>6. sighted' \in [Threads -> BOOLEAN]
    BY DEF LockInv, TypeOK
  <2> QED
    BY <1>0, <2>1, <2>2, <2>3, <2>4, <2>5, <2>6 DEF LockInv, TypeOK, PCs
<1>2. StackInv'
  BY DEF LockInv, TypeOK, StackInv
<1>3. RegistryInv'
  BY <1>0 DEF LockInv, RegistryInv
<1>4. UsersInv'
  BY <1>0 DEF LockInv, UsersInv, FramesOf
<1>5. OwnerInv'
  <2>1. \A u \in Threads : RFrames(u)' = RFrames(u)
    BY DEF LockInv, TypeOK, RFrames
  <2> QED
    BY <1>0, <2>1, OwnerUnchanged
<1>6. FileLockInv'
  <2>1. \A u \in Threads : u # t =>
           InsideFileLock(u)' = InsideFileLock(u) /\ held[u]' = held[u] /\ (flock' = u <=> flock = u)
    BY StateStoreAssumption DEF LockInv, TypeOK, InsideFileLock, FileLockInv
  <2>2. /\ held[t]' = IF HasFileLock /\ InsideFileLock(t)' THEN 1 ELSE 0
        /\ flock' = t <=> held[t]' = 1
    <3>0. /\ held[t] = IF HasFileLock /\ InsideFileLock(t) THEN 1 ELSE 0
          /\ flock = t <=> held[t] = 1
          /\ t # NoThread
      BY StateStoreAssumption DEF LockInv, FileLockInv
    <3>2. CASE FileLockTimesOut(t)
      <4>1. ~InsideFileLock(t) /\ ~InsideFileLock(t)'
        BY <3>0, <3>2 DEF LockInv, TypeOK, InsideFileLock
      <4> QED
        BY <3>0, <3>2, <4>1
    <3>3. CASE ExitKeyLock(t)
      <4>1. InsideFileLock(t) /\ InsideFileLock(t)'
        BY <3>3 DEF LockInv, TypeOK, InsideFileLock
      <4> QED
        BY <3>0, <3>3, <4>1
    <3>4. CASE ReleaseFileLock(t)
      <4>1. InsideFileLock(t) /\ (InsideFileLock(t)' <=> inTxn[t])
        BY <3>4 DEF LockInv, TypeOK, InsideFileLock
      <4>2. frames[t] = IF inTxn[t] THEN 2 ELSE 1
        BY <3>4 DEF LockInv, TypeOK, StackInv
      <4> QED
        BY <3>0, <3>4, <4>1, <4>2 DEF LockInv, TypeOK
    <3> QED
      BY <3>2, <3>3, <3>4
  <2> QED
    BY <2>1, <2>2 DEF LockInv, FileLockInv, HasFileLock
<1> QED
  BY <1>1, <1>2, <1>3, <1>4, <1>5, <1>6 DEF LockInv

\* Taking the file lock, which enters the key_lock block or conditional_put.
LEMMA AcquireFileLockStep ==
    ASSUME LockInv, NEW t \in Threads, AcquireFileLock(t)
    PROVE  LockInv'
<1>0. /\ pc[t] = "flock" /\ call[t] \in {"txn", "cas"} /\ frames[t] \in 1..Depth
      /\ held[t] \in {0, 1} /\ inTxn[t] \in BOOLEAN
      /\ frames[t] = IF inTxn[t] THEN 2 ELSE 1
      /\ call[t] = "txn" => ~inTxn[t]
  BY DEF AcquireFileLock, LockInv, TypeOK, StackInv, FileLockInv, Depth
<1>1. /\ UNCHANGED <<file, registry, users, owner, count, frames, ref, known, new,
                     outcome, sighted, by>>
      /\ IF ~HasFileLock \/ held[t] # 0
         THEN UNCHANGED <<flock, held>>
         ELSE /\ flock = NoThread /\ flock' = t
              /\ held' = [held EXCEPT ![t] = frames[t]]
  BY DEF AcquireFileLock
<1>2. \/ /\ call[t] = "txn" /\ call' = [call EXCEPT ![t] = "none"]
         /\ pc' = [pc EXCEPT ![t] = "idle"] /\ inTxn' = [inTxn EXCEPT ![t] = TRUE]
      \/ /\ call[t] = "cas" /\ call' = call
         /\ pc' = [pc EXCEPT ![t] = "compare"] /\ inTxn' = inTxn
  <2>1. CASE call[t] = "txn"
    BY <2>1 DEF AcquireFileLock
  <2>2. CASE call[t] = "cas"
    <3>1. pc' = [pc EXCEPT ![t] = "compare"] /\ call' = [call EXCEPT ![t] = call[t]]
      BY <2>2 DEF AcquireFileLock
    <3>2. call' = call
      BY <3>1 DEF LockInv, TypeOK
    <3>3. inTxn' = [inTxn EXCEPT ![t] = inTxn[t] \/ FALSE]
      BY <2>2 DEF AcquireFileLock
    <3>4. (inTxn[t] \/ FALSE) = inTxn[t]
      BY <1>0, Zenon
    <3>5. inTxn' = [inTxn EXCEPT ![t] = inTxn[t]]
      BY <3>3, <3>4, Zenon
    <3>6. inTxn' = inTxn
      BY <3>5 DEF LockInv, TypeOK
    <3> QED
      BY <2>2, <3>1, <3>2, <3>6
  <2> QED
    BY <1>0, <2>1, <2>2
<1>3. TypeOK'
  <2>1. pc' \in [Threads -> PCs] /\ call' \in [Threads -> {"none", "txn", "cas"}]
    BY <1>2 DEF LockInv, TypeOK, PCs
  <2>2. inTxn' \in [Threads -> BOOLEAN]
    BY <1>2 DEF LockInv, TypeOK
  <2>3. held' \in [Threads -> 0..Depth] /\ flock' \in Threads \cup {NoThread}
    BY <1>0, <1>1 DEF LockInv, TypeOK, Depth
  <2> QED
    BY <1>1, <2>1, <2>2, <2>3 DEF LockInv, TypeOK, PCs
<1>4. StackInv'
  <2>1. CASE call[t] = "txn"
    <3>1. pc[t]' = "idle" /\ call[t]' = "none" /\ inTxn[t]' /\ frames[t]' = 1
      BY <2>1, <1>0, <1>1, <1>2 DEF LockInv, TypeOK
    <3>2. \A u \in Threads : u # t => pc[u]' = pc[u] /\ call[u]' = call[u]
                                      /\ inTxn[u]' = inTxn[u] /\ frames[u]' = frames[u]
      BY <2>1, <1>1, <1>2 DEF LockInv, TypeOK
    <3> QED
      BY <3>1, <3>2 DEF LockInv, StackInv
  <2>2. CASE call[t] = "cas"
    BY <2>2, <1>0, <1>1, <1>2 DEF LockInv, TypeOK, StackInv
  <2> QED
    BY <1>0, <2>1, <2>2
<1>5. RegistryInv'
  BY <1>1 DEF LockInv, RegistryInv
<1>6. UsersInv'
  BY <1>1 DEF LockInv, UsersInv, FramesOf
<1>7. OwnerInv'
  <2>1. \A u \in Threads : RFrames(u)' = RFrames(u)
    BY <1>0, <1>1, <1>2 DEF LockInv, TypeOK, RFrames
  <2> QED
    BY <1>1, <2>1, OwnerUnchanged
<1>8. FileLockInv'
  <2>1. \A u \in Threads : u # t => InsideFileLock(u)' = InsideFileLock(u)
    BY <1>2 DEF LockInv, TypeOK, InsideFileLock
  <2>2. InsideFileLock(t)' /\ (InsideFileLock(t) <=> inTxn[t])
    BY <1>0, <1>2 DEF LockInv, TypeOK, InsideFileLock
  <2>3. held[t] = IF HasFileLock /\ inTxn[t] THEN 1 ELSE 0
    BY <2>2 DEF LockInv, FileLockInv
  <2>4. CASE ~HasFileLock \/ held[t] # 0
    BY <1>0, <1>1, <2>1, <2>2, <2>3, <2>4 DEF LockInv, FileLockInv, HasFileLock
  <2>5. CASE HasFileLock /\ held[t] = 0
    <3>1. /\ ~inTxn[t] /\ frames[t] = 1 /\ flock = NoThread /\ flock' = t
          /\ held' = [held EXCEPT ![t] = 1]
      BY <1>0, <1>1, <2>3, <2>5
    <3> QED
      BY <2>1, <2>2, <2>5, <3>1, StateStoreAssumption DEF LockInv, FileLockInv, HasFileLock, TypeOK
  <2> QED
    BY <2>4, <2>5
<1> QED
  BY <1>3, <1>4, <1>5, <1>6, <1>7, <1>8 DEF LockInv

\* Releasing the RLock: the owner gives up one of its entered frames.
LEMMA ReleaseRLockStep ==
    ASSUME LockInv, NEW t \in Threads, ReleaseRLock(t)
    PROVE  LockInv'
<1> DEFINE l == TopLock(t)
<1>0. /\ pc[t] = "exitRLock"
      /\ count' = [count EXCEPT ![l] = @ - 1]
      /\ owner' = [owner EXCEPT ![l] = IF count[l] = 1 THEN NoThread ELSE @]
      /\ pc' = [pc EXCEPT ![t] = "exitGuard"]
      /\ UNCHANGED <<file, registry, users, flock, frames, ref, held,
                     call, inTxn, known, new, outcome, sighted, by>>
  BY DEF ReleaseRLock
<1>1. /\ frames[t] \in 1..Depth
      /\ l = registry[Proc[t]] /\ l \in LockIds /\ l # NoLock
  <2>1. call[t] # "none"
    BY <1>0 DEF LockInv, StackInv
  <2>2. frames[t] \in 1..Depth
    BY <2>1 DEF LockInv, StackInv, TypeOK, Depth
  <2>3. l = registry[Proc[t]] /\ l # NoLock
    BY <2>2 DEF LockInv, RegistryInv, TypeOK, TopLock, Depth
  <2>4. registry[Proc[t]] \in LockIds \cup {NoLock}
    BY StateStoreAssumption DEF LockInv, TypeOK
  <2> QED
    BY <2>2, <2>3, <2>4
<1> HIDE DEF l
<1>2. RFrames(t) = frames[t] /\ RFrames(t)' = frames[t] - 1
  BY <1>0, <1>1 DEF LockInv, TypeOK, RFrames
<1>3. owner[l] = t /\ count[l] = frames[t]
  <2>1. RFrames(t) > 0
    BY <1>1, <1>2 DEF Depth
  <2> QED
    BY <2>1, <1>1, <1>2 DEF LockInv, OwnerInv
<1>4. TypeOK'
  <2>1. pc' \in [Threads -> PCs]
    BY <1>0 DEF LockInv, TypeOK, PCs
  <2>2. owner' \in [LockIds -> Threads \cup {NoThread}] /\ count' \in [LockIds -> Nat]
    BY <1>0, <1>1, <1>3 DEF LockInv, TypeOK, Depth
  <2> QED
    BY <1>0, <2>1, <2>2 DEF LockInv, TypeOK, PCs
<1>5. StackInv'
  BY <1>0 DEF LockInv, TypeOK, StackInv
<1>6. RegistryInv'
  BY <1>0 DEF LockInv, RegistryInv
<1>7. UsersInv'
  BY <1>0 DEF LockInv, UsersInv, FramesOf
<1>8. OwnerInv'
  <2>1. \A u \in Threads : u # t => RFrames(u)' = RFrames(u)
    BY <1>0 DEF LockInv, TypeOK, RFrames
  <2>2. /\ owner'[l] = IF frames[t] = 1 THEN NoThread ELSE t
        /\ count'[l] = frames[t] - 1
    BY <1>0, <1>1, <1>3 DEF LockInv, TypeOK
  <2>3. \A k \in LockIds : k # l => owner[k]' = owner[k] /\ count[k]' = count[k]
    BY <1>0 DEF LockInv, TypeOK
  <2>4. \A u \in Threads : u # t => ~(RFrames(u) > 0 /\ registry[Proc[u]] = l)
    BY <1>1, <1>3 DEF LockInv, OwnerInv
  <2>5. \A u \in Threads : RFrames(u)' > 0 =>
           owner[registry[Proc[u]]]' = u /\ count[registry[Proc[u]]]' = RFrames(u)'
    <3> SUFFICES ASSUME NEW u \in Threads, RFrames(u)' > 0
                 PROVE  owner[registry[Proc[u]]]' = u /\ count[registry[Proc[u]]]' = RFrames(u)'
      OBVIOUS
    <3>1. CASE u = t
      BY <3>1, <1>0, <1>1, <1>2, <2>2 DEF Depth
    <3>2. CASE u # t
      <4>1. owner[registry[Proc[u]]] = u /\ count[registry[Proc[u]]] = RFrames(u)
        BY <3>2, <2>1 DEF LockInv, OwnerInv
      <4>2. registry[Proc[u]] # l
        BY <3>2, <2>1, <2>4
      <4> QED
        BY <4>1, <4>2, <3>2, <2>1, <1>0
    <3> QED
      BY <3>1, <3>2
  <2>6. \A k \in LockIds : IF owner[k]' = NoThread THEN count[k]' = 0
                           ELSE RFrames(owner[k])' > 0 /\ k = registry[Proc[owner[k]]]'
    <3> SUFFICES ASSUME NEW k \in LockIds
                 PROVE  IF owner[k]' = NoThread THEN count[k]' = 0
                        ELSE RFrames(owner[k])' > 0 /\ k = registry[Proc[owner[k]]]'
      OBVIOUS
    <3>1. CASE k = l /\ frames[t] = 1
      BY <3>1, <2>2
    <3>2. CASE k = l /\ frames[t] # 1
      <4>1. owner[k]' = t /\ t # NoThread
        BY <3>2, <2>2, StateStoreAssumption
      <4>2. RFrames(owner[k])' = RFrames(t)'
        BY <4>1 DEF RFrames
      <4>3. RFrames(t)' > 0
        BY <3>2, <1>1, <1>2 DEF Depth
      <4> QED
        BY <4>1, <4>2, <4>3, <3>2, <1>0, <1>1
    <3>3. CASE k # l
      <4>1. owner[k]' = owner[k] /\ count[k]' = count[k]
        BY <3>3, <2>3
      <4>2. CASE owner[k] = NoThread
        BY <4>1, <4>2 DEF LockInv, OwnerInv
      <4>3. CASE owner[k] # NoThread
        <5>1. owner[k] \in Threads /\ owner[k] # t /\ k = registry[Proc[owner[k]]]
              /\ RFrames(owner[k]) > 0
          BY <4>3, <3>3, <1>1 DEF LockInv, OwnerInv, TypeOK
        <5>2. RFrames(owner[k])' = RFrames(owner[k])
          BY <5>1, <4>1, <1>0 DEF LockInv, TypeOK, RFrames
        <5>3. registry[Proc[owner[k]]]' = registry[Proc[owner[k]]]
          BY <4>1, <1>0
        <5> QED
          BY <5>1, <5>2, <5>3, <4>1, <4>3
      <4> QED
        BY <4>2, <4>3
    <3> QED
      BY <3>1, <3>2, <3>3
  <2> QED
    BY <2>5, <2>6 DEF OwnerInv
<1>9. FileLockInv'
  <2>1. \A u \in Threads : InsideFileLock(u)' = InsideFileLock(u)
    BY <1>0 DEF LockInv, TypeOK, InsideFileLock
  <2> QED
    BY <2>1, <1>0 DEF LockInv, FileLockInv, HasFileLock
<1> QED
  BY <1>4, <1>5, <1>6, <1>7, <1>8, <1>9 DEF LockInv

\* Leaving the registry: the entry disappears only with the last frame.
LEMMA DeregisterStep ==
    ASSUME LockInv, NEW t \in Threads, Deregister(t)
    PROVE  LockInv'
<1> DEFINE p == Proc[t]
<1>0. /\ pc[t] = "exitGuard" /\ call[t] # "none" /\ p \in Procs
      /\ frames[t] \in 1..Depth /\ frames[t] > 0
      /\ frames[t] = IF inTxn[t] THEN 2 ELSE 1
  <2>1. pc[t] = "exitGuard" /\ p \in Procs
    BY StateStoreAssumption DEF Deregister
  <2>2. call[t] # "none"
    BY <2>1 DEF LockInv, StackInv
  <2>3. frames[t] = IF inTxn[t] THEN 2 ELSE 1
    BY <2>2 DEF LockInv, StackInv
  <2> QED
    BY <2>1, <2>2, <2>3 DEF Depth
<1>1. /\ users' = [users EXCEPT ![p] = @ - 1]
      /\ registry' = [registry EXCEPT ![p] = IF users[p] > 1 THEN @ ELSE NoLock]
      /\ ref' = [ref EXCEPT ![t][frames[t]] = NoLock]
      /\ frames' = [frames EXCEPT ![t] = @ - 1]
      /\ call' = [call EXCEPT ![t] = "none"]
      /\ pc' = [pc EXCEPT ![t] = "idle"]
      /\ UNCHANGED <<file, owner, count, flock, held, inTxn, sighted, by>>
  BY DEF Deregister
<1>2. /\ known' = [known EXCEPT ![t] = IF call[t] = "cas" /\ outcome[t] = "ok" THEN new[t] ELSE @]
      /\ new' = [new EXCEPT ![t] = Absent]
      /\ outcome' = [outcome EXCEPT ![t] = "none"]
  BY DEF Deregister
<1>3. Cardinality(FramesOf(p)) \in Nat /\ users[p] = Cardinality(FramesOf(p))
  BY <1>0, FramesFinite, FS_CardinalityType DEF LockInv, UsersInv
<1>4. users[p] > 0
  <2>1. <<t, 1>> \in FramesOf(p)
    BY <1>0 DEF FramesOf, Depth
  <2>2. Cardinality(FramesOf(p)) # 0
    BY <1>0, <2>1, FramesFinite, FS_EmptySet
  <2> QED
    BY <1>3, <2>2
<1>5. \A u \in Threads : Proc[u] = p /\ frames[u]' > 0 => users[p] > 1
  <2> SUFFICES ASSUME NEW u \in Threads, Proc[u] = p, frames[u]' > 0
               PROVE  users[p] > 1
    OBVIOUS
  <2>1. frames[u] > 0 /\ (t # u \/ frames[t] > 1)
    BY <1>0, <1>1 DEF LockInv, TypeOK, Depth
  <2> QED
    BY <1>0, <2>1, OtherUser DEF LockInv, Depth
<1>6. TypeOK'
  <2>1. registry' \in [Procs -> LockIds \cup {NoLock}] /\ users' \in [Procs -> Nat]
    BY <1>0, <1>1, <1>4 DEF LockInv, TypeOK
  <2>2. frames' \in [Threads -> 0..Depth]
    BY <1>0, <1>1 DEF LockInv, TypeOK, Depth
  <2>3. ref' \in [Threads -> [1..Depth -> LockIds \cup {NoLock}]]
    BY <1>0, <1>1 DEF LockInv, TypeOK, Depth
  <2>4. pc' \in [Threads -> PCs] /\ call' \in [Threads -> {"none", "txn", "cas"}]
    BY <1>1 DEF LockInv, TypeOK, PCs
  <2>5. known' \in [Threads -> Contents] /\ new' \in [Threads -> Contents]
    BY <1>2 DEF LockInv, TypeOK, Contents
  <2>6. outcome' \in [Threads -> {"none", "ok", "conflict", "failed"}]
    BY <1>2 DEF LockInv, TypeOK
  <2> QED
    BY <1>1, <2>1, <2>2, <2>3, <2>4, <2>5, <2>6 DEF LockInv, TypeOK, PCs
<1>7. StackInv'
  BY <1>0, <1>1 DEF LockInv, TypeOK, StackInv
<1>8. RegistryInv'
  <2>1. \A u \in Threads, f \in 1..Depth :
          (IF f <= frames[u] THEN ref[u][f] = registry[Proc[u]] /\ ref[u][f] # NoLock
                             ELSE ref[u][f] = NoLock)'
    <3> SUFFICES ASSUME NEW u \in Threads, NEW f \in 1..Depth
                 PROVE  (IF f <= frames[u] THEN ref[u][f] = registry[Proc[u]] /\ ref[u][f] # NoLock
                                           ELSE ref[u][f] = NoLock)'
      OBVIOUS
    <3>0. Proc[u] \in Procs
      BY StateStoreAssumption
    <3>1. CASE u = t /\ f = frames[t]
      BY <3>1, <1>0, <1>1 DEF LockInv, TypeOK, Depth
    <3>2. CASE ~(u = t /\ f = frames[t])
      <4>1. ref[u][f]' = ref[u][f]
        BY <3>2, <1>0, <1>1 DEF LockInv, TypeOK, Depth
      <4>2. f <= frames[u]' <=> f <= frames[u]
        BY <3>2, <1>0, <1>1 DEF LockInv, TypeOK, Depth
      <4>3. f <= frames[u]' => registry[Proc[u]]' = registry[Proc[u]]
        <5>1. f <= frames[u]' => frames[u]' > 0
          BY <1>0, <1>1 DEF LockInv, TypeOK, Depth
        <5> QED
          BY <3>0, <5>1, <1>0, <1>1, <1>5 DEF LockInv, TypeOK
      <4> QED
        BY <4>1, <4>2, <4>3 DEF LockInv, RegistryInv
    <3> QED
      BY <3>1, <3>2
  <2>2. \A q, r \in Procs : (registry[q] = registry[r] /\ registry[q] # NoLock => q = r)'
    BY <1>0, <1>1 DEF LockInv, RegistryInv, TypeOK
  <2> QED
    BY <2>1, <2>2 DEF RegistryInv
<1>9. UsersInv'
  <2> SUFFICES ASSUME NEW q \in Procs PROVE users[q]' = Cardinality(FramesOf(q)')
    BY DEF UsersInv
  <2>0. TypeOK
    BY DEF LockInv
  <2>1. Cardinality(FramesOf(q)') = Cardinality(FramesOf(q)) - (IF p = q THEN 1 ELSE 0)
    BY ONLY <1>0, <1>1, <2>0, FramesPop, t \in Threads, q \in Procs
  <2>2. Cardinality(FramesOf(q)) \in Nat
    BY FramesFinite, FS_CardinalityType
  <2> QED
    BY <2>1, <2>2, <1>0, <1>1 DEF LockInv, UsersInv, TypeOK
<1>10. OwnerInv'
  <2>1. \A u \in Threads : RFrames(u)' = RFrames(u)
    BY <1>0, <1>1 DEF LockInv, TypeOK, RFrames
  <2>2. \A u \in Threads : RFrames(u) > 0 => registry[Proc[u]]' = registry[Proc[u]]
    <3> SUFFICES ASSUME NEW u \in Threads, RFrames(u) > 0
                 PROVE  registry[Proc[u]]' = registry[Proc[u]]
      OBVIOUS
    <3>1. frames[u]' > 0
      <4>1. CASE u = t
        BY <4>1, <1>0, <1>1 DEF RFrames, LockInv, TypeOK
      <4>2. CASE u # t
        BY <4>2, <1>1 DEF RFrames, LockInv, TypeOK, Depth
      <4> QED
        BY <4>1, <4>2
    <3>2. Proc[u] \in Procs
      BY StateStoreAssumption
    <3> QED
      BY <3>1, <3>2, <1>0, <1>1, <1>5 DEF LockInv, TypeOK
  <2>3. \A k \in LockIds : owner[k] # NoThread => owner[k] \in Threads
    BY DEF LockInv, TypeOK
  <2> QED
    BY <2>1, <2>2, <2>3, <1>1 DEF LockInv, OwnerInv
<1>11. FileLockInv'
  <2>1. \A u \in Threads : InsideFileLock(u)' = InsideFileLock(u)
    BY <1>0, <1>1 DEF LockInv, TypeOK, InsideFileLock
  <2> QED
    BY <2>1, <1>1 DEF LockInv, FileLockInv, HasFileLock
<1> QED
  BY <1>6, <1>7, <1>8, <1>9, <1>10, <1>11 DEF LockInv

\* A crash: what the process held is released, what it counted is forgotten.
LEMMA CrashStep ==
    ASSUME LockInv, NEW p \in Procs, Crash(p)
    PROVE  LockInv'
<1> USE DEF Crash, InProc
<1>0. \A t \in Threads : Proc[t] = p =>
        /\ frames'[t] = 0 /\ held'[t] = 0 /\ pc'[t] = "idle" /\ call'[t] = "none"
        /\ ~inTxn'[t] /\ ref'[t] = [f \in 1..Depth |-> NoLock]
  OBVIOUS
<1>1. \A t \in Threads : Proc[t] # p =>
        /\ frames'[t] = frames[t] /\ held'[t] = held[t] /\ pc'[t] = pc[t]
        /\ call'[t] = call[t] /\ inTxn'[t] = inTxn[t] /\ ref'[t] = ref[t]
  OBVIOUS
<1>2. TypeOK'
  <2>1. /\ registry' \in [Procs -> LockIds \cup {NoLock}] /\ users' \in [Procs -> Nat]
        /\ owner' \in [LockIds -> Threads \cup {NoThread}] /\ count' \in [LockIds -> Nat]
        /\ flock' \in Threads \cup {NoThread}
    BY DEF LockInv, TypeOK
  <2>2. frames' \in [Threads -> 0..Depth] /\ held' \in [Threads -> 0..Depth]
    BY DEF LockInv, TypeOK, Depth
  <2>3. ref' \in [Threads -> [1..Depth -> LockIds \cup {NoLock}]]
    BY DEF LockInv, TypeOK
  <2>4. pc' \in [Threads -> PCs]
    BY DEF LockInv, TypeOK, PCs
  <2>5. call' \in [Threads -> {"none", "txn", "cas"}]
    BY DEF LockInv, TypeOK
  <2>6. inTxn' \in [Threads -> BOOLEAN] /\ sighted' \in [Threads -> BOOLEAN]
    BY DEF LockInv, TypeOK
  <2>7. known' \in [Threads -> Contents] /\ new' \in [Threads -> Contents]
    BY DEF LockInv, TypeOK, Contents
  <2>8. outcome' \in [Threads -> {"none", "ok", "conflict", "failed"}]
    BY DEF LockInv, TypeOK
  <2>9. UNCHANGED <<file, by>>
    OBVIOUS
  <2> QED
    BY <2>1, <2>2, <2>3, <2>4, <2>5, <2>6, <2>7, <2>8, <2>9 DEF LockInv, TypeOK, PCs
<1>3. StackInv'
  BY <1>0, <1>1 DEF LockInv, StackInv
<1>4. RegistryInv'
  <2>1. \A q \in Procs : registry'[q] = IF q = p THEN NoLock ELSE registry[q]
    BY DEF LockInv, TypeOK
  <2>2. \A t \in Threads, f \in 1..Depth :
          IF f <= frames'[t] THEN ref'[t][f] = registry'[Proc[t]] /\ ref'[t][f] # NoLock
                             ELSE ref'[t][f] = NoLock
    <3> SUFFICES ASSUME NEW t \in Threads, NEW f \in 1..Depth
                 PROVE  IF f <= frames'[t] THEN ref'[t][f] = registry'[Proc[t]] /\ ref'[t][f] # NoLock
                                           ELSE ref'[t][f] = NoLock
      OBVIOUS
    <3>1. CASE Proc[t] = p
      BY <3>1, <1>0 DEF Depth
    <3>2. CASE Proc[t] # p
      <4>1. registry'[Proc[t]] = registry[Proc[t]]
        BY <3>2, <2>1, StateStoreAssumption
      <4> QED
        BY <3>2, <4>1, <1>1 DEF LockInv, RegistryInv
    <3> QED
      BY <3>1, <3>2
  <2>3. \A q, r \in Procs : registry'[q] = registry'[r] /\ registry'[q] # NoLock => q = r
    BY <2>1 DEF LockInv, RegistryInv
  <2> QED
    BY <2>2, <2>3 DEF RegistryInv
<1>5. UsersInv'
  <2> SUFFICES ASSUME NEW q \in Procs PROVE users[q]' = Cardinality(FramesOf(q)')
    BY DEF UsersInv
  <2>1. CASE q = p
    <3>1. FramesOf(q)' = {}
      BY <2>1, <1>0 DEF FramesOf, Depth
    <3>2. users[q]' = 0
      BY <2>1 DEF LockInv, TypeOK
    <3> QED
      BY <3>1, <3>2, FS_EmptySet
  <2>2. CASE q # p
    <3>1. FramesOf(q)' = FramesOf(q)
      BY <2>2, <1>1 DEF FramesOf
    <3>2. users[q]' = users[q]
      BY <2>2 DEF LockInv, TypeOK
    <3> QED
      BY <3>1, <3>2 DEF LockInv, UsersInv
  <2> QED
    BY <2>1, <2>2
<1>6. OwnerInv'
  <2>1. \A t \in Threads : RFrames(t)' = IF Proc[t] = p THEN 0 ELSE RFrames(t)
    BY <1>0, <1>1 DEF RFrames
  <2>2. \A l \in LockIds :
          /\ owner'[l] = IF owner[l] # NoThread /\ Proc[owner[l]] = p THEN NoThread ELSE owner[l]
          /\ count'[l] = IF owner[l] # NoThread /\ Proc[owner[l]] = p THEN 0 ELSE count[l]
          /\ owner[l] \in Threads \cup {NoThread}
    BY DEF LockInv, TypeOK
  <2>3. \A t \in Threads : Proc[t] # p => registry'[Proc[t]] = registry[Proc[t]]
    BY StateStoreAssumption DEF LockInv, TypeOK
  <2>4. \A t \in Threads : RFrames(t)' > 0 =>
          owner'[registry'[Proc[t]]] = t /\ count'[registry'[Proc[t]]] = RFrames(t)'
    <3> SUFFICES ASSUME NEW t \in Threads, RFrames(t)' > 0
                 PROVE  owner'[registry'[Proc[t]]] = t /\ count'[registry'[Proc[t]]] = RFrames(t)'
      OBVIOUS
    <3>1. Proc[t] # p /\ RFrames(t) > 0 /\ RFrames(t)' = RFrames(t)
      BY <2>1
    <3>2. owner[registry[Proc[t]]] = t /\ count[registry[Proc[t]]] = RFrames(t)
      BY <3>1 DEF LockInv, OwnerInv
    <3>3. registry[Proc[t]] \in LockIds
      <4>1. 1 <= frames[t] /\ 1 \in 1..Depth
        <5>1. frames[t] \in 0..Depth
          BY DEF LockInv, TypeOK
        <5> HIDE DEF Crash
        <5> QED
          BY <3>1, <5>1 DEF RFrames, Depth
      <4>2. registry[Proc[t]] # NoLock
        BY <4>1 DEF LockInv, RegistryInv
      <4> QED
        BY <4>2, StateStoreAssumption DEF LockInv, TypeOK
    <3> QED
      BY <3>1, <3>2, <3>3, <2>2, <2>3
  <2>5. \A l \in LockIds : IF owner'[l] = NoThread THEN count'[l] = 0
                           ELSE RFrames(owner[l])' > 0 /\ l = registry'[Proc[owner'[l]]]
    <3> SUFFICES ASSUME NEW l \in LockIds
                 PROVE  IF owner'[l] = NoThread THEN count'[l] = 0
                        ELSE RFrames(owner[l])' > 0 /\ l = registry'[Proc[owner'[l]]]
      OBVIOUS
    <3>1. CASE owner[l] = NoThread
      BY <3>1, <2>2 DEF LockInv, OwnerInv
    <3>2. CASE owner[l] # NoThread /\ Proc[owner[l]] = p
      BY <3>2, <2>2
    <3>3. CASE owner[l] # NoThread /\ Proc[owner[l]] # p
      <4>1. owner'[l] = owner[l] /\ owner[l] \in Threads
        BY <3>3, <2>2
      <4>2. RFrames(owner[l]) > 0 /\ l = registry[Proc[owner[l]]]
        BY <3>3 DEF LockInv, OwnerInv
      <4>3. RFrames(owner[l])' = RFrames(owner[l])
        BY <4>1, <3>3, <1>1 DEF RFrames
      <4> QED
        BY <4>1, <4>2, <4>3, <3>3, <2>3
    <3> QED
      BY <3>1, <3>2, <3>3
  <2> QED
    BY <2>4, <2>5 DEF OwnerInv
<1>7. FileLockInv'
  <2>1. \A t \in Threads : InsideFileLock(t)' <=> Proc[t] # p /\ InsideFileLock(t)
    BY <1>0, <1>1 DEF InsideFileLock
  <2>2. \A t \in Threads : flock' = t <=> flock = t /\ Proc[t] # p
    BY StateStoreAssumption DEF LockInv, TypeOK
  <2>3. ASSUME NEW t \in Threads
        PROVE  /\ held'[t] = IF HasFileLock /\ InsideFileLock(t)' THEN 1 ELSE 0
               /\ flock' = t <=> held'[t] = 1
    <3>1. CASE Proc[t] = p
      BY <3>1, <1>0, <2>1, <2>2
    <3>2. CASE Proc[t] # p
      BY <3>2, <1>1, <2>1, <2>2 DEF LockInv, FileLockInv
    <3> QED
      BY <3>1, <3>2
  <2> QED
    BY <2>3 DEF FileLockInv, HasFileLock
<1> QED
  BY <1>2, <1>3, <1>4, <1>5, <1>6, <1>7 DEF LockInv
-----------------------------------------------------------------------------
(* The theorems                                                             *)

\* Every step of every thread, and every crash, preserves the lock invariant.
LEMMA LockNext == LockInv /\ [Next]_vars => LockInv'
<1> SUFFICES ASSUME LockInv, [Next]_vars PROVE LockInv'
  OBVIOUS
<1>1. ASSUME NEW t \in Threads,
             GetWithVersion(t) \/ Compare(t) \/ Publish(t) \/ BackendFails(t) \/ Put(t) \/ Delete(t)
      PROVE  LockInv'
  BY <1>1, UnlockedSteps
<1>2. ASSUME NEW t \in Threads, EnterKeyLock(t) \/ BeginConditionalPut(t)
      PROVE  LockInv'
  BY <1>2, RegisterSteps
<1>3. ASSUME NEW t \in Threads, FileLockTimesOut(t) \/ ExitKeyLock(t) \/ ReleaseFileLock(t)
      PROVE  LockInv'
  BY <1>3, FileLockSteps
<1>4. ASSUME NEW t \in Threads,
             AcquireRLock(t) \/ AcquireFileLock(t) \/ ReleaseRLock(t) \/ Deregister(t)
      PROVE  LockInv'
  BY <1>4, AcquireRLockStep, AcquireFileLockStep, ReleaseRLockStep, DeregisterStep
<1>5. ASSUME NEW p \in Procs, Crash(p)
      PROVE  LockInv'
  BY <1>5, CrashStep
<1>6. CASE UNCHANGED vars
  BY <1>6 DEF vars, LockInv, TypeOK, StackInv, RegistryInv, UsersInv, FramesOf, OwnerInv,
              RFrames, FileLockInv, InsideFileLock, HasFileLock
<1> QED
  BY <1>1, <1>2, <1>3, <1>4, <1>5, <1>6 DEF Next, Step, LeaveFrame

\* The locks of the state store keep their structure in every reachable state.
THEOREM LockStructure == Spec => []LockInv
<1> QED
  BY LockInit, LockNext, PTL DEF Spec

\* key_lock and conditional_put exclude each other for one key across any number
\* of threads and local processes, crashes and lock timeouts included.
THEOREM KeyLockExcludes == Spec => []MutualExclusion
<1>1. LockInv => MutualExclusion
  <2> SUFFICES ASSUME LockInv, NEW t \in Threads, NEW u \in Threads, Critical(t), Critical(u)
               PROVE  t = u
    BY DEF MutualExclusion
  <2>1. CASE Backend = "local"
    <3>1. InsideFileLock(t) /\ InsideFileLock(u)
      BY DEF Critical, InsideFileLock
    <3> QED
      BY <2>1, <3>1 DEF LockInv, FileLockInv, HasFileLock
  <2>2. CASE Backend = "memory"
    <3>1. ASSUME NEW w \in Threads, Critical(w)
          PROVE  RFrames(w) > 0
      <4>1. /\ pc[w] = "idle" <=> call[w] = "none"
            /\ frames[w] = (IF inTxn[w] THEN 1 ELSE 0) + (IF call[w] = "none" THEN 0 ELSE 1)
        BY DEF LockInv, StackInv
      <4>2. CASE inTxn[w]
        BY <4>1, <4>2 DEF RFrames
      <4>3. CASE pc[w] \in {"compare", "publish"}
        BY <4>1, <4>3 DEF RFrames
      <4> QED
        BY <3>1, <4>2, <4>3 DEF Critical
    <3>2. Proc[t] = Proc[u]
      BY <2>2, StateStoreAssumption
    <3> QED
      BY <3>1, <3>2 DEF LockInv, OwnerInv
  <2> QED
    BY <2>1, <2>2, StateStoreAssumption
<1> QED
  BY <1>1, LockStructure, PTL

\* Type correctness, and one RLock object per process for the key's users.
THEOREM RegistryConsistent == Spec => [](TypeOK /\ OneLockPerProcess)
<1>1. LockInv => TypeOK /\ OneLockPerProcess
  <2> SUFFICES ASSUME LockInv, NEW t \in Threads, NEW f \in 1..frames[t]
               PROVE  ref[t][f] = registry[Proc[t]]
    BY DEF LockInv, OneLockPerProcess
  <2>1. f \in 1..Depth /\ f <= frames[t]
    BY DEF LockInv, TypeOK, Depth
  <2> QED
    BY <2>1 DEF LockInv, RegistryInv
<1> QED
  BY <1>1, LockStructure, PTL
-----------------------------------------------------------------------------
(* Versions: what a transaction knows is what the file holds                *)

\* How far a call has got, and what it knows about the file.
VersionInv ==
    /\ \A t \in Threads :
          /\ sighted[t] => inTxn[t]
          /\ pc[t] \in {"idle", "rlock", "flock", "compare", "publish"} => outcome[t] = "none"
          /\ call[t] = "txn" => outcome[t] # "ok"
          /\ pc[t] \in {"exit", "exitRLock", "exitGuard"} /\ call[t] = "cas" => outcome[t] # "none"
          /\ pc[t] = "publish" => file = known[t]
    /\ TransactionIsolated

\* What every step of another thread leaves alone.
OthersUntouched(t) ==
    \A u \in Threads : u # t =>
        /\ pc'[u] = pc[u] /\ call'[u] = call[u] /\ inTxn'[u] = inTxn[u]
        /\ known'[u] = known[u] /\ new'[u] = new[u] /\ outcome'[u] = outcome[u]
        /\ sighted'[u] = sighted[u]

\* If t's step keeps t's own part and the file stays, or changes while no other
\* thread is critical, the version invariant survives.
LEMMA VersionFrame ==
    ASSUME LockInv, VersionInv, MutualExclusion, NEW t \in Threads,
           OthersUntouched(t),
           file' = file \/ Critical(t),
           sighted'[t] => inTxn'[t],
           pc'[t] \in {"idle", "rlock", "flock", "compare", "publish"} => outcome'[t] = "none",
           call'[t] = "txn" => outcome'[t] # "ok",
           pc'[t] \in {"exit", "exitRLock", "exitGuard"} /\ call'[t] = "cas" => outcome'[t] # "none",
           pc'[t] = "publish" => file' = known'[t],
           inTxn'[t] /\ sighted'[t] =>
              file' = IF call'[t] = "cas" /\ outcome'[t] = "ok" THEN new'[t] ELSE known'[t]
    PROVE  VersionInv'
<1>1. ASSUME NEW u \in Threads, u # t, inTxn[u] \/ pc[u] = "publish"
      PROVE  file' = file
  BY <1>1 DEF MutualExclusion, Critical
<1>2. ASSUME NEW u \in Threads
      PROVE  /\ sighted'[u] => inTxn'[u]
             /\ pc'[u] \in {"idle", "rlock", "flock", "compare", "publish"} => outcome'[u] = "none"
             /\ call'[u] = "txn" => outcome'[u] # "ok"
             /\ pc'[u] \in {"exit", "exitRLock", "exitGuard"} /\ call'[u] = "cas" => outcome'[u] # "none"
             /\ pc'[u] = "publish" => file' = known'[u]
  <2>1. CASE u = t
    BY <2>1
  <2>2. CASE u # t
    BY <2>2, <1>1 DEF OthersUntouched, VersionInv
  <2> QED
    BY <2>1, <2>2
<1>3. ASSUME NEW u \in Threads
      PROVE  inTxn'[u] /\ sighted'[u] =>
                file' = IF call'[u] = "cas" /\ outcome'[u] = "ok" THEN new'[u] ELSE known'[u]
  <2>1. CASE u = t
    BY <2>1
  <2>2. CASE u # t
    BY <2>2, <1>1 DEF OthersUntouched, VersionInv, TransactionIsolated
  <2> QED
    BY <2>1, <2>2
<1> QED
  BY <1>2, <1>3 DEF VersionInv, TransactionIsolated

\* Without the writes that take no lock, every step keeps the version invariant.
LEMMA VersionNext ==
    ASSUME ~UnlockedOps, LockInv, MutualExclusion, VersionInv, [Next]_vars
    PROVE  VersionInv'
<1>0. ASSUME NEW t \in Threads
      PROVE  /\ t \in DOMAIN pc /\ t \in DOMAIN call /\ t \in DOMAIN inTxn /\ t \in DOMAIN known
             /\ t \in DOMAIN new /\ t \in DOMAIN outcome /\ t \in DOMAIN sighted
             /\ pc[t] = "idle" <=> call[t] = "none"
             /\ call[t] = "txn" => ~inTxn[t] /\ pc[t] \notin {"compare", "publish"}
             /\ call[t] \in {"none", "txn", "cas"}
             /\ pc[t] \in PCs
             /\ inTxn[t] \in BOOLEAN
             /\ sighted[t] => inTxn[t]
             /\ pc[t] \in {"idle", "rlock", "flock", "compare", "publish"} => outcome[t] = "none"
             /\ call[t] = "txn" => outcome[t] # "ok"
             /\ pc[t] \in {"exit", "exitRLock", "exitGuard"} /\ call[t] = "cas" => outcome[t] # "none"
             /\ pc[t] = "publish" => file = known[t]
             /\ inTxn[t] /\ sighted[t] =>
                   file = IF call[t] = "cas" /\ outcome[t] = "ok" THEN new[t] ELSE known[t]
  BY DEF LockInv, TypeOK, StackInv, VersionInv, TransactionIsolated, PCs
<1>1. ASSUME NEW t \in Threads, GetWithVersion(t) PROVE VersionInv'
  <2>1. /\ pc[t] = "idle" /\ known' = [known EXCEPT ![t] = file]
        /\ sighted' = [sighted EXCEPT ![t] = inTxn[t]]
        /\ UNCHANGED <<file, pc, call, inTxn, new, outcome>>
    BY <1>1 DEF GetWithVersion
  <2>2. known'[t] = file /\ sighted'[t] = inTxn[t]
    BY <2>1, <1>0
  <2>3. OthersUntouched(t)
    BY <2>1 DEF OthersUntouched, LockInv, TypeOK
  <2> QED
    BY <1>0, <2>1, <2>2, <2>3, VersionFrame
<1>2. ASSUME NEW t \in Threads, EnterKeyLock(t) PROVE VersionInv'
  <2>1. /\ pc[t] = "idle" /\ ~inTxn[t] /\ pc' = [pc EXCEPT ![t] = "rlock"]
        /\ call' = [call EXCEPT ![t] = "txn"]
        /\ UNCHANGED <<file, inTxn, known, new, outcome, sighted>>
    BY <1>2 DEF EnterKeyLock, Register
  <2>2. pc'[t] = "rlock" /\ call'[t] = "txn"
    BY <2>1, <1>0
  <2>3. OthersUntouched(t)
    BY <2>1 DEF OthersUntouched, LockInv, TypeOK
  <2> QED
    BY <1>0, <2>1, <2>2, <2>3, VersionFrame
<1>3. ASSUME NEW t \in Threads, BeginConditionalPut(t) PROVE VersionInv'
  <2>1. /\ pc[t] = "idle" /\ pc' = [pc EXCEPT ![t] = "rlock"]
        /\ call' = [call EXCEPT ![t] = "cas"]
        /\ outcome' = [outcome EXCEPT ![t] = "none"]
        /\ \E v \in Values : new' = [new EXCEPT ![t] = v]
        /\ UNCHANGED <<file, inTxn, known, sighted>>
    BY <1>3 DEF BeginConditionalPut, Register
  <2>2. pc'[t] = "rlock" /\ call'[t] = "cas" /\ outcome'[t] = "none"
    BY <2>1, <1>0
  <2>3. OthersUntouched(t)
    BY <2>1 DEF OthersUntouched, LockInv, TypeOK
  <2> QED
    BY <1>0, <2>1, <2>2, <2>3, VersionFrame
<1>4. ASSUME NEW t \in Threads, AcquireRLock(t) PROVE VersionInv'
  <2>1. /\ pc[t] = "rlock" /\ pc' = [pc EXCEPT ![t] = "flock"]
        /\ UNCHANGED <<file, call, inTxn, known, new, outcome, sighted>>
    BY <1>4 DEF AcquireRLock
  <2>2. pc'[t] = "flock"
    BY <2>1, <1>0
  <2>3. OthersUntouched(t)
    BY <2>1 DEF OthersUntouched, LockInv, TypeOK
  <2> QED
    BY <1>0, <2>1, <2>2, <2>3, VersionFrame
<1>5. ASSUME NEW t \in Threads, AcquireFileLock(t) PROVE VersionInv'
  <2>1. /\ pc[t] = "flock"
        /\ pc' = [pc EXCEPT ![t] = IF call[t] = "txn" THEN "idle" ELSE "compare"]
        /\ call' = [call EXCEPT ![t] = IF @ = "txn" THEN "none" ELSE @]
        /\ UNCHANGED <<file, known, new, outcome, sighted>>
    BY <1>5 DEF AcquireFileLock
  <2>2. inTxn' = [inTxn EXCEPT ![t] = inTxn[t] \/ call[t] = "txn"]
    BY <1>5 DEF AcquireFileLock
  <2>3. /\ pc'[t] = (IF call[t] = "txn" THEN "idle" ELSE "compare")
        /\ call'[t] = (IF call[t] = "txn" THEN "none" ELSE call[t])
    BY <2>1, <1>0
  <2>4. inTxn'[t] = (inTxn[t] \/ call[t] = "txn")
    BY <2>2, <1>0, Zenon
  <2>5. inTxn'[t] <=> inTxn[t] \/ call[t] = "txn"
    BY <2>4, Zenon
  <2>6. OthersUntouched(t)
    BY <2>1, <2>2 DEF OthersUntouched, LockInv, TypeOK
  <2> QED
    BY <1>0, <2>1, <2>3, <2>5, <2>6, VersionFrame
<1>6. ASSUME NEW t \in Threads, FileLockTimesOut(t) PROVE VersionInv'
  <2>1. /\ pc[t] = "flock" /\ pc' = [pc EXCEPT ![t] = "exitRLock"]
        /\ outcome' = [outcome EXCEPT ![t] = "failed"]
        /\ UNCHANGED <<file, call, inTxn, known, new, sighted>>
    BY <1>6 DEF FileLockTimesOut
  <2>2. pc'[t] = "exitRLock" /\ outcome'[t] = "failed"
    BY <2>1, <1>0
  <2>3. OthersUntouched(t)
    BY <2>1 DEF OthersUntouched, LockInv, TypeOK
  <2> QED
    BY <1>0, <2>1, <2>2, <2>3, VersionFrame
<1>7. ASSUME NEW t \in Threads, Compare(t) PROVE VersionInv'
  <2>1. /\ pc[t] = "compare"
        /\ \/ /\ file = known[t] /\ pc' = [pc EXCEPT ![t] = "publish"] /\ outcome' = outcome
           \/ /\ pc' = [pc EXCEPT ![t] = "exit"]
              /\ outcome' = [outcome EXCEPT ![t] = "conflict"]
        /\ UNCHANGED <<file, call, inTxn, known, new, sighted>>
    BY <1>7 DEF Compare
  <2>2. \/ file = known[t] /\ pc'[t] = "publish" /\ outcome'[t] = outcome[t]
        \/ pc'[t] = "exit" /\ outcome'[t] = "conflict"
    BY <2>1, <1>0
  <2>3. OthersUntouched(t)
    BY <2>1 DEF OthersUntouched, LockInv, TypeOK
  <2> QED
    BY <1>0, <2>1, <2>2, <2>3, VersionFrame
<1>8. ASSUME NEW t \in Threads, Publish(t) PROVE VersionInv'
  <2>1. /\ pc[t] = "publish" /\ pc' = [pc EXCEPT ![t] = "exit"] /\ file' = new[t]
        /\ outcome' = [outcome EXCEPT ![t] = "ok"]
        /\ UNCHANGED <<call, inTxn, known, new, sighted>>
    BY <1>8 DEF Publish
  <2>2. pc'[t] = "exit" /\ outcome'[t] = "ok"
    BY <2>1, <1>0
  <2>3. OthersUntouched(t)
    BY <2>1 DEF OthersUntouched, LockInv, TypeOK
  <2>4. Critical(t) /\ call[t] = "cas"
    BY <2>1, <1>0 DEF Critical
  <2> QED
    BY <1>0, <2>1, <2>2, <2>3, <2>4, VersionFrame
<1>9. ASSUME NEW t \in Threads, BackendFails(t) PROVE VersionInv'
  <2>1. /\ pc[t] \in {"compare", "publish"} /\ pc' = [pc EXCEPT ![t] = "exit"]
        /\ outcome' = [outcome EXCEPT ![t] = "failed"]
        /\ UNCHANGED <<file, call, inTxn, known, new, sighted>>
    BY <1>9 DEF BackendFails
  <2>2. pc'[t] = "exit" /\ outcome'[t] = "failed"
    BY <2>1, <1>0
  <2>3. OthersUntouched(t)
    BY <2>1 DEF OthersUntouched, LockInv, TypeOK
  <2> QED
    BY <1>0, <2>1, <2>2, <2>3, VersionFrame
<1>10. ASSUME NEW t \in Threads, ExitKeyLock(t) PROVE VersionInv'
  <2>1. /\ pc[t] = "idle" /\ pc' = [pc EXCEPT ![t] = "exit"]
        /\ call' = [call EXCEPT ![t] = "txn"]
        /\ inTxn' = [inTxn EXCEPT ![t] = FALSE]
        /\ sighted' = [sighted EXCEPT ![t] = FALSE]
        /\ UNCHANGED <<file, known, new, outcome>>
    BY <1>10 DEF ExitKeyLock
  <2>2. pc'[t] = "exit" /\ call'[t] = "txn" /\ ~sighted'[t]
    BY <2>1, <1>0
  <2>3. OthersUntouched(t)
    BY <2>1 DEF OthersUntouched, LockInv, TypeOK
  <2> QED
    BY <1>0, <2>1, <2>2, <2>3, VersionFrame
<1>11. ASSUME NEW t \in Threads, ReleaseFileLock(t) \/ ReleaseRLock(t) PROVE VersionInv'
  <2>1. /\ pc[t] \in {"exit", "exitRLock"}
        /\ pc' = [pc EXCEPT ![t] = "exitRLock"] \/ pc' = [pc EXCEPT ![t] = "exitGuard"]
        /\ UNCHANGED <<file, call, inTxn, known, new, outcome, sighted>>
    BY <1>11 DEF ReleaseFileLock, ReleaseRLock
  <2>2. pc'[t] \in {"exitRLock", "exitGuard"}
    BY <2>1, <1>0
  <2>3. OthersUntouched(t)
    BY <2>1 DEF OthersUntouched, LockInv, TypeOK
  <2> QED
    BY <1>0, <2>1, <2>2, <2>3, VersionFrame
<1>12. ASSUME NEW t \in Threads, Deregister(t) PROVE VersionInv'
  <2>1. /\ pc[t] = "exitGuard" /\ pc' = [pc EXCEPT ![t] = "idle"]
        /\ known' = [known EXCEPT ![t] = IF call[t] = "cas" /\ outcome[t] = "ok" THEN new[t] ELSE @]
        /\ new' = [new EXCEPT ![t] = Absent]
        /\ outcome' = [outcome EXCEPT ![t] = "none"]
        /\ call' = [call EXCEPT ![t] = "none"]
        /\ UNCHANGED <<file, inTxn, sighted>>
    BY <1>12 DEF Deregister
  <2>2. /\ pc'[t] = "idle" /\ outcome'[t] = "none" /\ call'[t] = "none"
        /\ known'[t] = IF call[t] = "cas" /\ outcome[t] = "ok" THEN new[t] ELSE known[t]
    BY <2>1, <1>0
  <2>3. OthersUntouched(t)
    BY <2>1 DEF OthersUntouched, LockInv, TypeOK
  <2> QED
    BY <1>0, <2>1, <2>2, <2>3, VersionFrame
<1>13. ASSUME NEW p \in Procs, Crash(p) PROVE VersionInv'
  <2>1. \A t \in Threads : Proc[t] = p =>
          /\ pc'[t] = "idle" /\ call'[t] = "none" /\ ~inTxn'[t] /\ outcome'[t] = "none"
          /\ ~sighted'[t]
    BY <1>13 DEF Crash, InProc
  <2>2. \A t \in Threads : Proc[t] # p =>
          /\ pc'[t] = pc[t] /\ call'[t] = call[t] /\ inTxn'[t] = inTxn[t]
          /\ outcome'[t] = outcome[t] /\ sighted'[t] = sighted[t]
          /\ known'[t] = known[t] /\ new'[t] = new[t]
    BY <1>13 DEF Crash, InProc
  <2>3. file' = file
    BY <1>13 DEF Crash
  <2> QED
    BY <1>0, <2>1, <2>2, <2>3 DEF VersionInv, TransactionIsolated
<1>14. CASE UNCHANGED vars
  BY <1>14 DEF vars, VersionInv, TransactionIsolated
<1> QED
  BY <1>1, <1>2, <1>3, <1>4, <1>5, <1>6, <1>7, <1>8, <1>9, <1>10, <1>11, <1>12, <1>13, <1>14
  DEF Next, Step, LeaveFrame, Put, Delete

\* If every writer goes through conditional_put, a transaction's version never
\* goes stale under it: no sync ever loses its own chained writes to another.
THEOREM TransactionsIsolated ==
    ASSUME ~UnlockedOps
    PROVE  Spec => []TransactionIsolated
<1>1. Init => VersionInv
  BY DEF Init, VersionInv, TransactionIsolated
<1>2. LockInv /\ MutualExclusion /\ VersionInv /\ [Next]_vars => VersionInv'
  BY VersionNext
<1>3. VersionInv => TransactionIsolated
  BY DEF VersionInv
<1> QED
  BY <1>1, <1>2, <1>3, LockStructure, KeyLockExcludes, PTL DEF Spec
\* What the version check found still holds when the rename comes, unless a write
\* that takes no lock was the last one.
ExpectedInv == \A t \in Threads : pc[t] = "publish" => file = known[t] \/ by = "unlocked"

\* Every step keeps it, the writes that take no lock included.
LEMMA ExpectedNext ==
    ASSUME LockInv, MutualExclusion, ExpectedInv, [Next]_vars
    PROVE  ExpectedInv'
<1>0. pc \in [Threads -> PCs] /\ known \in [Threads -> Contents]
  BY DEF LockInv, TypeOK, PCs
<1>1. ASSUME NEW t \in Threads, NEW x, x # "publish", pc' = [pc EXCEPT ![t] = x],
             UNCHANGED <<file, by>>, \A u \in Threads : u # t => known'[u] = known[u]
      PROVE  ExpectedInv'
  BY <1>0, <1>1 DEF ExpectedInv
<1>2. ASSUME NEW t \in Threads, GetWithVersion(t) PROVE ExpectedInv'
  <2>1. pc[t] = "idle" /\ known' = [known EXCEPT ![t] = file] /\ UNCHANGED <<file, by, pc>>
    BY <1>2 DEF GetWithVersion
  <2> QED
    BY <1>0, <2>1 DEF ExpectedInv
<1>3. ASSUME NEW t \in Threads, EnterKeyLock(t) \/ BeginConditionalPut(t) PROVE ExpectedInv'
  <2>1. pc' = [pc EXCEPT ![t] = "rlock"] /\ UNCHANGED <<file, by, known>>
    BY <1>3 DEF EnterKeyLock, BeginConditionalPut, Register
  <2> QED
    BY <1>1, <2>1
<1>4. ASSUME NEW t \in Threads,
             AcquireRLock(t) \/ FileLockTimesOut(t) \/ BackendFails(t) \/ ExitKeyLock(t)
                \/ ReleaseFileLock(t) \/ ReleaseRLock(t)
      PROVE  ExpectedInv'
  <2>1. /\ \E x \in {"flock", "exit", "exitRLock", "exitGuard"} : pc' = [pc EXCEPT ![t] = x]
        /\ UNCHANGED <<file, by, known>>
    BY <1>4 DEF AcquireRLock, FileLockTimesOut, BackendFails, ExitKeyLock, ReleaseFileLock, ReleaseRLock
  <2> QED
    BY <1>1, <2>1
<1>5. ASSUME NEW t \in Threads, AcquireFileLock(t) PROVE ExpectedInv'
  <2>1. /\ pc' = [pc EXCEPT ![t] = IF call[t] = "txn" THEN "idle" ELSE "compare"]
        /\ UNCHANGED <<file, by, known>>
    BY <1>5 DEF AcquireFileLock
  <2>2. CASE call[t] = "txn"
    BY <1>1, <2>1, <2>2
  <2>3. CASE call[t] # "txn"
    BY <1>1, <2>1, <2>3
  <2> QED
    BY <2>2, <2>3
<1>6. ASSUME NEW t \in Threads, Compare(t) PROVE ExpectedInv'
  <2>1. UNCHANGED <<file, by, known>>
    BY <1>6 DEF Compare
  <2>2. CASE file = known[t]
    <3>1. pc' = [pc EXCEPT ![t] = "publish"]
      BY <1>6, <2>2 DEF Compare
    <3> QED
      BY <1>0, <2>1, <2>2, <3>1 DEF ExpectedInv
  <2>3. CASE file # known[t]
    <3>1. pc' = [pc EXCEPT ![t] = "exit"]
      BY <1>6, <2>3 DEF Compare
    <3> QED
      BY <1>1, <2>1, <3>1
  <2> QED
    BY <2>2, <2>3
<1>7. ASSUME NEW t \in Threads, Publish(t) PROVE ExpectedInv'
  <2>1. pc[t] = "publish" /\ pc' = [pc EXCEPT ![t] = "exit"] /\ known' = known
    BY <1>7 DEF Publish
  <2>2. ASSUME NEW u \in Threads PROVE pc'[u] # "publish"
    BY <1>0, <2>1 DEF MutualExclusion, Critical
  <2> QED
    BY <2>2 DEF ExpectedInv
<1>8. ASSUME NEW t \in Threads, Deregister(t) PROVE ExpectedInv'
  <2>1. /\ pc' = [pc EXCEPT ![t] = "idle"] /\ UNCHANGED <<file, by>>
        /\ known' = [known EXCEPT ![t] = IF call[t] = "cas" /\ outcome[t] = "ok" THEN new[t] ELSE @]
    BY <1>8 DEF Deregister
  <2> QED
    BY <1>0, <1>1, <2>1
<1>9. ASSUME NEW t \in Threads, Put(t) \/ Delete(t) PROVE ExpectedInv'
  BY <1>9 DEF Put, Delete, ExpectedInv
<1>10. ASSUME NEW p \in Procs, Crash(p) PROVE ExpectedInv'
  <2>1. ASSUME NEW u \in Threads
        PROVE  pc'[u] = "publish" => pc[u] = "publish" /\ known'[u] = known[u]
    BY <1>10 DEF Crash
  <2>2. UNCHANGED <<file, by>>
    BY <1>10 DEF Crash
  <2> QED
    BY <2>1, <2>2 DEF ExpectedInv
<1>11. CASE UNCHANGED vars
  BY <1>11 DEF vars, ExpectedInv
<1> QED
  BY <1>2, <1>3, <1>4, <1>5, <1>6, <1>7, <1>8, <1>9, <1>10, <1>11 DEF Next, Step, LeaveFrame

\* conditional_put never replaces a version another conditional_put committed
\* after its caller read, whatever writes take no lock beside it.
THEOREM CommitsAreNotLost == Spec => CasNeverClobbersCas
<1>1. Init => ExpectedInv
  BY DEF Init, ExpectedInv
<1>2. LockInv /\ MutualExclusion /\ ExpectedInv /\ [Next]_vars => ExpectedInv'
  BY ExpectedNext
<1>3. ExpectedInv => \A t \in Threads : Publish(t) => file = known[t] \/ by = "unlocked"
  BY DEF ExpectedInv, Publish
<1>4. ExpectedInv /\ [Next]_vars =>
        [\A t \in Threads : Publish(t) => file = known[t] \/ by = "unlocked"]_vars
  BY <1>3
<1> QED
  BY <1>1, <1>2, <1>4, LockStructure, KeyLockExcludes, PTL DEF Spec, CasNeverClobbersCas
-----------------------------------------------------------------------------
(* Refinement                                                               *)

\* The abstract variable call, as the concrete state defines it.
CasCalls == [t \in Threads |-> CasCall(t)]

\* A step of t that leaves the file and t's abstract call alone is a stutter.
LEMMA CasStutter ==
    ASSUME NEW t \in Threads, OthersUntouched(t), file' = file, CasCall(t)' = CasCall(t)
    PROVE  UNCHANGED Cas!vars
<1>1. ASSUME NEW u \in Threads PROVE CasCall(u)' = CasCall(u)
  BY <1>1 DEF OthersUntouched, CasCall
<1> QED
  BY <1>1 DEF Cas!vars

\* A step of t that gives t's abstract call a new value updates only that entry.
LEMMA CasUpdate ==
    ASSUME NEW t \in Threads, OthersUntouched(t)
    PROVE  CasCalls' = [CasCalls EXCEPT ![t] = CasCall(t)']
<1>1. ASSUME NEW u \in Threads, u # t PROVE CasCall(u)' = CasCall(u)
  BY <1>1 DEF OthersUntouched, CasCall
<1> QED
  BY <1>1 DEF CasCalls

\* Every step of the store is a step of the register or a stutter.
LEMMA CasNext ==
    ASSUME ~UnlockedOps, LockInv, VersionInv, [Next]_vars
    PROVE  [Cas!Next]_(Cas!vars)
<1>0. ASSUME NEW t \in Threads
      PROVE  /\ t \in DOMAIN pc /\ t \in DOMAIN call /\ t \in DOMAIN known
             /\ t \in DOMAIN new /\ t \in DOMAIN outcome
             /\ pc[t] = "idle" <=> call[t] = "none"
             /\ call[t] = "txn" => pc[t] \notin {"compare", "publish"}
             /\ call[t] \in {"none", "txn", "cas"}
             /\ outcome[t] \in {"none", "ok", "conflict", "failed"}
             /\ known[t] \in Contents
             /\ pc[t] \in {"idle", "rlock", "flock", "compare", "publish"} => outcome[t] = "none"
             /\ pc[t] \in {"exit", "exitRLock", "exitGuard"} /\ call[t] = "cas" => outcome[t] # "none"
             /\ pc[t] = "publish" => file = known[t]
  BY DEF LockInv, TypeOK, StackInv, VersionInv
<1>1. ASSUME NEW t \in Threads, GetWithVersion(t) PROVE UNCHANGED Cas!vars
  <2>1. /\ pc[t] = "idle" /\ known' = [known EXCEPT ![t] = file]
        /\ sighted' = [sighted EXCEPT ![t] = inTxn[t]]
        /\ UNCHANGED <<file, pc, call, inTxn, new, outcome>>
    BY <1>1 DEF GetWithVersion
  <2>2. OthersUntouched(t)
    BY <2>1 DEF OthersUntouched, LockInv, TypeOK
  <2>3. CasCall(t)' = CasCall(t)
    BY <2>1, <1>0 DEF CasCall
  <2> QED
    BY <2>1, <2>2, <2>3, CasStutter
<1>2. ASSUME NEW t \in Threads, EnterKeyLock(t) PROVE UNCHANGED Cas!vars
  <2>1. /\ pc[t] = "idle" /\ pc' = [pc EXCEPT ![t] = "rlock"]
        /\ call' = [call EXCEPT ![t] = "txn"]
        /\ UNCHANGED <<file, inTxn, known, new, outcome, sighted>>
    BY <1>2 DEF EnterKeyLock, Register
  <2>2. OthersUntouched(t)
    BY <2>1 DEF OthersUntouched, LockInv, TypeOK
  <2>3. CasCall(t)' = CasCall(t)
    BY <2>1, <1>0 DEF CasCall
  <2> QED
    BY <2>1, <2>2, <2>3, CasStutter
<1>3. ASSUME NEW t \in Threads, BeginConditionalPut(t) PROVE Cas!Begin(t)
  <2>1. PICK v \in Values : new' = [new EXCEPT ![t] = v]
    BY <1>3 DEF BeginConditionalPut
  <2>2. /\ pc[t] = "idle" /\ pc' = [pc EXCEPT ![t] = "rlock"]
        /\ call' = [call EXCEPT ![t] = "cas"]
        /\ outcome' = [outcome EXCEPT ![t] = "none"]
        /\ UNCHANGED <<file, inTxn, known, sighted>>
    BY <1>3 DEF BeginConditionalPut, Register
  <2>3. OthersUntouched(t)
    BY <2>1, <2>2 DEF OthersUntouched, LockInv, TypeOK
  <2>4. CasCall(t)' = [status |-> "pending", expected |-> known[t], new |-> v]
    BY <2>1, <2>2, <1>0 DEF CasCall
  <2>5. CasCalls[t] = Cas!Idle
    BY <2>2, <1>0 DEF CasCalls, CasCall, Cas!Idle
  <2>6. CasCalls' = [CasCalls EXCEPT ![t] =
                        [status |-> "pending", expected |-> known[t], new |-> v]]
    BY <2>3, <2>4, CasUpdate
  <2>7. known[t] \in Cas!Contents
    BY <1>0 DEF Contents, Cas!Contents
  <2> QED
    BY <2>2, <2>5, <2>6, <2>7 DEF Cas!Begin, CasCalls
<1>4. ASSUME NEW t \in Threads, AcquireRLock(t) \/ AcquireFileLock(t)
                                \/ ReleaseFileLock(t) \/ ReleaseRLock(t)
      PROVE  UNCHANGED Cas!vars
  <2>1. \/ call' = call
        \/ call[t] = "txn" /\ call' = [call EXCEPT ![t] = "none"]
    <3>1. CASE AcquireFileLock(t)
      <4>1. call' = [call EXCEPT ![t] = IF @ = "txn" THEN "none" ELSE @]
        BY <3>1 DEF AcquireFileLock
      <4>2. CASE call[t] = "txn"
        BY <4>1, <4>2
      <4>3. CASE call[t] # "txn"
        BY <4>1, <4>3 DEF LockInv, TypeOK
      <4> QED
        BY <4>2, <4>3
    <3>2. CASE AcquireRLock(t) \/ ReleaseFileLock(t) \/ ReleaseRLock(t)
      BY <3>2 DEF AcquireRLock, ReleaseFileLock, ReleaseRLock
    <3> QED
      BY <1>4, <3>1, <3>2
  <2>2. UNCHANGED <<file, known, new, outcome>>
    BY <1>4 DEF AcquireRLock, AcquireFileLock, ReleaseFileLock, ReleaseRLock
  <2>3. ASSUME NEW u \in Threads PROVE CasCall(u)' = CasCall(u)
    BY <2>1, <2>2, <1>0 DEF CasCall, LockInv, TypeOK
  <2> QED
    BY <2>2, <2>3 DEF Cas!vars
<1>5. ASSUME NEW t \in Threads, FileLockTimesOut(t) PROVE Cas!Fail(t) \/ UNCHANGED Cas!vars
  <2>1. /\ pc[t] = "flock" /\ pc' = [pc EXCEPT ![t] = "exitRLock"]
        /\ outcome' = [outcome EXCEPT ![t] = "failed"]
        /\ UNCHANGED <<file, call, inTxn, known, new, sighted>>
    BY <1>5 DEF FileLockTimesOut
  <2>2. OthersUntouched(t)
    BY <2>1 DEF OthersUntouched, LockInv, TypeOK
  <2>3. CASE call[t] # "cas"
    BY <2>1, <2>2, <2>3, CasStutter DEF CasCall
  <2>4. CASE call[t] = "cas"
    <3>1. CasCall(t)' = [CasCall(t) EXCEPT !.status = "failed"] /\ CasCall(t).status = "pending"
      BY <2>1, <2>4, <1>0 DEF CasCall
    <3> QED
      BY <2>1, <2>2, <3>1, CasUpdate DEF Cas!Fail, CasCalls
  <2> QED
    BY <2>3, <2>4
<1>6. ASSUME NEW t \in Threads, Compare(t) PROVE Cas!Conflict(t) \/ UNCHANGED Cas!vars
  <2>1. /\ pc[t] = "compare" /\ UNCHANGED <<file, call, inTxn, known, new, sighted>>
        /\ call[t] = "cas"
    BY <1>6, <1>0 DEF Compare
  <2>2. OthersUntouched(t)
    BY <1>6 DEF Compare, OthersUntouched, LockInv, TypeOK
  <2>3. CASE file = known[t]
    <3>1. outcome' = outcome
      BY <1>6, <2>3 DEF Compare
    <3> QED
      BY <2>1, <2>2, <3>1, CasStutter DEF CasCall
  <2>4. CASE file # known[t]
    <3>1. outcome' = [outcome EXCEPT ![t] = "conflict"]
      BY <1>6, <2>4 DEF Compare
    <3>2. /\ CasCall(t)' = [CasCall(t) EXCEPT !.status = "conflict"]
          /\ CasCall(t).status = "pending" /\ CasCall(t).expected = known[t]
      BY <2>1, <3>1, <1>0 DEF CasCall
    <3> QED
      BY <2>1, <2>2, <2>4, <3>2, CasUpdate DEF Cas!Conflict, CasCalls
  <2> QED
    BY <2>3, <2>4
<1>7. ASSUME NEW t \in Threads, Publish(t) PROVE Cas!Commit(t)
  <2>1. /\ pc[t] = "publish" /\ file' = new[t] /\ file = known[t] /\ call[t] = "cas"
        /\ pc' = [pc EXCEPT ![t] = "exit"]
        /\ outcome' = [outcome EXCEPT ![t] = "ok"]
        /\ UNCHANGED <<call, inTxn, known, new, sighted>>
    BY <1>7, <1>0 DEF Publish
  <2>2. OthersUntouched(t)
    BY <2>1 DEF OthersUntouched, LockInv, TypeOK
  <2>3. /\ CasCall(t)' = [CasCall(t) EXCEPT !.status = "ok"]
        /\ CasCall(t).status = "pending" /\ CasCall(t).expected = known[t]
        /\ CasCall(t).new = new[t]
    BY <2>1, <1>0 DEF CasCall
  <2> QED
    BY <2>1, <2>2, <2>3, CasUpdate DEF Cas!Commit, CasCalls
<1>8. ASSUME NEW t \in Threads, BackendFails(t) PROVE Cas!Fail(t)
  <2>1. /\ pc[t] \in {"compare", "publish"} /\ call[t] = "cas"
        /\ pc' = [pc EXCEPT ![t] = "exit"]
        /\ outcome' = [outcome EXCEPT ![t] = "failed"]
        /\ UNCHANGED <<file, call, inTxn, known, new, sighted>>
    BY <1>8, <1>0 DEF BackendFails
  <2>2. OthersUntouched(t)
    BY <2>1 DEF OthersUntouched, LockInv, TypeOK
  <2>3. CasCall(t)' = [CasCall(t) EXCEPT !.status = "failed"] /\ CasCall(t).status = "pending"
    BY <2>1, <1>0 DEF CasCall
  <2> QED
    BY <2>1, <2>2, <2>3, CasUpdate DEF Cas!Fail, CasCalls
<1>9. ASSUME NEW t \in Threads, ExitKeyLock(t) PROVE UNCHANGED Cas!vars
  <2>1. /\ pc[t] = "idle" /\ pc' = [pc EXCEPT ![t] = "exit"]
        /\ call' = [call EXCEPT ![t] = "txn"]
        /\ UNCHANGED <<file, known, new, outcome>>
    BY <1>9 DEF ExitKeyLock
  <2>2. OthersUntouched(t)
    BY <1>9 DEF ExitKeyLock, OthersUntouched, LockInv, TypeOK
  <2>3. CasCall(t)' = CasCall(t)
    BY <2>1, <1>0 DEF CasCall
  <2> QED
    BY <2>1, <2>2, <2>3, CasStutter
<1>10. ASSUME NEW t \in Threads, Deregister(t) PROVE Cas!Return(t) \/ UNCHANGED Cas!vars
  <2>1. /\ pc[t] = "exitGuard" /\ pc' = [pc EXCEPT ![t] = "idle"]
        /\ known' = [known EXCEPT ![t] = IF call[t] = "cas" /\ outcome[t] = "ok" THEN new[t] ELSE @]
        /\ new' = [new EXCEPT ![t] = Absent]
        /\ outcome' = [outcome EXCEPT ![t] = "none"]
        /\ call' = [call EXCEPT ![t] = "none"]
        /\ UNCHANGED <<file, inTxn, sighted>>
    BY <1>10 DEF Deregister
  <2>2. OthersUntouched(t)
    BY <2>1 DEF OthersUntouched, LockInv, TypeOK
  <2>3. CasCall(t)' = Cas!Idle
    BY <2>1, <1>0 DEF CasCall, Cas!Idle
  <2>4. CASE call[t] # "cas"
    <3>1. CasCall(t) = Cas!Idle
      BY <2>4 DEF CasCall, Cas!Idle
    <3> QED
      BY <2>1, <2>2, <2>3, <3>1, CasStutter
  <2>5. CASE call[t] = "cas"
    <3>1. CasCall(t).status \in {"ok", "conflict", "failed"}
      BY <2>1, <2>5, <1>0 DEF CasCall
    <3> QED
      BY <2>1, <2>2, <2>3, <3>1, CasUpdate DEF Cas!Return, CasCalls
  <2> QED
    BY <2>4, <2>5
<1>11. ASSUME NEW p \in Procs, Crash(p) PROVE Cas!Crash({t \in Threads : Proc[t] = p})
  <2>1. ASSUME NEW t \in Threads
        PROVE  CasCall(t)' = IF Proc[t] = p THEN Cas!Idle ELSE CasCall(t)
    <3>1. CASE Proc[t] = p
      BY <1>11, <3>1 DEF Crash, InProc, CasCall, Cas!Idle
    <3>2. CASE Proc[t] # p
      BY <1>11, <3>2 DEF Crash, InProc, CasCall
    <3> QED
      BY <3>1, <3>2
  <2>2. file' = file
    BY <1>11 DEF Crash
  <2> QED
    BY <2>1, <2>2 DEF Cas!Crash
<1>12. CASE UNCHANGED vars
  BY <1>12 DEF vars, Cas!vars, CasCall
<1> QED
  BY <1>1, <1>2, <1>3, <1>4, <1>5, <1>6, <1>7, <1>8, <1>9, <1>10, <1>11, <1>12
  DEF Next, Step, LeaveFrame, Put, Delete, Cas!Next

\* If every writer goes through conditional_put, the state store is an atomic
\* compare-and-set register, for any number of threads, processes and values.
THEOREM StoreIsCasRegister ==
    ASSUME ~UnlockedOps
    PROVE  Spec => ImplementsCasRegister
<1>1. Init => Cas!Init
  BY DEF Init, Cas!Init, CasCall, Cas!Idle, Contents, Cas!Contents
<1>2. Init => VersionInv
  BY DEF Init, VersionInv, TransactionIsolated
<1>3. LockInv /\ MutualExclusion /\ VersionInv /\ [Next]_vars => VersionInv'
  BY VersionNext
<1>4. LockInv /\ VersionInv /\ [Next]_vars => [Cas!Next]_(Cas!vars)
  BY CasNext
<1> QED
  BY <1>1, <1>2, <1>3, <1>4, LockStructure, KeyLockExcludes, PTL
  DEF Spec, ImplementsCasRegister, Cas!Spec
=============================================================================
