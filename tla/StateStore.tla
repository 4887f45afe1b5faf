----------------------------- MODULE StateStore -----------------------------
(***************************************************************************)
(* FileStateStore (src/src/datasluice/sync/state_store.py) for ONE key.    *)
(* Everything the store keeps is per key: the state file, the entry of the *)
(* process-global lock registry and the advisory .lock file; two keys      *)
(* share nothing, so one key is the general case.                          *)
(*                                                                         *)
(* _key_lock_held nests three locks, taken and dropped in separate steps:  *)
(*   1. the registry entry (an RLock created on first use, with a user     *)
(*      count; the last user removes it), guarded by _GLOBAL_LOCKS_GUARD;  *)
(*   2. that RLock, reentrant per thread;                                  *)
(*   3. on local backends the flock on <state>.lock, made reentrant by the *)
(*      thread-local set of held scopes.                                   *)
(* A frame is one entry of _key_lock_held: a key_lock transaction is one   *)
(* frame and a conditional_put inside it a second one.                     *)
(***************************************************************************)
EXTENDS Integers, FiniteSets

CONSTANTS Threads, Procs,
          Proc,         \* Proc[t]: the operating-system process of thread t
          Values,       \* serialized envelopes
          Absent,       \* no state file
          LockIds,      \* identities of RLock objects
          NoLock, NoThread,
          Backend,      \* fsspec protocol of the store
          LockTimeout,  \* Windows gives up on the file lock; POSIX blocks
          UnlockedOps   \* callers also use put without expected_prior, and delete

ASSUME StateStoreAssumption ==
    /\ Proc \in [Threads -> Procs]
    /\ IsFiniteSet(Threads)
    /\ Absent \notin Values
    /\ NoLock \notin LockIds
    /\ NoThread \notin Threads
    /\ Backend \in {"local", "memory"}
    /\ Backend = "memory" => \A t, u \in Threads : Proc[t] = Proc[u]
    /\ LockTimeout \in BOOLEAN
    /\ UnlockedOps \in BOOLEAN

VARIABLES file,      \* content of the state file
          registry,  \* _GLOBAL_LOCKS: the RLock registered in each process
          users,     \* _GLOBAL_LOCKS_USERS
          owner,     \* owning thread of each RLock object
          count,     \* its recursion count
          flock,     \* thread whose open file description holds the file lock
          frames,    \* frames of _key_lock_held on each thread's stack (0..2)
          ref,       \* the RLock object each frame looked up
          held,      \* frame that took the file lock (_HELD_FILE_LOCKS), 0 if none
          pc,        \* where the thread is inside a store call
          call,      \* "txn" or "cas" while entering or leaving one, else "none"
          inTxn,     \* the thread is inside a key_lock block
          known,     \* CAS version the caller holds
          new,       \* payload of the conditional_put under way
          outcome,   \* how that call ended
          sighted,   \* known was obtained inside the current transaction (observation only)
          by         \* kind of the write that left file as it is (observation only)

lockVars == <<registry, users, owner, count, flock, frames, ref, held>>
callVars == <<pc, call, inTxn, known, new, outcome, sighted>>
vars     == <<file, registry, users, owner, count, flock, frames, ref, held,
              pc, call, inTxn, known, new, outcome, sighted, by>>

Contents == Values \cup {Absent}
Depth    == 2   \* a transaction frame and a conditional_put frame

HasFileLock == Backend = "local"

Init ==
    /\ file \in Contents
    /\ registry = [p \in Procs |-> NoLock]
    /\ users = [p \in Procs |-> 0]
    /\ owner = [l \in LockIds |-> NoThread]
    /\ count = [l \in LockIds |-> 0]
    /\ flock = NoThread
    /\ frames = [t \in Threads |-> 0]
    /\ ref = [t \in Threads |-> [f \in 1..Depth |-> NoLock]]
    /\ held = [t \in Threads |-> 0]
    /\ pc = [t \in Threads |-> "idle"]
    /\ call = [t \in Threads |-> "none"]
    /\ inTxn = [t \in Threads |-> FALSE]
    /\ known = [t \in Threads |-> Absent]
    /\ new = [t \in Threads |-> Absent]
    /\ outcome = [t \in Threads |-> "none"]
    /\ sighted = [t \in Threads |-> FALSE]
    /\ by = "cas"

-----------------------------------------------------------------------------
(* Reading                                                                  *)

\* get_with_version / read_version: state and version come from one read.
GetWithVersion(t) ==
    /\ pc[t] = "idle"
    /\ known' = [known EXCEPT ![t] = file]
    /\ sighted' = [sighted EXCEPT ![t] = inTxn[t]]
    /\ UNCHANGED <<file, lockVars, pc, call, inTxn, new, outcome, by>>

-----------------------------------------------------------------------------
(* Entering a frame of _key_lock_held                                       *)

\* A lock object nobody refers to: what threading.RLock() returns.
FreshLock(l) ==
    /\ \A p \in Procs : registry[p] # l
    /\ \A t \in Threads, f \in 1..Depth : ref[t][f] # l

\* Under the guard: look the RLock up, or create it, and count one more user.
Register(t) ==
    LET p == Proc[t] IN
    /\ \E l \in LockIds :
          /\ IF registry[p] = NoLock THEN FreshLock(l) ELSE l = registry[p]
          /\ registry' = [registry EXCEPT ![p] = l]
          /\ ref' = [ref EXCEPT ![t][frames[t] + 1] = l]
    /\ users' = [users EXCEPT ![p] = @ + 1]
    /\ frames' = [frames EXCEPT ![t] = @ + 1]
    /\ pc' = [pc EXCEPT ![t] = "rlock"]
    /\ UNCHANGED <<file, owner, count, flock, held, known, sighted, by>>

\* key_lock: a transaction; both modelled backends pass its atomic-mv guard.
EnterKeyLock(t) ==
    /\ pc[t] = "idle" /\ ~inTxn[t]
    /\ Register(t)
    /\ call' = [call EXCEPT ![t] = "txn"]
    /\ UNCHANGED <<inTxn, new, outcome>>

\* conditional_put, alone or inside the caller's transaction.
BeginConditionalPut(t) ==
    /\ pc[t] = "idle"
    /\ Register(t)
    /\ call' = [call EXCEPT ![t] = "cas"]
    /\ \E v \in Values : new' = [new EXCEPT ![t] = v]
    /\ outcome' = [outcome EXCEPT ![t] = "none"]
    /\ UNCHANGED inTxn

TopLock(t) == ref[t][frames[t]]

AcquireRLock(t) ==
    /\ pc[t] = "rlock"
    /\ owner[TopLock(t)] \in {NoThread, t}
    /\ owner' = [owner EXCEPT ![TopLock(t)] = t]
    /\ count' = [count EXCEPT ![TopLock(t)] = @ + 1]
    /\ pc' = [pc EXCEPT ![t] = "flock"]
    /\ UNCHANGED <<file, registry, users, flock, frames, ref, held,
                   call, inTxn, known, new, outcome, sighted, by>>

\* Mutant of AcquireFileLock: a shared lock (LOCK_SH) never waits.
AcquireFileLockShared(t) ==
    /\ pc[t] = "flock"
    /\ flock' = t
    /\ held' = [held EXCEPT ![t] = IF @ = 0 THEN frames[t] ELSE @]
    /\ pc' = [pc EXCEPT ![t] = IF call[t] = "txn" THEN "idle" ELSE "compare"]
    /\ inTxn' = [inTxn EXCEPT ![t] = @ \/ call[t] = "txn"]
    /\ call' = [call EXCEPT ![t] = IF @ = "txn" THEN "none" ELSE @]
    /\ UNCHANGED <<file, registry, users, owner, count, frames, ref, known, new, outcome, sighted, by>>

\* _file_lock: nothing to take off local backends or when this thread already
\* holds the scope; otherwise block until the lock is free.
AcquireFileLock(t) ==
    /\ pc[t] = "flock"
    /\ IF ~HasFileLock \/ held[t] # 0
       THEN UNCHANGED <<flock, held>>
       ELSE /\ flock = NoThread
            /\ flock' = t
            /\ held' = [held EXCEPT ![t] = frames[t]]
    /\ pc' = [pc EXCEPT ![t] = IF call[t] = "txn" THEN "idle" ELSE "compare"]
    /\ inTxn' = [inTxn EXCEPT ![t] = @ \/ call[t] = "txn"]
    /\ call' = [call EXCEPT ![t] = IF @ = "txn" THEN "none" ELSE @]
    /\ UNCHANGED <<file, registry, users, owner, count, frames, ref, known, new, outcome, sighted, by>>

\* Windows only: another holder outlives _WINDOWS_LOCK_TIMEOUT_SECONDS.
FileLockTimesOut(t) ==
    /\ LockTimeout
    /\ pc[t] = "flock"
    /\ HasFileLock /\ held[t] = 0 /\ flock # NoThread
    /\ pc' = [pc EXCEPT ![t] = "exitRLock"]
    /\ outcome' = [outcome EXCEPT ![t] = "failed"]
    /\ UNCHANGED <<file, lockVars, call, inTxn, known, new, sighted, by>>

-----------------------------------------------------------------------------
(* The body of conditional_put                                              *)

\* Mutant of Compare: the expected version is not checked.
CompareSkipped(t) ==
    /\ pc[t] = "compare"
    /\ pc' = [pc EXCEPT ![t] = "publish"]
    /\ UNCHANGED <<file, lockVars, call, inTxn, known, new, outcome, sighted, by>>

\* Re-read the file and compare digests (absent compares as empty bytes).
Compare(t) ==
    /\ pc[t] = "compare"
    /\ IF file = known[t]
       THEN /\ pc' = [pc EXCEPT ![t] = "publish"]
            /\ UNCHANGED outcome
       ELSE /\ pc' = [pc EXCEPT ![t] = "exit"]
            /\ outcome' = [outcome EXCEPT ![t] = "conflict"]
    /\ UNCHANGED <<file, lockVars, call, inTxn, known, new, sighted, by>>

\* _publish: temp file plus atomic rename.
Publish(t) ==
    /\ pc[t] = "publish"
    /\ file' = new[t]
    /\ by' = "cas"
    /\ outcome' = [outcome EXCEPT ![t] = "ok"]
    /\ pc' = [pc EXCEPT ![t] = "exit"]
    /\ UNCHANGED <<lockVars, call, inTxn, known, new, sighted>>

\* Mutant of BackendFails: the error leaves without releasing the file lock.
BackendFailsHoldingLock(t) ==
    /\ pc[t] \in {"compare", "publish"}
    /\ outcome' = [outcome EXCEPT ![t] = "failed"]
    /\ pc' = [pc EXCEPT ![t] = "exitRLock"]
    /\ UNCHANGED <<file, lockVars, call, inTxn, known, new, sighted, by>>

\* A backend error in the re-read or in _publish (the temp file is removed).
BackendFails(t) ==
    /\ pc[t] \in {"compare", "publish"}
    /\ outcome' = [outcome EXCEPT ![t] = "failed"]
    /\ pc' = [pc EXCEPT ![t] = "exit"]
    /\ UNCHANGED <<file, lockVars, call, inTxn, known, new, sighted, by>>

-----------------------------------------------------------------------------
(* Leaving a frame                                                          *)

\* The with-block of key_lock ends, normally or by an exception.
ExitKeyLock(t) ==
    /\ pc[t] = "idle" /\ inTxn[t]
    /\ inTxn' = [inTxn EXCEPT ![t] = FALSE]
    /\ call' = [call EXCEPT ![t] = "txn"]
    /\ pc' = [pc EXCEPT ![t] = "exit"]
    /\ sighted' = [sighted EXCEPT ![t] = FALSE]
    /\ UNCHANGED <<file, lockVars, known, new, outcome, by>>

\* Mutant of ReleaseFileLock: an inner frame drops the outer frame's lock.
ReleaseFileLockAlways(t) ==
    /\ pc[t] = "exit"
    /\ flock' = NoThread
    /\ held' = [held EXCEPT ![t] = 0]
    /\ pc' = [pc EXCEPT ![t] = "exitRLock"]
    /\ UNCHANGED <<file, registry, users, owner, count, frames, ref,
                   call, inTxn, known, new, outcome, sighted, by>>

ReleaseFileLock(t) ==
    /\ pc[t] = "exit"
    /\ IF held[t] = frames[t]
       THEN /\ flock' = NoThread
            /\ held' = [held EXCEPT ![t] = 0]
       ELSE UNCHANGED <<flock, held>>
    /\ pc' = [pc EXCEPT ![t] = "exitRLock"]
    /\ UNCHANGED <<file, registry, users, owner, count, frames, ref,
                   call, inTxn, known, new, outcome, sighted, by>>

ReleaseRLock(t) ==
    /\ pc[t] = "exitRLock"
    /\ count' = [count EXCEPT ![TopLock(t)] = @ - 1]
    /\ owner' = [owner EXCEPT ![TopLock(t)] = IF count[TopLock(t)] = 1 THEN NoThread ELSE @]
    /\ pc' = [pc EXCEPT ![t] = "exitGuard"]
    /\ UNCHANGED <<file, registry, users, flock, frames, ref, held,
                   call, inTxn, known, new, outcome, sighted, by>>

\* Mutant of Deregister: every user removes the registry entry.
DeregisterAlwaysRemoves(t) ==
    LET p == Proc[t] IN
    /\ pc[t] = "exitGuard"
    /\ users' = [users EXCEPT ![p] = @ - 1]
    /\ registry' = [registry EXCEPT ![p] = NoLock]
    /\ ref' = [ref EXCEPT ![t][frames[t]] = NoLock]
    /\ frames' = [frames EXCEPT ![t] = @ - 1]
    /\ known' = [known EXCEPT ![t] = IF call[t] = "cas" /\ outcome[t] = "ok" THEN new[t] ELSE @]
    /\ new' = [new EXCEPT ![t] = Absent]
    /\ outcome' = [outcome EXCEPT ![t] = "none"]
    /\ call' = [call EXCEPT ![t] = "none"]
    /\ pc' = [pc EXCEPT ![t] = "idle"]
    /\ UNCHANGED <<file, owner, count, flock, held, inTxn, sighted, by>>

\* Under the guard: the last user removes the registry entry.  The call then
\* returns; a committed conditional_put hands back the new CAS version.
Deregister(t) ==
    LET p == Proc[t] IN
    /\ pc[t] = "exitGuard"
    /\ users' = [users EXCEPT ![p] = @ - 1]
    /\ registry' = [registry EXCEPT ![p] = IF users[p] > 1 THEN @ ELSE NoLock]
    /\ ref' = [ref EXCEPT ![t][frames[t]] = NoLock]
    /\ frames' = [frames EXCEPT ![t] = @ - 1]
    /\ known' = [known EXCEPT ![t] = IF call[t] = "cas" /\ outcome[t] = "ok" THEN new[t] ELSE @]
    /\ new' = [new EXCEPT ![t] = Absent]
    /\ outcome' = [outcome EXCEPT ![t] = "none"]
    /\ call' = [call EXCEPT ![t] = "none"]
    /\ pc' = [pc EXCEPT ![t] = "idle"]
    /\ UNCHANGED <<file, owner, count, flock, held, inTxn, sighted, by>>

-----------------------------------------------------------------------------
(* Writes that take no lock                                                 *)

\* put without expected_prior
Put(t) ==
    /\ UnlockedOps /\ pc[t] = "idle"
    /\ \E v \in Values : file' = v
    /\ by' = "unlocked"
    /\ UNCHANGED <<lockVars, callVars>>

\* delete; a missing file is tolerated
Delete(t) ==
    /\ UnlockedOps /\ pc[t] = "idle"
    /\ file' = Absent
    /\ by' = "unlocked"
    /\ UNCHANGED <<lockVars, callVars>>

-----------------------------------------------------------------------------
(* A process dies: its memory is gone and the kernel drops its file lock.   *)

InProc(t, p) == Proc[t] = p

Crash(p) ==
    /\ registry' = [registry EXCEPT ![p] = NoLock]
    /\ users' = [users EXCEPT ![p] = 0]
    /\ owner' = [l \in LockIds |->
                    IF owner[l] # NoThread /\ InProc(owner[l], p) THEN NoThread ELSE owner[l]]
    /\ count' = [l \in LockIds |->
                    IF owner[l] # NoThread /\ InProc(owner[l], p) THEN 0 ELSE count[l]]
    /\ flock' = IF flock # NoThread /\ InProc(flock, p) THEN NoThread ELSE flock
    /\ frames' = [t \in Threads |-> IF InProc(t, p) THEN 0 ELSE frames[t]]
    /\ ref' = [t \in Threads |-> IF InProc(t, p) THEN [f \in 1..Depth |-> NoLock] ELSE ref[t]]
    /\ held' = [t \in Threads |-> IF InProc(t, p) THEN 0 ELSE held[t]]
    /\ pc' = [t \in Threads |-> IF InProc(t, p) THEN "idle" ELSE pc[t]]
    /\ call' = [t \in Threads |-> IF InProc(t, p) THEN "none" ELSE call[t]]
    /\ inTxn' = [t \in Threads |-> IF InProc(t, p) THEN FALSE ELSE inTxn[t]]
    /\ known' = [t \in Threads |-> IF InProc(t, p) THEN Absent ELSE known[t]]
    /\ new' = [t \in Threads |-> IF InProc(t, p) THEN Absent ELSE new[t]]
    /\ outcome' = [t \in Threads |-> IF InProc(t, p) THEN "none" ELSE outcome[t]]
    /\ sighted' = [t \in Threads |-> IF InProc(t, p) THEN FALSE ELSE sighted[t]]
    /\ UNCHANGED <<file, by>>

-----------------------------------------------------------------------------

LeaveFrame(t) == ReleaseFileLock(t) \/ ReleaseRLock(t) \/ Deregister(t)
Step(t) == \/ AcquireRLock(t) \/ AcquireFileLock(t)
           \/ Compare(t) \/ Publish(t) \/ BackendFails(t)
           \/ LeaveFrame(t)

Next == \/ \E t \in Threads :
              \/ GetWithVersion(t) \/ EnterKeyLock(t) \/ BeginConditionalPut(t)
              \/ FileLockTimesOut(t) \/ ExitKeyLock(t)
              \/ Step(t)
              \/ Put(t) \/ Delete(t)
        \/ \E p \in Procs : Crash(p)

Spec == Init /\ [][Next]_vars

\* The interpreter keeps running every thread that can run (weak fairness), and
\* the code under key_lock makes finitely many store calls, so it leaves its block
\* although each call disables that step for a while (strong fairness).
Fairness == \A t \in Threads : WF_vars(Step(t)) /\ SF_vars(ExitKeyLock(t))
FairSpec == Spec /\ Fairness
-----------------------------------------------------------------------------
(* Properties                                                               *)

\* Every variable has its type.
TypeOK ==
    /\ file \in Contents
    /\ registry \in [Procs -> LockIds \cup {NoLock}]
    /\ users \in [Procs -> Nat]
    /\ owner \in [LockIds -> Threads \cup {NoThread}]
    /\ count \in [LockIds -> Nat]
    /\ flock \in Threads \cup {NoThread}
    /\ frames \in [Threads -> 0..Depth]
    /\ ref \in [Threads -> [1..Depth -> LockIds \cup {NoLock}]]
    /\ held \in [Threads -> 0..Depth]
    /\ pc \in [Threads -> {"idle", "rlock", "flock", "compare", "publish",
                           "exit", "exitRLock", "exitGuard"}]
    /\ call \in [Threads -> {"none", "txn", "cas"}]
    /\ inTxn \in [Threads -> BOOLEAN]
    /\ known \in [Threads -> Contents]
    /\ new \in [Threads -> Contents]
    /\ outcome \in [Threads -> {"none", "ok", "conflict", "failed"}]
    /\ sighted \in [Threads -> BOOLEAN]
    /\ by \in {"cas", "unlocked"}

\* A thread executes under the per-key lock: inside a key_lock block or between
\* the version check and the rename of conditional_put.
Critical(t) == inTxn[t] \/ pc[t] \in {"compare", "publish"}

\* "Serialize a resource transaction across threads and local processes"
\* (key_lock): two threads never execute under the key's lock at once, whatever
\* processes they are in and however registry entries come and go.
MutualExclusion ==
    \A t, u \in Threads : Critical(t) /\ Critical(u) => t = u

\* The registry never hands two threads of a process different RLocks for the
\* key while one of them still refers to the first: an entry is removed only
\* when its last user has left (_GLOBAL_LOCKS_USERS).
OneLockPerProcess ==
    \A t \in Threads : \A f \in 1..frames[t] : ref[t][f] = registry[Proc[t]]

\* The version a transaction has read, or was given back by its last
\* conditional_put, stays the content of the file until the transaction ends, so
\* the chained conditional_puts of one sync can never lose to another writer.
TransactionIsolated ==
    \A t \in Threads :
        inTxn[t] /\ sighted[t] =>
            file = IF call[t] = "cas" /\ outcome[t] = "ok" THEN new[t] ELSE known[t]

\* conditional_put never replaces content it did not expect if that content was
\* committed by another conditional_put; only the writes that take no lock
\* (put without expected_prior, delete) can slip in after the version check.
CasNeverClobbersCas ==
    [][\A t \in Threads : Publish(t) => file = known[t] \/ by = "unlocked"]_vars

\* The call a caller has under way, as its caller sees it.
CasCall(t) ==
    IF call[t] = "cas"
    THEN [status |-> IF outcome[t] = "none" THEN "pending" ELSE outcome[t],
          expected |-> known[t], new |-> new[t]]
    ELSE [status |-> "idle", expected |-> Absent, new |-> Absent]

Cas == INSTANCE CasRegister WITH value <- file, call <- [t \in Threads |-> CasCall(t)]

\* conditional_put is an atomic compare-and-set register for its callers: however
\* its steps interleave with other calls and with crashes, each call takes effect
\* at one instant, on exactly the content it expected, or not at all.
ImplementsCasRegister == Cas!Spec

\* The file lock never stays with a thread for ever: frames unwind from any
\* state, a failed or conflicting call included.
FileLockReleased == \A t \in Threads : flock = t ~> flock # t
=============================================================================
