------------------------- MODULE SyncResourceProofs -------------------------
(***************************************************************************)
(* Proofs about SyncResource, for any contents, number of row groups and   *)
(* destinations and any number of faults.  What is true of HTTP downloads  *)
(* (ValidatorInv) holds always; what hashing shows about a source          *)
(* (VersionInv) needs hashes that succeed.  The source may return to an    *)
(* earlier content at any time: what is claimed is claimed of the passes   *)
(* and records whose source did not move while it was read.                *)
(***************************************************************************)
EXTENDS SyncResource, TLAPS

\* What the pass has in its hands at each place.
PlaceInv ==
    /\ pc # "idle" => dest \in Destinations
    /\ pc \in {"shard", "persist"} => next < Batches
    /\ pc \in {"batch", "shard", "persist", "read", "buffered"} => opened \in Versions
    /\ pc \in {"read", "buffered"} => \A i \in 1..next : staged[i] \in Versions
    /\ pc \in {"verify", "commit", "cleanup"} => staged \in Contents
    /\ pc \in {"batch", "shard", "persist", "verify"} => Checkpointed
    /\ pc \in {"conditional", "buffered"} => kind = "http"
    /\ pc = "read" => ~Checkpointed
    /\ pc \in {"idle", "load", "conditional"} => next = 0
    /\ pc = "open" /\ ~Checkpointed => next = 0
    /\ pc = "cleanup" => state.kind = "completed"

\* An HTTP download has neither checkpoints nor source versions.
HttpInv == kind = "http" => state.kind # "checkpoint" /\ stable = None /\ state.source = None

\* The validator of a response stays with the body it came with.
ValidatorInv ==
    /\ mark # None => pc \in {"buffered", "commit", "cleanup"}
    /\ pc = "buffered" => /\ mark # None => opened = mark
                          /\ \A i \in 1..next : staged[i] = opened
    /\ pc = "commit" /\ mark # None => Uniform(staged, mark)
    /\ ValidatorIsSound

PassInv == TypeOK /\ PlaceInv /\ HttpInv /\ ValidatorInv

-----------------------------------------------------------------------------
\* Hashing succeeds: a pass over a file knows the version it reads, and so does every
\* checkpoint.
KnownInv ==
    /\ kind = "parquet" /\ pc \notin {"idle", "load"} => stable # None
    /\ state.kind = "checkpoint" => state.source # None

\* What moved observes: a source that stayed is what the pass hashed, one that left is not.
MovedInv == Reading => /\ moved = "stayed" => source = stable
                       /\ moved = "left" => source # stable

\* While the source stays, everything the pass has read is of the version it hashed.
ReadInv == stable # None /\ moved = "stayed" =>
    /\ pc \in {"batch", "shard", "persist", "read"} => opened = stable
    /\ pc = "shard" => staged[next + 1] = stable
    /\ pc = "persist" => shards[dest][next + 1] = stable
    /\ pc = "read" => \A i \in 1..next : staged[i] = stable
    /\ pc \in {"verify", "commit"} => Uniform(staged, stable)

\* The shards a pass continues from are of the version it hashed, or missing.
ResumeInv ==
    pc = "open" /\ Checkpointed /\ moved = "stayed" =>
        \A i \in 1..next : shards[dest][i] \in {stable, None}

\* After the second hash the artifact is of one version, whatever the source is by now,
\* unless the source had returned to that version.
CommitInv == pc = "commit" /\ Checkpointed /\ moved # "returned" => stable # None /\ Uniform(staged, stable)

\* The shards a checkpoint counts are of the version it names, or missing once a pass has
\* started over it, unless the source moved under a pass that published one of them.
CheckpointInv ==
    state.kind = "checkpoint" /\ ~suspect =>
        \A i \in 1..state.next :
            shards[state.dest][i] = state.source \/ (dropped /\ shards[state.dest][i] = None)

\* A pass that has not started over continues where the checkpoint is.
CursorInv ==
    state.kind = "checkpoint" /\ ~dropped /\ pc \in {"open", "batch", "shard", "persist"} =>
        state.dest = dest /\ state.next = next /\ Checkpointed

VersionInv ==
    /\ KnownInv /\ MovedInv /\ ReadInv /\ ResumeInv /\ CommitInv /\ CheckpointInv /\ CursorInv
    /\ StagedShardsMatchSource
    /\ SkipIsSound

-----------------------------------------------------------------------------
(* Types                                                                    *)

\* What the three kinds of record consist of.
LEMMA StateFields ==
    ASSUME NEW s \in States
    PROVE  /\ s.kind \in {"none", "checkpoint", "completed"}
           /\ s.source \in Versions \cup {None} /\ s.mark \in Versions \cup {None}
           /\ s.kind = "none" => s.source = None
           /\ s.kind = "checkpoint" => s.next \in Indexes /\ s.dest \in Destinations
           /\ s.kind = "completed" => s.content \in Contents /\ s.dest \in Destinations
BY SyncResourceAssumption DEF States, NoState, InProgressState, CompletedState, Indexes

\* The records a pass writes.
LEMMA RecordTypes ==
    /\ NoState \in States
    /\ \A n \in Indexes, v \in Versions \cup {None}, d \in Destinations : InProgressState(n, v, d) \in States
    /\ \A v, w \in Versions \cup {None}, d \in Destinations, c \in Contents : CompletedState(v, d, c, w) \in States
<1>1. NoState \in States
  BY DEF States
<1>2. ASSUME NEW n \in Indexes, NEW v \in Versions \cup {None}, NEW d \in Destinations
      PROVE  InProgressState(n, v, d) \in States
  <2>1. InProgressState(n, v, d) \in
          {InProgressState(m, u, e) : m \in Indexes, u \in Versions \cup {None}, e \in Destinations}
    BY <1>2, SMT
  <2> QED
    BY <2>1, SMT DEF States
<1>3. ASSUME NEW t \in Versions \cup {None}, NEW u \in Versions \cup {None}, NEW e \in Destinations,
             NEW f \in Contents
      PROVE  CompletedState(t, e, f, u) \in States
  <2> DEFINE Completed ==
        {CompletedState(v, d, c, w) : v, w \in Versions \cup {None}, d \in Destinations, c \in Contents}
  <2>1. CompletedState(t, e, f, u) \in Completed
    BY <1>3, SMT
  <2>2. Completed \subseteq States
    BY SMT DEF States
  <2> HIDE DEF Completed
  <2> QED
    BY <2>1, <2>2
<1> QED
  BY <1>1, <1>2, <1>3

\* Types of a pass that has ended.
PassTypeOK ==
    /\ pc \in {"idle", "load", "conditional", "open", "buffered", "batch", "shard", "persist", "verify",
              "read", "commit", "cleanup"}
    /\ resume \in BOOLEAN
    /\ dest \in Destinations \cup {None}
    /\ stable \in Versions \cup {None}
    /\ healthy \in BOOLEAN
    /\ mark \in Versions \cup {None}
    /\ next \in 0..Batches
    /\ action \in {"materialized", "resumed"}
    /\ opened \in Versions \cup {None}
    /\ staged \in Partial
    /\ moved \in {"stayed", "left", "returned"}

DurableTypeOK ==
    /\ kind \in Kinds
    /\ source \in Versions
    /\ state \in States
    /\ shards \in [Destinations -> Partial]
    /\ artifact \in [Destinations -> Contents \cup {None}]
    /\ dropped \in BOOLEAN
    /\ suspect \in BOOLEAN
    /\ changes \in 0..MaxChanges
    /\ faults \in 0..MaxFaults

Outcomes == {"none", "resumed", "skipped-unchanged", "materialized", "missing-shard", "source-changed",
             "fetch-failed", "crashed"}

\* The type invariant, by what a step changes.
LEMMA TypeParts == TypeOK <=> PassTypeOK /\ DurableTypeOK /\ outcome \in Outcomes
BY DEF TypeOK, PassTypeOK, DurableTypeOK, Outcomes

\* A pass that is over has left nothing behind in memory.
LEMMA IdleTypes == Idle => PassTypeOK'
<1> SUFFICES ASSUME Idle PROVE PassTypeOK'
  OBVIOUS
<1>1. resume' \in BOOLEAN /\ healthy' \in BOOLEAN
  BY DEF Idle
<1>2. staged' \in Partial
  BY DEF Idle, Empty, Partial
<1> QED
  BY <1>1, <1>2, SyncResourceAssumption DEF Idle, PassTypeOK

\* Removing shards, all of them or some, leaves shards.
LEMMA CleanupTypes == TypeOK /\ Cleanup => shards' \in [Destinations -> Partial]
<1> SUFFICES ASSUME TypeOK, Cleanup PROVE shards' \in [Destinations -> Partial]
  OBVIOUS
<1>1. PICK kept \in SUBSET Indexes :
        shards' = [shards EXCEPT ![dest] = [i \in Indexes |-> IF i \in kept THEN @[i] ELSE None]]
  BY DEF Cleanup
<1>2. shards \in [Destinations -> Partial]
  BY DEF TypeOK
<1>3. dest \in Destinations =>
        [i \in Indexes |-> IF i \in kept THEN shards[dest][i] ELSE None] \in Partial
  BY <1>2 DEF Partial
<1> QED
  BY <1>1, <1>2, <1>3

\* Before the first pass nothing is recorded.
LEMMA PassInit == Init => PassInv
<1> SUFFICES ASSUME Init PROVE PassInv
  OBVIOUS
<1> USE SyncResourceAssumption
<1>1. DurableTypeOK
  <2>1. dropped \in BOOLEAN /\ suspect \in BOOLEAN
    BY DEF Init
  <2> QED
    BY <2>1, RecordTypes DEF Init, DurableTypeOK, Empty, Partial
<1>2. PassTypeOK
  <2>1. resume \in BOOLEAN /\ healthy \in BOOLEAN
    BY DEF Init
  <2> QED
    BY <2>1 DEF Init, PassTypeOK, Empty, Partial
<1>3. TypeOK
  BY <1>1, <1>2, TypeParts DEF Init, Outcomes
<1>4. PlaceInv
  BY DEF Init, PlaceInv
<1>5. HttpInv
  BY DEF Init, HttpInv, NoState
<1>6. ValidatorInv
  BY DEF Init, ValidatorInv, ValidatorIsSound, NoState
<1> QED
  BY <1>3, <1>4, <1>5, <1>6 DEF PassInv

\* Every step preserves the types.
LEMMA PassTypes == PassInv /\ [Next]_vars => TypeOK'
<1> SUFFICES ASSUME PassInv, [Next]_vars PROVE TypeOK'
  OBVIOUS
<1> USE SyncResourceAssumption
<1>0. TypeOK /\ PassTypeOK /\ DurableTypeOK /\ outcome \in Outcomes /\ PlaceInv
  BY TypeParts DEF PassInv
<1>a. ASSUME PassTypeOK', DurableTypeOK', outcome' \in Outcomes PROVE TypeOK'
  BY <1>a, TypeParts DEF TypeOK, PassTypeOK, DurableTypeOK, Outcomes
<1>b. ASSUME UNCHANGED durable PROVE DurableTypeOK'
  BY <1>0, <1>b DEF DurableTypeOK, durable
<1>1. ASSUME NEW r \in Resumes, NEW d \in Destinations, Start(r, d) PROVE TypeOK'
  <2>1. r \in BOOLEAN
    OBVIOUS
  <2>2. resume' \in BOOLEAN
    BY <1>1, <2>1 DEF Start
  <2>3. PassTypeOK'
    BY <1>0, <1>1, <2>2 DEF Start, PassTypeOK
  <2>4. DurableTypeOK'
    BY <1>1, <1>b DEF Start, durable
  <2> QED
    BY <1>1, <1>a, <2>3, <2>4 DEF Start, Outcomes
<1>2. CASE AlreadyDone
  BY <1>2, <1>a, <1>b, IdleTypes DEF AlreadyDone, Outcomes
<1>3. ASSUME NEW h \in Versions \cup {None}, SkipUnchanged(h) PROVE TypeOK'
  BY <1>3, <1>a, <1>b, IdleTypes DEF SkipUnchanged, Outcomes
<1>4. ASSUME NEW h \in Versions \cup {None}, LoadContext(h) PROVE TypeOK'
  <2>1. healthy' \in BOOLEAN
    <3>1. Healthy(dest) \in BOOLEAN
      BY DEF Healthy
    <3> QED
      BY <1>4, <3>1 DEF LoadContext
  <2>2. dropped' \in BOOLEAN
    BY <1>4 DEF LoadContext
  <2>3. next' \in 0..Batches /\ action' \in {"materialized", "resumed"}
    BY <1>0, <1>4, StateFields DEF LoadContext, DurableTypeOK, Indexes
  <2>4. PassTypeOK'
    BY <1>0, <1>4, <2>1, <2>3 DEF LoadContext, PassTypeOK
  <2>5. DurableTypeOK'
    BY <1>0, <1>4, <2>2 DEF LoadContext, DurableTypeOK
  <2> QED
    BY <1>0, <1>4, <1>a, <2>4, <2>5 DEF LoadContext
<1>5. ASSUME NEW h \in Versions \cup {None}, Abort(h) PROVE TypeOK'
  <2>1. suspect' \in BOOLEAN
    BY <1>5 DEF Abort
  <2>2. DurableTypeOK'
    BY <1>0, <1>5, <2>1, CleanupTypes DEF Abort, DurableTypeOK
  <2> QED
    BY <1>5, <1>a, <2>2, IdleTypes DEF Abort, Outcomes
<1>6. ASSUME NEW h \in Versions \cup {None}, Verify(h) PROVE TypeOK'
  BY <1>0, <1>6, <1>a, <1>b DEF Verify, PassTypeOK
<1>7. CASE ReadDirectly
  BY <1>0, <1>7, <1>a, <1>b DEF ReadDirectly, PassTypeOK
<1>8. CASE NotModified
  <2>1. CASE Idle
    BY <1>8, <2>1, <1>0, <1>a, <1>b, IdleTypes DEF NotModified, Outcomes
  <2>2. CASE ~Idle
    BY <1>0, <1>8, <2>2, <1>a, <1>b DEF NotModified, PassTypeOK
  <2> QED
    BY <2>1, <2>2
<1>9. CASE Modified
  BY <1>0, <1>9, <1>a, <1>b DEF Modified, PassTypeOK, DurableTypeOK
<1>10. CASE FetchFails
  <2>1. DurableTypeOK'
    BY <1>0, <1>10 DEF FetchFails, DurableTypeOK
  <2> QED
    BY <1>10, <1>a, <2>1, IdleTypes DEF FetchFails, Outcomes
<1>11. CASE Open
  <2>1. CASE Idle
    BY <1>11, <2>1, <1>0, <1>a, <1>b, IdleTypes DEF Open, Outcomes
  <2>2. CASE ~Idle
    BY <1>0, <1>11, <2>2, <1>a, <1>b DEF Open, PassTypeOK, DurableTypeOK
  <2> QED
    BY <2>1, <2>2
<1>12. CASE ReadBatch
  <2>1. staged' \in Partial
    BY <1>0, <1>12 DEF ReadBatch, PassTypeOK, Partial
  <2>2. shards' \in [Destinations -> Partial]
    BY <1>0, <1>12 DEF ReadBatch, DurableTypeOK, Partial
  <2>3. PassTypeOK' /\ DurableTypeOK'
    BY <1>0, <1>12, <2>1, <2>2 DEF ReadBatch, PassTypeOK, DurableTypeOK
  <2> QED
    BY <1>0, <1>12, <1>a, <2>3 DEF ReadBatch
<1>13. CASE PublishBatchShard
  <2>1. next + 1 \in Indexes
    BY <1>0, <1>13 DEF PublishBatchShard, PlaceInv, PassTypeOK, Indexes
  <2>2. shards' \in [Destinations -> Partial]
    BY <1>0, <1>13, <2>1 DEF PublishBatchShard, PassTypeOK, DurableTypeOK, Partial
  <2>3. suspect' \in BOOLEAN
    BY <1>13 DEF PublishBatchShard
  <2>4. PassTypeOK' /\ DurableTypeOK'
    BY <1>0, <1>13, <2>2, <2>3 DEF PublishBatchShard, PassTypeOK, DurableTypeOK
  <2> QED
    BY <1>0, <1>13, <1>a, <2>4 DEF PublishBatchShard
<1>14. CASE PersistBatchState
  <2>1. next + 1 \in Indexes /\ next' \in 0..Batches
    BY <1>0, <1>14 DEF PersistBatchState, PlaceInv, PassTypeOK, Indexes
  <2>2. state' \in States
    BY <1>0, <1>14, <2>1, RecordTypes DEF PersistBatchState, PlaceInv, PassTypeOK
  <2>3. suspect' \in BOOLEAN
    BY <1>14 DEF PersistBatchState
  <2>4. PassTypeOK' /\ DurableTypeOK'
    BY <1>0, <1>14, <2>1, <2>2, <2>3 DEF PersistBatchState, PassTypeOK, DurableTypeOK
  <2> QED
    BY <1>0, <1>14, <1>a, <2>4 DEF PersistBatchState
<1>15. CASE PublishCheckpointed
  <2>1. shards[dest] \in Contents /\ shards[dest] \in Partial
    BY <1>0, <1>15 DEF PublishCheckpointed, PlaceInv, DurableTypeOK, Partial, Contents
  <2>2. PassTypeOK' /\ DurableTypeOK'
    BY <1>0, <1>15, <2>1 DEF PublishCheckpointed, PassTypeOK, DurableTypeOK
  <2> QED
    BY <1>0, <1>15, <1>a, <2>2 DEF PublishCheckpointed
<1>16. CASE ReadWhole
  <2>1. staged' \in Partial
    BY <1>0, <1>16 DEF ReadWhole, PassTypeOK, Partial
  <2>2. next' \in 0..Batches
    BY <1>0, <1>16 DEF ReadWhole, PassTypeOK
  <2> QED
    BY <1>0, <1>16, <1>a, <1>b, <2>1, <2>2 DEF ReadWhole, PassTypeOK
<1>17. CASE PublishWhole
  <2>1. staged \in Contents
    BY <1>0, <1>17 DEF PublishWhole, PlaceInv, PassTypeOK, Partial, Contents, Indexes
  <2>2. PassTypeOK' /\ DurableTypeOK'
    BY <1>0, <1>17, <2>1 DEF PublishWhole, PassTypeOK, DurableTypeOK
  <2> QED
    BY <1>0, <1>17, <1>a, <2>2 DEF PublishWhole
<1>18. CASE FinishUnchanged
  BY <1>18, <1>a, <1>b, IdleTypes DEF FinishUnchanged, Outcomes
<1>19. CASE Commit
  <2>1. state' \in States
    BY <1>0, <1>19, RecordTypes DEF Commit, PlaceInv, PassTypeOK
  <2>2. suspect' \in BOOLEAN
    BY <1>19 DEF Commit
  <2>3. PassTypeOK' /\ DurableTypeOK'
    BY <1>0, <1>19, <2>1, <2>2 DEF Commit, PassTypeOK, DurableTypeOK
  <2> QED
    BY <1>0, <1>19, <1>a, <2>3 DEF Commit
<1>20. CASE Finish
  <2>1. DurableTypeOK'
    BY <1>0, <1>20, CleanupTypes DEF Finish, DurableTypeOK
  <2> QED
    BY <1>0, <1>20, <1>a, <2>1, IdleTypes DEF Finish, Outcomes, PassTypeOK
<1>21. CASE ChangeSource
  <2>1. opened' \in Versions \cup {None}
    BY <1>0, <1>21 DEF ChangeSource, PassTypeOK
  <2>2. moved' \in {"stayed", "left", "returned"} /\ source' \in Versions
    BY <1>0, <1>21 DEF ChangeSource, PassTypeOK
  <2>3. changes' \in 0..MaxChanges
    BY <1>0, <1>21 DEF ChangeSource, DurableTypeOK
  <2>4. PassTypeOK' /\ DurableTypeOK'
    BY <1>0, <1>21, <2>1, <2>2, <2>3 DEF ChangeSource, PassTypeOK, DurableTypeOK
  <2> QED
    BY <1>0, <1>21, <1>a, <2>4 DEF ChangeSource
<1>22. CASE Crash
  <2>1. DurableTypeOK'
    BY <1>0, <1>22 DEF Crash, DurableTypeOK
  <2> QED
    BY <1>22, <1>a, <2>1, IdleTypes DEF Crash, Outcomes
<1>23. ASSUME NEW d \in Destinations, Damage(d) PROVE TypeOK'
  <2>1. PassTypeOK' /\ DurableTypeOK'
    BY <1>0, <1>23 DEF Damage, PassTypeOK, DurableTypeOK, pass
  <2> QED
    BY <1>0, <1>23, <1>a, <2>1 DEF Damage
<1>24. CASE UNCHANGED vars
  BY <1>0, <1>24 DEF TypeOK, vars
<1> QED
  BY <1>1, <1>2, <1>3, <1>4, <1>5, <1>6, <1>7, <1>8, <1>9, <1>10, <1>11, <1>12, <1>13, <1>14, <1>15,
     <1>16, <1>17, <1>18, <1>19, <1>20, <1>21, <1>22, <1>23, <1>24 DEF Next, Step

-----------------------------------------------------------------------------
(* Places and validators                                                    *)

\* Ways of ending the pass.
Ends == \/ AlreadyDone \/ FinishUnchanged \/ Finish \/ FetchFails \/ Crash
        \/ \E h \in Versions \cup {None} : SkipUnchanged(h) \/ Abort(h)
        \/ (NotModified /\ Idle) \/ (Open /\ Idle)

\* A pass that ends changes neither record nor artifact by ending.
LEMMA EndsAreIdle == Ends => Idle /\ UNCHANGED <<kind, source, state, artifact, dropped>>
BY DEF Ends, AlreadyDone, FinishUnchanged, Finish, FetchFails, Crash, SkipUnchanged, Abort, NotModified,
       Open, durable

\* The step of a pass that goes on, or of its surroundings.
LEMMA StepKinds ==
    [Next]_vars =>
       \/ \E r \in Resumes, d \in Destinations : Start(r, d)
       \/ Ends
       \/ \E h \in Versions \cup {None} : LoadContext(h) \/ Verify(h)
       \/ ReadDirectly \/ (NotModified /\ ~Idle) \/ Modified \/ (Open /\ ~Idle)
       \/ ReadBatch \/ PublishBatchShard \/ PersistBatchState \/ PublishCheckpointed
       \/ ReadWhole \/ PublishWhole \/ Commit \/ ChangeSource
       \/ UNCHANGED <<kind, source, state, shards, pass, dropped, suspect>>
BY Zenon DEF Next, Step, Ends, Damage, vars, pass

\* Every step keeps what is known at each place of a pass.
LEMMA PassPlaces == PassInv /\ [Next]_vars => PlaceInv'
<1> SUFFICES ASSUME PassInv, [Next]_vars PROVE PlaceInv'
  OBVIOUS
<1> USE SyncResourceAssumption DEF Checkpointed
<1>0. TypeOK /\ PlaceInv /\ HttpInv
  BY DEF PassInv
<1>1. ASSUME NEW r \in Resumes, NEW d \in Destinations, Start(r, d) PROVE PlaceInv'
  BY <1>0, <1>1 DEF Start, PlaceInv
<1>2. CASE Ends
  BY <1>2, EndsAreIdle DEF Idle, PlaceInv
<1>3. ASSUME NEW h \in Versions \cup {None}, LoadContext(h) PROVE PlaceInv'
  <2>1. healthy' \/ kind = "http" => next' = 0
    BY <1>0, <1>3 DEF LoadContext, Healthy, HttpInv
  <2>2. kind \in {"parquet", "http"}
    BY <1>0 DEF TypeOK
  <2> QED
    BY <1>0, <1>3, <2>1, <2>2 DEF LoadContext, PlaceInv
<1>4. ASSUME NEW h \in Versions \cup {None}, Verify(h) PROVE PlaceInv'
  BY <1>0, <1>4 DEF Verify, PlaceInv, durable
<1>5. CASE ReadDirectly \/ (NotModified /\ ~Idle)
  BY <1>0, <1>5 DEF ReadDirectly, NotModified, Asks, PlaceInv, durable
<1>6. CASE Modified
  BY <1>0, <1>6 DEF Modified, Asks, PlaceInv, TypeOK, durable
<1>7. CASE Open /\ ~Idle
  BY <1>0, <1>7 DEF Open, PlaceInv, TypeOK, durable
<1>8. CASE ReadBatch
  BY <1>0, <1>8 DEF ReadBatch, PlaceInv
<1>9. CASE PublishBatchShard \/ PersistBatchState
  BY <1>0, <1>9 DEF PublishBatchShard, PersistBatchState, PlaceInv
<1>10. CASE PublishCheckpointed
  <2>1. shards[dest] \in Contents
    BY <1>0, <1>10 DEF PublishCheckpointed, PlaceInv, TypeOK, Partial, Contents
  <2> QED
    BY <1>0, <1>10, <2>1 DEF PublishCheckpointed, PlaceInv
<1>11. CASE ReadWhole
  <2>1. \A i \in 1..next' : staged'[i] \in Versions
    BY <1>0, <1>11 DEF ReadWhole, PlaceInv, TypeOK, Partial, Indexes
  <2> QED
    BY <1>0, <1>11, <2>1 DEF ReadWhole, PlaceInv, durable
<1>12. CASE PublishWhole
  <2>1. staged \in Contents
    BY <1>0, <1>12 DEF PublishWhole, PlaceInv, TypeOK, Partial, Contents, Indexes
  <2> QED
    BY <1>0, <1>12, <2>1 DEF PublishWhole, PlaceInv
<1>13. CASE Commit
  BY <1>0, <1>13 DEF Commit, CompletedState, PlaceInv
<1>14. CASE ChangeSource
  BY <1>0, <1>14 DEF ChangeSource, PlaceInv
<1>15. CASE UNCHANGED <<kind, source, state, shards, pass, dropped, suspect>>
  BY <1>0, <1>15 DEF PlaceInv, pass
<1> QED
  BY <1>1, <1>2, <1>3, <1>4, <1>5, <1>6, <1>7, <1>8, <1>9, <1>10, <1>11, <1>12, <1>13, <1>14, <1>15,
     StepKinds

\* Every step keeps what is known of a download.
LEMMA PassHttp == PassInv /\ [Next]_vars => HttpInv'
<1> SUFFICES ASSUME PassInv, [Next]_vars PROVE HttpInv'
  OBVIOUS
<1> USE DEF HttpInv
<1>0. TypeOK /\ PlaceInv /\ HttpInv
  BY DEF PassInv
<1>1. CASE Ends
  BY <1>0, <1>1, EndsAreIdle DEF Idle
<1>2. ASSUME NEW h \in Versions \cup {None}, LoadContext(h) PROVE HttpInv'
  BY <1>0, <1>2 DEF LoadContext, SourceVersion
<1>3. CASE PersistBatchState
  BY <1>0, <1>3 DEF PersistBatchState, PlaceInv, Checkpointed
<1>4. CASE Commit
  BY <1>0, <1>4 DEF Commit, CompletedState
<1>5. CASE UNCHANGED <<kind, state, stable>>
  BY <1>0, <1>5
<1> QED
  BY <1>1, <1>2, <1>3, <1>4, <1>5, StepKinds
     DEF Start, Verify, ReadDirectly, NotModified, Modified, Open, ReadBatch, PublishBatchShard,
         PublishCheckpointed, ReadWhole, PublishWhole, ChangeSource, durable, pass

\* Every step keeps recorded validators true of their artifacts.
LEMMA PassValidator == PassInv /\ [Next]_vars => ValidatorInv'
<1> SUFFICES ASSUME PassInv, [Next]_vars PROVE ValidatorInv'
  OBVIOUS
<1> USE SyncResourceAssumption DEF Uniform
<1>0. TypeOK /\ PlaceInv /\ ValidatorInv /\ ValidatorIsSound
  BY DEF PassInv, ValidatorInv
<1>1. CASE Commit
  <2>1. state' = CompletedState(stable, dest, staged, mark) /\ pc' = "cleanup" /\ pc = "commit" /\ mark' = mark
    BY <1>1 DEF Commit
  <2>2. ValidatorIsSound'
    BY <1>0, <2>1 DEF ValidatorInv, ValidatorIsSound, CompletedState
  <2> QED
    BY <1>0, <2>1, <2>2 DEF ValidatorInv
<1>2. CASE PersistBatchState
  <2>1. ValidatorIsSound'
    BY <1>2 DEF PersistBatchState, ValidatorIsSound, InProgressState
  <2> QED
    BY <1>0, <1>2, <2>1 DEF PersistBatchState, ValidatorInv
<1>3. ASSUME UNCHANGED state PROVE ValidatorIsSound'
  BY <1>0, <1>3 DEF ValidatorIsSound
<1>4. CASE Ends
  BY <1>3, <1>4, EndsAreIdle DEF Idle, ValidatorInv
<1>5. CASE Modified
  BY <1>0, <1>3, <1>5 DEF Modified, Asks, PlaceInv, ValidatorInv, TypeOK, durable
<1>6. CASE ReadWhole
  <2>1. pc = "buffered" => \A i \in 1..next' : staged'[i] = opened'
    BY <1>0, <1>6 DEF ReadWhole, ValidatorInv, TypeOK, Partial, Indexes
  <2> QED
    BY <1>0, <1>3, <1>6, <2>1 DEF ReadWhole, ValidatorInv, durable
<1>7. CASE PublishWhole
  <2>1. mark # None => Uniform(staged, mark)
    BY <1>0, <1>7 DEF PublishWhole, ValidatorInv, TypeOK, Indexes
  <2> QED
    BY <1>0, <1>3, <1>7, <2>1 DEF PublishWhole, ValidatorInv
<1>8. CASE ChangeSource
  <2>1. pc = "buffered" => opened' = opened
    BY <1>8 DEF ChangeSource
  <2> QED
    BY <1>0, <1>3, <1>8, <2>1 DEF ChangeSource, ValidatorInv
<1>9. CASE UNCHANGED <<kind, source, state, shards, pass, dropped, suspect>>
  BY <1>0, <1>3, <1>9 DEF ValidatorInv, pass
<1>10. ASSUME UNCHANGED <<state, mark>>, pc \notin {"buffered", "commit", "cleanup"},
              pc' \notin {"buffered"}
       PROVE  ValidatorInv'
  BY <1>0, <1>3, <1>10 DEF ValidatorInv
<1> QED
  BY <1>1, <1>2, <1>4, <1>5, <1>6, <1>7, <1>8, <1>9, <1>10, StepKinds
     DEF Start, LoadContext, Verify, ReadDirectly, NotModified, Asks, Open, ReadBatch, PublishBatchShard,
         PublishCheckpointed, durable

\* The parts that hold for every source.
LEMMA PassInductive == PassInv /\ [Next]_vars => PassInv'
BY PassTypes, PassPlaces, PassHttp, PassValidator DEF PassInv

\* Every variable keeps its type and a recorded validator describes the artifact it
\* is recorded with (ValidatorIsSound), so that a 304 can be trusted, whatever the
\* source does while a download runs.
THEOREM ValidatorsAreSound == Spec => [](TypeOK /\ ValidatorIsSound)
<1>1. PassInv => TypeOK /\ ValidatorIsSound
  BY DEF PassInv, ValidatorInv
<1> QED
  BY PassInit, PassInductive, <1>1, PTL DEF Spec

-----------------------------------------------------------------------------
(* Source versions                                                          *)

\* Hashing works whenever it is tried.
Regular == ~HashFails

\* Before the first pass nothing has been hashed or recorded.
LEMMA VersionInit == Init => VersionInv
<1> SUFFICES ASSUME Init PROVE VersionInv
  OBVIOUS
<1> USE SyncResourceAssumption DEF Init
<1>1. KnownInv /\ MovedInv
  BY DEF KnownInv, MovedInv, Reading, NoState
<1>2. ReadInv /\ ResumeInv /\ CommitInv /\ StagedShardsMatchSource
  BY DEF ReadInv, ResumeInv, CommitInv, StagedShardsMatchSource
<1>3. CheckpointInv /\ CursorInv /\ SkipIsSound
  BY DEF CheckpointInv, CursorInv, SkipIsSound, NoState
<1> QED
  BY <1>1, <1>2, <1>3 DEF VersionInv

\* A pass over a file starts with the version the source has.
LEMMA HashIsSource ==
    ASSUME Regular, PassInv, NEW h \in Versions \cup {None}, SourceVersion(h), kind = "parquet"
    PROVE  h = source /\ h # None
BY SyncResourceAssumption DEF Regular, PassInv, TypeOK, SourceVersion

\* A source that changes under a pass that reads it has moved.
LEMMA ChangeMoves ==
    ASSUME ChangeSource
    PROVE  /\ UNCHANGED <<kind, state, shards, dropped, suspect, pc, dest, stable, healthy, next, staged>>
           /\ Reading => moved' # "stayed"
           /\ ~Reading => moved' = moved
           /\ moved = "returned" => moved' = "returned"
           /\ Reading /\ moved' = "left" => source' # stable
BY DEF ChangeSource

\* Every step keeps what is known of the version a pass reads.
LEMMA VersionKnown ==
    ASSUME Regular, PassInv, VersionInv, [Next]_vars
    PROVE  KnownInv' /\ MovedInv'
<1> USE SyncResourceAssumption DEF Reading
<1>0. TypeOK /\ PlaceInv /\ HttpInv /\ KnownInv /\ MovedInv
  BY DEF PassInv, VersionInv
<1>1. CASE Ends
  BY <1>0, <1>1, EndsAreIdle DEF Idle, KnownInv, MovedInv
<1>2. ASSUME NEW h \in Versions \cup {None}, LoadContext(h) PROVE KnownInv' /\ MovedInv'
  <2>1. /\ stable' = h /\ UNCHANGED <<kind, source, state>> /\ moved' \in {"stayed", "returned"}
        /\ pc' \notin {"idle", "load"} /\ SourceVersion(h)
    BY <1>2 DEF LoadContext
  <2>2. kind \in {"parquet", "http"} /\ (kind = "parquet" => h = source /\ h # None)
    BY <1>0, <2>1, HashIsSource DEF TypeOK
  <2>3. kind = "http" => h = None
    BY <2>1 DEF SourceVersion
  <2> QED
    BY <1>0, <2>1, <2>2, <2>3 DEF KnownInv, MovedInv
<1>3. CASE PersistBatchState
  BY <1>0, <1>3 DEF PersistBatchState, InProgressState, PlaceInv, Checkpointed, KnownInv, MovedInv
<1>4. CASE Commit
  BY <1>0, <1>4 DEF Commit, CompletedState, KnownInv, MovedInv
<1>5. CASE ChangeSource
  BY <1>0, <1>5, ChangeMoves DEF KnownInv, MovedInv
<1>6. ASSUME UNCHANGED <<kind, source, state, stable, moved>>, pc \notin {"idle", "load"}, Reading' => Reading
      PROVE  KnownInv' /\ MovedInv'
  BY <1>0, <1>6 DEF KnownInv, MovedInv
<1>7. CASE UNCHANGED <<kind, source, state, shards, pass, dropped, suspect>>
  BY <1>0, <1>7 DEF KnownInv, MovedInv, pass
<1>8. CASE ReadDirectly \/ (NotModified /\ ~Idle) \/ Modified
  <2>1. kind = "http" /\ kind' = kind /\ state' = state /\ stable' = stable
    BY <1>0, <1>8 DEF ReadDirectly, NotModified, Asks, Modified, PlaceInv, durable
  <2> QED
    BY <1>0, <2>1 DEF KnownInv, MovedInv, HttpInv
<1>9. ASSUME NEW r \in Resumes, NEW d \in Destinations, Start(r, d) PROVE KnownInv' /\ MovedInv'
  BY <1>0, <1>9 DEF Start, durable, KnownInv, MovedInv
<1> QED
  BY <1>1, <1>2, <1>3, <1>4, <1>5, <1>6, <1>7, <1>8, <1>9, StepKinds
     DEF Verify, Open, ReadBatch, PublishBatchShard, PublishCheckpointed, ReadWhole, PublishWhole, durable

\* What the pass reads while the source stays.
LEMMA VersionReads ==
    ASSUME Regular, PassInv, VersionInv, [Next]_vars
    PROVE  ReadInv' /\ ResumeInv' /\ StagedShardsMatchSource'
<1> USE SyncResourceAssumption DEF Checkpointed, Uniform
<1> DEFINE Reads == ReadInv /\ ResumeInv /\ StagedShardsMatchSource
<1>0. TypeOK /\ PlaceInv /\ KnownInv /\ MovedInv /\ ReadInv /\ ResumeInv /\ StagedShardsMatchSource
  BY DEF PassInv, VersionInv
<1>1. CASE Ends
  BY <1>0, <1>1, EndsAreIdle DEF Idle, ReadInv, ResumeInv, StagedShardsMatchSource
<1>2. ASSUME NEW h \in Versions \cup {None}, LoadContext(h) PROVE Reads'
  <2>1. CASE next' = 0
    BY <1>0, <1>2, <2>1 DEF LoadContext, ReadInv, ResumeInv, StagedShardsMatchSource
  <2>2. CASE next' # 0
    <3>1. /\ state.kind = "checkpoint" /\ ~CheckpointIsStale(h)
          /\ next' = state.next /\ shards' = shards /\ dest' = dest /\ source' = source
      BY <1>2, <2>2 DEF LoadContext
    <3>2. state.source = stable' /\ state.dest = dest
      BY <1>0, <1>2, <3>1, HashIsSource DEF CheckpointIsStale, PassInv, HttpInv, KnownInv, LoadContext, TypeOK
    <3>3. moved' = "stayed" => \A i \in 1..state.next : shards[dest][i] \in {stable', None}
      BY <1>2, <2>2, <3>1, <3>2 DEF VersionInv, CheckpointInv, LoadContext
    <3> QED
      BY <1>0, <1>2, <3>1, <3>3 DEF LoadContext, ReadInv, ResumeInv, StagedShardsMatchSource
  <2> QED
    BY <2>1, <2>2
<1>3. CASE Open /\ ~Idle
  <2>1. /\ pc = "open" /\ pc' = IF Checkpointed THEN "batch" ELSE "read"
        /\ Checkpointed => \A i \in 1..next : shards[dest][i] # None
        /\ opened' = source
        /\ UNCHANGED <<kind, source, shards, dest, stable, healthy, next, staged, moved>>
    BY <1>3 DEF Open, durable
  <2>2. stable # None /\ moved = "stayed" => source = stable
    BY <1>0, <2>1 DEF MovedInv, Reading
  <2>3. ReadInv'
    BY <1>0, <2>1, <2>2 DEF ReadInv, PlaceInv
  <2>4. ResumeInv' /\ StagedShardsMatchSource'
    BY <1>0, <2>1 DEF ResumeInv, StagedShardsMatchSource
  <2> QED
    BY <2>3, <2>4
<1>4. CASE ReadBatch
  <2>1. next + 1 \in Indexes /\ next \in Nat /\ dest \in Destinations
    BY <1>0, <1>4 DEF ReadBatch, PlaceInv, TypeOK, Indexes
  <2>2. staged'[next + 1] = opened /\ \A i \in 1..next : shards'[dest][i] = shards[dest][i]
    BY <1>0, <1>4, <2>1 DEF ReadBatch, TypeOK, Partial
  <2> QED
    BY <1>0, <1>4, <2>2 DEF ReadBatch, ReadInv, ResumeInv, StagedShardsMatchSource
<1>5. CASE PublishBatchShard
  <2>1. next + 1 \in Indexes /\ next \in Nat /\ dest \in Destinations
    BY <1>0, <1>5 DEF PublishBatchShard, PlaceInv, TypeOK, Indexes
  <2>2. /\ shards'[dest][next + 1] = staged[next + 1]
        /\ \A i \in 1..next : shards'[dest][i] = shards[dest][i]
    BY <1>0, <1>5, <2>1 DEF PublishBatchShard, TypeOK, Partial
  <2> QED
    BY <1>0, <1>5, <2>2 DEF PublishBatchShard, ReadInv, ResumeInv, StagedShardsMatchSource
<1>6. CASE PersistBatchState
  <2>1. stable # None /\ next \in Nat
    BY <1>0, <1>6 DEF PersistBatchState, PlaceInv, KnownInv, TypeOK
  <2>2. moved = "stayed" => \A i \in 1..(next + 1) : shards[dest][i] = stable
    BY <1>0, <1>6, <2>1 DEF PersistBatchState, PlaceInv, ReadInv, StagedShardsMatchSource
  <2> QED
    BY <1>0, <1>6, <2>1, <2>2 DEF PersistBatchState, ReadInv, ResumeInv, StagedShardsMatchSource
<1>7. CASE PublishCheckpointed
  BY <1>0, <1>7 DEF PublishCheckpointed, PlaceInv, Indexes, ReadInv, ResumeInv, StagedShardsMatchSource
<1>8. CASE ReadWhole
  <2>1. /\ next + 1 \in Indexes /\ next \in Nat /\ staged'[next + 1] = opened
        /\ \A i \in 1..next : staged'[i] = staged[i]
    BY <1>0, <1>8 DEF ReadWhole, TypeOK, Partial, Indexes
  <2>2. \A i \in 1..next' : i \in 1..next \/ i = next + 1
    BY <1>8, <2>1 DEF ReadWhole
  <2> QED
    BY <1>0, <1>8, <2>1, <2>2 DEF ReadWhole, durable, ReadInv, ResumeInv, StagedShardsMatchSource
<1>9. CASE PublishWhole
  <2>1. stable # None => pc = "read"
    BY <1>0, <1>9 DEF PublishWhole, PlaceInv, PassInv, HttpInv, TypeOK
  <2> QED
    BY <1>0, <1>9, <2>1 DEF PublishWhole, Indexes, ReadInv, ResumeInv, StagedShardsMatchSource
<1>10. CASE ChangeSource
  <2>1. CASE Reading
    BY <1>10, <2>1, ChangeMoves DEF Reading, ReadInv, ResumeInv, StagedShardsMatchSource
  <2>2. CASE ~Reading
    <3>1. stable # None => pc \notin {"open", "batch", "shard", "persist", "verify", "read"}
      BY <2>2 DEF Reading
    <3>2. pc \in {"open", "batch", "shard", "persist"} /\ Checkpointed => stable # None
      BY <1>0 DEF KnownInv
    <3> QED
      BY <1>0, <1>10, <2>2, <3>1, <3>2, ChangeMoves DEF ReadInv, ResumeInv, StagedShardsMatchSource
  <2> QED
    BY <2>1, <2>2
<1>11. ASSUME NEW h \in Versions \cup {None}, Verify(h) PROVE Reads'
  BY <1>0, <1>11 DEF Verify, durable, ReadInv, ResumeInv, StagedShardsMatchSource
<1>12. CASE UNCHANGED <<kind, source, state, shards, pass, dropped, suspect>>
  BY <1>0, <1>12 DEF pass, ReadInv, ResumeInv, StagedShardsMatchSource
<1>13. CASE ReadDirectly \/ (NotModified /\ ~Idle) \/ Modified
  <2>1. kind' = "http" /\ pc' \in {"open", "buffered"}
    BY <1>0, <1>13 DEF ReadDirectly, NotModified, Asks, Modified, PlaceInv, durable
  <2> QED
    BY <2>1 DEF ReadInv, ResumeInv, StagedShardsMatchSource
<1>14. CASE Commit
  BY <1>0, <1>14 DEF Commit, ReadInv, ResumeInv, StagedShardsMatchSource
<1>15. ASSUME NEW r \in Resumes, NEW d \in Destinations, Start(r, d) PROVE Reads'
  BY <1>15 DEF Start, ReadInv, ResumeInv, StagedShardsMatchSource
<1> QED
  BY <1>1, <1>2, <1>3, <1>4, <1>5, <1>6, <1>7, <1>8, <1>9, <1>10, <1>11, <1>12, <1>13, <1>14, <1>15,
     StepKinds

\* What the pass commits.
LEMMA VersionCommit ==
    ASSUME Regular, PassInv, VersionInv, [Next]_vars
    PROVE  CommitInv' /\ SkipIsSound'
<1> USE SyncResourceAssumption DEF Checkpointed
<1>0. TypeOK /\ PlaceInv /\ KnownInv /\ MovedInv /\ ReadInv /\ CommitInv /\ SkipIsSound
  BY DEF PassInv, VersionInv
<1>1. ASSUME UNCHANGED <<state, suspect>> PROVE SkipIsSound'
  BY <1>0, <1>1 DEF SkipIsSound
<1>2. ASSUME pc' # "commit" PROVE CommitInv'
  BY <1>2 DEF CommitInv
<1>3. ASSUME NEW h \in Versions \cup {None}, Verify(h) PROVE CommitInv' /\ SkipIsSound'
  <2>1. stable # None /\ stable = source /\ pc = "verify"
    BY <1>0, <1>3, HashIsSource DEF Verify, SourceChanged, PlaceInv, KnownInv
  <2>2. moved \in {"stayed", "returned"}
    BY <1>0, <2>1 DEF MovedInv, Reading, TypeOK
  <2> QED
    BY <1>0, <1>1, <1>3, <2>1, <2>2 DEF Verify, durable, CommitInv, ReadInv, Uniform
<1>4. CASE PublishWhole
  <2>1. ~Checkpointed
    BY <1>0, <1>4 DEF PublishWhole, PlaceInv
  <2> QED
    BY <1>1, <1>4, <2>1 DEF PublishWhole, CommitInv
<1>5. CASE Commit
  BY <1>0, <1>2, <1>5 DEF Commit, CompletedState, SkipIsSound, ReadInv
<1>6. CASE PersistBatchState
  BY <1>2, <1>6 DEF PersistBatchState, InProgressState, SkipIsSound
<1>10. CASE PublishBatchShard
  <2>1. state' = state /\ (~suspect' => ~suspect) /\ pc' = "persist"
    BY <1>10 DEF PublishBatchShard
  <2>2. SkipIsSound'
    BY <1>0, <2>1 DEF SkipIsSound
  <2> QED
    BY <1>2, <2>1, <2>2
<1>7. CASE ChangeSource
  <2>1. pc = "commit" => ~Reading
    BY DEF Reading
  <2> QED
    BY <1>0, <1>1, <1>7, <2>1, ChangeMoves DEF CommitInv, Uniform
<1>8. CASE Ends
  <2>1. suspect' = suspect \/ suspect' = TRUE
    BY <1>8 DEF Ends, AlreadyDone, FinishUnchanged, Finish, FetchFails, Crash, SkipUnchanged, Abort,
       NotModified, Open, durable
  <2>2. SkipIsSound'
    BY <1>0, <1>8, <2>1, EndsAreIdle DEF SkipIsSound
  <2> QED
    BY <1>2, <1>8, <2>2, EndsAreIdle DEF Idle
<1>9. CASE UNCHANGED <<kind, source, state, shards, pass, dropped, suspect>>
  BY <1>0, <1>1, <1>9 DEF pass, CommitInv, Uniform
<1> QED
  BY <1>1, <1>2, <1>3, <1>4, <1>5, <1>6, <1>7, <1>8, <1>9, <1>10, StepKinds
     DEF Start, LoadContext, ReadDirectly, NotModified, Modified, Open, ReadBatch, PublishCheckpointed,
         ReadWhole, durable

\* What the checkpoint counts.
LEMMA VersionCheckpoint ==
    ASSUME Regular, PassInv, VersionInv, [Next]_vars
    PROVE  CheckpointInv' /\ CursorInv'
<1> USE SyncResourceAssumption DEF Checkpointed
<1>0. TypeOK /\ PlaceInv /\ KnownInv /\ MovedInv /\ ReadInv /\ CheckpointInv /\ CursorInv
  BY DEF PassInv, VersionInv
<1>a. state.kind = "checkpoint" => /\ state.next \in Indexes /\ state.dest \in Destinations
                                   /\ kind = "parquet"
  BY <1>0, StateFields DEF TypeOK, PassInv, HttpInv
<1>b. ASSUME UNCHANGED <<state, shards, dropped, suspect>> PROVE CheckpointInv'
  BY <1>0, <1>b DEF CheckpointInv
<1>c. ASSUME pc' \notin {"open", "batch", "shard", "persist"} PROVE CursorInv'
  BY <1>c DEF CursorInv
<1>1. ASSUME NEW h \in Versions \cup {None}, LoadContext(h) PROVE CheckpointInv' /\ CursorInv'
  <2>1. CheckpointInv'
    BY <1>0, <1>1 DEF LoadContext, CheckpointInv
  <2>2. CursorInv'
    BY <1>0, <1>1, <1>a DEF LoadContext, CursorInv, Healthy, CheckpointIsStale
  <2> QED
    BY <2>1, <2>2
<1>2. CASE ReadBatch
  <2>1. next + 1 \in Indexes /\ next \in Nat /\ dest \in Destinations
    BY <1>0, <1>2 DEF ReadBatch, PlaceInv, TypeOK, Indexes
  <2>2. \A d \in Destinations, i \in Indexes :
          shards'[d][i] = IF d = dest /\ i = next + 1 THEN None ELSE shards[d][i]
    BY <1>0, <1>2, <2>1 DEF ReadBatch, TypeOK, Partial
  <2>3. CheckpointInv'
    <3> SUFFICES ASSUME state.kind = "checkpoint", ~suspect, NEW i \in 1..state.next
                 PROVE  shards'[state.dest][i] = state.source \/ (dropped /\ shards'[state.dest][i] = None)
      BY <1>2 DEF ReadBatch, CheckpointInv
    <3>1. i \in Indexes
      BY <1>a DEF Indexes
    <3>2. CASE dropped
      BY <1>0, <1>a, <2>2, <3>1, <3>2 DEF CheckpointInv
    <3>3. CASE ~dropped
      <4>1. i # next + 1
        BY <1>0, <1>2, <2>1, <3>3 DEF CursorInv, ReadBatch
      <4> QED
        BY <1>0, <1>a, <2>2, <3>1, <3>3, <4>1 DEF CheckpointInv
    <3> QED
      BY <3>2, <3>3
  <2> QED
    BY <1>0, <1>2, <2>3 DEF ReadBatch, CursorInv
<1>3. CASE PublishBatchShard
  <2>1. next + 1 \in Indexes /\ next \in Nat /\ dest \in Destinations
    BY <1>0, <1>3 DEF PublishBatchShard, PlaceInv, TypeOK, Indexes
  <2>2. \A d \in Destinations, i \in Indexes :
          shards'[d][i] = IF d = dest /\ i = next + 1 THEN staged[next + 1] ELSE shards[d][i]
    BY <1>0, <1>3, <2>1 DEF PublishBatchShard, TypeOK, Partial
  <2>3. UNCHANGED <<state, dropped>> /\ (~suspect' => ~suspect)
    BY <1>3 DEF PublishBatchShard
  <2>4. Overwrites /\ ~suspect' => staged[next + 1] = state.source
    BY <1>0, <1>3 DEF PublishBatchShard, Overwrites, ReadInv, KnownInv
  <2>5. CheckpointInv'
    <3> SUFFICES ASSUME state.kind = "checkpoint", ~suspect', NEW i \in 1..state.next
                 PROVE  shards'[state.dest][i] = state.source \/ (dropped /\ shards'[state.dest][i] = None)
      BY <2>3 DEF CheckpointInv
    <3>1. i \in Indexes /\ state.next \in Nat
      BY <1>a DEF Indexes
    <3>2. CASE state.dest = dest /\ i = next + 1
      <4>1. Overwrites
        BY <2>1, <3>1, <3>2 DEF Overwrites
      <4> QED
        BY <1>a, <2>1, <2>2, <2>4, <3>2, <4>1
    <3>3. CASE ~(state.dest = dest /\ i = next + 1)
      BY <1>0, <1>a, <2>2, <2>3, <3>1, <3>3 DEF CheckpointInv
    <3> QED
      BY <3>2, <3>3
  <2> QED
    BY <1>0, <1>3, <2>5 DEF PublishBatchShard, CursorInv
<1>4. CASE PersistBatchState
  <2>1. /\ state' = InProgressState(next + 1, stable, dest) /\ next' = next + 1 /\ pc' = "batch"
        /\ UNCHANGED <<kind, healthy, source, shards, dest>> /\ pc = "persist"
    BY <1>4 DEF PersistBatchState
  <2>2. stable # None
    BY <1>0, <2>1 DEF PlaceInv, KnownInv
  <2>3. moved = "stayed" => \A i \in 1..(next + 1) : shards[dest][i] = stable
    BY <1>0, <2>1, <2>2 DEF PlaceInv, ReadInv, VersionInv, StagedShardsMatchSource, TypeOK
  <2>4. ~suspect' => moved = "stayed"
    BY <1>4 DEF PersistBatchState
  <2> QED
    BY <1>0, <2>1, <2>3, <2>4 DEF CheckpointInv, CursorInv, InProgressState, PlaceInv
<1>5. ASSUME NEW h \in Versions \cup {None}, Abort(h) PROVE CheckpointInv' /\ CursorInv'
  BY <1>5, <1>c DEF Abort, Idle, CheckpointInv
<1>6. CASE Finish
  BY <1>0, <1>6, <1>c DEF Finish, Idle, PlaceInv, CheckpointInv
<1>7. CASE Commit
  BY <1>7, <1>c DEF Commit, CompletedState, CheckpointInv
<1>8. CASE ChangeSource
  BY <1>0, <1>8, <1>b, ChangeMoves DEF CursorInv
<1>9. CASE Ends /\ UNCHANGED <<shards, suspect>>
  BY <1>9, <1>b, <1>c, EndsAreIdle DEF Idle
<1>10. CASE UNCHANGED <<kind, source, state, shards, pass, dropped, suspect>>
  BY <1>0, <1>10, <1>b DEF pass, CursorInv
<1>11. CASE Open /\ ~Idle
  <2>1. pc = "open" /\ pc' \in {"batch", "read"} /\ UNCHANGED <<kind, state, dropped, suspect, dest, next, healthy>>
    BY <1>11 DEF Open, durable
  <2>2. CursorInv'
    BY <1>0, <2>1 DEF CursorInv
  <2> QED
    BY <1>11, <1>b, <2>2 DEF Open, durable
<1>12. CASE ReadDirectly \/ (NotModified /\ ~Idle) \/ Modified
  <2>1. kind = "http" /\ UNCHANGED <<state, shards, dropped, suspect>>
    BY <1>0, <1>12 DEF ReadDirectly, NotModified, Asks, Modified, PlaceInv, durable
  <2> QED
    BY <1>a, <1>b, <2>1 DEF CursorInv
<1>13. ASSUME UNCHANGED <<state, shards, dropped, suspect>>, pc' \in {"load", "verify", "commit", "read", "buffered"}
       PROVE  CheckpointInv' /\ CursorInv'
  BY <1>13, <1>b, <1>c
<1>14. Ends => Finish \/ (\E h \in Versions \cup {None} : Abort(h)) \/ UNCHANGED <<shards, suspect>>
  BY DEF Ends, AlreadyDone, FinishUnchanged, FetchFails, Crash, SkipUnchanged, NotModified, Open, durable
<1> QED
  BY <1>1, <1>2, <1>3, <1>4, <1>5, <1>6, <1>7, <1>8, <1>9, <1>10, <1>11, <1>12, <1>13, <1>14, StepKinds
     DEF Start, Verify, PublishCheckpointed, ReadWhole, PublishWhole, durable

\* Every step keeps the versions of shards, records and commits apart.
LEMMA VersionInductive ==
    ASSUME Regular
    PROVE  PassInv /\ VersionInv /\ [Next]_vars => VersionInv'
BY VersionKnown, VersionReads, VersionCommit, VersionCheckpoint DEF VersionInv

\* The invariant of the checkpointed path holds of every behaviour.
LEMMA VersionsInvariant == Regular => (Spec => [](PassInv /\ VersionInv))
<1> SUFFICES ASSUME Regular PROVE Spec => [](PassInv /\ VersionInv)
  OBVIOUS
<1>1. PassInv /\ VersionInv /\ [Next]_vars => PassInv' /\ VersionInv'
  BY PassInductive, VersionInductive
<1> QED
  BY PassInit, VersionInit, <1>1, PTL DEF Spec

\* Every shard a pass counts as done, those of earlier passes included, is of the
\* content the pass hashed while the source stays put under the passes that read it
\* (StagedShardsMatchSource).
THEOREM ShardsMatchSource == Regular => (Spec => []StagedShardsMatchSource)
<1> SUFFICES ASSUME Regular PROVE Spec => []StagedShardsMatchSource
  OBVIOUS
<1>1. PassInv /\ VersionInv => StagedShardsMatchSource
  BY DEF VersionInv
<1> QED
  BY VersionsInvariant, <1>1, PTL

\* Crashes, resumptions and rewrites between passes never lose a shard of a checkpoint
\* (CheckpointIsResumable).
THEOREM CheckpointsAreResumable == Regular => (Spec => []CheckpointIsResumable)
<1> SUFFICES ASSUME Regular PROVE Spec => []CheckpointIsResumable
  OBVIOUS
<1>1. PassInv /\ VersionInv => CheckpointIsResumable
  BY DEF PassInv, VersionInv, CheckpointInv, CheckpointIsResumable
<1> QED
  BY VersionsInvariant, <1>1, PTL

\* Skipping a pass is sound, also with a source that returns to earlier contents: a
\* completed record describes an artifact of the version it names alone, unless the
\* source had left that version under the pass that wrote it (SkipIsSound).
THEOREM SkippingIsSound == Regular => (Spec => []SkipIsSound)
<1> SUFFICES ASSUME Regular PROVE Spec => []SkipIsSound
  OBVIOUS
<1>1. PassInv /\ VersionInv => SkipIsSound
  BY DEF VersionInv
<1> QED
  BY VersionsInvariant, <1>1, PTL

\* No step commits a mixture of versions on the checkpointed path, unless the source
\* returned to the hashed version in time for the second hash
\* (CheckpointedCommitIsUniform).
THEOREM CommitsAreUniform == Regular => (Spec => CheckpointedCommitIsUniform)
<1> SUFFICES ASSUME Regular PROVE Spec => CheckpointedCommitIsUniform
  OBVIOUS
<1>1. PassInv /\ VersionInv /\ [Next]_vars =>
        [Commit /\ Checkpointed /\ moved # "returned" => stable # None /\ Uniform(staged, stable)]_vars
  BY DEF VersionInv, CommitInv, Commit
<1> QED
  BY VersionsInvariant, <1>1, PTL DEF Spec, CheckpointedCommitIsUniform
=============================================================================
