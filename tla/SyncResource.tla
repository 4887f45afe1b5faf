---------------------------- MODULE SyncResource ----------------------------
(***************************************************************************)
(* Synchronizing ONE resource, a checkpointed one (a Parquet local file or *)
(* object storage blob) or an HTTP download with its conditional request:  *)
(* sync_resources, _load_sync_context, _conditional_reader,                *)
(* _materialize_resource and _finish_resource_sync of                      *)
(* src/src/datasluice/sync/sync.py, with the publication code of           *)
(* src/src/datasluice/sync/materialize.py.  A local file or blob of another *)
(* format takes the path of an HTTP download without the request.          *)
(*                                                                         *)
(* A pass holds key_lock from before its first read of the state to after  *)
(* its last write (module StateStore), so passes on one key never overlap  *)
(* and its conditional_puts never conflict: one pass at a time is modelled. *)
(* What runs beside it is the owner of the source, who may rewrite it      *)
(* between any two reads, whoever damages a destination, and crashes.      *)
(*                                                                         *)
(* Content is abstracted to where it came from: a source version is what   *)
(* its SHA-256 tells apart, and an artifact is the function that gives for *)
(* each row group the version it was read from.                            *)
(***************************************************************************)
EXTENDS Integers, FiniteSets

CONSTANTS Versions,       \* contents the source can have
          Batches,        \* row groups of the source
          Destinations,   \* destination_uri values callers pass
          None,
          Kinds,          \* "parquet" and "http": the kinds of resource considered
          Resumes,        \* values of resume= callers pass
          HashFails,      \* _compute_source_version may meet an OSError
          MaxChanges,     \* bound on rewrites of the source
          MaxFaults       \* bound on crashes and damaged destinations

ASSUME SyncResourceAssumption ==
    /\ None \notin Versions \cup Destinations
    /\ Batches \in Nat \ {0}
    /\ Resumes \subseteq BOOLEAN
    /\ Kinds \subseteq {"parquet", "http"}
    /\ HashFails \in BOOLEAN
    /\ MaxChanges \in Nat /\ MaxFaults \in Nat

VARIABLES kind,        \* what the resource is, which never changes
          source,      \* current content of the source
          state,       \* SyncState of the key in the state store
          shards,      \* .datasluice-partial/<identity>/<index>.parquet per destination
          artifact,    \* <identity>.parquet per destination
          pc,          \* where the pass under way is
          resume, dest,   \* its arguments
          stable,      \* context.stable_source_version
          healthy,     \* context.destination_was_healthy
          mark,        \* fresh_watermark: the content whose validator the response had
          next,        \* next_batch_index
          action,      \* SyncOutcome.action the pass will report
          opened,      \* content the open stream reads from
          staged,      \* what the pass has read: a batch or the temporary artifact
          outcome,     \* SyncOutcome.action of the last pass, or how it failed
          dropped,     \* a pass has started over the checkpoint in state (observation only)
          moved,       \* whether the source stayed at stable, left it or returned to it while
                       \* the pass was reading (observation only)
          suspect,     \* the record in state, or a shard it counts, is the work of a pass
                       \* whose source had moved (observation only)
          changes,     \* rewrites of the source so far
          faults       \* crashes and damages so far

durable == <<kind, source, state, shards, artifact, dropped, suspect, changes, faults>>
pass    == <<pc, resume, dest, stable, healthy, mark, next, action, opened, staged, moved>>
vars    == <<kind, source, state, shards, artifact, pc, resume, dest, stable, healthy, mark, next,
             action, opened, staged, outcome, dropped, moved, suspect, changes, faults>>

Indexes  == 1..Batches
Contents == [Indexes -> Versions]
Partial  == [Indexes -> Versions \cup {None}]
Uniform(content, v) == \A i \in Indexes : content[i] = v

NoState ==
    [kind |-> "none", next |-> 0, source |-> None, dest |-> None, content |-> None, mark |-> None]

\* use_checkpointed; a checkpoint in the state store means no completed artifact.
Checkpointed == kind = "parquet" /\ ~healthy

\* _in_progress_state: what _persist_batch_state writes after each batch.
InProgressState(n, v, d) ==
    [kind |-> "checkpoint", next |-> n, source |-> v, dest |-> d, content |-> None, mark |-> None]

\* _completed_sync_state: the record names the artifact's place and its digest,
\* which is also the watermark of a source read without HTTP validators (mark None).
CompletedState(v, d, c, w) ==
    [kind |-> "completed", next |-> 0, source |-> v, dest |-> d, content |-> c, mark |-> w]

States == {NoState}
          \cup {InProgressState(n, v, d) : n \in Indexes, v \in Versions \cup {None}, d \in Destinations}
          \cup {CompletedState(v, d, c, w) : v, w \in Versions \cup {None}, d \in Destinations, c \in Contents}

Empty == [i \in Indexes |-> None]

Idle == /\ pc' = "idle"
        /\ next' = 0
        /\ stable' = None
        /\ healthy' = FALSE
        /\ mark' = None
        /\ action' = "materialized"
        /\ opened' = None
        /\ staged' = Empty
        /\ moved' = "stayed"
        /\ resume' = FALSE
        /\ dest' = None

Init ==
    /\ kind \in Kinds
    /\ source \in Versions
    /\ state = NoState
    /\ shards = [d \in Destinations |-> Empty]
    /\ artifact = [d \in Destinations |-> None]
    /\ pc = "idle"
    /\ resume = FALSE
    /\ dest = None
    /\ stable = None
    /\ healthy = FALSE
    /\ mark = None
    /\ next = 0
    /\ action = "materialized"
    /\ opened = None
    /\ staged = Empty
    /\ outcome = "none"
    /\ dropped = FALSE
    /\ moved = "stayed"
    /\ suspect = FALSE
    /\ changes = 0
    /\ faults = 0

-----------------------------------------------------------------------------
(* Starting a pass                                                          *)

\* sync_resources reaches the resource and enters its key_lock transaction.
Start(r, d) ==
    /\ pc = "idle"
    /\ pc' = "load"
    /\ resume' = r
    /\ dest' = d
    /\ outcome' = "none"
    /\ UNCHANGED <<durable, stable, healthy, mark, next, action, opened, staged, moved>>

\* _compute_source_version: None for an HTTP download, and when the source cannot be
\* read just now.
SourceVersion(h) ==
    \/ kind = "parquet" /\ h = source
    \/ (kind = "http" \/ HashFails) /\ h = None

\* Mutant of Healthy: the record alone is trusted, the destination is not looked at.
HealthyByRecord(d) == state.kind = "completed"

\* destination_health: the recorded artifact is at this destination, intact.
Healthy(d) ==
    /\ state.kind = "completed"
    /\ state.dest = d
    /\ artifact[d] = state.content

\* Mutant of CheckpointIsStale: the source version is not compared.
CheckpointIsStaleByDestination(h) == state.dest # dest

\* _checkpoint_is_stale; an unknown version on either side counts as unchanged.
CheckpointIsStale(h) ==
    \/ h # None /\ state.source # None /\ h # state.source
    \/ state.dest # dest

\* _resume_outcome: resume=True trusts a completed, healthy artifact as it is.
AlreadyDone ==
    /\ pc = "load"
    /\ resume /\ Healthy(dest)
    /\ outcome' = "resumed"
    /\ Idle
    /\ UNCHANGED durable

\* _source_version_unchanged: the completed record matches the current source.
SkipUnchanged(h) ==
    /\ pc = "load"
    /\ ~(resume /\ Healthy(dest))
    /\ SourceVersion(h)
    /\ Healthy(dest) /\ h # None /\ state.source = h
    /\ outcome' = "skipped-unchanged"
    /\ Idle
    /\ UNCHANGED durable

\* The rest of _load_sync_context: a stale checkpoint is dropped; a healthy
\* completed artifact is rewritten in one go, everything else batch by batch,
\* from the checkpoint if there is one and resume=True asks for it.  An HTTP download
\* has no version of its own and no checkpoints.
LoadContext(h) ==
    /\ pc = "load"
    /\ ~(resume /\ Healthy(dest))
    /\ SourceVersion(h)
    /\ ~(Healthy(dest) /\ h # None /\ state.source = h)
    /\ stable' = h
    /\ healthy' = Healthy(dest)
    /\ IF resume /\ state.kind = "checkpoint" /\ ~CheckpointIsStale(h)
       THEN next' = state.next /\ action' = "resumed"
       ELSE next' = 0 /\ action' = "materialized"
    /\ dropped' = (state.kind = "checkpoint" /\ (dropped \/ next' = 0))
    /\ moved' = IF next' # 0 /\ suspect THEN "returned" ELSE "stayed"
    /\ pc' = IF kind = "http" THEN "conditional" ELSE "open"
    /\ UNCHANGED <<kind, source, state, shards, artifact, suspect, changes, faults, resume, dest, mark,
                   opened, staged, outcome>>

-----------------------------------------------------------------------------
(* The conditional request of an HTTP download                              *)

\* _conditional_reader without a request: no transport, a reader that cannot take
\* the response (whatever the note of sync_resources says), or a watermark that is a
\* digest.  A redirect is not followed either.
ReadDirectly ==
    /\ pc = "conditional"
    /\ pc' = "open"
    /\ UNCHANGED <<durable, resume, dest, stable, healthy, mark, next, action, opened, staged, moved, outcome>>

\* A request is sent unless the recorded watermark is a digest.
Asks == pc = "conditional" /\ (state.kind = "completed" => state.mark # None)

\* 304: the origin still has the content whose validator is recorded.  If the
\* artifact is gone, or elsewhere, the reader downloads it again.
NotModified ==
    /\ Asks /\ state.kind = "completed" /\ state.mark = source
    /\ IF Healthy(dest)
       THEN outcome' = "skipped-unchanged" /\ Idle
       ELSE /\ pc' = "open"
            /\ UNCHANGED <<resume, dest, stable, healthy, mark, next, action, opened, staged, moved, outcome>>
    /\ UNCHANGED durable

\* Mutant of Modified: the response gives the watermark only and the reader asks again,
\* which is what the note of sync_resources says of readers that cannot take a response.
ModifiedReread ==
    /\ Asks
    /\ opened' = source
    /\ mark' \in {source, None}
    /\ pc' = "open"
    /\ UNCHANGED <<durable, resume, dest, stable, healthy, next, action, staged, moved, outcome>>

\* 2xx: the buffered body is materialized, and its validator, if the response has
\* one, becomes the watermark.
Modified ==
    /\ Asks
    /\ opened' = source
    /\ mark' \in {source, None}
    /\ pc' = "buffered"
    /\ UNCHANGED <<durable, resume, dest, stable, healthy, next, action, staged, moved, outcome>>

\* Any other status, an invalid target or a failing transport: one of the faults.
FetchFails ==
    /\ Asks /\ faults < MaxFaults
    /\ faults' = faults + 1
    /\ outcome' = "fetch-failed"
    /\ Idle
    /\ UNCHANGED <<kind, source, state, shards, artifact, dropped, suspect, changes>>

-----------------------------------------------------------------------------
(* Reading and publishing                                                   *)

\* reader.open or reader.open_from_cursor, and _require_checkpoint_shards.
Open ==
    /\ pc = "open"
    /\ IF Checkpointed /\ \E i \in 1..next : shards[dest][i] = None
       THEN /\ outcome' = "missing-shard"
            /\ Idle
       ELSE /\ opened' = source
            /\ pc' = IF Checkpointed THEN "batch" ELSE "read"
            /\ UNCHANGED <<resume, dest, stable, healthy, mark, next, action, staged, moved, outcome>>
    /\ UNCHANGED durable

\* The next batch arrives; _publish_batch_shard removes the shard it replaces.
ReadBatch ==
    /\ pc = "batch" /\ next < Batches
    /\ staged' = [staged EXCEPT ![next + 1] = opened]
    /\ shards' = [shards EXCEPT ![dest][next + 1] = None]
    /\ pc' = "shard"
    /\ UNCHANGED <<kind, source, state, artifact, dropped, suspect, changes, faults,
                   resume, dest, stable, healthy, mark, next, action, opened, moved, outcome>>

\* The shard about to be published takes the place of one the checkpoint counts.
Overwrites == state.kind = "checkpoint" /\ state.dest = dest /\ next < state.next

\* _atomic_pipe moves the shard into place.
PublishBatchShard ==
    /\ pc = "shard"
    /\ shards' = [shards EXCEPT ![dest][next + 1] = staged[next + 1]]
    /\ pc' = "persist"
    /\ suspect' = (suspect \/ (Overwrites /\ (moved # "stayed" \/ stable # state.source)))
    /\ UNCHANGED <<kind, source, state, artifact, dropped, changes, faults,
                   resume, dest, stable, healthy, mark, next, action, opened, staged, moved, outcome>>

\* Mutant of PersistBatchState: the cursor written is one batch ahead.
PersistBatchStateAhead ==
    /\ pc = "persist"
    /\ state' = InProgressState(next + 2, stable, dest)
    /\ next' = next + 1
    /\ pc' = "batch"
    /\ dropped' = FALSE
    /\ suspect' = (moved # "stayed")
    /\ UNCHANGED <<kind, source, shards, artifact, changes, faults,
                   resume, dest, stable, healthy, mark, action, opened, staged, moved, outcome>>

\* _persist_batch_state commits the cursor of the following batch.
PersistBatchState ==
    /\ pc = "persist"
    /\ state' = InProgressState(next + 1, stable, dest)
    /\ next' = next + 1
    /\ pc' = "batch"
    /\ dropped' = FALSE
    /\ suspect' = (moved # "stayed")
    /\ UNCHANGED <<kind, source, shards, artifact, changes, faults,
                   resume, dest, stable, healthy, mark, action, opened, staged, moved, outcome>>

\* The stream is exhausted and every shard is there: _publish_parquet joins them
\* in a temporary file and moves it to the final path.
PublishCheckpointed ==
    /\ pc = "batch" /\ next = Batches
    /\ \A i \in Indexes : shards[dest][i] # None
    /\ artifact' = [artifact EXCEPT ![dest] = shards[dest]]
    /\ staged' = shards[dest]
    /\ pc' = "verify"
    /\ UNCHANGED <<kind, source, state, shards, dropped, suspect, changes, faults,
                   resume, dest, stable, healthy, mark, next, action, opened, moved, outcome>>

\* cleanup_checkpointed removes the shards one by one and swallows errors, so
\* any of them may stay.
Cleanup ==
    \E kept \in SUBSET Indexes :
        shards' = [shards EXCEPT ![dest] = [i \in Indexes |-> IF i \in kept THEN @[i] ELSE None]]

\* Mutant of SourceChanged: the source is not hashed again.
SourceChangedIgnored(h) == FALSE

\* The post-materialization check of _materialize_resource.
SourceChanged(h) == h # None /\ stable # None /\ h # stable

Abort(h) ==
    /\ pc = "verify"
    /\ SourceVersion(h)
    /\ SourceChanged(h)
    /\ Cleanup
    /\ outcome' = "source-changed"
    /\ Idle
    /\ suspect' = TRUE
    /\ UNCHANGED <<kind, source, state, artifact, dropped, changes, faults>>

Verify(h) ==
    /\ pc = "verify"
    /\ SourceVersion(h)
    /\ ~SourceChanged(h)
    /\ pc' = "commit"
    /\ UNCHANGED <<durable, resume, dest, stable, healthy, mark, next, action, opened, staged, moved, outcome>>

\* materialize: the whole source goes to a temporary file, row group by row group.
ReadWhole ==
    /\ pc \in {"read", "buffered"} /\ next < Batches
    /\ staged' = [staged EXCEPT ![next + 1] = opened]
    /\ next' = next + 1
    /\ UNCHANGED <<durable, pc, resume, dest, stable, healthy, mark, action, opened, moved, outcome>>

\* _existing_record keeps an equal published file; otherwise the temporary file
\* is moved over it.  Either way the final path holds what was read.
PublishWhole ==
    /\ pc \in {"read", "buffered"} /\ next = Batches
    /\ artifact' = [artifact EXCEPT ![dest] = staged]
    /\ pc' = "commit"
    /\ UNCHANGED <<kind, source, state, shards, dropped, suspect, changes, faults,
                   resume, dest, stable, healthy, mark, next, action, opened, staged, moved, outcome>>

\* _finish_resource_sync: content equal to the watermark is a skip and keeps the
\* recorded source version.
SameContent == healthy /\ mark = None /\ state.mark = None /\ staged = state.content

FinishUnchanged ==
    /\ pc = "commit" /\ SameContent
    /\ outcome' = "skipped-unchanged"
    /\ Idle
    /\ UNCHANGED durable

Commit ==
    /\ pc = "commit" /\ ~SameContent
    /\ state' = CompletedState(stable, dest, staged, mark)
    /\ pc' = "cleanup"
    /\ dropped' = FALSE
    /\ suspect' = (moved # "stayed")
    /\ UNCHANGED <<kind, source, shards, artifact, changes, faults,
                   resume, dest, stable, healthy, mark, next, action, opened, staged, moved, outcome>>

Finish ==
    /\ pc = "cleanup"
    /\ IF Checkpointed THEN Cleanup ELSE UNCHANGED shards
    /\ outcome' = action
    /\ Idle
    /\ UNCHANGED <<kind, source, state, artifact, dropped, suspect, changes, faults>>

-----------------------------------------------------------------------------
(* The environment                                                          *)

\* The pass has hashed its source and not yet finished with it.
Reading == stable # None /\ pc \in {"open", "batch", "shard", "persist", "verify", "read"}

\* The owner of the source publishes other content, new or one it had before.  A stream
\* that is open keeps reading the old file (replaced by a rename) or reads on in the
\* new content (rewritten in place, or an object store asked for the next byte range);
\* a buffered response does neither.
ChangeSource ==
    /\ changes < MaxChanges
    /\ changes' = changes + 1
    /\ \E v \in Versions :
          /\ v # source
          /\ source' = v
          /\ opened' \in IF opened = None \/ pc = "buffered" THEN {opened} ELSE {opened, v}
          /\ moved' = CASE ~Reading \/ moved = "returned" -> moved
                        [] Reading /\ moved # "returned" /\ v = stable -> "returned"
                        [] Reading /\ moved # "returned" /\ v # stable -> "left"
    /\ UNCHANGED <<kind, state, shards, artifact, dropped, suspect, faults,
                   pc, resume, dest, stable, healthy, mark, next, action, staged, outcome>>

\* The process dies, or a reader, backend or store error ends the pass: what is
\* durable stays as it is and the lock is released.
Crash ==
    /\ pc # "idle" /\ faults < MaxFaults
    /\ faults' = faults + 1
    /\ outcome' = "crashed"
    /\ Idle
    /\ UNCHANGED <<kind, source, state, shards, artifact, dropped, suspect, changes>>

\* A published artifact is removed or altered behind datasluice's back.
Damage(d) ==
    /\ artifact[d] # None /\ faults < MaxFaults
    /\ artifact' = [artifact EXCEPT ![d] = None]
    /\ faults' = faults + 1
    /\ UNCHANGED <<kind, source, state, shards, dropped, suspect, changes, pass, outcome>>

-----------------------------------------------------------------------------

Step == \/ AlreadyDone
        \/ \E h \in Versions \cup {None} : SkipUnchanged(h) \/ LoadContext(h) \/ Abort(h) \/ Verify(h)
        \/ ReadDirectly \/ NotModified \/ Modified
        \/ Open \/ ReadBatch \/ PublishBatchShard \/ PersistBatchState \/ PublishCheckpointed
        \/ ReadWhole \/ PublishWhole \/ FinishUnchanged \/ Commit \/ Finish

Next == \/ \E r \in Resumes, d \in Destinations : Start(r, d)
        \/ Step
        \/ ChangeSource \/ Crash \/ FetchFails
        \/ \E d \in Destinations : Damage(d)

Spec == Init /\ [][Next]_vars

\* A pass that was started runs on, and a caller's schedule keeps starting passes
\* without resume=, to whichever destination, among whatever others it starts.
Fairness == /\ WF_vars(Step)
            /\ SF_vars(\E d \in Destinations : Start(FALSE, d))
FairSpec == Spec /\ Fairness
-----------------------------------------------------------------------------
(* Properties                                                               *)

\* Every variable has its type.
TypeOK ==
    /\ kind \in Kinds
    /\ source \in Versions
    /\ state \in States
    /\ shards \in [Destinations -> Partial]
    /\ artifact \in [Destinations -> Contents \cup {None}]
    /\ pc \in {"idle", "load", "conditional", "open", "buffered", "batch", "shard", "persist", "verify", "read", "commit", "cleanup"}
    /\ resume \in BOOLEAN
    /\ dest \in Destinations \cup {None}
    /\ stable \in Versions \cup {None}
    /\ healthy \in BOOLEAN
    /\ mark \in Versions \cup {None}
    /\ next \in 0..Batches
    /\ action \in {"materialized", "resumed"}
    /\ opened \in Versions \cup {None}
    /\ staged \in Partial
    /\ outcome \in {"none", "resumed", "skipped-unchanged", "materialized",
                    "missing-shard", "source-changed", "fetch-failed", "crashed"}
    /\ dropped \in BOOLEAN
    /\ moved \in {"stayed", "left", "returned"}
    /\ suspect \in BOOLEAN
    /\ changes \in 0..MaxChanges
    /\ faults \in 0..MaxFaults

\* "resume can detect a source replacement between passes" (_compute_source_version):
\* every shard the pass counts as done, those of earlier passes included, was read from
\* the content the pass hashed, unless the source moved while it or an earlier pass
\* behind its checkpoint was reading.  A source that leaves the hashed content and is
\* back at the next hash escapes every comparison the code makes.
StagedShardsMatchSource ==
    Checkpointed /\ pc \in {"batch", "shard", "persist"} /\ moved = "stayed" =>
        \A i \in 1..next : shards[dest][i] = stable

\* Skipping is sound: a completed record describes an artifact made of exactly the
\* version it names, whatever crashes, restarts and rewrites between passes led to it,
\* unless the source left that version while the pass that wrote it was reading.  Then
\* the whole rewrite, which hashes before it reads and never again, names one version
\* and describes another; if the source returns to the first, it is skipped with the other.
SkipIsSound ==
    state.kind = "completed" /\ state.source # None /\ ~suspect => Uniform(state.content, state.source)

\* A 304 can be trusted: a record whose watermark is a validator describes an artifact
\* made of exactly the content that validator stands for.  _conditional_reader and
\* _finish_resource_sync keep the two from one response: a reader that cannot take the
\* response gets neither (the note of sync_resources says it would fetch twice).
ValidatorIsSound ==
    state.kind = "completed" /\ state.mark # None => Uniform(state.content, state.mark)

\* The pass that commits after the post-materialization check recorded one
\* version and published nothing else: a mixed artifact is never committed on
\* the checkpointed path, unless the source had left that version while it was read
\* and was back for the second hash.
CheckpointedCommitIsUniform ==
    [][Commit /\ Checkpointed /\ moved # "returned" => stable # None /\ Uniform(staged, stable)]_vars

\* A checkpoint has all the shards it counts, from the version it names, until a pass
\* starts over or the source moves under a pass that wrote them: the missing-shard error
\* of _require_checkpoint_shards is the work of a restarted pass that died before its
\* first commit or of an abort, never of crashes and resumptions alone.
CheckpointIsResumable ==
    /\ TypeOK
    /\ state.kind = "checkpoint" /\ ~suspect /\ ~dropped =>
          \A i \in 1..state.next : shards[state.dest][i] = state.source

\* The record describes an artifact that is on disk and has the source's content.
Fresh == state.kind = "completed" /\ Uniform(state.content, source) /\ artifact[state.dest] = state.content

\* Once the source settles and faults end, the record comes back, again and again, to
\* a fresh artifact, from any wreckage earlier passes left and whichever destinations
\* callers pass.  The exception is a record that names the content the source settled
\* on although the source had left it while that record's pass was reading: it is
\* skipped for ever.
EventuallyFresh ==
    []<>(Fresh \/ (suspect /\ state.kind = "completed" /\ state.source = source))

\* "aborting to avoid publishing a mixed-version artifact": the abort leaves no
\* artifact at the destination that mixes two source versions.
AbortPublishesNoMixture ==
    [][outcome' = "source-changed" /\ outcome # "source-changed" =>
          \A d \in Destinations : artifact[d] = None \/ \E v \in Versions : Uniform(artifact[d], v)]_vars
=============================================================================
