---------------------------- MODULE BulkExecutor ----------------------------
(***************************************************************************)
(* BulkExecutor and AsyncBulkExecutor (src/src/datasluice/runtime/bulk.py):*)
(* a bulk plan is dispatched with bounded parallelism, every settled item  *)
(* is checkpointed through the caller's sink, and receipts are streamed in *)
(* plan order.  The caller resumes with the last checkpoint its sink got.  *)
(*                                                                         *)
(* The executor is a generator.  It runs beside the workers, which settle  *)
(* in any order, the consumer, who may close the generator whenever it is  *)
(* suspended at a yield, whoever sets the cancel event, the clock, and (for*)
(* the asynchronous executor) whoever cancels the task that runs it.       *)
(***************************************************************************)
EXTENDS Integers, FiniteSets

CONSTANTS N,               \* items of the plan
          Parallelism,     \* min(policy, platform, 32)
          Async,           \* AsyncBulkExecutor instead of BulkExecutor
          MaxFaults        \* bound on crashes, sink errors and cancelled closes

ASSUME BulkExecutorAssumption ==
    /\ N \in Nat \ {0}
    /\ Parallelism \in 1..32
    /\ Async \in BOOLEAN
    /\ MaxFaults \in Nat

VARIABLES checkpoint,   \* indexes with a receipt in the last snapshot the sink stored
          executed,     \* times each item was dispatched, over all runs
          pc,           \* where the generator is; "idle" between runs
          suspended,    \* it is suspended at a yield
          pending,      \* progress.pending
          flight,       \* indexes of the futures in in_flight
          settled,      \* those whose worker has finished
          done,         \* rest of the done set being iterated
          item,         \* index taken from pending and not yet submitted, 0 if none
          completed,    \* indexes in progress.completed
          nextEmit,     \* progress.next_emit
          stop,         \* progress.stop_reason
          saved,        \* last_persisted_count and last_persisted_stop_reason
          cancelled,    \* the cancel event is set
          late,         \* dispatches of this run since then (observation only)
          exhausted,    \* the whole-run budget is used up
          outcome,      \* how the last run ended
          faults

run  == <<pc, suspended, pending, flight, settled, done, item, completed, nextEmit,
          stop, saved, cancelled, late, exhausted>>
vars == <<checkpoint, executed, pc, suspended, pending, flight, settled, done, item,
          completed, nextEmit, stop, saved, cancelled, late, exhausted, outcome, faults>>

Items == 1..N
First(S) == CHOOSE i \in S : \A j \in S : i <= j

Unsaved == [count |-> -1, stop |-> "none"]

Init ==
    /\ checkpoint = {}
    /\ executed = [i \in Items |-> 0]
    /\ pc = "idle"
    /\ suspended = FALSE
    /\ pending = {} /\ flight = {} /\ settled = {} /\ done = {} /\ completed = {}
    /\ item = 0
    /\ nextEmit = 1
    /\ stop = "none"
    /\ saved = Unsaved
    /\ cancelled = FALSE /\ late = 0 /\ exhausted = FALSE
    /\ outcome = "none"
    /\ faults = 0

\* The generator is gone, with everything it held; workers that still run can no
\* longer be observed through it.
Ended(how) ==
    /\ pc' = "idle"
    /\ suspended' = FALSE
    /\ pending' = {} /\ flight' = {} /\ settled' = {} /\ done' = {} /\ completed' = {}
    /\ item' = 0
    /\ stop' = "none"
    /\ saved' = Unsaved
    /\ cancelled' = FALSE /\ late' = 0 /\ exhausted' = FALSE
    /\ outcome' = how

-----------------------------------------------------------------------------
(* Progress                                                                 *)

\* _stop_state: cancellation first, then the run budget if it matters.
StopState(checkBudget) ==
    IF cancelled THEN "cancelled"
    ELSE IF checkBudget /\ exhausted THEN "budget_exhausted"
    ELSE "none"

\* _refresh_stop_state: the first reason stays.
Refreshed(checkBudget) == IF stop = "none" THEN StopState(checkBudget) ELSE stop

\* stream and _bulk_progress: what the checkpoint holds counts as completed.
Start ==
    /\ pc = "idle"
    /\ completed' = checkpoint
    /\ pending' = Items \ checkpoint
    /\ nextEmit' = 1
    /\ stop' = StopState(pending' # {})
    /\ pc' = "prelude"
    /\ outcome' = "none"
    /\ UNCHANGED <<checkpoint, executed, suspended, flight, settled, done, item,
                   saved, cancelled, late, exhausted, faults>>

\* Mutant of Emit: receipts are yielded as they settle, gaps and all.
EmitUnordered ==
    /\ pc \in {"prelude", "emit", "tail"} /\ ~suspended
    /\ nextEmit <= Cardinality(completed)
    /\ nextEmit' = nextEmit + 1
    /\ suspended' = TRUE
    /\ UNCHANGED <<checkpoint, executed, pc, pending, flight, settled, done, item,
                   completed, stop, saved, cancelled, late, exhausted, outcome, faults>>

\* ordered_receipts: the next index is yielded once it has a receipt.
Emit ==
    /\ pc \in {"prelude", "emit", "tail"} /\ ~suspended
    /\ nextEmit \in completed
    /\ nextEmit' = nextEmit + 1
    /\ suspended' = TRUE
    /\ UNCHANGED <<checkpoint, executed, pc, pending, flight, settled, done, item,
                   completed, stop, saved, cancelled, late, exhausted, outcome, faults>>

\* The consumer asks for the next value.
Resume ==
    /\ suspended
    /\ suspended' = FALSE
    /\ UNCHANGED <<checkpoint, executed, pc, pending, flight, settled, done, item, completed,
                   nextEmit, stop, saved, cancelled, late, exhausted, outcome, faults>>

\* No receipt is in order: go on with the loop, or finish with the summary.
Emitted ==
    /\ pc \in {"prelude", "emit"} /\ ~suspended /\ nextEmit \notin completed
    /\ pc' = IF pc = "prelude" THEN "dispatch" ELSE "record"
    /\ UNCHANGED <<checkpoint, executed, suspended, pending, flight, settled, done, item, completed,
                   nextEmit, stop, saved, cancelled, late, exhausted, outcome, faults>>

Summary ==
    /\ pc = "tail" /\ ~suspended /\ nextEmit \notin completed
    /\ Ended(IF stop = "none" THEN "completed" ELSE stop)
    /\ UNCHANGED <<checkpoint, executed, nextEmit, faults>>

-----------------------------------------------------------------------------
(* Dispatching                                                              *)

MayDispatch == pending # {} /\ Cardinality(flight) < Parallelism /\ stop = "none"

\* Mutant of NextDispatchable: the stop state is not probed before each dispatch.
NextDispatchableUnprobed ==
    /\ pc = "dispatch" /\ item = 0 /\ MayDispatch
    /\ item' = First(pending)
    /\ pending' = pending \ {First(pending)}
    /\ UNCHANGED <<checkpoint, executed, pc, suspended, flight, settled, done, completed,
                   nextEmit, stop, saved, cancelled, late, exhausted, outcome, faults>>

\* _next_dispatchable: probe once more, then take the first pending index.
NextDispatchable ==
    /\ pc = "dispatch" /\ item = 0 /\ MayDispatch
    /\ stop' = StopState(TRUE)
    /\ IF stop' = "none"
       THEN /\ item' = First(pending)
            /\ pending' = pending \ {First(pending)}
       ELSE UNCHANGED <<item, pending>>
    /\ UNCHANGED <<checkpoint, executed, pc, suspended, flight, settled, done, completed,
                   nextEmit, saved, cancelled, late, exhausted, outcome, faults>>

\* _dispatch_available hands the item to a worker (or a task).
Submit ==
    /\ pc = "dispatch" /\ item # 0
    /\ flight' = flight \cup {item}
    /\ executed' = [executed EXCEPT ![item] = @ + 1]
    /\ late' = IF cancelled THEN late + 1 ELSE late
    /\ item' = 0
    /\ UNCHANGED <<checkpoint, pc, suspended, pending, settled, done, completed,
                   nextEmit, stop, saved, cancelled, exhausted, outcome, faults>>

\* Nothing more to dispatch now: wait for a worker, or leave the loop.
Dispatched ==
    /\ pc = "dispatch" /\ item = 0 /\ ~MayDispatch
    /\ pc' = IF flight = {} THEN "finish" ELSE "wait"
    /\ UNCHANGED <<checkpoint, executed, suspended, pending, flight, settled, done, item, completed,
                   nextEmit, stop, saved, cancelled, late, exhausted, outcome, faults>>

\* wait(..., FIRST_COMPLETED) returns every future that is done by now.
Wait ==
    /\ pc = "wait" /\ settled # {}
    /\ done' = settled
    /\ pc' = "record"
    /\ UNCHANGED <<checkpoint, executed, suspended, pending, flight, settled, item, completed,
                   nextEmit, stop, saved, cancelled, late, exhausted, outcome, faults>>

-----------------------------------------------------------------------------
(* Recording                                                                *)

\* One future of the done set: _record_completed (its receipt, a failure receipt
\* if it raised, counts as completed) before the sink is called.
Record(i) ==
    /\ pc = "record" /\ i \in done
    /\ done' = done \ {i}
    /\ flight' = flight \ {i}
    /\ settled' = settled \ {i}
    /\ completed' = completed \cup {i}
    /\ stop' = Refreshed(pending # {})
    /\ pc' = "persist"
    /\ UNCHANGED <<checkpoint, executed, suspended, pending, item, nextEmit,
                   saved, cancelled, late, exhausted, outcome, faults>>

\* The done set is used up: on with the loop.
Recorded ==
    /\ pc = "record" /\ done = {}
    /\ pc' = "dispatch"
    /\ UNCHANGED <<checkpoint, executed, suspended, pending, flight, settled, done, item, completed,
                   nextEmit, stop, saved, cancelled, late, exhausted, outcome, faults>>

Persist ==
    /\ pc = "persist"
    /\ checkpoint' = completed
    /\ saved' = [count |-> Cardinality(completed), stop |-> stop]
    /\ pc' = "emit"
    /\ UNCHANGED <<executed, suspended, pending, flight, settled, done, item, completed,
                   nextEmit, stop, cancelled, late, exhausted, outcome, faults>>

\* _finish_stop_state: the last snapshot does not tell all yet.
FinalSnapshotDue ==
    LET reason == Refreshed(FALSE) IN
    reason # "none" /\ saved # [count |-> Cardinality(completed), stop |-> reason]

\* _finish_progress
Finish ==
    /\ pc = "finish"
    /\ stop' = Refreshed(FALSE)
    /\ checkpoint' = IF FinalSnapshotDue THEN completed ELSE checkpoint
    /\ pc' = "tail"
    /\ UNCHANGED <<executed, suspended, pending, flight, settled, done, item, completed,
                   nextEmit, saved, cancelled, late, exhausted, outcome, faults>>

\* The caller's sink raises: the exception leaves the generator.  Workers are
\* waited for (pool shutdown) or left running, but their receipts are dropped.
SinkFails ==
    /\ \/ pc = "persist"
       \/ pc = "finish" /\ FinalSnapshotDue
       \/ pc \in {"close", "cleanup"} /\ flight = {}
    /\ faults < MaxFaults
    /\ faults' = faults + 1
    /\ Ended("sink-error")
    /\ UNCHANGED <<checkpoint, executed, nextEmit>>

-----------------------------------------------------------------------------
(* Closing early                                                            *)

\* Mutant of Close: the generator just stops.
CloseWithoutDrain ==
    /\ suspended
    /\ Ended("closed")
    /\ UNCHANGED <<checkpoint, executed, nextEmit, faults>>

\* GeneratorExit at a yield; only the loop has something to drain.
Close ==
    /\ suspended
    /\ IF pc = "emit"
       THEN /\ pc' = "close"
            /\ suspended' = FALSE
            /\ UNCHANGED <<pending, flight, settled, done, item, completed, stop, saved,
                           cancelled, late, exhausted, outcome>>
       ELSE Ended("closed")
    /\ UNCHANGED <<checkpoint, executed, nextEmit, faults>>

\* The task running the asynchronous stream is cancelled at an await of the loop:
\* _cancel_stream drains in a task of its own, which nothing cancels.  A sink that
\* was being awaited has stored its snapshot or not.
CancelTask ==
    /\ Async /\ pc \in {"wait", "persist"}
    /\ checkpoint' \in IF pc = "persist" THEN {checkpoint, completed} ELSE {checkpoint}
    /\ pc' = "cleanup"
    /\ UNCHANGED <<executed, suspended, pending, flight, settled, done, item, completed,
                   nextEmit, stop, saved, cancelled, late, exhausted, outcome, faults>>

\* Cancelled while the sink stores the last snapshot: no handler, nothing in flight.
CancelFinish ==
    /\ Async /\ pc = "finish" /\ FinalSnapshotDue
    /\ checkpoint' \in {checkpoint, completed}
    /\ Ended("closed")
    /\ UNCHANGED <<executed, nextEmit, faults>>

\* Mutant of Drain: the collected future stays in in_flight.
DrainKeepsFuture(i) ==
    /\ pc \in {"close", "cleanup"} /\ i \in settled
    /\ completed' = completed \cup {i}
    /\ UNCHANGED <<checkpoint, executed, pc, suspended, pending, flight, settled, done, item,
                   nextEmit, stop, saved, cancelled, late, exhausted, outcome, faults>>

\* _drain_sync and _drain_in_flight: collect one in-flight item once it settles.
Drain(i) ==
    /\ pc \in {"close", "cleanup"} /\ i \in settled
    /\ flight' = flight \ {i}
    /\ settled' = settled \ {i}
    /\ completed' = completed \cup {i}
    /\ UNCHANGED <<checkpoint, executed, pc, suspended, pending, done, item, nextEmit,
                   stop, saved, cancelled, late, exhausted, outcome, faults>>

\* _persist_final_checkpoint, then the exception goes on.
PersistFinal ==
    /\ pc \in {"close", "cleanup"} /\ flight = {}
    /\ checkpoint' = completed
    /\ Ended("closed")
    /\ UNCHANGED <<executed, nextEmit, faults>>

\* aclose() drains in the caller's own task: a cancellation there is raised by
\* _settled_task as soon as the awaited item settles, and ends the drain.
CancelClose(i) ==
    /\ Async /\ faults < MaxFaults
    /\ pc = "close" /\ i \in settled
    /\ faults' = faults + 1
    /\ Ended("close-cancelled")
    /\ UNCHANGED <<checkpoint, executed, nextEmit>>

-----------------------------------------------------------------------------
(* The environment                                                          *)

\* A worker finishes its item, with a receipt or an exception.
Settle(i) ==
    /\ i \in flight \ settled
    /\ settled' = settled \cup {i}
    /\ UNCHANGED <<checkpoint, executed, pc, suspended, pending, flight, done, item, completed,
                   nextEmit, stop, saved, cancelled, late, exhausted, outcome, faults>>

\* At any time, before the run starts too.
SetCancelEvent ==
    /\ ~cancelled
    /\ cancelled' = TRUE
    /\ UNCHANGED <<checkpoint, executed, pc, suspended, pending, flight, settled, done, item,
                   completed, nextEmit, stop, saved, late, exhausted, outcome, faults>>

BudgetRunsOut ==
    /\ pc # "idle" /\ ~exhausted
    /\ exhausted' = TRUE
    /\ UNCHANGED <<checkpoint, executed, pc, suspended, pending, flight, settled, done, item,
                   completed, nextEmit, stop, saved, cancelled, late, outcome, faults>>

Crash ==
    /\ pc # "idle" /\ faults < MaxFaults
    /\ faults' = faults + 1
    /\ Ended("crashed")
    /\ UNCHANGED <<checkpoint, executed, nextEmit>>

-----------------------------------------------------------------------------

Step == \/ Emit \/ Resume \/ Emitted \/ Summary
        \/ NextDispatchable \/ Submit \/ Dispatched \/ Wait
        \/ Recorded \/ Persist \/ Finish \/ PersistFinal
        \/ \E i \in Items : Record(i) \/ Drain(i) \/ Settle(i)

Next == \/ Start \/ Step
        \/ SinkFails \/ Close \/ CancelTask \/ CancelFinish
        \/ \E i \in Items : CancelClose(i)
        \/ SetCancelEvent \/ BudgetRunsOut \/ Crash

Spec == Init /\ [][Next]_vars

\* The consumer keeps iterating until it closes, the generator's own steps run,
\* and every dispatched item returns or raises (HTTP timeouts bound it).
Fairness == WF_vars(Step) /\ \A i \in Items : WF_vars(Settle(i))
FairSpec == Spec /\ Fairness
-----------------------------------------------------------------------------
(* Properties                                                               *)

\* Every variable has its type, and at most Parallelism items are in flight.
TypeOK ==
    /\ checkpoint \subseteq Items
    /\ executed \in [Items -> Nat]
    /\ pc \in {"idle", "prelude", "dispatch", "wait", "record", "persist", "emit", "finish", "tail",
              "close", "cleanup"}
    /\ suspended \in BOOLEAN
    /\ pending \subseteq Items
    /\ flight \subseteq Items /\ Cardinality(flight) <= Parallelism
    /\ settled \subseteq flight
    /\ done \subseteq Items
    /\ item \in Items \cup {0}
    /\ completed \subseteq Items
    /\ nextEmit \in 1..(N + 1)
    /\ stop \in {"none", "cancelled", "budget_exhausted"}
    /\ saved \in [count : -1..N, stop : {"none", "cancelled", "budget_exhausted"}]
    /\ cancelled \in BOOLEAN /\ late \in Nat /\ exhausted \in BOOLEAN
    /\ outcome \in {"none", "completed", "cancelled", "budget_exhausted", "closed",
                    "close-cancelled", "sink-error", "crashed"}
    /\ faults \in 0..MaxFaults

\* A receipt the consumer has seen is in the checkpoint the caller would resume
\* from, and receipts are seen in plan order without gaps; a run that reports
\* "completed" has settled, checkpointed and emitted all items.
EmittedIsDurable ==
    /\ TypeOK
    /\ \A i \in 1..(nextEmit - 1) : i \in checkpoint
    /\ outcome = "completed" => checkpoint = Items /\ nextEmit = N + 1

\* However a run ends short of a crash, a sink error or a cancelled close (summary, cancel event,
\* budget, close, task cancellation), every item it dispatched is in the
\* checkpoint, so resuming never executes a mutation twice.
NothingExecutedTwice ==
    faults = 0 => /\ \A i \in Items : executed[i] <= 1
                  /\ pc = "idle" => \A i \in Items : executed[i] > 0 => i \in checkpoint

\* The cancel event races with the dispatch loop, which probes before every
\* dispatch: at most the item already probed for goes out after it is set.
CancelStopsDispatch == late <= 1

\* Every run ends: a consumer that keeps iterating, or closes, never waits for
\* ever, whatever is in flight.
RunEnds == pc # "idle" ~> pc = "idle"
=============================================================================
