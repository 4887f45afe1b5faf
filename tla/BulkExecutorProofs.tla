------------------------- MODULE BulkExecutorProofs -------------------------
(***************************************************************************)
(* Proofs about BulkExecutor, for any number of items, any parallelism,    *)
(* the synchronous and the asynchronous executor, and any number of faults.*)
(***************************************************************************)
EXTENDS BulkExecutor, FiniteSetTheorems, WellFoundedInduction, TLAPS

-----------------------------------------------------------------------------
(* The inductive invariant                                                  *)

\* The items are split between the four places an item can be in during a run.
SplitInv ==
    IF pc = "idle"
    THEN pending = {} /\ flight = {} /\ done = {} /\ completed = {} /\ item = 0
    ELSE /\ Items \subseteq pending \cup flight \cup completed \cup {item}
         /\ pending \cap flight = {} /\ pending \cap completed = {} /\ flight \cap completed = {}
         /\ item \notin pending \cup flight \cup completed

\* What the generator holds at each place.
PlaceInv ==
    /\ item # 0 => pc = "dispatch" /\ stop = "none" /\ Cardinality(flight) < Parallelism
    /\ suspended => pc \in {"prelude", "emit", "tail"}
    /\ pc \in {"prelude", "finish", "tail"} => flight = {}
    /\ pc \in {"finish", "tail"} /\ stop = "none" => pending = {}
    /\ pc \in {"record", "persist", "emit"} => done \subseteq settled

\* The sink has everything that is completed, except where it is about to be told.
CheckpointInv ==
    /\ pc # "idle" => checkpoint \subseteq completed
    /\ pc \notin {"idle", "persist", "close", "cleanup"} => checkpoint = completed

\* EmittedIsDurable, with the run that says it completed being over.
EmittedInv ==
    /\ \A i \in 1..(nextEmit - 1) : i \in checkpoint
    /\ outcome = "completed" => pc = "idle" /\ checkpoint = Items /\ nextEmit = N + 1

\* Without faults an item that was dispatched is in flight or has a receipt.
ExecutedInv ==
    faults = 0 => \A i \in Items :
        /\ executed[i] <= 1
        /\ executed[i] > 0 => i \in checkpoint \cup completed \cup flight

\* Nothing goes out late as long as an item is on its way to its worker.
LateInv == late <= 1 /\ (item # 0 \/ ~cancelled \/ pc = "idle" => late = 0)

BulkInv == TypeOK /\ SplitInv /\ PlaceInv /\ CheckpointInv /\ EmittedInv /\ ExecutedInv /\ LateInv

-----------------------------------------------------------------------------
(* Lemmas about the operators                                               *)

\* The items, and every set of them, are finite, with at most N elements.
LEMMA ItemsFinite ==
    ASSUME NEW S, S \subseteq Items
    PROVE  IsFiniteSet(S) /\ Cardinality(S) \in 0..N
<1>1. N \in Nat /\ N # 0 BY BulkExecutorAssumption
<1>2. IsFiniteSet(Items) /\ Cardinality(Items) = N BY <1>1, FS_Interval DEF Items
<1>3. S \in SUBSET Items OBVIOUS
<1>4. IsFiniteSet(S) /\ Cardinality(S) <= N BY <1>2, <1>3, FS_Subset
<1> QED BY <1>1, <1>4, FS_CardinalityType

\* _next_dispatchable takes an index that is pending.
LEMMA FirstIsMember ==
    ASSUME NEW S, S \subseteq Items, S # {}
    PROVE  First(S) \in S
<1>1. S \subseteq Nat BY BulkExecutorAssumption DEF Items
<1> DEFINE Less == {ss \in Nat \X Nat : ss[1] < ss[2]}
<1>2. IsWellFoundedOn(Less, Nat) BY NatLessThanWellFounded DEF OpToRel
<1> HIDE DEF Less
<1>3. PICK x \in S : \A y \in S : ~ (<<y, x>> \in Less) BY <1>1, <1>2, WFMin
<1>4. \A a, b \in Nat : a < b => <<a, b>> \in Less BY DEF Less
<1>5. ASSUME NEW y \in S PROVE x <= y
  <2>1. x \in Nat /\ y \in Nat BY <1>1
  <2>2. ~ (y < x) BY <2>1, <1>3, <1>4, Zenon
  <2> QED BY <2>1, <2>2
<1> QED BY <1>5 DEF First

-----------------------------------------------------------------------------
(* Every action preserves every part of the invariant                       *)

\* The actions, sorted by what they do to the sets of items: the steps that leave
\* them alone, the ones that move an item, the start and the end of a run.
Quiet ==
    \/ Emit \/ Resume \/ Emitted \/ Dispatched \/ Wait \/ Recorded \/ Persist \/ Finish
    \/ CancelTask \/ SetCancelEvent \/ BudgetRunsOut
    \/ Close /\ pc = "emit"
    \/ \E i \in Items : Settle(i)
Moves == NextDispatchable \/ Submit \/ \E i \in Items : Record(i) \/ Drain(i)
Ends ==
    \/ Summary \/ SinkFails \/ CancelFinish \/ PersistFinal \/ Crash
    \/ Close /\ pc # "emit"
    \/ \E i \in Items : CancelClose(i)

\* These are all the steps there are.
LEMMA StepKinds == Next => Start \/ Quiet \/ Moves \/ Ends
BY DEF Next, Step, Quiet, Moves, Ends

\* A run that ends leaves nothing behind but the checkpoint.
LEMMA EndsEnd ==
    Ends => \E how \in {"completed", "cancelled", "budget_exhausted", "closed", "close-cancelled",
                         "sink-error", "crashed"} \cup {stop} : Ended(how) /\ UNCHANGED <<executed, nextEmit>>
<1> SUFFICES ASSUME Ends
             PROVE  \E how \in {"completed", "cancelled", "budget_exhausted", "closed",
                                "close-cancelled", "sink-error", "crashed"} \cup {stop} :
                        Ended(how) /\ UNCHANGED <<executed, nextEmit>>
    OBVIOUS
<1>1. CASE Summary BY <1>1 DEF Summary
<1>2. CASE SinkFails BY <1>2 DEF SinkFails
<1>3. CASE CancelFinish BY <1>3 DEF CancelFinish
<1>4. CASE PersistFinal BY <1>4 DEF PersistFinal
<1>5. CASE Crash BY <1>5 DEF Crash
<1>6. CASE Close /\ pc # "emit" BY <1>6 DEF Close
<1>7. CASE \E i \in Items : CancelClose(i) BY <1>7 DEF CancelClose
<1> QED BY <1>1, <1>2, <1>3, <1>4, <1>5, <1>6, <1>7 DEF Ends

\* Init gives every part of the invariant.
LEMMA InitInv == Init => BulkInv
<1> SUFFICES ASSUME Init PROVE BulkInv OBVIOUS
<1> USE BulkExecutorAssumption
<1>1. TypeOK
  <2>1. suspended \in BOOLEAN /\ cancelled \in BOOLEAN /\ exhausted \in BOOLEAN BY DEF Init
  <2>2. saved \in [count : -1..N, stop : {"none", "cancelled", "budget_exhausted"}]
        BY DEF Init, Unsaved
  <2>3. executed \in [Items -> Nat] BY DEF Init
  <2> QED BY <2>1, <2>2, <2>3, FS_EmptySet DEF Init, TypeOK
<1>2. SplitInv /\ PlaceInv /\ CheckpointInv BY DEF Init, SplitInv, PlaceInv, CheckpointInv
<1>3. EmittedInv /\ ExecutedInv /\ LateInv BY DEF Init, EmittedInv, ExecutedInv, LateInv
<1> QED BY <1>1, <1>2, <1>3 DEF BulkInv

\* Every step keeps the types, and the number of items in flight within bounds.
LEMMA TypeStep == BulkInv /\ [Next]_vars => TypeOK'
<1> SUFFICES ASSUME BulkInv, [Next]_vars PROVE TypeOK' OBVIOUS
<1> USE BulkExecutorAssumption
<1>0. TypeOK /\ SplitInv /\ PlaceInv BY DEF BulkInv
<1>1. CASE Start BY <1>0, <1>1 DEF TypeOK, Start, StopState, Items
<1>2. CASE Quiet
  <2>1. CASE Emit
    <3>1. suspended' \in BOOLEAN BY <2>1 DEF Emit
    <3>2. nextEmit' \in 1..(N + 1) BY <1>0, <2>1 DEF Emit, TypeOK, Items
    <3>3. UNCHANGED <<checkpoint, executed, pc, pending, flight, settled, done, item, completed,
                      stop, saved, cancelled, late, exhausted, outcome, faults>>
          BY <2>1 DEF Emit
    <3> QED BY <1>0, <3>1, <3>2, <3>3 DEF TypeOK
  <2>2. CASE Resume
    <3>1. suspended' \in BOOLEAN BY <2>2 DEF Resume
    <3>2. UNCHANGED <<checkpoint, executed, pc, pending, flight, settled, done, item, completed,
                      nextEmit, stop, saved, cancelled, late, exhausted, outcome, faults>>
          BY <2>2 DEF Resume
    <3> QED BY <1>0, <3>1, <3>2 DEF TypeOK
  <2>3. CASE Emitted BY <1>0, <2>3 DEF TypeOK, Emitted
  <2>4. CASE Dispatched BY <1>0, <2>4 DEF TypeOK, Dispatched
  <2>5. CASE Wait BY <1>0, <2>5 DEF TypeOK, Wait
  <2>6. CASE Recorded BY <1>0, <2>6 DEF TypeOK, Recorded
  <2>7. CASE Persist
    <3>1. Cardinality(completed) \in -1..N BY <1>0, ItemsFinite DEF TypeOK
    <3> QED BY <1>0, <2>7, <3>1 DEF TypeOK, Persist
  <2>8. CASE Finish BY <1>0, <2>8 DEF TypeOK, Finish, Refreshed, StopState
  <2>9. CASE CancelTask BY <1>0, <2>9 DEF TypeOK, CancelTask
  <2>10. CASE SetCancelEvent BY <1>0, <2>10 DEF TypeOK, SetCancelEvent
  <2>11. CASE BudgetRunsOut BY <1>0, <2>11 DEF TypeOK, BudgetRunsOut
  <2>12. CASE Close /\ pc = "emit" BY <1>0, <2>12 DEF TypeOK, Close
  <2>13. ASSUME NEW i \in Items, Settle(i) PROVE TypeOK' BY <1>0, <2>13 DEF TypeOK, Settle
  <2> QED BY <1>2, <2>1, <2>2, <2>3, <2>4, <2>5, <2>6, <2>7, <2>8, <2>9, <2>10, <2>11, <2>12,
             <2>13 DEF Quiet
<1>3. CASE Moves
  <2>1. CASE NextDispatchable
    <3>1. First(pending) \in pending
          BY <1>0, <2>1, FirstIsMember DEF NextDispatchable, MayDispatch, TypeOK
    <3> QED BY <1>0, <2>1, <3>1 DEF TypeOK, NextDispatchable, StopState
  <2>2. CASE Submit
    <3>1. item \in Items /\ Cardinality(flight) < Parallelism
          BY <1>0, <2>2 DEF Submit, TypeOK, PlaceInv
    <3>2. IsFiniteSet(flight) /\ Cardinality(flight) \in Nat
          BY <1>0, ItemsFinite DEF TypeOK
    <3>3. Cardinality(flight \cup {item}) \in {Cardinality(flight), Cardinality(flight) + 1}
          BY <3>2, FS_AddElement
    <3>4. Cardinality(flight \cup {item}) <= Parallelism BY <3>1, <3>2, <3>3
    <3> QED BY <1>0, <2>2, <3>1, <3>4 DEF TypeOK, Submit
  <2>3. ASSUME NEW i \in Items, Record(i) \/ Drain(i) PROVE TypeOK'
    <3>1. IsFiniteSet(flight) /\ Cardinality(flight) \in Nat
          BY <1>0, ItemsFinite DEF TypeOK
    <3>2. Cardinality(flight \ {i}) \in {Cardinality(flight), Cardinality(flight) - 1}
          BY <3>1, FS_RemoveElement
    <3>3. Cardinality(flight \ {i}) <= Parallelism BY <1>0, <3>1, <3>2 DEF TypeOK
    <3>4. CASE Record(i) BY <1>0, <3>3, <3>4 DEF TypeOK, Record, Refreshed, StopState
    <3>5. CASE Drain(i) BY <1>0, <3>3, <3>5 DEF TypeOK, Drain
    <3> QED BY <2>3, <3>4, <3>5
  <2> QED BY <1>3, <2>1, <2>2, <2>3 DEF Moves
<1>4. CASE Ends
  <2>1. checkpoint' \subseteq Items /\ faults' \in 0..MaxFaults
        BY <1>0, <1>4 DEF Ends, Summary, SinkFails, CancelFinish, PersistFinal, Crash, Close,
                          CancelClose, TypeOK
  <2>2. Cardinality({}) = 0 BY FS_EmptySet
  <2>3. PICK how \in {"completed", "cancelled", "budget_exhausted", "closed", "close-cancelled",
                      "sink-error", "crashed"} \cup {stop} :
             Ended(how) /\ UNCHANGED <<executed, nextEmit>>
        BY <1>4, EndsEnd
  <2>4. how \in {"none", "completed", "cancelled", "budget_exhausted", "closed",
                 "close-cancelled", "sink-error", "crashed"}
        BY <1>0, <2>3 DEF TypeOK
  <2>5. suspended' \in BOOLEAN /\ cancelled' \in BOOLEAN /\ exhausted' \in BOOLEAN
        BY <2>3 DEF Ended
  <2>6. saved' \in [count : -1..N, stop : {"none", "cancelled", "budget_exhausted"}]
        BY <2>3 DEF Ended, Unsaved
  <2>7. /\ pc' = "idle" /\ item' = 0 /\ stop' = "none" /\ late' = 0 /\ outcome' = how
        /\ pending' = {} /\ flight' = {} /\ settled' = {} /\ done' = {} /\ completed' = {}
        /\ UNCHANGED <<executed, nextEmit>>
        BY <2>3 DEF Ended
  <2> QED BY <1>0, <2>1, <2>2, <2>4, <2>5, <2>6, <2>7 DEF TypeOK
<1>5. CASE UNCHANGED vars BY <1>0, <1>5 DEF TypeOK, vars
<1> QED BY <1>1, <1>2, <1>3, <1>4, <1>5, StepKinds

\* Every step keeps the items apart and loses none.
LEMMA SplitStep == BulkInv /\ [Next]_vars => SplitInv'
<1> SUFFICES ASSUME BulkInv, [Next]_vars PROVE SplitInv' OBVIOUS
<1>0. TypeOK /\ SplitInv /\ PlaceInv /\ CheckpointInv /\ 0 \notin Items
      BY BulkExecutorAssumption DEF BulkInv, Items
<1>1. CASE Start BY <1>0, <1>1 DEF SplitInv, Start, TypeOK
<1>2. CASE Quiet
  <2>1. /\ UNCHANGED <<pending, flight, item, completed>>
        /\ pc' = "idle" <=> pc = "idle"
        /\ pc = "idle" => done' = done
        BY <1>0, <1>2 DEF Quiet, Emit, Resume, Emitted, Dispatched, Wait, Recorded, Persist, Finish,
              CancelTask, SetCancelEvent, BudgetRunsOut, Close, Settle, PlaceInv
  <2> QED BY <1>0, <2>1 DEF SplitInv
<1>3. CASE Moves
  <2>1. CASE NextDispatchable
    <3>1. First(pending) \in pending
          BY <1>0, <2>1, FirstIsMember DEF NextDispatchable, MayDispatch, TypeOK
    <3> QED BY <1>0, <2>1, <3>1 DEF TypeOK, SplitInv, NextDispatchable
  <2>2. CASE Submit BY <1>0, <2>2 DEF TypeOK, SplitInv, Submit
  <2>3. ASSUME NEW i \in Items, Record(i) PROVE SplitInv'
        BY <1>0, <2>3 DEF TypeOK, SplitInv, PlaceInv, Record
  <2>4. ASSUME NEW i \in Items, Drain(i) PROVE SplitInv'
        BY <1>0, <2>4 DEF TypeOK, SplitInv, PlaceInv, Drain
  <2> QED BY <1>3, <2>1, <2>2, <2>3, <2>4 DEF Moves
<1>4. CASE Ends BY <1>4, EndsEnd DEF SplitInv, Ended
<1>5. CASE UNCHANGED vars BY <1>0, <1>5 DEF SplitInv, vars
<1> QED BY <1>1, <1>2, <1>3, <1>4, <1>5, StepKinds

\* Every step keeps what the generator holds at each place.
LEMMA PlaceStep == BulkInv /\ [Next]_vars => PlaceInv'
<1> SUFFICES ASSUME BulkInv, [Next]_vars PROVE PlaceInv' OBVIOUS
<1>0. TypeOK /\ SplitInv /\ PlaceInv BY DEF BulkInv
<1>1. CASE Start BY <1>0, <1>1 DEF SplitInv, PlaceInv, Start
<1>2. CASE Quiet
  <2>1. CASE Emit BY <1>0, <2>1 DEF PlaceInv, Emit
  <2>2. CASE Resume BY <1>0, <2>2 DEF PlaceInv, Resume
  <2>3. CASE Emitted BY <1>0, <2>3 DEF PlaceInv, Emitted
  <2>4. CASE Dispatched
    <3>1. Cardinality({}) = 0 /\ 0 < Parallelism BY FS_EmptySet, BulkExecutorAssumption
    <3>2. flight = {} /\ stop = "none" => pending = {} BY <2>4, <3>1 DEF Dispatched, MayDispatch
    <3> QED BY <1>0, <2>4, <3>2 DEF PlaceInv, Dispatched
  <2>5. CASE Wait BY <1>0, <2>5 DEF PlaceInv, Wait
  <2>6. CASE Recorded BY <1>0, <2>6 DEF PlaceInv, Recorded
  <2>7. CASE Persist BY <1>0, <2>7 DEF PlaceInv, Persist
  <2>8. CASE Finish BY <1>0, <2>8 DEF PlaceInv, Finish, Refreshed, StopState
  <2>9. CASE CancelTask BY <1>0, <2>9 DEF PlaceInv, CancelTask
  <2>10. CASE SetCancelEvent BY <1>0, <2>10 DEF PlaceInv, SetCancelEvent
  <2>11. CASE BudgetRunsOut BY <1>0, <2>11 DEF PlaceInv, BudgetRunsOut
  <2>12. CASE Close /\ pc = "emit" BY <1>0, <2>12 DEF PlaceInv, Close
  <2>13. ASSUME NEW i \in Items, Settle(i) PROVE PlaceInv' BY <1>0, <2>13 DEF PlaceInv, Settle
  <2> QED BY <1>2, <2>1, <2>2, <2>3, <2>4, <2>5, <2>6, <2>7, <2>8, <2>9, <2>10, <2>11, <2>12,
             <2>13 DEF Quiet
<1>3. CASE Moves
  <2>1. CASE NextDispatchable BY <1>0, <2>1 DEF PlaceInv, NextDispatchable, MayDispatch
  <2>2. CASE Submit BY <1>0, <2>2 DEF PlaceInv, Submit
  <2>3. ASSUME NEW i \in Items, Record(i) PROVE PlaceInv' BY <1>0, <2>3 DEF PlaceInv, Record
  <2>4. ASSUME NEW i \in Items, Drain(i) PROVE PlaceInv' BY <1>0, <2>4 DEF PlaceInv, Drain
  <2> QED BY <1>3, <2>1, <2>2, <2>3, <2>4 DEF Moves
<1>4. CASE Ends BY <1>4, EndsEnd DEF PlaceInv, Ended
<1>5. CASE UNCHANGED vars BY <1>0, <1>5 DEF PlaceInv, vars
<1> QED BY <1>1, <1>2, <1>3, <1>4, <1>5, StepKinds

\* Every step leaves the checkpoint level with the receipts, or about to be.
LEMMA CheckpointStep == BulkInv /\ [Next]_vars => CheckpointInv'
<1> SUFFICES ASSUME BulkInv, [Next]_vars PROVE CheckpointInv' OBVIOUS
<1>0. TypeOK /\ SplitInv /\ PlaceInv /\ CheckpointInv BY DEF BulkInv
<1>1. CASE Start BY <1>1 DEF CheckpointInv, Start
<1>2. CASE Quiet BY <1>0, <1>2 DEF CheckpointInv, PlaceInv, Quiet, Emit, Resume, Emitted, Dispatched,
              Wait, Recorded, Persist, Finish, CancelTask, SetCancelEvent, BudgetRunsOut, Close, Settle
<1>3. CASE Moves BY <1>0, <1>3 DEF CheckpointInv, Moves, NextDispatchable, Submit, Record, Drain
<1>4. CASE Ends BY <1>4, EndsEnd DEF CheckpointInv, Ended
<1>5. CASE UNCHANGED vars BY <1>0, <1>5 DEF CheckpointInv, vars
<1> QED BY <1>1, <1>2, <1>3, <1>4, <1>5, StepKinds

\* A snapshot never loses a receipt, whichever way a run ends.
LEMMA CheckpointGrows == BulkInv /\ [Next]_vars => checkpoint \subseteq checkpoint'
<1> SUFFICES ASSUME BulkInv, [Next]_vars PROVE checkpoint \subseteq checkpoint' OBVIOUS
<1>0. SplitInv /\ PlaceInv /\ CheckpointInv BY DEF BulkInv
<1>1. CASE Start BY <1>1 DEF Start
<1>2. CASE Quiet BY <1>0, <1>2 DEF CheckpointInv, Quiet, Emit, Resume, Emitted, Dispatched,
              Wait, Recorded, Persist, Finish, CancelTask, SetCancelEvent, BudgetRunsOut, Close, Settle
<1>3. CASE Moves BY <1>3 DEF Moves, NextDispatchable, Submit, Record, Drain
<1>4. CASE Ends BY <1>0, <1>4 DEF CheckpointInv, Ends, Summary, SinkFails, CancelFinish, PersistFinal,
              Crash, Close, CancelClose
<1>5. CASE UNCHANGED vars BY <1>5 DEF vars
<1> QED BY <1>1, <1>2, <1>3, <1>4, <1>5, StepKinds

\* A step yields only what the sink has, and ends with "completed" only when all is done.
LEMMA EmittedStep == BulkInv /\ [Next]_vars => EmittedInv'
<1> SUFFICES ASSUME BulkInv, [Next]_vars PROVE EmittedInv' OBVIOUS
<1> USE BulkExecutorAssumption
<1>0. TypeOK /\ SplitInv /\ PlaceInv /\ CheckpointInv /\ EmittedInv BY DEF BulkInv
<1>1. checkpoint \subseteq checkpoint' BY CheckpointGrows
<1>2. CASE Start BY <1>2 DEF EmittedInv, Start
<1>3. CASE Emit
  <2>1. /\ pc # "idle" /\ nextEmit \in checkpoint /\ nextEmit \in Nat
        /\ nextEmit' = nextEmit + 1 /\ UNCHANGED <<checkpoint, outcome>>
        BY <1>0, <1>3 DEF Emit, CheckpointInv, TypeOK, Items
  <2> QED BY <1>0, <2>1 DEF EmittedInv
<1>4. CASE Quiet /\ ~Emit
  <2>1. UNCHANGED <<nextEmit, outcome>> /\ (pc = "idle" => UNCHANGED <<pc, checkpoint>>)
        BY <1>0, <1>4 DEF PlaceInv, Quiet, Resume, Emitted, Dispatched, Wait, Recorded, Persist,
              Finish, CancelTask, SetCancelEvent, BudgetRunsOut, Close, Settle
  <2> QED BY <1>0, <1>1, <2>1 DEF EmittedInv
<1>5. CASE Moves
  <2>1. UNCHANGED <<nextEmit, outcome, checkpoint, pc>> \/ (outcome' = outcome /\ pc # "idle")
        BY <1>5 DEF Moves, NextDispatchable, Submit, Record, Drain
  <2>2. nextEmit' = nextEmit BY <1>5 DEF Moves, NextDispatchable, Submit, Record, Drain
  <2> QED BY <1>0, <1>1, <2>1, <2>2 DEF EmittedInv
<1>6. CASE Summary
  <2>1. stop = "none" => checkpoint = Items /\ nextEmit = N + 1
    <3>1. 0 \notin Items BY DEF Items
    <3>2. ASSUME stop = "none" PROVE completed = Items
          BY <1>0, <1>6, <3>1, <3>2 DEF Summary, SplitInv, PlaceInv, TypeOK
    <3> QED BY <1>0, <1>6, <3>2 DEF Summary, CheckpointInv, TypeOK, Items
  <2>2. stop # "completed" BY <1>0 DEF TypeOK
  <2> QED BY <1>0, <1>6, <2>1, <2>2 DEF EmittedInv, Summary, Ended
<1>7. CASE Ends /\ ~Summary
  <2>1. nextEmit' = nextEmit /\ outcome' # "completed"
        BY <1>7 DEF Ends, SinkFails, CancelFinish, PersistFinal, Crash, Close, CancelClose, Ended
  <2> QED BY <1>0, <1>1, <2>1 DEF EmittedInv
<1>8. CASE UNCHANGED vars BY <1>0, <1>8 DEF EmittedInv, vars
<1> QED BY <1>2, <1>3, <1>4, <1>5, <1>6, <1>7, <1>8, StepKinds

\* A step dispatches only an item that never was, and forgets none.
LEMMA ExecutedStep == BulkInv /\ [Next]_vars => ExecutedInv'
<1> SUFFICES ASSUME BulkInv, [Next]_vars PROVE ExecutedInv' OBVIOUS
<1>0. TypeOK /\ SplitInv /\ PlaceInv /\ CheckpointInv /\ ExecutedInv BY DEF BulkInv
<1>1. checkpoint \subseteq checkpoint' BY CheckpointGrows
<1>2. CASE Start BY <1>0, <1>2 DEF ExecutedInv, SplitInv, Start
<1>3. CASE Quiet
  <2>1. UNCHANGED <<executed, completed, flight, faults>>
        BY <1>3 DEF Quiet, Emit, Resume, Emitted, Dispatched, Wait, Recorded, Persist, Finish,
              CancelTask, SetCancelEvent, BudgetRunsOut, Close, Settle
  <2> QED BY <1>0, <1>1, <2>1 DEF ExecutedInv
<1>4. CASE NextDispatchable BY <1>0, <1>4 DEF ExecutedInv, NextDispatchable
<1>5. CASE Submit
  <2>1. item \in Items /\ item \notin checkpoint \cup completed \cup flight
        BY <1>0, <1>5 DEF Submit, TypeOK, PlaceInv, SplitInv, CheckpointInv
  <2>2. faults = 0 => executed[item] = 0 BY <1>0, <2>1 DEF ExecutedInv, TypeOK
  <2> QED BY <1>0, <1>5, <2>1, <2>2 DEF ExecutedInv, Submit, TypeOK
<1>6. ASSUME NEW i \in Items, Record(i) \/ Drain(i) PROVE ExecutedInv'
      BY <1>0, <1>6 DEF ExecutedInv, Record, Drain
<1>7. CASE Ends
  <2>1. executed' = executed BY <1>7, EndsEnd
  <2>2. CASE faults' # 0 BY <2>2 DEF ExecutedInv
  <2>3. CASE faults' = 0
    <3>1. Summary \/ CancelFinish \/ PersistFinal \/ (Close /\ pc # "emit")
          BY <1>0, <1>7, <2>3 DEF Ends, SinkFails, Crash, CancelClose, TypeOK
    <3>2. faults' = faults BY <3>1 DEF Summary, CancelFinish, PersistFinal, Close
    <3>3. completed \cup flight \subseteq checkpoint'
          BY <1>0, <3>1 DEF Summary, CancelFinish, PersistFinal, Close, PlaceInv, CheckpointInv
    <3> QED BY <1>0, <1>1, <2>1, <3>2, <3>3 DEF ExecutedInv
  <2> QED BY <2>2, <2>3
<1>8. CASE UNCHANGED vars BY <1>0, <1>8 DEF ExecutedInv, vars
<1> QED BY <1>2, <1>3, <1>4, <1>5, <1>6, <1>7, <1>8, StepKinds DEF Moves

\* At most one dispatch follows the cancel event: the item that was already taken.
LEMMA LateStep == BulkInv /\ [Next]_vars => LateInv'
<1> SUFFICES ASSUME BulkInv, [Next]_vars PROVE LateInv' OBVIOUS
<1>0. TypeOK /\ SplitInv /\ PlaceInv /\ LateInv BY DEF BulkInv
<1>1. CASE Start BY <1>0, <1>1 DEF LateInv, Start
<1>2. CASE Quiet
  <2>1. /\ UNCHANGED <<item, late>>
        /\ pc' = "idle" => pc = "idle"
        BY <1>0, <1>2 DEF Quiet, Emit, Resume, Emitted, Dispatched, Wait, Recorded, Persist, Finish,
              CancelTask, SetCancelEvent, BudgetRunsOut, Close, Settle, PlaceInv
  <2>2. cancelled' = TRUE \/ cancelled' = cancelled
        BY <1>2 DEF Quiet, Emit, Resume, Emitted, Dispatched, Wait, Recorded, Persist, Finish,
              CancelTask, SetCancelEvent, BudgetRunsOut, Close, Settle
  <2> QED BY <1>0, <2>1, <2>2 DEF LateInv
<1>3. CASE NextDispatchable BY <1>0, <1>3 DEF LateInv, NextDispatchable, StopState
<1>4. CASE Submit BY <1>0, <1>4 DEF LateInv, Submit, TypeOK
<1>5. ASSUME NEW i \in Items, Record(i) \/ Drain(i) PROVE LateInv'
      BY <1>0, <1>5 DEF LateInv, Record, Drain
<1>6. CASE Ends BY <1>6, EndsEnd DEF LateInv, Ended
<1>7. CASE UNCHANGED vars BY <1>0, <1>7 DEF LateInv, vars
<1> QED BY <1>1, <1>2, <1>3, <1>4, <1>5, <1>6, <1>7, StepKinds DEF Moves

-----------------------------------------------------------------------------
(* The theorems                                                             *)

\* The executor keeps its inductive invariant.
THEOREM BulkInvariance == Spec => []BulkInv
<1>1. BulkInv /\ [Next]_vars => BulkInv'
      BY TypeStep, SplitStep, PlaceStep, CheckpointStep, EmittedStep, ExecutedStep, LateStep DEF BulkInv
<1> QED BY <1>1, InitInv, PTL DEF Spec

\* Whatever fails, and however often runs are cancelled, closed and resumed, the
\* receipts a consumer has seen are in the checkpoint the sink holds, in plan order,
\* a run that reports "completed" has done everything, and never more than
\* Parallelism items are in flight.
THEOREM ReceiptsAreDurable == Spec => []EmittedIsDurable
<1>1. BulkInv => EmittedIsDurable BY DEF BulkInv, EmittedInv, EmittedIsDurable
<1> QED BY <1>1, BulkInvariance, PTL

\* Short of a crash, a failing sink and a cancelled close, no sequence of runs
\* executes an item twice.
THEOREM ResumingIsSafe == Spec => []NothingExecutedTwice
<1>1. BulkInv => NothingExecutedTwice
      BY DEF BulkInv, SplitInv, ExecutedInv, NothingExecutedTwice
<1> QED BY <1>1, BulkInvariance, PTL

\* After the cancel event is set at most one more item is dispatched.
THEOREM CancelIsPrompt == Spec => []CancelStopsDispatch
<1>1. BulkInv => CancelStopsDispatch BY DEF BulkInv, LateInv, CancelStopsDispatch
<1> QED BY <1>1, BulkInvariance, PTL

\* The sink never gets a snapshot that lacks a receipt an earlier one had.
THEOREM SnapshotsOnlyGrow == Spec => [][checkpoint \subseteq checkpoint']_vars
BY BulkInvariance, CheckpointGrows, PTL DEF Spec

=============================================================================
