------------------------------ MODULE JobWait ------------------------------
(***************************************************************************)
(* The bounded waits of the uData services: wait_for_task                  *)
(* (services/jobs.py) and wait_for_job (services/harvest.py), threaded and *)
(* awaited, on an immutable UDataJobHandle that counts its polls.  The     *)
(* caller may wait again on the handle a wait returned, or on the one it   *)
(* still holds after a wait raised; every wait starts a monitor of its own.*)
(*                                                                         *)
(* The job runs at the deployment (external).  A harvest handle comes from *)
(* the last_job of the run's response: the new job, the one before it,     *)
(* which has ended, or none.                                               *)
(***************************************************************************)
EXTENDS Integers

CONSTANTS MaxPolls,    \* max_polls of the handle
          Intervals,   \* poll_interval of the handle, in units of time
          Budget,      \* total of the wait's TimeBudget
          MaxDelay,    \* bound on the time one sleep or poll takes beyond its own
          MaxWaits     \* bound on the waits on one handle

ASSUME WaitAssumption ==
    /\ MaxPolls \in Nat \ {0} /\ Intervals \subseteq Nat
    /\ Budget \in Nat \ {0} /\ MaxDelay \in Nat /\ MaxWaits \in Nat

VARIABLES
    job,        \* status of the queued job at the deployment
    named,      \* the job the handle names: "current", "previous" or "none"
    interval,   \* poll_interval
    at,         \* where the wait is
    given,      \* the handle the caller passed
    handle,     \* the handle of the wait, then its result
    record,     \* status in the record of the result, "none" without one
    left,       \* remaining time of the monitor, 0 once it is over
    asked,      \* polls sent by this wait, up to MaxPolls + 1 (observation only)
    waits

waitVars == <<job, named, interval, at, given, handle, record, left, asked, waits>>

Statuses == {"pending", "started", "done"}

Handles == [status : Statuses, polls : Nat, exhausted : BOOLEAN, abandoned : BOOLEAN]

Terminal(h) == h.status = "done"

NewHandle == [status |-> "pending", polls |-> 0, exhausted |-> FALSE, abandoned |-> FALSE]

\* Mutant of Observed: an observation that changes nothing is not counted.
ObservedIfChanged(h, s) ==
    [h EXCEPT !.status = s, !.polls = IF s = h.status THEN h.polls ELSE h.polls + 1]

Observed(h, s) == [h EXCEPT !.status = s, !.polls = h.polls + 1]

\* Mutant of AbandonedLease: a lease that reached its poll ceiling is marked like one
\* whose time is up.
AbandonedAsExhausted(h, exhausted) == [h EXCEPT !.exhausted = TRUE, !.abandoned = TRUE]

AbandonedLease(h, exhausted) == [h EXCEPT !.exhausted = exhausted, !.abandoned = TRUE]

\* What a poll of the handle's job would read.
Remote == IF named = "previous" THEN "done" ELSE job

Spend(t) == left' = IF t < left THEN left - t ELSE 0

WaitInit ==
    /\ job = "pending" /\ named \in {"current", "previous", "none"}
    /\ interval \in Intervals
    /\ at = "idle" /\ given = NewHandle /\ handle = NewHandle /\ record = "none"
    /\ left = 0 /\ asked = 0 /\ waits = 0

\* wait_for_task, wait_for_job.  A handle without a job is refused.
Wait ==
    /\ at \in {"idle", "returned", "raised"} /\ waits < MaxWaits
    /\ waits' = waits + 1
    /\ given' = handle /\ record' = "none" /\ asked' = 0 /\ left' = Budget
    /\ at' = IF named = "none" THEN "raised" ELSE "step"
    /\ UNCHANGED <<job, named, interval, handle>>

Stop(h) == handle' = h /\ at' = "returned"

\* Mutant of WaitStep: an abandoned handle is polled again.
WaitStepResumes ==
    /\ at = "step"
    /\ IF Terminal(handle) THEN Stop(handle)
       ELSE IF handle.polls >= MaxPolls THEN Stop(AbandonedLease(handle, FALSE))
       ELSE IF interval >= left THEN Stop(AbandonedLease(handle, TRUE))
       ELSE at' = "sleep" /\ UNCHANGED handle
    /\ UNCHANGED <<job, named, interval, given, record, left, asked, waits>>

\* _wait_step: may the lease take one more poll?
WaitStep ==
    /\ at = "step"
    /\ IF Terminal(handle) \/ handle.abandoned THEN Stop(handle)
       ELSE IF handle.polls >= MaxPolls THEN Stop(AbandonedLease(handle, FALSE))
       ELSE IF interval >= left THEN Stop(AbandonedLease(handle, TRUE))
       ELSE at' = "sleep" /\ UNCHANGED handle
    /\ UNCHANGED <<job, named, interval, given, record, left, asked, waits>>

\* The sleep takes its interval, or longer.
Sleep ==
    /\ at = "sleep"
    /\ \E d \in 0..MaxDelay : Spend(interval + d)
    /\ at' = "poll"
    /\ UNCHANGED <<job, named, interval, given, handle, record, asked, waits>>

\* The monitor is asked before the poll is sent.
Poll ==
    /\ at = "poll"
    /\ IF left = 0
       THEN Stop(AbandonedLease(handle, TRUE)) /\ UNCHANGED asked
       ELSE /\ at' = "flight" /\ UNCHANGED handle
            /\ asked' = IF asked > MaxPolls THEN asked ELSE asked + 1
    /\ UNCHANGED <<job, named, interval, given, record, left, waits>>

\* The answer is back.  After the deadline (the monitor's, or asyncio.timeout's)
\* it is not looked at.
PollAnswered ==
    /\ at = "flight"
    /\ \E d \in 0..MaxDelay :
          /\ Spend(d)
          /\ IF d >= left
             THEN Stop(AbandonedLease(handle, TRUE)) /\ UNCHANGED record
             ELSE at' = "step" /\ handle' = Observed(handle, Remote) /\ record' = Remote
    /\ UNCHANGED <<job, named, interval, given, asked, waits>>

\* The poll fails for another reason, or the wait is interrupted: the caller is
\* left with the handle it had.
WaitRaises ==
    /\ at \in {"sleep", "flight"}
    /\ at' = "raised" /\ handle' = given
    /\ UNCHANGED <<job, named, interval, given, record, left, asked, waits>>

\* The deployment works on the job, or does not.
JobAdvances ==
    /\ \/ job = "pending" /\ job' = "started"
       \/ job = "started" /\ job' = "done"
    /\ UNCHANGED <<named, interval, at, given, handle, record, left, asked, waits>>

WaitProgress == WaitStep \/ Sleep \/ Poll \/ PollAnswered

WaitNext == Wait \/ WaitProgress \/ WaitRaises \/ JobAdvances

-----------------------------------------------------------------------------
(* Properties                                                               *)

WaitTypeOK ==
    /\ job \in Statuses /\ named \in {"current", "previous", "none"} /\ interval \in Intervals
    /\ at \in {"idle", "step", "sleep", "poll", "flight", "returned", "raised"}
    /\ given \in Handles /\ handle \in Handles /\ record \in Statuses \cup {"none"}
    /\ left \in 0..Budget /\ asked \in 0..(MaxPolls + 1) /\ waits \in 0..MaxWaits

\* A result never lets outstanding work go unnoticed: it is terminal only if the
\* job it names has ended, abandoned otherwise, and its record is the one its status came
\* from.  Why it was abandoned can be told: exhausted means that the time left did not
\* cover another interval while polls were left, not exhausted that the poll ceiling was
\* reached, also if a later wait returns the handle again.
WaitReportsTruth ==
    /\ WaitTypeOK
    /\ at = "returned" =>
         /\ Terminal(handle) => Remote = "done"
         /\ handle.abandoned # Terminal(handle)
         /\ handle.exhausted => handle.abandoned
         /\ handle.abandoned => (handle.exhausted <=> handle.polls < MaxPolls)
         /\ handle.exhausted /\ ~given.abandoned => left <= interval
         /\ record # "none" => record = handle.status

\* A lease is finite over all its waits: the polls of a wait and those its
\* handle had taken before never exceed the ceiling, and an abandoned or ended
\* handle "never polls again" (models/jobs.py).
LeaseIsHonoured ==
    /\ given.polls + asked <= MaxPolls
    /\ given.abandoned \/ Terminal(given) => asked = 0

\* Every wait comes to an end, whatever the job does: also with a poll interval of 0.
WaitEnds == at = "step" ~> at \in {"returned", "raised"}
=============================================================================
