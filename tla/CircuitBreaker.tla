--------------------------- MODULE CircuitBreaker ---------------------------
(***************************************************************************)
(* BreakerRegistry and RetryLoop (src/src/datasluice/runtime/resilience.py) *)
(* as the catalog clients use them, for ONE CircuitKey: several dispatches *)
(* share the circuit of an origin, each registry call is atomic (RLock),   *)
(* and everything between two calls interleaves.                           *)
(*                                                                         *)
(* The clients use the registry in three ways (Style):                     *)
(*   "once"    the dispatch is admitted once and then retries freely       *)
(*             (runtime/clients.py, uData requests);                       *)
(*   "each"    every attempt of the retry loop is admitted (CKAN);         *)
(*   "stream"  one attempt, whose verdict on a 2xx response is given when  *)
(*             the body has been consumed (uData streams).                 *)
(* A rejected call changes nothing but the event log, so it is no step.    *)
(***************************************************************************)
EXTENDS Integers, FiniteSets

CONSTANTS Callers,            \* dispatches that can be under way at once
          Style,              \* how each of them uses the registry
          FailureThreshold,
          MaxAttempts,
          MaxFaults           \* bound on abandoned dispatches

ASSUME CircuitBreakerAssumption ==
    /\ Style \in [Callers -> {"once", "each", "stream"}]
    /\ FailureThreshold \in Nat \ {0}
    /\ MaxAttempts \in Nat \ {0}
    /\ MaxFaults \in Nat

VARIABLES failures,   \* failure_count; FailureThreshold stands for every larger count
          cooling,    \* less than cooldown seconds have passed since opened_at
          trial,      \* key in _trial_in_flight
          pc,         \* where each dispatch is
          safe,       \* its IdempotencyPolicy allows a retry
          attempt,    \* attempts sent
          recorded,   \* the current attempt's verdict is recorded
          probing,    \* it was admitted as a half-open trial and has no verdict (observation only)
          healthy,    \* the origin answers every request with success
          faults

circuit == <<failures, cooling, trial>>
vars == <<failures, cooling, trial, pc, safe, attempt, recorded, probing, healthy, faults>>

\* CircuitState.open
Open == failures >= FailureThreshold

Init ==
    /\ failures = 0 /\ cooling = FALSE /\ trial = FALSE
    /\ pc = [c \in Callers |-> "idle"]
    /\ safe = [c \in Callers |-> FALSE]
    /\ attempt = [c \in Callers |-> 0]
    /\ recorded = [c \in Callers |-> FALSE]
    /\ probing = [c \in Callers |-> FALSE]
    /\ healthy \in BOOLEAN
    /\ faults = 0

-----------------------------------------------------------------------------
(* BreakerRegistry                                                          *)

\* admit: a closed circuit admits all, an open one a trial after the cooldown.
Admissible == ~Open \/ (~cooling /\ ~trial)

Admit(c) ==
    /\ Admissible
    /\ trial' = (trial \/ Open)
    /\ probing' = [probing EXCEPT ![c] = Open]
    /\ UNCHANGED <<failures, cooling>>

RecordSuccess == failures' = 0 /\ cooling' = FALSE /\ trial' = FALSE

\* A failure of an open circuit starts its cooldown anew.
RecordTransportFailure ==
    /\ failures' = IF Open THEN failures ELSE failures + 1
    /\ cooling' = (failures' >= FailureThreshold)
    /\ trial' = FALSE

\* release_trial, and record_response for a 4xx: no verdict on the origin.
ReleaseTrial == trial' = FALSE /\ UNCHANGED <<failures, cooling>>

\* Statuses by what record_response and RetryDecision make of them: 2xx/3xx; 4xx;
\* 408, 425 and 429; no response, 500, 502, 503 and 504; any other 5xx.
Responses == {"success", "client", "throttled", "failure", "fatal"}

RecordResponse(r) ==
    \/ r = "success" /\ RecordSuccess
    \/ r \in {"failure", "fatal"} /\ RecordTransportFailure
    \/ r \in {"client", "throttled"} /\ ReleaseTrial

\* Explicit operational recovery.
Reset ==
    /\ RecordSuccess
    /\ UNCHANGED <<pc, safe, attempt, recorded, probing, healthy, faults>>

-----------------------------------------------------------------------------
(* A dispatch                                                               *)

Return(c) ==
    /\ pc' = [pc EXCEPT ![c] = "idle"]
    /\ safe' = [safe EXCEPT ![c] = FALSE]
    /\ attempt' = [attempt EXCEPT ![c] = 0]
    /\ recorded' = [recorded EXCEPT ![c] = FALSE]
    /\ probing' = [probing EXCEPT ![c] = FALSE]

Dispatch(c, s) ==
    /\ pc[c] = "idle"
    /\ Style[c] = "stream" => ~s
    /\ Admit(c)
    /\ pc' = [pc EXCEPT ![c] = "send"]
    /\ safe' = [safe EXCEPT ![c] = s]
    /\ UNCHANGED <<attempt, recorded, healthy, faults>>

Send(c) ==
    /\ pc[c] = "send"
    /\ pc' = [pc EXCEPT ![c] = "flight"]
    /\ attempt' = [attempt EXCEPT ![c] = @ + 1]
    /\ recorded' = [recorded EXCEPT ![c] = FALSE]
    /\ UNCHANGED <<circuit, safe, probing, healthy, faults>>

\* Mutant of Retryable: the idempotency policy is not asked.
RetryableAlways(c, r) == attempt[c] < MaxAttempts /\ r \in {"throttled", "failure"}

\* RetryDecision.for_response
Retryable(c, r) == safe[c] /\ attempt[c] < MaxAttempts /\ r \in {"throttled", "failure"}

\* The attempt ends: its verdict is recorded, then the loop retries (unless the
\* delay does not fit the budget) or returns.
Settle(c, r) ==
    /\ pc[c] = "flight"
    /\ healthy => r = "success"
    /\ RecordResponse(r)
    /\ \/ /\ Retryable(c, r)
          /\ pc' = [pc EXCEPT ![c] = "retry"]
          /\ recorded' = [recorded EXCEPT ![c] = TRUE]
          /\ probing' = [probing EXCEPT ![c] = FALSE]
          /\ UNCHANGED <<safe, attempt>>
       \/ Return(c)
    /\ UNCHANGED <<healthy, faults>>

\* The retry delay is over; only "each" asks the registry again.
Retry(c) ==
    /\ pc[c] = "retry"
    /\ IF Style[c] = "each"
       THEN /\ Admit(c)
            /\ recorded' = [recorded EXCEPT ![c] = FALSE]
       ELSE UNCHANGED <<circuit, probing, recorded>>
    /\ pc' = [pc EXCEPT ![c] = "send"]
    /\ UNCHANGED <<safe, attempt, healthy, faults>>

RetryRejected(c) ==
    /\ pc[c] = "retry" /\ Style[c] = "each" /\ ~Admissible
    /\ Return(c)
    /\ UNCHANGED <<circuit, healthy, faults>>

\* Mutant of Abandon: the guard has no finally clause.
AbandonKeepsTrial(c) ==
    /\ pc[c] \in {"retry", "send", "flight"} /\ faults < MaxFaults
    /\ faults' = faults + 1
    /\ Return(c)
    /\ UNCHANGED <<circuit, healthy>>

\* The dispatch is cancelled, or its deadline expires: _release_abandoned_trial.
Abandon(c) ==
    /\ pc[c] \in {"retry", "send", "flight"} /\ faults < MaxFaults
    /\ faults' = faults + 1
    /\ IF recorded[c] THEN UNCHANGED circuit ELSE ReleaseTrial
    /\ Return(c)
    /\ UNCHANGED healthy

\* A stream's 2xx header: no verdict yet, and the trial is released.
OpenStream(c) ==
    /\ pc[c] = "flight" /\ Style[c] = "stream"
    /\ ReleaseTrial
    /\ pc' = [pc EXCEPT ![c] = "stream"]
    /\ probing' = [probing EXCEPT ![c] = FALSE]
    /\ UNCHANGED <<safe, attempt, recorded, healthy, faults>>

\* _StreamGuard: settle_success, settle_failure with a TransportError, or with
\* anything else (closed early, deadline), which says nothing of the origin.
EndStream(c) ==
    /\ pc[c] = "stream"
    /\ RecordSuccess \/ (~healthy /\ RecordTransportFailure) \/ UNCHANGED circuit
    /\ Return(c)
    /\ UNCHANGED <<healthy, faults>>

-----------------------------------------------------------------------------
(* The environment                                                          *)

CooldownPasses ==
    /\ cooling
    /\ cooling' = FALSE
    /\ UNCHANGED <<failures, trial, pc, safe, attempt, recorded, probing, healthy, faults>>

OriginChanges ==
    /\ healthy' = ~healthy
    /\ UNCHANGED <<circuit, pc, safe, attempt, recorded, probing, faults>>

-----------------------------------------------------------------------------

Step(c) == \/ Send(c) \/ (\E r \in Responses : Settle(c, r))
           \/ Retry(c) \/ RetryRejected(c) \/ OpenStream(c) \/ EndStream(c)

Next == \/ \E c \in Callers : \/ (\E s \in BOOLEAN : Dispatch(c, s))
                              \/ Step(c) \/ Abandon(c)
        \/ Reset \/ CooldownPasses \/ OriginChanges

Spec == Init /\ [][Next]_vars

\* Requests end (transport timeouts), time passes, and the callers that do not
\* stream keep asking at moments of their own: strong fairness, because a stream
\* that is opened and closed over and over takes the trial in between.
Fairness == /\ \A c \in Callers : /\ WF_vars(Step(c))
                                  /\ Style[c] # "stream" => SF_vars(\E s \in BOOLEAN : Dispatch(c, s))
            /\ WF_vars(CooldownPasses)
FairSpec == Spec /\ Fairness
-----------------------------------------------------------------------------
(* Properties                                                               *)

\* Every variable has its type; no dispatch sends more than MaxAttempts requests.
TypeOK ==
    /\ failures \in 0..FailureThreshold
    /\ cooling \in BOOLEAN /\ trial \in BOOLEAN
    /\ pc \in [Callers -> {"idle", "send", "flight", "retry", "stream"}]
    /\ safe \in [Callers -> BOOLEAN]
    /\ attempt \in [Callers -> 0..MaxAttempts]
    /\ recorded \in [Callers -> BOOLEAN]
    /\ probing \in [Callers -> BOOLEAN]
    /\ healthy \in BOOLEAN
    /\ faults \in 0..MaxFaults

\* The trial marker of an open circuit always belongs to a dispatch that is still
\* under way and will take it away, whatever ends that dispatch: a leaked marker
\* would keep the circuit open for ever.
TrialHasOwner ==
    trial => Open /\ \E c \in Callers : probing[c] /\ ~recorded[c] /\ pc[c] \in {"send", "flight"}

\* A request whose idempotency policy forbids a repeat is sent once per dispatch,
\* over all retries, re-admissions and abandoned attempts.
UnsafeSentOnce ==
    \A c \in Callers : ~safe[c] => attempt[c] <= 1 /\ (pc[c] = "send" => attempt[c] = 0)

\* Once the origin answers again, the circuit closes and stays closed, whatever
\* late verdicts, abandoned trials and open streams the outage left behind.
Recovers == <>[]healthy => <>[]~Open
=============================================================================
