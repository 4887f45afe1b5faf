------------------------ MODULE CircuitBreakerProofs ------------------------
(***************************************************************************)
(* Proofs about CircuitBreaker, for any number of callers, any mixture of  *)
(* styles and every threshold and attempt limit.  TypeOK, TrialHasOwner    *)
(* and UnsafeSentOnce are not inductive by themselves: what a dispatch may *)
(* have sent and recorded depends on where it is (CallerOK).               *)
(***************************************************************************)
EXTENDS CircuitBreaker, TLAPS

\* What a dispatch has sent and recorded at each place.
CallerOK(c) ==
    /\ pc[c] = "idle" => attempt[c] = 0 /\ ~recorded[c]
    /\ pc[c] = "send" => attempt[c] < MaxAttempts /\ (~safe[c] => attempt[c] = 0)
    /\ pc[c] = "retry" => safe[c] /\ attempt[c] < MaxAttempts
    /\ ~safe[c] => attempt[c] <= 1

\* The inductive invariant.
BreakerInv == TypeOK /\ (\A c \in Callers : CallerOK(c)) /\ TrialHasOwner

\* It holds before the first dispatch.
LEMMA BreakerInit == Init => BreakerInv
<1> SUFFICES ASSUME Init PROVE BreakerInv
  OBVIOUS
<1>1. TypeOK
  <2>1. failures \in 0..FailureThreshold /\ faults \in 0..MaxFaults /\ attempt \in [Callers -> 0..MaxAttempts]
    BY CircuitBreakerAssumption DEF Init
  <2>2. cooling \in BOOLEAN /\ trial \in BOOLEAN /\ healthy \in BOOLEAN
    BY DEF Init
  <2> QED
    BY <2>1, <2>2 DEF Init, TypeOK
<1>2. \A c \in Callers : CallerOK(c)
  BY CircuitBreakerAssumption DEF Init, CallerOK
<1>3. TrialHasOwner
  BY DEF Init, TrialHasOwner
<1> QED
  BY <1>1, <1>2, <1>3 DEF BreakerInv

\* The types of the circuit's own variables, and of the dispatches'.
CircuitTypeOK == failures \in 0..FailureThreshold /\ cooling \in BOOLEAN /\ trial \in BOOLEAN
CallersTypeOK ==
    /\ pc \in [Callers -> {"idle", "send", "flight", "retry", "stream"}]
    /\ safe \in [Callers -> BOOLEAN]
    /\ attempt \in [Callers -> 0..MaxAttempts]
    /\ recorded \in [Callers -> BOOLEAN]
    /\ probing \in [Callers -> BOOLEAN]

\* What the registry's methods leave behind has the right type.
LEMMA CircuitTypes ==
    ASSUME TypeOK,
           \/ RecordSuccess \/ RecordTransportFailure \/ ReleaseTrial
           \/ (\E c \in Callers : Admit(c)) \/ UNCHANGED circuit
    PROVE  CircuitTypeOK'
<1>0. failures \in 0..FailureThreshold /\ cooling \in BOOLEAN /\ trial \in BOOLEAN
  BY DEF TypeOK
<1>1. failures' \in 0..FailureThreshold
  <2>1. CASE RecordTransportFailure
    BY <1>0, <2>1, CircuitBreakerAssumption DEF RecordTransportFailure, Open
  <2>2. CASE RecordSuccess
    BY <2>2, CircuitBreakerAssumption DEF RecordSuccess
  <2> QED
    BY <1>0, <2>1, <2>2 DEF ReleaseTrial, Admit, circuit
<1>2. cooling' \in BOOLEAN
  <2>1. CASE RecordTransportFailure
    <3>1. (failures' >= FailureThreshold) \in BOOLEAN
      OBVIOUS
    <3> QED
      BY <2>1, <3>1, Zenon DEF RecordTransportFailure
  <2> QED
    BY <1>0, <2>1, Zenon DEF RecordSuccess, ReleaseTrial, Admit, circuit
<1>3. trial' \in BOOLEAN
  BY <1>0, Zenon DEF RecordSuccess, RecordTransportFailure, ReleaseTrial, Admit, circuit
<1> QED
  BY <1>1, <1>2, <1>3 DEF CircuitTypeOK

\* Returning resets the dispatch.
LEMMA ReturnTypes == ASSUME TypeOK, NEW c \in Callers, Return(c) PROVE CallersTypeOK'
BY CircuitBreakerAssumption DEF TypeOK, Return, CallersTypeOK

\* An admission marks its caller as a trial or not.
LEMMA AdmitTypes ==
    ASSUME TypeOK, NEW c \in Callers, Admit(c)
    PROVE  probing' \in [Callers -> BOOLEAN]
<1>1. probing \in [Callers -> BOOLEAN] /\ Open \in BOOLEAN
  BY DEF TypeOK, Open
<1> QED
  BY <1>1, Zenon DEF Admit

\* Every step of every action preserves the types.
LEMMA BreakerTypes == BreakerInv /\ [Next]_vars => TypeOK'
<1> SUFFICES ASSUME BreakerInv, [Next]_vars PROVE TypeOK'
  OBVIOUS
<1> USE CircuitBreakerAssumption
<1>0. TypeOK
  BY DEF BreakerInv
<1>a. ASSUME CircuitTypeOK', CallersTypeOK', healthy' \in BOOLEAN, faults' \in 0..MaxFaults
      PROVE  TypeOK'
  BY <1>a DEF TypeOK, CircuitTypeOK, CallersTypeOK
<1>b. ASSUME UNCHANGED <<healthy, faults>> PROVE healthy' \in BOOLEAN /\ faults' \in 0..MaxFaults
  BY <1>0, <1>b DEF TypeOK
<1>1. ASSUME NEW c \in Callers, NEW s \in BOOLEAN, Dispatch(c, s) PROVE TypeOK'
  <2>1. CircuitTypeOK' /\ probing' \in [Callers -> BOOLEAN]
    BY <1>0, <1>1, CircuitTypes, AdmitTypes DEF Dispatch
  <2>2. safe' \in [Callers -> BOOLEAN]
    BY <1>0, <1>1, Zenon DEF Dispatch, TypeOK
  <2>3. CallersTypeOK'
    BY <1>0, <1>1, <2>1, <2>2 DEF Dispatch, TypeOK, CallersTypeOK
  <2> QED
    BY <1>a, <1>b, <1>1, <2>1, <2>3 DEF Dispatch
<1>2. ASSUME NEW c \in Callers, Send(c) PROVE TypeOK'
  <2>1. attempt[c] + 1 \in 0..MaxAttempts
    BY <1>0, <1>2 DEF BreakerInv, CallerOK, TypeOK, Send
  <2>2. CallersTypeOK'
    BY <1>0, <1>2, <2>1 DEF Send, TypeOK, CallersTypeOK
  <2>3. CircuitTypeOK'
    BY <1>0, <1>2, CircuitTypes DEF Send
  <2> QED
    BY <1>a, <1>b, <1>2, <2>2, <2>3 DEF Send
<1>3. ASSUME NEW c \in Callers, NEW r \in Responses, Settle(c, r) PROVE TypeOK'
  <2>1. CircuitTypeOK'
    BY <1>0, <1>3, CircuitTypes DEF Settle, RecordResponse
  <2>2. CASE Return(c)
    BY <1>0, <1>3, <1>a, <1>b, <2>1, <2>2, ReturnTypes DEF Settle
  <2>3. CASE ~Return(c)
    <3>1. CallersTypeOK'
      BY <1>0, <1>3, <2>3 DEF Settle, TypeOK, CallersTypeOK
    <3> QED
      BY <1>3, <1>a, <1>b, <2>1, <3>1 DEF Settle
  <2> QED
    BY <2>2, <2>3
<1>4. ASSUME NEW c \in Callers, Retry(c) PROVE TypeOK'
  <2>1. CircuitTypeOK'
    BY <1>0, <1>4, CircuitTypes DEF Retry
  <2>2. probing' \in [Callers -> BOOLEAN]
    BY <1>0, <1>4, AdmitTypes DEF Retry, TypeOK
  <2>3. CallersTypeOK'
    BY <1>0, <1>4, <2>2 DEF Retry, TypeOK, CallersTypeOK
  <2> QED
    BY <1>a, <1>b, <1>4, <2>1, <2>3 DEF Retry
<1>5. ASSUME NEW c \in Callers, RetryRejected(c) PROVE TypeOK'
  BY <1>0, <1>5, <1>a, <1>b, CircuitTypes, ReturnTypes DEF RetryRejected
<1>6. ASSUME NEW c \in Callers, Abandon(c) PROVE TypeOK'
  <2>1. CircuitTypeOK' /\ CallersTypeOK'
    BY <1>0, <1>6, CircuitTypes, ReturnTypes DEF Abandon
  <2>2. healthy' \in BOOLEAN /\ faults' \in 0..MaxFaults
    BY <1>0, <1>6 DEF Abandon, TypeOK
  <2> QED
    BY <1>a, <2>1, <2>2
<1>7. ASSUME NEW c \in Callers, OpenStream(c) PROVE TypeOK'
  BY <1>0, <1>7 DEF TypeOK, OpenStream, ReleaseTrial
<1>8. ASSUME NEW c \in Callers, EndStream(c) PROVE TypeOK'
  BY <1>0, <1>8, <1>a, <1>b, CircuitTypes, ReturnTypes DEF EndStream
<1>9. CASE Reset
  <2>1. CallersTypeOK'
    BY <1>0, <1>9 DEF Reset, TypeOK, CallersTypeOK
  <2> QED
    BY <1>0, <1>9, <1>a, <1>b, <2>1, CircuitTypes DEF Reset
<1>10. CASE CooldownPasses \/ OriginChanges
  BY <1>0, <1>10 DEF TypeOK, CooldownPasses, OriginChanges, circuit
<1>11. CASE UNCHANGED vars
  BY <1>0, <1>11 DEF TypeOK, vars
<1> QED
  BY <1>1, <1>2, <1>3, <1>4, <1>5, <1>6, <1>7, <1>8, <1>9, <1>10, <1>11 DEF Next, Step

\* Every step keeps what a dispatch has sent in line with where it is.
LEMMA BreakerCallers == BreakerInv /\ [Next]_vars => \A c \in Callers : CallerOK(c)'
<1> SUFFICES ASSUME BreakerInv, [Next]_vars, NEW d \in Callers PROVE CallerOK(d)'
  OBVIOUS
<1> USE CircuitBreakerAssumption
<1>0. TypeOK /\ CallerOK(d)
  BY DEF BreakerInv
<1>1. ASSUME NEW c \in Callers, NEW s \in BOOLEAN, Dispatch(c, s) PROVE CallerOK(d)'
  BY <1>0, <1>1 DEF TypeOK, CallerOK, Dispatch
<1>2. ASSUME NEW c \in Callers, Send(c) PROVE CallerOK(d)'
  BY <1>0, <1>2 DEF TypeOK, CallerOK, Send
<1>3. ASSUME NEW c \in Callers, Return(c) PROVE CallerOK(d)'
  BY <1>0, <1>3 DEF TypeOK, CallerOK, Return
<1>4. ASSUME NEW c \in Callers, NEW r \in Responses, Settle(c, r) PROVE CallerOK(d)'
  <2>1. CASE Return(c)
    BY <1>3, <2>1
  <2>2. CASE ~Return(c)
    BY <1>0, <1>4, <2>2 DEF TypeOK, CallerOK, Settle, Retryable
  <2> QED
    BY <2>1, <2>2
<1>5. ASSUME NEW c \in Callers, Retry(c) PROVE CallerOK(d)'
  BY <1>0, <1>5 DEF TypeOK, CallerOK, Retry
<1>6. ASSUME NEW c \in Callers, OpenStream(c) PROVE CallerOK(d)'
  BY <1>0, <1>6 DEF TypeOK, CallerOK, OpenStream
<1>7. ASSUME NEW c \in Callers, RetryRejected(c) \/ Abandon(c) \/ EndStream(c) PROVE CallerOK(d)'
  BY <1>3, <1>7 DEF RetryRejected, Abandon, EndStream
<1>8. CASE Reset \/ CooldownPasses \/ OriginChanges \/ UNCHANGED vars
  BY <1>0, <1>8 DEF CallerOK, Reset, CooldownPasses, OriginChanges, vars
<1> QED
  BY <1>1, <1>2, <1>4, <1>5, <1>6, <1>7, <1>8 DEF Next, Step

\* Every step leaves the trial marker with a dispatch that will take it away.
LEMMA BreakerTrial == BreakerInv /\ [Next]_vars => TrialHasOwner'
<1> SUFFICES ASSUME BreakerInv, [Next]_vars, trial'
             PROVE  Open' /\ \E d \in Callers : probing'[d] /\ ~recorded'[d] /\ pc'[d] \in {"send", "flight"}
  BY DEF TrialHasOwner
<1> USE CircuitBreakerAssumption
<1>0. TypeOK /\ (\A c \in Callers : CallerOK(c)) /\ TrialHasOwner
  BY DEF BreakerInv
<1> DEFINE Owned == Open' /\ \E d \in Callers : probing'[d] /\ ~recorded'[d] /\ pc'[d] \in {"send", "flight"}
\* An admission finds no marker: it either leaves none or makes its caller the owner.
<1>1. ASSUME NEW c \in Callers, Admit(c), ~recorded'[c], pc'[c] = "send" PROVE Owned
  <2>1. ~trial /\ Open
    BY <1>0, <1>1 DEF Admit, Admissible, TrialHasOwner
  <2>2. Open'
    BY <1>1, <2>1 DEF Admit, Open
  <2>3. probing'[c]
    BY <1>0, <1>1, <2>1 DEF Admit, TypeOK
  <2> QED
    BY <1>1, <2>2, <2>3
\* A caller that is not the owner leaves the marker with its owner.
<1>2. ASSUME NEW c \in Callers, UNCHANGED circuit,
             \/ recorded[c]
             \/ pc[c] \notin {"send", "flight"},
             \A d \in Callers \ {c} : /\ probing'[d] = probing[d]
                                      /\ recorded'[d] = recorded[d]
                                      /\ pc'[d] = pc[d]
      PROVE Owned
  <2>1. trial /\ Open'
    BY <1>0, <1>2 DEF circuit, Open, TrialHasOwner
  <2>2. PICK d \in Callers : probing[d] /\ ~recorded[d] /\ pc[d] \in {"send", "flight"}
    BY <1>0, <2>1 DEF TrialHasOwner
  <2>3. d # c
    BY <1>2, <2>2
  <2> QED
    BY <1>2, <2>1, <2>2, <2>3
<1>3. ASSUME NEW c \in Callers, Return(c), NEW d \in Callers \ {c}
      PROVE  probing'[d] = probing[d] /\ recorded'[d] = recorded[d] /\ pc'[d] = pc[d]
  BY <1>0, <1>3 DEF Return, TypeOK
<1>4. ASSUME NEW c \in Callers, NEW s \in BOOLEAN, Dispatch(c, s) PROVE Owned
  BY <1>0, <1>1, <1>4 DEF Dispatch, TypeOK, CallerOK
<1>5. ASSUME NEW c \in Callers, Send(c) PROVE Owned
  <2>1. trial /\ Open'
    BY <1>0, <1>5 DEF Send, circuit, Open, TrialHasOwner
  <2>2. PICK d \in Callers : probing[d] /\ ~recorded[d] /\ pc[d] \in {"send", "flight"}
    BY <1>0, <2>1 DEF TrialHasOwner
  <2>3. ~recorded'[d] /\ pc'[d] \in {"send", "flight"}
    BY <1>0, <1>5, <2>2 DEF Send, TypeOK
  <2> QED
    BY <1>5, <2>1, <2>2, <2>3 DEF Send
<1>6. ASSUME NEW c \in Callers, NEW r \in Responses, Settle(c, r) PROVE FALSE
  BY <1>6 DEF Settle, RecordResponse, RecordSuccess, RecordTransportFailure, ReleaseTrial
<1>7. ASSUME NEW c \in Callers, Retry(c) PROVE Owned
  <2>1. CASE Style[c] = "each"
    BY <1>0, <1>1, <1>7, <2>1 DEF Retry, TypeOK
  <2>2. CASE Style[c] # "each"
    BY <1>0, <1>2, <1>7, <2>2 DEF Retry, TypeOK
  <2> QED
    BY <2>1, <2>2
<1>8. ASSUME NEW c \in Callers, RetryRejected(c) PROVE Owned
  BY <1>2, <1>3, <1>8 DEF RetryRejected
<1>9. ASSUME NEW c \in Callers, Abandon(c) PROVE Owned
  <2>1. recorded[c] /\ UNCHANGED circuit /\ Return(c)
    BY <1>9 DEF Abandon, ReleaseTrial
  <2> QED
    BY <1>2, <1>3, <2>1
<1>10. ASSUME NEW c \in Callers, OpenStream(c) PROVE FALSE
  BY <1>10 DEF OpenStream, ReleaseTrial
<1>11. ASSUME NEW c \in Callers, EndStream(c) PROVE Owned
  <2>1. UNCHANGED circuit /\ Return(c) /\ pc[c] = "stream"
    BY <1>11 DEF EndStream, RecordSuccess, RecordTransportFailure
  <2> QED
    BY <1>2, <1>3, <2>1
<1>12. CASE Reset
  BY <1>12 DEF Reset, RecordSuccess
<1>13. CASE CooldownPasses \/ OriginChanges \/ UNCHANGED vars
  BY <1>0, <1>13 DEF TrialHasOwner, Open, CooldownPasses, OriginChanges, circuit, vars
<1> QED
  BY <1>4, <1>5, <1>6, <1>7, <1>8, <1>9, <1>10, <1>11, <1>12, <1>13 DEF Next, Step

\* BreakerInv holds in every reachable state: registry and dispatches agree.
THEOREM BreakerStructure == Spec => []BreakerInv
<1>1. Init => BreakerInv
  BY BreakerInit
<1>2. BreakerInv /\ [Next]_vars => BreakerInv'
  BY BreakerTypes, BreakerCallers, BreakerTrial DEF BreakerInv
<1> QED
  BY <1>1, <1>2, PTL DEF Spec

\* No dispatch, however it ends, leaks the half-open trial marker (BreakerRegistry
\* admit, record_* and release_trial with the clients' guards), and counters and
\* attempts stay in their bounds.
THEOREM TrialNeverLeaks == Spec => [](TypeOK /\ TrialHasOwner)
<1>1. BreakerInv => TypeOK /\ TrialHasOwner
  BY DEF BreakerInv
<1> QED
  BY <1>1, BreakerStructure, PTL

\* RetryLoop never sends a request again that is not safe to repeat.
THEOREM UnsafeNeverRepeated == Spec => []UnsafeSentOnce
<1>1. BreakerInv => UnsafeSentOnce
  BY DEF BreakerInv, CallerOK, UnsafeSentOnce
<1> QED
  BY <1>1, BreakerStructure, PTL
=============================================================================
