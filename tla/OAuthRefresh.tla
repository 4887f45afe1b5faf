---------------------------- MODULE OAuthRefresh ----------------------------
(***************************************************************************)
(* RefreshingCredentialProvider (src/src/datasluice/runtime/oauth.py): one *)
(* provider shared by calls on several threads, some of which run an event *)
(* loop.  resolve holds a re-entrant thread lock while it refreshes;       *)
(* resolve_async holds the same lock ACROSS its await, inside an asyncio   *)
(* lock that belongs to one loop and is replaced when another loop calls.  *)
(* Between two awaits a call runs alone on its thread, and a thread that   *)
(* waits for the re-entrant lock runs none of its loop's calls.            *)
(*                                                                         *)
(* The authorization server is external: it accepts only the refresh token *)
(* it issued last, and may issue a new one with every access token.        *)
(***************************************************************************)
EXTENDS Integers, FiniteSets

CONSTANTS Calls,             \* calls that can be under way at once
          Thread,            \* the thread (event loop) each of them runs on
          FailureThreshold,
          MaxToken,          \* bound on the refresh tokens issued
          MaxFaults,         \* bound on cancelled, late and failed requests
          None

Threads == {Thread[c] : c \in Calls}
Tokens  == 0..MaxToken
Locks   == 0..Cardinality(Calls)      \* enough for every asyncio.Lock still referenced

ASSUME OAuthRefreshAssumption ==
    /\ IsFiniteSet(Calls)
    /\ FailureThreshold \in Nat \ {0}
    /\ MaxToken \in Nat /\ MaxFaults \in Nat
    /\ None \notin Threads \cup Tokens \cup Locks

VARIABLES transport,    \* the kind of transport the provider was built with
          token,        \* _credential.refresh_token
          fresh,        \* the access token is not near expiry
          issued,       \* the refresh token the server accepts (external)
          lockLoop,     \* _async_lock_loop, None at first
          lock,         \* _async_lock
          owner, depth, \* _sync_lock: its thread and how often that entered it
          failures, cooling, trials,   \* BreakerRegistry: one circuit per refresh token
          pc, style,    \* where each call is; resolve ("sync") or resolve_async ("async")
          mine,         \* the asyncio lock a call holds or waits for
          presented,    \* the refresh token of its request
          answer,       \* the server's answer on its way back
          displaced,    \* a lock that was in use has been replaced (observation only)
          spoiled,      \* a new refresh token was lost with its answer (observation only)
          stuck,        \* circuits whose trial was cancelled (observation only)
          faults

credential == <<token, fresh>>
locking    == <<lockLoop, lock, displaced>>
circuit    == <<failures, cooling, trials>>
vars == <<transport, token, fresh, issued, lockLoop, lock, owner, depth, failures, cooling, trials,
          pc, style, mine, presented, answer, displaced, spoiled, stuck, faults>>

NoAnswer  == [status |-> "none", refresh |-> None]
Rejected  == [status |-> "rejected", refresh |-> None]
Failed    == [status |-> "failed", refresh |-> None]
Granted(r)   == [status |-> "granted", refresh |-> r]
Malformed(r) == [status |-> "malformed", refresh |-> r]
Answers == {NoAnswer, Rejected, Failed}
           \cup {Granted(r) : r \in Tokens \cup {None}} \cup {Malformed(r) : r \in Tokens \cup {None}}

Init ==
    /\ transport \in {"sync", "async"}
    /\ token = 0 /\ issued = 0 /\ fresh \in BOOLEAN
    /\ lockLoop = None /\ lock = None
    /\ owner = None /\ depth = 0
    /\ failures = [k \in Tokens |-> 0]
    /\ cooling = {} /\ trials = {}
    /\ pc = [c \in Calls |-> "idle"]
    /\ style = [c \in Calls |-> "async"]
    /\ mine = [c \in Calls |-> None]
    /\ presented = [c \in Calls |-> None]
    /\ answer = [c \in Calls |-> NoAnswer]
    /\ displaced = FALSE /\ spoiled = FALSE /\ stuck = {}
    /\ faults = 0

-----------------------------------------------------------------------------
(* Threads and locks                                                        *)

InFlight == {c \in Calls : pc[c] \in {"flight", "answered"}}

\* Nothing else occupies the thread of c: no call waits there for the re-entrant
\* lock, and no synchronous request is under way.
Runs(c) ==
    \A d \in Calls \ {c} : Thread[d] = Thread[c] =>
        pc[d] # "enter" /\ ~(style[d] = "sync" /\ d \in InFlight)

Referenced == {mine[c] : c \in Calls} \cup {lock}
NewLock    == CHOOSE k \in Locks : k \notin Referenced
Held(k)    == \E c \in Calls : mine[c] = k

\* Mutant of AsyncLockFor: every call gets a lock of its own.
AsyncLockForEachCall(c) ==
    /\ lockLoop' = Thread[c]
    /\ lock' = NewLock
    /\ displaced' = displaced

\* _async_lock_for: the shared lock, or a new one when the loop is another.
AsyncLockFor(c) ==
    IF lockLoop = Thread[c]
    THEN UNCHANGED locking
    ELSE /\ lockLoop' = Thread[c]
         /\ lock' = NewLock
         /\ displaced' = (displaced \/ (lock # None /\ Held(lock)))

\* RLock: free, or owned by this thread already.
MayEnter(c) == owner \in {None, Thread[c]}

\* Mutant of Exit: the lock stays with its thread.
ExitKeepsOwner == depth' = depth - 1 /\ UNCHANGED owner

Exit == /\ depth' = depth - 1
        /\ owner' = IF depth = 1 THEN None ELSE owner

\* The call returns or raises: both locks are given back.
Return(c) ==
    /\ pc' = [pc EXCEPT ![c] = "idle"]
    /\ style' = [style EXCEPT ![c] = "async"]
    /\ mine' = [mine EXCEPT ![c] = None]
    /\ presented' = [presented EXCEPT ![c] = None]
    /\ answer' = [answer EXCEPT ![c] = NoAnswer]

-----------------------------------------------------------------------------
(* A call up to its request                                                 *)

\* resolve: straight to the re-entrant lock.
Resolve(c) ==
    /\ pc[c] = "idle" /\ Runs(c)
    /\ pc' = [pc EXCEPT ![c] = "enter"]
    /\ style' = [style EXCEPT ![c] = "sync"]
    /\ UNCHANGED <<transport, credential, issued, locking, owner, depth, circuit,
                   mine, presented, answer, spoiled, stuck, faults>>

\* resolve_async: a free asyncio lock is taken without yielding to the loop.
ResolveAsync(c) ==
    /\ pc[c] = "idle" /\ Runs(c)
    /\ AsyncLockFor(c)
    /\ mine' = [mine EXCEPT ![c] = lock']
    /\ pc' = [pc EXCEPT ![c] = IF Held(lock') THEN "wait" ELSE "enter"]
    /\ UNCHANGED <<transport, credential, issued, owner, depth, circuit,
                   style, presented, answer, spoiled, stuck, faults>>

AcquireAsync(c) ==
    /\ pc[c] = "wait" /\ Runs(c)
    /\ \A d \in Calls : mine[d] = mine[c] => pc[d] = "wait"
    /\ pc' = [pc EXCEPT ![c] = "enter"]
    /\ UNCHANGED <<transport, credential, issued, locking, owner, depth, circuit,
                   style, mine, presented, answer, spoiled, stuck, faults>>

\* BreakerRegistry.admit, for the circuit of the stored refresh token.
Open(k)       == failures[k] >= FailureThreshold
Admissible(k) == ~Open(k) \/ (k \notin cooling /\ k \notin trials)

\* Inside the lock without a request: the credential is good; or the transport is of
\* the other kind; or the circuit is open; or the deadline has expired already.
ResolveStored(c) ==
    /\ pc[c] = "enter" /\ MayEnter(c)
    /\ fresh \/ transport # style[c] \/ ~Admissible(token) \/ faults < MaxFaults
    /\ faults' = IF fresh \/ transport # style[c] \/ ~Admissible(token) THEN faults ELSE faults + 1
    /\ Return(c)
    /\ UNCHANGED <<transport, credential, issued, locking, owner, depth, circuit, spoiled, stuck>>

\* _refresh_admission and the request; both locks stay held.
Refresh(c) ==
    /\ pc[c] = "enter" /\ MayEnter(c)
    /\ ~fresh /\ transport = style[c] /\ Admissible(token)
    /\ owner' = Thread[c] /\ depth' = depth + 1
    /\ trials' = IF Open(token) THEN trials \cup {token} ELSE trials
    /\ presented' = [presented EXCEPT ![c] = token]
    /\ pc' = [pc EXCEPT ![c] = "flight"]
    /\ UNCHANGED <<transport, credential, issued, locking, failures, cooling,
                   style, mine, answer, spoiled, stuck, faults>>

-----------------------------------------------------------------------------
(* The token endpoint                                                       *)

\* The server takes its latest refresh token and may replace it; the answer comes
\* back whole or malformed.  The transport can fail before or after that.
Answer(c) ==
    /\ pc[c] = "flight"
    /\ pc' = [pc EXCEPT ![c] = "answered"]
    /\ \/ /\ presented[c] = issued
          /\ \E r \in {issued, None} \cup (IF issued < MaxToken THEN {issued + 1} ELSE {}) :
                /\ issued' = IF r = None THEN issued ELSE r
                /\ \/ answer' = [answer EXCEPT ![c] = Granted(r)] /\ faults' = faults
                   \/ /\ faults < MaxFaults /\ faults' = faults + 1
                      /\ answer' \in {[answer EXCEPT ![c] = a] : a \in {Malformed(r), Failed}}
                /\ spoiled' = (spoiled \/ (issued' # issued /\ answer'[c] # Granted(r)))
       \/ /\ presented[c] # issued
          /\ answer' = [answer EXCEPT ![c] = Rejected]
          /\ UNCHANGED <<issued, spoiled, faults>>
       \/ /\ faults < MaxFaults /\ faults' = faults + 1
          /\ answer' = [answer EXCEPT ![c] = Failed]
          /\ UNCHANGED <<issued, spoiled>>
    /\ UNCHANGED <<transport, credential, locking, owner, depth, circuit, style, mine, presented, stuck>>

\* An answer nobody will read: the token it carries, if it is new, is lost.
Discards(c) == spoiled' = (spoiled \/ answer[c].refresh \notin {None, token})

-----------------------------------------------------------------------------
(* Settling it                                                              *)

RecordSuccess(k) ==
    /\ failures' = [failures EXCEPT ![k] = 0]
    /\ cooling' = cooling \ {k}
    /\ trials' = trials \ {k}

RecordTransportFailure(k) ==
    /\ failures' = [failures EXCEPT ![k] = IF Open(k) THEN @ ELSE @ + 1]
    /\ cooling' = IF failures'[k] >= FailureThreshold THEN cooling \cup {k} ELSE cooling
    /\ trials' = trials \ {k}

ReleaseTrial(k) == trials' = trials \ {k} /\ UNCHANGED <<failures, cooling>>

\* Mutant of UpdatedToken: the stored token is kept whatever the response carries.
UpdatedTokenIgnored(c) == token

\* _updated_credential: a response without a refresh token keeps the stored one.
UpdatedToken(c) == IF answer[c].refresh = None THEN token ELSE answer[c].refresh

\* The answer in time: _settle_refresh, or _record_refresh_failure.  A new access
\* token may be as short-lived as the refresh skew.
Settle(c) ==
    /\ pc[c] = "answered" /\ Runs(c)
    /\ \/ /\ answer[c].status = "granted"
          /\ RecordSuccess(presented[c])
          /\ token' = UpdatedToken(c)
          /\ fresh' \in BOOLEAN
       \/ /\ answer[c].status = "malformed" /\ RecordSuccess(presented[c])
          /\ UNCHANGED credential
       \/ /\ answer[c].status = "rejected" /\ ReleaseTrial(presented[c])
          /\ UNCHANGED credential
       \/ /\ answer[c].status = "failed" /\ RecordTransportFailure(presented[c])
          /\ UNCHANGED credential
    /\ Exit /\ Return(c)
    /\ UNCHANGED <<transport, issued, locking, spoiled, stuck, faults>>

\* Mutant of Abandon: the trial marker stays.
AbandonKeepsTrial(c) ==
    /\ pc[c] = "answered" /\ Runs(c) /\ answer[c].status # "failed"
    /\ faults < MaxFaults /\ faults' = faults + 1
    /\ Discards(c) /\ Exit /\ Return(c)
    /\ UNCHANGED <<transport, credential, issued, locking, circuit, stuck>>

\* The deadline passed while the request was under way (_abandon_trial): its answer
\* is dropped, whatever it carries.
Abandon(c) ==
    /\ pc[c] = "answered" /\ Runs(c) /\ answer[c].status # "failed"
    /\ faults < MaxFaults /\ faults' = faults + 1
    /\ ReleaseTrial(presented[c])
    /\ Discards(c) /\ Exit /\ Return(c)
    /\ UNCHANGED <<transport, credential, issued, locking, stuck>>

\* A task is cancelled while it waits.  CancelledError is not an Exception, so
\* nothing is recorded and a trial marker stays.
CancelWaiting(c) ==
    /\ pc[c] = "wait" /\ Runs(c) /\ faults < MaxFaults
    /\ faults' = faults + 1
    /\ Return(c)
    /\ UNCHANGED <<transport, credential, issued, locking, owner, depth, circuit, spoiled, stuck>>

CancelRequest(c) ==
    /\ c \in InFlight /\ style[c] = "async" /\ Runs(c) /\ faults < MaxFaults
    /\ faults' = faults + 1
    /\ stuck' = stuck \cup ({presented[c]} \cap trials)
    /\ Discards(c) /\ Exit /\ Return(c)
    /\ UNCHANGED <<transport, credential, issued, locking, circuit>>

-----------------------------------------------------------------------------
(* Time                                                                     *)

Expire ==
    /\ fresh
    /\ fresh' = FALSE
    /\ UNCHANGED <<transport, token, issued, locking, owner, depth, circuit,
                   pc, style, mine, presented, answer, spoiled, stuck, faults>>

CoolDown(k) ==
    /\ k \in cooling
    /\ cooling' = cooling \ {k}
    /\ UNCHANGED <<transport, credential, issued, locking, owner, depth, failures, trials,
                   pc, style, mine, presented, answer, spoiled, stuck, faults>>

-----------------------------------------------------------------------------
Step(c) == \/ AcquireAsync(c) \/ ResolveStored(c) \/ Refresh(c)
           \/ Answer(c) \/ Settle(c) \/ Abandon(c)

Next == \/ \E c \in Calls : \/ Resolve(c) \/ ResolveAsync(c) \/ Step(c)
                            \/ CancelWaiting(c) \/ CancelRequest(c)
        \/ Expire \/ \E k \in Tokens : CoolDown(k)

Spec == Init /\ [][Next]_vars

\* Threads and loops run what is ready, every request is answered or times out, and
\* a lock that is free again and again is had in the end.
Fairness == \A c \in Calls : SF_vars(Step(c))
FairSpec == Spec /\ Fairness

-----------------------------------------------------------------------------
(* Properties                                                               *)

\* Every variable has its type, and the re-entrant lock is held by exactly the
\* calls whose requests are under way.
TypeOK ==
    /\ transport \in {"sync", "async"}
    /\ token \in Tokens /\ issued \in Tokens /\ fresh \in BOOLEAN
    /\ lockLoop \in Threads \cup {None} /\ lock \in Locks \cup {None}
    /\ owner \in Threads \cup {None}
    /\ depth = Cardinality(InFlight)
    /\ failures \in [Tokens -> 0..FailureThreshold]
    /\ cooling \subseteq Tokens /\ trials \subseteq Tokens /\ stuck \subseteq Tokens
    /\ pc \in [Calls -> {"idle", "wait", "enter", "flight", "answered"}]
    /\ style \in [Calls -> {"sync", "async"}]
    /\ mine \in [Calls -> Locks \cup {None}]
    /\ presented \in [Calls -> Tokens \cup {None}]
    /\ answer \in [Calls -> Answers]
    /\ displaced \in BOOLEAN /\ spoiled \in BOOLEAN
    /\ faults \in 0..MaxFaults

\* "Refresh a near-expiry OAuth credential once": one request at a time, for calls on
\* any threads and loops, as long as no call of another loop has replaced
\* the asyncio lock (_async_lock_for) while it was in use.
RefreshedOnce == ~displaced => Cardinality(InFlight) <= 1

\* The provider never drops the refresh token the server accepts: unless the answer
\* that carried it was lost, late, malformed or cancelled, it is stored or still on
\* its way (_updated_credential).  Two overlapping requests with one token, after a
\* lock in use was replaced, can store the older of two answers.
RefreshTokenSurvives ==
    token # issued /\ ~spoiled /\ ~displaced =>
        \E c \in Calls : pc[c] = "answered" /\ answer[c].refresh = issued

\* A half-open trial ends with its request: a marker left behind, which would refuse
\* every later refresh with this token, is the work of a cancelled task.
TrialHasRequest ==
    /\ TypeOK
    /\ \A k \in trials \ stuck : \E c \in InFlight : presented[c] = k

\* Holding a thread lock across an await wedges no loop: every call returns, however
\* calls of several loops and threads are interleaved.
EveryResolveReturns == \A c \in Calls : pc[c] # "idle" ~> pc[c] = "idle"
=============================================================================
