---------------------------- MODULE CatalogCalls ----------------------------
(***************************************************************************)
(* One call of a uData or CKAN service operation, from the caller's        *)
(* arguments to the receipt: the checks of the service in the order of its *)
(* module, the request pipeline of udata/clients.py (site gate, credential *)
(* scope, capability, circuit, deadline, attempts, decoding) or of         *)
(* ckan/clients.py (credential, capability, mutation tier, attempts each   *)
(* admitted by the circuit, decoding) and the settlement of the outcome    *)
(* into a MutationReceipt.                                                 *)
(*                                                                         *)
(* Around the call, credentials rotate, the deadline passes, interrupts    *)
(* and cancellations arrive, and the deployment applies a request, or not, *)
(* and answers, redirects, or lets the connection drop.                    *)
(***************************************************************************)
EXTENDS UDataOperations, CKANOperations, Sequences, FiniteSets

CONSTANTS
    Credentials,    \* identities the credential provider may yield
    None,           \* no credential, no policy, no evidence
    MaxAttempts,    \* max_attempts of the retry loop
    MaxRedirects    \* max_redirects of the transport

ASSUME CallsAssumption ==
    /\ None \notin Credentials
    /\ MaxAttempts \in Nat \ {0} /\ MaxRedirects \in Nat

VARIABLES
    stage,      \* where the call is
    call,       \* what it knows
    late,       \* the deadline of the request has passed
    net,        \* what happened to the request outside the process
    origin      \* "controlled" (loopback) or "public"

vars == <<stage, call, late, net, origin>>

-----------------------------------------------------------------------------
(* Operations, errors and policies                                          *)

\* The operations of both connectors, up to what the pipeline can tell apart.
Shapes ==
    {Shape(r) : r \in SyncOperations \cup AsyncOperations
                        \cup CKANSyncOperations \cup CKANAsyncOperations}

CKANServices == {"ckan", "ckanNative"}

Services == CKANServices \cup {"datasets", "resources", "organizations", "users", "prepared",
                               "transfers", "oauth", "site"}

ShapeRecords ==
    [service : Services, reads : BOOLEAN, guard : {"none", "user", "admin"},
     method : {"GET", "POST", "PUT"}, destructive : BOOLEAN,
     body : {"none", "json", "bytes", "stream", "form"}, policed : BOOLEAN, read : BOOLEAN,
     keyed : BOOLEAN, onRedirect : {"answer", "refuse", "follow"}, lenient : BOOLEAN]

\* What the tables of operations say, row by row, and the pipeline relies on.  CKAN
\* operations are POSTs that ask for no evidence.  Of uData: a read is a GET; every
\* write but the token exchange takes a policy; only requests with a JSON body or none
\* follow redirects; a write that takes a redirect or an error page for an answer is
\* one of OAuth, which all send forms, or set_site.
ASSUME ShapesAssumption ==
    /\ Shapes \subseteq ShapeRecords
    /\ \A op \in Shapes :
          /\ op.service \in CKANServices => op.guard = "none" /\ op.method = "POST"
          /\ op.service \notin CKANServices =>
                /\ op.reads <=> op.method = "GET"
                /\ op.policed => ~op.reads
                /\ op.onRedirect = "follow" => op.body \in {"none", "json"}
                /\ op.service = "oauth" /\ ~op.reads => op.body = "form"
          /\ ~op.reads /\ op.onRedirect = "answer" => op.service \in {"oauth", "site"}
          /\ op.lenient => op.reads

OnCKAN == call.op.service \in CKANServices

NoError == [kind |-> "none", status |-> 0, ambiguous |-> FALSE]

\* kind: "refused" (UnauthenticatedError, ForbiddenError, CatalogValidationError),
\* "native" (any other Exception), "os" (an OSError or HTTPException that no transport
\* has turned into a TransportError), "budget", "transport", "cancelled",
\* "interrupt" (KeyboardInterrupt, GeneratorExit) or "exit" (SystemExit).
\* status: the hundreds of status_code, 0 when the error carries none.
Error(kind, status) == [NoError EXCEPT !.kind = kind, !.status = status]

Cancellations == {"cancelled", "interrupt"}

PolicyFields == {"confirmed", "bound", "overwrite", "token", "dryRun", "retry"}

\* A policy with at most one field other than the accepted one.
Policies ==
    {[destructive |-> d, odd |-> f] : d \in BOOLEAN, f \in PolicyFields \cup {"no field"}}

\* Mutant of AcceptsPolicy: only the consequence the policy was made for is compared.
AcceptsAnyPolicy(policy, destructive) == policy # None /\ policy.destructive = destructive

\* _enforce_mutation_policy and _enforce_patch_policy: every field, in turn.
AcceptsPolicy(policy, destructive) ==
    /\ policy # None
    /\ policy.odd \notin PolicyFields
    /\ policy.destructive = destructive

\* require_mutation_tier: only the destructive tier asks for a policy, and only for
\* its confirmation and a concurrency instruction.
AcceptsTier(policy, op) ==
    op.destructive =>
        /\ policy # None
        /\ policy.destructive
        /\ policy.odd \notin {"confirmed", "overwrite"}

Accepts(policy, op) ==
    IF op.service \in CKANServices THEN AcceptsTier(policy, op)
    ELSE AcceptsPolicy(policy, op.destructive)

\* IdempotencyPolicy.allows_retry, behind _dataset_retry_idempotency: a stream or a
\* form is never repeated; without a policy only a read is.
AllowsRetry ==
    /\ call.op.body \in {"none", "json", "bytes"}
    /\ IF call.policy = None THEN call.op.reads ELSE call.policy.odd = "retry"

-----------------------------------------------------------------------------
(* The checks of a service, in the order its module makes them              *)

ServiceSteps(op) ==
    CASE op.service = "ckan" /\ ~op.reads -> <<"policy", "build">>
      [] op.service = "ckan" /\ op.reads -> <<"build">>
      [] op.service = "ckanNative" -> <<"build">>
      [] op.method = "GET" /\ op.guard = "none" -> <<"build">>
      [] op.method = "GET" /\ op.guard # "none" -> <<"permission", "build">>
      [] op.method # "GET" /\ op.service = "datasets" -> <<"permission", "policy", "build">>
      [] op.method # "GET" /\ op.service \in {"prepared", "transfers", "resources"} ->
            <<"build", "policy", "permission">>
      [] op.method # "GET" /\ op.service = "organizations" /\ op.body # "stream" ->
            <<"policy", "build", "permission">>
      [] op.method # "GET" /\ op.service = "organizations" /\ op.body = "stream" ->
            <<"policy", "permission", "build">>
      [] op.method # "GET" /\ op.service = "users" -> <<"policy", "permission", "build">>
      [] op.method # "GET" /\ op.service = "oauth" /\ op.policed -> <<"permission", "policy", "build">>
      [] op.method # "GET" /\ op.service = "oauth" /\ ~op.policed -> <<"permission", "build">>
      [] op.method # "GET" /\ op.service = "site" ->
            <<"authority", "build", "permission", "policy", "current", "authority", "target", "build">>

NoCall ==
    [op |-> None, todo |-> <<>>, policy |-> None, evidence |-> None, credential |-> None,
     attempts |-> 0, begun |-> FALSE, answer |-> 0, bound |-> FALSE, at |-> "none",
     error |-> NoError, receipt |-> "none", input |-> "none"]

\* sent: a request left the process; then the request of the current hop: its method,
\* whether it has a body, the credential in its headers, the origin it goes to, the
\* hops so far and the credential scope of the transport, once it has mattered.
NoTraffic ==
    [sent |-> FALSE, applied |-> FALSE, method |-> "none", body |-> FALSE, as |-> None,
     at |-> "home", hops |-> 0, scope |-> None]

Init ==
    /\ stage = "idle"
    /\ call = NoCall
    /\ late = FALSE
    /\ net = NoTraffic
    /\ origin \in {"controlled", "public"}

\* The umbrella methods of CKAN take the policy with the operation and hand it on.
Begin(op) ==
    /\ stage = "idle"
    /\ stage' = "service"
    /\ \E policy \in {None} \cup (IF op.service = "ckanNative" THEN Policies ELSE {}) :
        call' = [NoCall EXCEPT !.op = op, !.todo = ServiceSteps(op), !.policy = policy,
                              !.input = IF op.body = "stream" THEN "open" ELSE "none"]
    /\ UNCHANGED <<late, net, origin>>

\* The exchange is over: only what happened at the deployment still matters.
Ended(traffic) ==
    [NoTraffic EXCEPT !.sent = traffic.sent, !.applied = traffic.applied, !.method = traffic.method]

\* A raised error leaves the try block of the service; `at` is what was running.
Raise(where, error) ==
    /\ stage' = "raised"
    /\ call' = [call EXCEPT !.error = error, !.at = where]
    /\ net' = Ended(net)
    /\ UNCHANGED <<late, origin>>

OnStep(step) == stage = "service" /\ call.todo # <<>> /\ Head(call.todo) = step

Done(step) == call' = [call EXCEPT !.todo = Tail(@)] /\ UNCHANGED <<stage, late, net, origin>>

CheckPolicy ==
    /\ OnStep("policy")
    /\ \E policy \in Policies \cup {None} :
        \/ /\ Accepts(policy, call.op)
           /\ call' = [call EXCEPT !.todo = Tail(@), !.policy = policy]
           /\ UNCHANGED <<stage, late, net, origin>>
        \/ /\ ~Accepts(policy, call.op)
           /\ Raise("policy", Error("refused", 0))

Evidences == [scope : Credentials, admin : BOOLEAN]

\* What the credential provider yields when it is asked, which may differ each time:
\* credentials rotate and expire between any two steps of a call.
Yields == Credentials \cup {None}

AcceptsEvidence(evidence, now) ==
    /\ evidence # None /\ now # None
    /\ evidence.scope = now
    /\ call.op.guard = "admin" => evidence.admin

\* _require_mutation_permission: the evidence names the credential resolved now and
\* holds the role the operation asks for.  The resolved credential is the one sent.
CheckPermission ==
    /\ OnStep("permission")
    /\ \E evidence \in Evidences \cup {None}, now \in Yields :
        \/ /\ AcceptsEvidence(evidence, now)
           /\ call' = [call EXCEPT !.todo = Tail(@), !.evidence = evidence,
                                   !.credential = now]
           /\ UNCHANGED <<stage, late, net, origin>>
        \/ /\ ~AcceptsEvidence(evidence, now)
           /\ Raise("permission", Error("refused", 0))

Build ==
    /\ OnStep("build")
    /\ \/ Done("build")
       \/ \E kind \in {"refused", "native"} : Raise("build", Error(kind, 0))

\* set_site: the transport was made by the controlled-stack factory, and after the
\* current site is read it still is, for that site.
CheckAuthority ==
    /\ OnStep("authority")
    /\ Done("authority") \/ Raise("authority", Error("refused", 0))

\* set_site reads the current site first, with a request of its own.
ReadCurrent ==
    /\ OnStep("current")
    /\ \/ Done("current")
       \/ \E e \in {Error("native", s) : s \in {0, 2, 3, 4, 5}} \cup {Error("transport", 0)} :
            Raise("current", e)

\* set_site enforces its policy again, now for the site it has read, and then builds
\* the request.
CheckTarget ==
    /\ OnStep("target")
    /\ Done("target") \/ Raise("target", Error("refused", 0))

-----------------------------------------------------------------------------
(* The request pipeline                                                     *)

\* _dataset_deadline: the deadline of uData starts here.  set_site notes that its
\* PATCH is dispatched from here on.
EnterPipeline ==
    /\ stage = "service" /\ call.todo = <<>>
    /\ stage' = IF OnCKAN THEN "scope" ELSE "gate"
    /\ call' = [call EXCEPT !.begun = call.op.service = "site"]
    /\ UNCHANGED <<late, net, origin>>

\* A closed client, an unsupported version or a failing probe ends the call here.
PassGate ==
    /\ stage = "gate"
    /\ \/ late /\ Raise("gate", Error("budget", 0))
       \/ \E s \in {0, 4} : Raise("gate", Error("native", s))
       \/ ~late /\ stage' = "scope" /\ UNCHANGED <<call, late, net, origin>>

\* Mutant of SentCredential: the provider is asked again for the headers.
SentCredentialResolvedAgain(now) == now

\* The credential of the request: none for the OAuth routes that omit it, the checked
\* one, and for a read without evidence whatever the provider yields now.
SentCredential(now) ==
    IF ~call.op.keyed THEN None
    ELSE IF call.evidence # None THEN call.credential ELSE now

\* A public deployment of uData gets declared reads only.
RequireDispatchable == OnCKAN \/ origin = "controlled" \/ call.op.read

\* Scope refresh, effective capability and _require_dispatchable; on CKAN also the
\* closed client, the caller's guard, deprecated names and _require_optional_evidence.
ResolveScope ==
    /\ stage = "scope"
    /\ \/ /\ ~RequireDispatchable
          /\ Raise("scope", Error("refused", 0))
       \/ \E kind \in {"refused", "native"} : Raise("scope", Error(kind, 0))
       \/ /\ RequireDispatchable
          /\ stage' = "request"
          /\ \E now \in Yields : call' = [call EXCEPT !.credential = SentCredential(now)]
          /\ UNCHANGED <<late, net, origin>>

\* _dataset_request and _admit_request: the deadline, the serialization, the circuit.
\* _prepare_dispatch: the capability, the tier, the serialization, and only now the
\* deadline of CKAN.
BuildRequest ==
    /\ stage = "request"
    /\ \/ late /\ Raise("request", Error("budget", 0))
       \/ Raise("request", Error("native", 0))
       \/ OnCKAN /\ ~AcceptsTier(call.policy, call.op) /\ Raise("request", Error("refused", 0))
       \/ /\ ~late
          /\ OnCKAN => AcceptsTier(call.policy, call.op)
          /\ stage' = "attempt"
          /\ UNCHANGED <<call, late, net, origin>>

\* Mutant of Attempt: the attempts are not counted.
AttemptUncounted ==
    /\ stage = "attempt"
    /\ \/ late /\ Raise("attempt", Error("budget", 0))
       \/ ~late /\ stage' = "encoded" /\ UNCHANGED <<call, late, net, origin>>

\* The loop checks the deadline.  On CKAN the circuit admits each attempt.  A uData
\* attempt encodes its form; OAuthForm notes that sending has begun although the
\* deadline is checked once more.
Attempt ==
    /\ stage = "attempt"
    /\ \/ late /\ Raise("attempt", Error("budget", 0))
       \/ ~late /\ OnCKAN /\ Raise("attempt", Error("native", 0))
       \/ /\ ~late
          /\ stage' = "encoded"
          /\ call' = [call EXCEPT !.attempts = @ + 1,
                                  !.begun = @ \/ call.op.body = "form"]
          /\ UNCHANGED <<late, net, origin>>

\* _settle_dataset_budget_error: once the transport has the request, a write that runs
\* out of time is ambiguous.
BudgetError(answer) ==
    [Error("budget", answer) EXCEPT !.ambiguous = ~call.op.reads]

\* RetryDecision.for_response
Retries == AllowsRetry /\ call.attempts < MaxAttempts

\* The loop waits before the next attempt, unless check_wait finds no time for it.
RetryLater ==
    /\ Retries
    /\ \/ stage' = "attempt" /\ net' = Ended(net) /\ UNCHANGED <<call, late, origin>>
       \/ Raise("flight", Error("budget", 0))

Expired == late /\ ~OnCKAN

\* TransportError: a closed transport, an upload over urllib, a lost connection.
TransportFails == RetryLater \/ (~Retries /\ Raise("flight", Error("transport", 0)))

\* Only a uData request carries its deadline, which is checked before the transport
\* gets the request and again by the transport.
Send ==
    /\ stage = "encoded"
    /\ \/ Expired /\ (Raise("attempt", Error("budget", 0)) \/ Raise("flight", BudgetError(0)))
       \/ TransportFails
       \/ /\ ~Expired
          /\ stage' = "flight"
          /\ net' = [NoTraffic EXCEPT !.sent = TRUE, !.applied = net.applied,
                                      !.method = call.op.method,
                                      !.body = call.op.body # "none",
                                      !.as = call.credential]
          /\ UNCHANGED <<call, late, origin>>

-----------------------------------------------------------------------------
(* Redirects (runtime/transport)                                            *)

\* Where a redirect leads: back to the deployment, to another origin whose host and
\* scheme the credential scope allows, or to any other one.
Targets == {"home", "allied", "foreign"}

\* The transport has no credential scope, one that sends credentials on redirects, or
\* one that does not.
Scopes == {"unset", "redirects", "pinned"}

ASSUME ScopesAssumption == None \notin Scopes

\* Mutant of RetainsCredentials: every origin the scope knows gets the credential.
RetainsWithinScope(scope, target) == scope # "pinned" /\ target # "foreign"

\* _retains_credentials
RetainsCredentials(scope, target) ==
    CASE scope = "unset" -> target = net.at
      [] scope = "redirects" -> target \in {"home", "allied"}
      [] scope = "pinned" -> FALSE

\* redirect_method_and_body: 303, and 301 or 302 after a POST, become a GET without a
\* body; 307 and 308 repeat the request.
Downgrades(status) == status = 303 \/ (status = 301 /\ net.method = "POST")

\* A body is not relayed to another origin.
RefusesBody(status, target) == net.body /\ ~Downgrades(status) /\ target # net.at

\* The next hop of the loop in send(), _redirect_request and _next_redirect_request.
\* A target that cannot be used (another scheme, embedded credentials, a malformed
\* port) and a chain beyond max_redirects end in a TransportError.
Redirect ==
    /\ stage = "handled" /\ call.op.onRedirect = "follow" /\ ~Expired
    /\ \E status \in {301, 303, 307}, target \in Targets,
         scope \in IF net.scope = None THEN Scopes ELSE {net.scope} :
        \/ TransportFails
        \/ /\ ~RefusesBody(status, target)
           /\ net.hops < MaxRedirects
           /\ stage' = "flight"
           /\ net' = [net EXCEPT !.method = IF Downgrades(status) THEN "GET" ELSE @,
                                 !.body = @ /\ ~Downgrades(status),
                                 !.as = IF RetainsCredentials(scope, target) THEN @ ELSE None,
                                 !.at = target, !.hops = @ + 1, !.scope = scope]
           /\ UNCHANGED <<call, late, origin>>

-----------------------------------------------------------------------------

\* The deployment handles what it received; a GET or a CKAN read changes nothing.
OnlyReads == net.method = "GET" \/ call.op.reads

Handle ==
    /\ stage = "flight"
    /\ stage' = "handled"
    /\ \E applied \in (IF OnlyReads THEN {FALSE} ELSE BOOLEAN) :
        net' = [net EXCEPT !.applied = @ \/ applied]
    /\ UNCHANGED <<call, late, origin>>

\* An upload is read while it is sent.
InputUnreadable ==
    /\ stage = "flight" /\ call.op.body = "stream"
    /\ Raise("flight", Error("os", 0))

\* The answer reaches the client: deadline, then retry or go on.  Some errors of
\* either class are worth a retry (408, 425, 429, 500, 502 to 504).  An applied
\* request may still be answered by a server error.
Answer ==
    /\ stage = "handled"
    /\ \E s \in IF net.applied THEN {2, 5} ELSE IF OnlyReads THEN {2, 3, 4, 5} ELSE {3, 4, 5} :
        \/ Expired /\ Raise("flight", BudgetError(s))
        \/ ~Expired /\ s \in {4, 5} /\ RetryLater
        \/ /\ ~Expired
           /\ stage' = "answered"
           /\ call' = [call EXCEPT !.answer = s]
           /\ net' = Ended(net)
           /\ UNCHANGED <<late, origin>>

\* The connection drops or times out, before or after the deployment acted, and the
\* transport says so.
Lose ==
    /\ stage \in {"flight", "handled"}
    /\ (Expired /\ Raise("flight", BudgetError(0))) \/ TransportFails

\* The urllib transport, which takes no uploads, reads the body of a redirect or an error
\* inside its `except HTTPError` clause: if that body breaks off, the other clauses do
\* not see it, and the error leaves send() as it is, past every retry.
CutErrorBody ==
    /\ stage = "handled"
    /\ OnCKAN \/ call.op.body \notin {"bytes", "stream"}
    /\ Raise("flight", Error("os", 0))

\* _decode_dataset_response, _validate_status and the CKAN _decode: in redirect mode a
\* redirect is an answer, which set_site then refuses; the OAuth error page may have
\* any status.
Decode ==
    /\ stage = "answered"
    /\ \/ /\ \/ call.answer = 2
             \/ call.answer = 3 /\ call.op.onRedirect = "answer" /\ call.op.service # "site"
             \/ call.answer \in {4, 5} /\ call.op.lenient
          /\ stage' = "shape"
          /\ call' = [call EXCEPT !.bound = TRUE]
          /\ UNCHANGED <<late, net, origin>>
       \/ Raise("decode", Error("native", call.answer))

\* The call is settled; what its frames held is gone.
SettleAs(receipt) ==
    /\ stage' = "settled"
    /\ call' = [NoCall EXCEPT !.op = call.op, !.error = call.error, !.receipt = receipt,
                              !.input = call.input]
    /\ late' = FALSE
    /\ UNCHANGED <<net, origin>>

\* The service decodes the payload into its result; only now is the response bound.
\* The umbrella methods of CKAN return the bare result.
ShapeResult ==
    /\ stage = "shape"
    /\ \/ SettleAs(IF call.op.reads \/ call.op.service = "ckanNative" THEN "none" ELSE "succeeded")
       \/ Raise("shape", Error("native", 0))

-----------------------------------------------------------------------------
(* Settlement                                                               *)

\* _error_status: the error's own status, else the one of the bound response.
ErrorStatus == IF call.error.status # 0 THEN call.error.status
               ELSE IF call.bound THEN call.answer ELSE 0

\* transfers._settle_ambiguous: what is neither a refusal nor an unsent request.
TransferUnsettled ==
    /\ call.op.service = "transfers" /\ call.at \notin {"build", "policy", "shape"}
    /\ call.error.kind \notin Cancellations \cup {"transport"}
    /\ call.error.status \in {2, 3, 5}

\* Mutant of MutationOutcome: a lost connection is taken for a refusal of the deployment.
MutationOutcomeWithoutTransport(dispatched) ==
    CASE call.error.kind \in Cancellations -> "cancelled"
      [] call.error.kind \notin Cancellations /\ (call.error.ambiguous \/ TransferUnsettled
            \/ ErrorStatus \in {2, 3}) -> "ambiguous"
      [] OTHER -> IF call.error.kind = "refused" /\ ErrorStatus = 0 THEN "rejected" ELSE "failed"

\* _mutation_outcome
MutationOutcome(dispatched) ==
    CASE call.error.kind \in Cancellations -> "cancelled"
      [] call.error.kind \notin Cancellations
            /\ \/ call.error.ambiguous \/ TransferUnsettled
               \/ ErrorStatus \in {2, 3}
               \/ dispatched /\ call.error.kind = "transport" -> "ambiguous"
      [] OTHER -> IF call.error.kind = "refused" /\ ErrorStatus = 0 THEN "rejected" ELSE "failed"

\* The receipt of a failed write.  A request that could not be built is rejected
\* whatever the error, where the service builds it first.  An OAuth form that began
\* to be sent is ambiguous when interrupted or out of time.
FailureReceipt ==
    CASE call.op.service \in {"prepared", "transfers", "resources"} /\ call.at = "build" -> "rejected"
      [] call.op.service = "resources" /\ call.at # "build"
            /\ call.op.body = "stream" /\ call.error.kind = "os" -> "ambiguous"
      [] call.op.service = "oauth" -> IF call.begun /\ call.error.kind \in {"interrupt", "exit", "budget"}
                                      THEN "ambiguous" ELSE MutationOutcome(call.begun)
      [] call.op.service = "site" -> MutationOutcome(call.begun)
      [] OTHER -> MutationOutcome(TRUE)

\* SETTLEMENT_ERRORS everywhere but in set_site, which takes the default errors, and
\* in CKAN, whose errors carry no receipt.
Covered ==
    /\ ~OnCKAN
    /\ call.op.service = "site" => call.error.kind \notin {"interrupt", "exit"}

Settle ==
    /\ stage = "raised"
    /\ SettleAs(IF ~call.op.reads /\ Covered THEN FailureReceipt ELSE "none")

\* Mutant of Finish: the input is closed on success only.
FinishWithoutClosing ==
    /\ stage = "settled"
    /\ stage' = "done"
    /\ call' = [call EXCEPT !.input = IF call.error # NoError THEN @ ELSE "closed"]
    /\ UNCHANGED <<late, net, origin>>

\* The finally block: _close_input, _close_logo, _close_avatar.
Finish ==
    /\ stage = "settled"
    /\ stage' = "done"
    /\ call' = [call EXCEPT !.input = IF @ = "open" THEN "closed" ELSE @]
    /\ UNCHANGED <<late, net, origin>>

\* The caller has the result or the error.
Return ==
    /\ stage = "done"
    /\ stage' = "idle"
    /\ call' = NoCall /\ late' = FALSE /\ net' = NoTraffic
    /\ UNCHANGED origin

-----------------------------------------------------------------------------
(* The surroundings                                                         *)

InPipeline == {"gate", "scope", "request", "attempt", "encoded", "flight", "handled"}

DeadlinePasses ==
    /\ stage \in InPipeline /\ ~late
    /\ OnCKAN => stage \notin {"gate", "scope", "request"}
    /\ late' = TRUE
    /\ UNCHANGED <<stage, call, net, origin>>

\* KeyboardInterrupt and SystemExit strike anywhere, a cancellation where an
\* asynchronous call awaits: the provider, the site gate, the capability probe, the
\* transport and the pause before a retry.
Interrupt ==
    \E kind \in {"interrupt", "exit", "cancelled"} :
        /\ stage \in InPipeline \cup {"service", "answered", "shape"}
        /\ kind = "cancelled" =>
            \/ stage \in {"gate", "scope", "flight", "handled"}
            \/ stage = "attempt" /\ call.attempts > 0
            \/ OnStep("permission") \/ OnStep("current")
        /\ Raise(IF stage = "service" /\ call.todo # <<>> THEN Head(call.todo)
                 ELSE IF stage \in {"flight", "handled"} THEN "flight" ELSE stage, Error(kind, 0))

ServiceStep ==
    CheckPolicy \/ CheckPermission \/ Build \/ CheckAuthority \/ ReadCurrent \/ CheckTarget \/ EnterPipeline

PipelineStep ==
    PassGate \/ ResolveScope \/ BuildRequest \/ Attempt \/ Send \/ Decode \/ ShapeResult

ServerStep == Redirect \/ Handle \/ InputUnreadable \/ Answer \/ Lose \/ CutErrorBody

CallStep == ServiceStep \/ PipelineStep \/ ServerStep \/ Settle \/ Finish

Next ==
    \/ \E op \in Shapes : Begin(op)
    \/ CallStep
    \/ Return
    \/ DeadlinePasses
    \/ Interrupt

Spec == Init /\ [][Next]_vars

\* The client's own steps run; a transport answers or fails, because it has a timeout
\* of its own or the deadline of the request.
FairSpec == Spec /\ WF_vars(CallStep)
-----------------------------------------------------------------------------
(* Properties                                                               *)

Stages == InPipeline \cup {"idle", "service", "answered", "shape", "raised", "settled", "done"}

Outcomes == {"none", "succeeded", "rejected", "failed", "ambiguous", "cancelled"}

\* Every variable stays in its domain, and the attempts within max_attempts.
TypeOK ==
    /\ stage \in Stages
    /\ call.op \in Shapes \cup {None}
    /\ call.policy \in Policies \cup {None}
    /\ call.evidence \in Evidences \cup {None}
    /\ call.attempts \in 0..MaxAttempts
    /\ call.receipt \in Outcomes
    /\ late \in BOOLEAN /\ net.applied \in BOOLEAN

IsWrite == call.op # None /\ ~call.op.reads

\* The receipt never misleads the caller about the deployment (_mutation_outcome and
\* its callers): "rejected" means that nothing left the process; "succeeded" that the
\* write was applied, unless a redirect turned it into a GET; and an applied write
\* settles as "failed" only if the deployment itself answered an error, or the process
\* was exiting.  For a transfer even such an answer must settle as "ambiguous", and does,
\* unless it is cut short under urllib (CutErrorBody), which transfers.py overlooks.
ReceiptIsTruthful ==
    stage = "done" =>
        /\ call.receipt = "rejected" => ~net.sent
        /\ call.receipt = "succeeded" =>
            net.applied \/ net.method = "GET" \/ call.op.service = "oauth"
        /\ call.receipt = "failed" /\ net.applied =>
            \/ call.error.kind = "exit"
            \/ call.error.kind = "os" /\ call.op.body # "stream"
            \/ call.error.status = 5 /\ call.op.service # "transfers"

\* A write leaves the process at most once (uData's policy refuses retries and never
\* repeats streams or forms), but for a CKAN write whose caller allowed a retry; and a
\* redirect never repeats a uData upload.
WriteIsSentOnce ==
    /\ TypeOK
    /\ IsWrite =>
          /\ call.attempts > 1 => OnCKAN /\ call.policy # None /\ call.policy.odd = "retry"
          /\ net.hops > 0 => OnCKAN \/ call.op.body \in {"none", "json"}

\* Whatever leaves the process was checked against what leaves: the evidence is for
\* the credential in the headers even if the provider has rotated since, with the
\* role asked for; the policy was accepted; only declared reads of uData reach a
\* public origin.
NothingSentUnchecked ==
    stage = "flight" =>
        /\ call.op.guard # "none" => /\ call.evidence # None
                                     /\ net.as \in {None, call.evidence.scope}
                                     /\ call.op.guard = "admin" => call.evidence.admin
        /\ call.op.policed =>
            IF OnCKAN THEN call.op.destructive => /\ call.policy.destructive
                                                  /\ call.policy.odd # "confirmed"
            ELSE AcceptsPolicy(call.policy, call.op.destructive)
        /\ OnCKAN \/ call.op.read \/ origin = "controlled"

\* A chain of redirects, of whatever length, never shows the credential to an origin
\* other than the deployment's unless the credential scope allows that origin and
\* redirects, and never takes a request body there (_next_redirect_request judges
\* each hop by the one before it, not by the first).
RedirectsKeepSecrets ==
    net.at # "home" =>
        /\ ~net.body
        /\ net.as # None => net.scope = "redirects" /\ net.at = "allied"

\* Every uData write that failed carries a receipt, except set_site struck by an
\* interrupt or an exit; and the input of an upload is closed on every path (the
\* finally blocks around _mutation).
FailureIsSettled ==
    stage = "done" /\ IsWrite =>
        /\ call.receipt = "none" =>
            \/ OnCKAN
            \/ call.op.service = "site" /\ call.error.kind \in {"interrupt", "exit"}
        /\ call.input # "open"

\* A call whose policy requests a dry run, "a capability-gated server-side mutation
\* preview" (DryRunPolicy), changes nothing at the deployment.
DryRunChangesNothing ==
    call.policy # None /\ call.policy.odd = "dryRun" => ~net.applied

\* Every call ends: no check, probe, attempt or retry waits for ever.
EveryCallEnds == stage = "service" ~> stage = "done"
=============================================================================
