------------------------- MODULE CatalogOperations -------------------------
(***************************************************************************)
(* How the operations of the catalog connectors are described.  A row      *)
(* holds what the request pipeline, the transport and the receipts depend  *)
(* on: the HTTP method, whether the deployment is changed, whose           *)
(* permission is required, whether a destructive policy is asked for, and  *)
(* what the body is made of.                                               *)
(***************************************************************************)
EXTENDS Integers

\* method:      the HTTP method; POST until a wire table says otherwise
\* reads:       the deployment answers without changing anything
\* guard:       "none", "user" or "admin" permission evidence
\* destructive: the policy has to declare itself destructive
\* body:        "none", "json", "bytes" (an upload held in memory), "stream" (an
\*              upload read from an input the service closes) or "form"
Reads(names) ==
    {[name |-> n, method |-> "POST", reads |-> TRUE, guard |-> "none", destructive |-> FALSE,
      body |-> "json"] : n \in names}

Writes(names) ==
    {[name |-> n, method |-> "POST", reads |-> FALSE, guard |-> "user", destructive |-> FALSE,
      body |-> "json"] : n \in names}

Deletions(names) == {[r EXCEPT !.destructive = TRUE] : r \in Writes(names)}

ByUser(ops) == {[r EXCEPT !.guard = "user"] : r \in ops}

ByAdmin(ops) == {[r EXCEPT !.guard = "admin"] : r \in ops}

Carrying(body, ops) == {[r EXCEPT !.body = body] : r \in ops}

\* A row of a class: the service decides how a failure becomes a receipt, the
\* mode which interruptions there are.
Row(service, mode, r) ==
    [service |-> service, mode |-> mode, name |-> r.name, method |-> r.method,
     reads |-> r.reads, guard |-> r.guard, destructive |-> r.destructive, body |-> r.body]

Sync(service, ops) == {Row(service, "sync", r) : r \in ops}

Async(service, ops) == {Row(service, "async", r) : r \in ops}

\* The asynchronous class has the operations of the synchronous one.
Awaited(rows) == {[r EXCEPT !.mode = "async"] : r \in rows}

\* The mutation class the profile declares (profiles/udata-17.6.json).  It follows
\* the method, but for two listings declared as updates and for the token
\* exchange, a POST declared as a read, which also takes no mutation policy.
DeclaredRead(r) ==
    \/ r.method = "GET" /\ r.name \notin {"list_membership_requests", "list_organization_assignments"}
    \/ r.name = "access_token"

\* The operations that take a redirect for an answer: redirect_mode of the call.
AnswersRedirect(r) ==
    \/ r.name \in {"redirect", "rdf", "rdf_dataservice", "set_site", "data_portal", "rdf_catalog",
                   "rdf_organization", "rdf_organization_format", "organization_datasets_csv",
                   "organization_dataservices_csv", "organization_discussions_csv",
                   "organization_datasets_resources_csv"}
    \/ r.service = "oauth" /\ r.name # "oauth_error"

\* wire/oauth.py, sends_credential: of the OAuth routes only the consent carries the
\* API key.
SendsCredential(r) == r.service = "oauth" => r.name = "authorize_post"

\* What the pipeline and the transport can tell apart of an operation.  A redirect
\* treats PUT, PATCH and DELETE alike, and an upload of uData follows none.  The two
\* modes make the same steps; a synchronous call only cannot be cancelled.
Shape(r) ==
    [service |-> r.service, reads |-> r.reads, guard |-> r.guard,
     method |-> IF r.method \in {"GET", "POST"} THEN r.method ELSE "PUT",
     destructive |-> r.destructive, body |-> r.body,
     policed |-> ~r.reads /\ r.name # "access_token",
     read |-> DeclaredRead(r),
     keyed |-> SendsCredential(r),
     onRedirect |-> IF AnswersRedirect(r) THEN "answer"
                    ELSE IF r.body \in {"bytes", "stream"} /\ r.service \notin {"ckan", "ckanNative"}
                    THEN "refuse" ELSE "follow",
     lenient |-> r.name = "oauth_error"]
=============================================================================
