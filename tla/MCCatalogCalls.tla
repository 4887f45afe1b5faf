--------------------------- MODULE MCCatalogCalls ---------------------------
(* The calls a client offers: any operation of the services of both            *)
(* connectors, a streamed export of the uData site, a wait for a uData job.    *)
(* A call has a deadline and a response of its own, so a behaviour is one      *)
(* call.  The contract of the services is evaluated with it.                   *)
EXTENDS CatalogCalls, UDataContract, ExportStream, JobWait

VARIABLE calling    \* the call a behaviour is about

clientVars == <<calling, vars, exportVars, waitVars>>

\* The other calls are not made; where they would start is fixed.
ClientInit ==
    /\ calling \in {"service", "export", "wait"}
    /\ Init /\ ExportInit /\ WaitInit
    /\ calling # "service" => origin = "public"
    /\ calling # "export" => style = "sync" /\ length = 0 /\ garbled = 0
    /\ calling # "wait" => named = "none" /\ interval = 0

Service == calling = "service" /\ UNCHANGED <<calling, exportVars, waitVars>>
Export  == calling = "export" /\ UNCHANGED <<calling, vars, waitVars>>
Waiting == calling = "wait" /\ UNCHANGED <<calling, vars, exportVars>>

ClientNext ==
    \/ Service /\ Next
    \/ Export /\ ExportNext
    \/ Waiting /\ WaitNext

\* The client's own steps run; a transport answers or fails in the end; the job need
\* not advance.
ClientSpec ==
    /\ ClientInit /\ [][ClientNext]_clientVars
    /\ WF_clientVars((Service /\ CallStep) \/ (Waiting /\ WaitProgress))
=============================================================================
