---------------------------- MODULE ExportStream ----------------------------
(***************************************************************************)
(* One streamed export of the uData site (the CSV files and the RDF        *)
(* catalog of services/root_profile.py): _root_stream_call opens the       *)
(* response, a _StreamGuard watches its consumption, and                   *)
(* digest_stream_document checks every chunk and forwards it to the        *)
(* caller's sink.  Client, guard and digest each see only some of the      *)
(* failures, and each of them may be the one to close the response, to     *)
(* report the circuit's verdict and to emit the outcome.                   *)
(*                                                                         *)
(* A chunk counts as one byte.  Interruptions arrive where the call waits: *)
(* for the response, for a chunk, in the sink and while closing.           *)
(***************************************************************************)
EXTENDS Integers, Sequences

CONSTANTS MaxChunks,    \* bound on the chunks of a body
          MaxBytes      \* root_export_max_bytes

ASSUME ExportAssumption == MaxChunks \in Nat /\ MaxBytes \in Nat \ {0}

VARIABLES
    style,      \* "sync" or "async"
    phase,      \* where the call is
    overdue,       \* the deadline of the request has passed
    trial,      \* the call holds the half-open trial of its circuit
    verdicts,   \* what it told the circuit: "success", "failure"
    length,     \* how many chunks the transport will yield
    garbled,    \* the chunk that is not UTF-8, length + 1 for a cut character, 0 for none
    taken,      \* chunks read, the size_bytes of the digest
    sunk,       \* chunks the sink has received
    response,   \* the transport's response: "none", "open" or "closed"
    settled, consumed,   \* of the guard
    error,      \* the exception on its way to the caller, "none"
    events      \* the outcome events emitted

exportVars == <<style, phase, overdue, trial, verdicts, length, garbled, taken, sunk, response,
                settled, consumed, error, events>>

source     == <<style, length, garbled>>
guardState == <<settled, consumed>>

\* A KeyboardInterrupt in the thread, or the cancellation of the task.
Interruption == IF style = "sync" THEN "interrupt" ELSE "cancelled"

\* _stream_failure_outcome, settle_failure and the handlers of the services.
Outcome(e) ==
    CASE e = "budget" -> "budget_exhausted" [] e = "cancelled" -> "cancelled" [] OTHER -> "failed"

ExportInit ==
    /\ style \in {"sync", "async"}
    /\ length \in 0..MaxChunks
    /\ garbled \in 0..(length + 1)
    /\ phase = "start" /\ overdue = FALSE /\ trial = FALSE /\ verdicts = <<>>
    /\ taken = 0 /\ sunk = 0
    /\ response = "none" /\ settled = FALSE /\ consumed = FALSE
    /\ error = "none" /\ events = <<>>

Emit(outcome) == events' = Append(events, outcome)

Throw(e) == error' = e /\ phase' = "raised"

-----------------------------------------------------------------------------
(* Opening the response                                                     *)

\* The site gate, the credential, the capability or the deadline refuses.
PreludeFails ==
    /\ phase = "start"
    /\ \E e \in {"budget", "other", Interruption} : Emit(Outcome(e)) /\ Throw(e)
    /\ UNCHANGED <<source, overdue, trial, verdicts, taken, sunk, response, guardState>>

\* The circuit refuses, admits the call, or admits it as its half-open trial.
Admit ==
    /\ phase = "start"
    /\ \/ Emit("breaker_open") /\ Throw("other") /\ UNCHANGED trial
       \/ phase' = "send" /\ trial' \in BOOLEAN /\ UNCHANGED <<error, events>>
    /\ UNCHANGED <<source, overdue, verdicts, taken, sunk, response, guardState>>

\* A TransportError is a verdict on the origin and an outcome; anything else that
\* leaves send only releases the trial.
SendFails ==
    /\ phase = "send"
    /\ \E e \in {"transport", "other", Interruption} \cup (IF overdue THEN {"budget"} ELSE {}) :
          /\ Throw(e)
          /\ IF e = "transport" THEN verdicts' = Append(verdicts, "failure") /\ Emit("failed")
                                ELSE UNCHANGED <<verdicts, events>>
    /\ trial' = FALSE
    /\ UNCHANGED <<source, overdue, taken, sunk, response, guardState>>

\* _record_stream_response: a 2xx is no verdict yet, its trial is given back.
Verdict(status) ==
    CASE status = 500 -> <<"failure">> [] status = 300 -> <<"success">> [] OTHER -> <<>>

\* The response has arrived; _settle_stream_redirect sorts it out.
Respond ==
    /\ phase = "send"
    /\ \E status \in {200, 300, 400, 500} :
          /\ verdicts' = verdicts \o Verdict(status)
          /\ \/ status = 200 /\ phase' = "opened" /\ UNCHANGED <<error, events>>
             \/ status = 300 /\ phase' = "redirect" /\ UNCHANGED <<error, events>>
             \/ status # 200 /\ phase' = "rejected" /\ error' = "other" /\ Emit("failed")
    /\ response' = "open" /\ trial' = FALSE
    /\ UNCHANGED <<source, overdue, taken, sunk, guardState>>

\* A status that is no export, or a redirect without Location: what closing raises
\* is chained to the error, unless it is an interrupt.
CloseRejected ==
    /\ phase = "rejected"
    /\ \E e \in {error, Interruption} : Throw(IF e = "interrupt" THEN e ELSE error)
    /\ response' = "closed"
    /\ UNCHANGED <<source, overdue, trial, verdicts, taken, sunk, guardState, events>>

\* _parse_and_close_redirect, with p raised by parsing and e by closing: an interrupt
\* passes through, the first of the others is raised.
RedirectError(p, e) == IF e # "interrupt" /\ p # "none" THEN p ELSE e

\* The handlers around it.  The asynchronous ones emit "failed" for whatever is raised,
\* a cancellation too.
SettleRedirect ==
    /\ phase = "redirect"
    /\ \E p \in {"none", "other"}, e \in {"none", "other", Interruption} :
          IF RedirectError(p, e) = "none"
          THEN phase' = "returned" /\ Emit("succeeded") /\ UNCHANGED error
          ELSE Throw(RedirectError(p, e)) /\ Emit("failed")
    /\ response' = "closed"
    /\ UNCHANGED <<source, overdue, trial, verdicts, taken, sunk, guardState>>

-----------------------------------------------------------------------------
(* The guard and the digest                                                 *)

\* settle_failure: the first report counts.
SettleFailure(e) ==
    IF settled THEN UNCHANGED <<settled, verdicts, events>>
    ELSE /\ settled' = TRUE
         /\ verdicts' = IF e = "transport" THEN Append(verdicts, "failure") ELSE verdicts
         /\ Emit(Outcome(e))

Fail(e) == error' = e /\ phase' = "failing"

\* The media type of the response is, or is not, the expected one.
CheckMediaType ==
    /\ phase = "opened"
    /\ \/ phase' = "reading" /\ UNCHANGED error
       \/ Fail("other")
    /\ UNCHANGED <<source, overdue, trial, verdicts, taken, sunk, response, guardState, events>>

\* The next chunk reaches the digest if the deadline permits it.
ReadChunk ==
    /\ phase = "reading" /\ taken < length /\ ~overdue
    /\ taken' = taken + 1 /\ phase' = "chunk"
    /\ UNCHANGED <<source, overdue, trial, verdicts, sunk, response, guardState, error, events>>

\* The connection is lost, the wait interrupted, or the deadline found to be over:
\* chunks settles before the error leaves it.
ReadFails ==
    /\ phase = "reading"
    /\ \E e \in {"transport", Interruption} \cup (IF overdue THEN {"budget"} ELSE {}) :
          Fail(e) /\ SettleFailure(e)
    /\ UNCHANGED <<source, overdue, trial, taken, sunk, response, consumed>>

\* Mutant of DigestChunk: the limit is compared with the size before the chunk.
DigestChunkLate ==
    /\ phase = "chunk"
    /\ IF taken - 1 > MaxBytes \/ taken = garbled
       THEN Fail("other") /\ UNCHANGED sunk
       ELSE /\ sunk' = taken
            /\ \/ phase' = "reading" /\ UNCHANGED error
               \/ \E e \in {"other", Interruption} : Fail(e)
    /\ UNCHANGED <<source, overdue, trial, verdicts, taken, response, guardState, events>>

\* _digest_stream_chunk: the limit, the decoder, then the sink.
DigestChunk ==
    /\ phase = "chunk"
    /\ IF taken > MaxBytes \/ taken = garbled
       THEN Fail("other") /\ UNCHANGED sunk
       ELSE /\ sunk' = taken
            /\ \/ phase' = "reading" /\ UNCHANGED error
               \/ \E e \in {"other", Interruption} : Fail(e)
    /\ UNCHANGED <<source, overdue, trial, verdicts, taken, response, guardState, events>>

\* The transport has no more chunks; a character cut off at the end is an error.
EndOfStream ==
    /\ phase = "reading" /\ taken = length /\ ~overdue
    /\ consumed' = TRUE
    /\ IF garbled = length + 1 THEN Fail("other") ELSE phase' = "closing" /\ UNCHANGED error
    /\ UNCHANGED <<source, overdue, trial, verdicts, taken, sunk, response, settled, events>>

\* Mutant of ReportFailure: the response is closed first, and its close settles
\* the stream as closed before completion.
ReportAfterClose ==
    /\ phase = "failing"
    /\ phase' = "abandon"
    /\ SettleFailure(IF consumed THEN error ELSE "other")
    /\ UNCHANGED <<source, overdue, trial, taken, sunk, response, consumed, error>>

\* _report_*_stream_failure, before anything is closed.
ReportFailure ==
    /\ phase = "failing"
    /\ phase' = "abandon"
    /\ SettleFailure(error)
    /\ UNCHANGED <<source, overdue, trial, taken, sunk, response, consumed, error>>

\* _finish_*_stream_failure: whatever closing raises, the error stays the first one.
\* The guard's close settles what nobody has settled.
CloseFailed ==
    /\ phase = "abandon"
    /\ response' = "closed"
    /\ IF consumed THEN UNCHANGED <<settled, verdicts, events>> ELSE SettleFailure("other")
    /\ Throw(error)
    /\ UNCHANGED <<source, overdue, trial, taken, sunk, consumed>>

\* close, on a stream that was read to its end.  The synchronous guard lets an
\* interrupt pass without settling.
CloseConsumed ==
    /\ phase = "closing"
    /\ response' = "closed"
    /\ \/ phase' = "completing" /\ UNCHANGED <<settled, verdicts, events, error>>
       \/ \E e \in {"transport", "other", Interruption} :
             /\ Throw(e)
             /\ IF e = "interrupt" THEN UNCHANGED <<settled, verdicts, events>> ELSE SettleFailure(e)
    /\ UNCHANGED <<source, overdue, trial, taken, sunk, consumed>>

\* settle_success: the deadline has the last word.
Complete ==
    /\ phase = "completing"
    /\ IF overdue
       THEN Throw("budget") /\ SettleFailure("budget")
       ELSE /\ settled' = TRUE
            /\ verdicts' = Append(verdicts, "success")
            /\ Emit("succeeded")
            /\ phase' = "returned" /\ UNCHANGED error
    /\ UNCHANGED <<source, overdue, trial, taken, sunk, response, consumed>>

ExportEnded == phase \in {"returned", "raised"}

\* The monitor is started with the request.
ExportDeadlinePasses ==
    /\ phase # "start" /\ ~ExportEnded /\ ~overdue
    /\ overdue' = TRUE
    /\ UNCHANGED <<source, phase, trial, verdicts, taken, sunk, response, guardState, error, events>>

ExportStep ==
    \/ PreludeFails \/ Admit \/ SendFails \/ Respond \/ CloseRejected \/ SettleRedirect
    \/ CheckMediaType \/ ReadChunk \/ ReadFails \/ DigestChunk \/ EndOfStream
    \/ ReportFailure \/ CloseFailed \/ CloseConsumed \/ Complete

ExportNext == ExportStep \/ ExportDeadlinePasses

-----------------------------------------------------------------------------
(* Properties                                                               *)

ExportTypeOK ==
    /\ style \in {"sync", "async"}
    /\ phase \in {"start", "send", "opened", "redirect", "rejected", "reading", "chunk", "failing",
                  "abandon", "closing", "completing", "returned", "raised"}
    /\ overdue \in BOOLEAN /\ trial \in BOOLEAN
    /\ verdicts \in Seq({"success", "failure"}) /\ Len(verdicts) <= 1
    /\ length \in 0..MaxChunks /\ garbled \in 0..(length + 1)
    /\ taken \in 0..length /\ sunk \in 0..taken
    /\ response \in {"none", "open", "closed"}
    /\ settled \in BOOLEAN /\ consumed \in BOOLEAN
    /\ error \in {"none", "budget", "transport", "cancelled", "interrupt", "other"}
    /\ events \in Seq({"budget_exhausted", "cancelled", "failed", "breaker_open", "succeeded"})

\* No export goes unreported or is reported twice.  However it ended, one outcome event has
\* been emitted, it says what the caller saw, the response is closed, the trial
\* of the circuit is given back and the circuit heard at most one verdict.  The
\* code is silent in two cases only: send raised something other than a
\* TransportError, and an interrupt hit the close of a complete stream.  It misnames
\* one: an export cancelled while it closes a redirect is reported as failed.
OutcomeMatchesResult ==
    /\ ExportTypeOK
    /\ ExportEnded =>
         /\ response # "open" /\ ~trial
         /\ IF phase = "returned" THEN events = <<"succeeded">>
            ELSE \/ events \in {<<Outcome(error)>>, <<"breaker_open">>}
                 \/ /\ events = <<"failed">> /\ error = "cancelled"
                    /\ verdicts = <<"success">> /\ ~settled
                 \/ /\ events = <<>>
                    /\ \/ response = "none" /\ error # "transport"
                       \/ consumed /\ error = "interrupt"

\* A document is returned only for a body that the transport yielded to its end,
\* that decodes, stays within the limit, has been passed to the sink chunk for
\* chunk, and was finished before the deadline; and only such a body is reported
\* to the circuit as a success.
SucceededIsWhole ==
    settled /\ (phase = "returned" \/ verdicts = <<"success">>) =>
        /\ phase = "returned" /\ consumed /\ response = "closed"
        /\ sunk = length /\ length <= MaxBytes /\ garbled = 0
        /\ ~overdue
=============================================================================
