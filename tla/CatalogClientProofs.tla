------------------------ MODULE CatalogClientProofs ------------------------
(***************************************************************************)
(* Proofs about the calls of a client: waits for a job (JobWait), streamed *)
(* exports (ExportStream) and the operations of the services               *)
(* (CatalogCalls).  A behaviour of the client is one of these calls, so    *)
(* each has an invariant of its own, over variables the others leave alone.*)
(***************************************************************************)
EXTENDS MCCatalogCalls, TLAPS

-----------------------------------------------------------------------------
(* A wait for a job                                                         *)

\* What is true of every handle the caller or the wait has: it counts no more polls
\* than the lease has, ended work is neither invented nor abandoned, and what ended an
\* abandoned lease, the time or the ceiling, can be told from its polls.
HandleOK(h) ==
    /\ h.polls <= MaxPolls
    /\ Terminal(h) => Remote = "done" /\ ~h.abandoned
    /\ h.exhausted => h.abandoned
    /\ h.abandoned => (h.exhausted <=> h.polls < MaxPolls)

\* The polls of a wait are in its handle, but for the one on its way.
PollsInv ==
    /\ at = "step" =>
          /\ handle.polls = given.polls + asked /\ (asked = 0 => handle = given)
          /\ handle.abandoned => given.abandoned
    /\ at \in {"sleep", "poll"} => handle.polls = given.polls + asked
    /\ at = "flight" => handle.polls + 1 = given.polls + asked /\ asked > 0
    /\ at \in {"sleep", "poll", "flight"} =>
          /\ ~handle.abandoned /\ ~Terminal(handle) /\ handle.polls < MaxPolls
          /\ ~given.abandoned /\ ~Terminal(given)
    /\ at = "returned" => handle.abandoned \/ Terminal(handle)

\* A record is the one the status of the handle came from.
RecordInv == at # "raised" /\ record # "none" => record = handle.status

\* A wait that ran out of time had none left for another poll.
TimeInv == at = "returned" /\ handle.exhausted /\ ~given.abandoned => left <= interval

WaitInv ==
    /\ WaitTypeOK /\ HandleOK(given) /\ HandleOK(handle)
    /\ PollsInv /\ RecordInv /\ TimeInv /\ LeaseIsHonoured

\* An observation counts as one poll and says what the poll read.
LEMMA ObservedFacts ==
    ASSUME NEW h \in Handles, NEW s \in Statuses
    PROVE  /\ Observed(h, s) \in Handles /\ Observed(h, s).polls = h.polls + 1
           /\ Observed(h, s).status = s
           /\ Observed(h, s).abandoned = h.abandoned /\ Observed(h, s).exhausted = h.exhausted
<1>1. h.polls + 1 \in Nat BY DEF Handles
<1>2. Observed(h, s) \in Handles BY <1>1 DEF Handles, Observed
<1>3. Observed(h, s).polls = h.polls + 1 /\ Observed(h, s).status = s BY DEF Handles, Observed
<1>4. Observed(h, s).abandoned = h.abandoned BY DEF Handles, Observed
<1>5. Observed(h, s).exhausted = h.exhausted BY DEF Handles, Observed
<1> QED BY <1>2, <1>3, <1>4, <1>5

\* An abandoned lease keeps its polls and its status.
LEMMA AbandonedFacts ==
    ASSUME NEW h \in Handles, NEW b \in BOOLEAN
    PROVE  /\ AbandonedLease(h, b) \in Handles /\ AbandonedLease(h, b).polls = h.polls
           /\ AbandonedLease(h, b).status = h.status
           /\ AbandonedLease(h, b).abandoned = TRUE /\ AbandonedLease(h, b).exhausted = b
<1>1. AbandonedLease(h, b) \in Handles /\ AbandonedLease(h, b).exhausted = b BY DEF Handles, AbandonedLease
<1>2. /\ AbandonedLease(h, b).polls = h.polls /\ AbandonedLease(h, b).status = h.status
      /\ AbandonedLease(h, b).abandoned = TRUE
      BY DEF Handles, AbandonedLease
<1> QED BY <1>1, <1>2

\* A wait starts with a handle that has taken no poll.
LEMMA WaitInitInv == WaitInit => WaitInv
<1> SUFFICES ASSUME WaitInit PROVE WaitInv OBVIOUS
<1> USE WaitAssumption
<1>1. /\ NewHandle \in Handles /\ NewHandle.polls = 0 /\ NewHandle.status = "pending"
      /\ ~NewHandle.abandoned /\ ~NewHandle.exhausted
      BY DEF NewHandle, Handles, Statuses
<1>2. WaitTypeOK BY <1>1 DEF WaitInit, WaitTypeOK, Statuses
<1>3. HandleOK(given) /\ HandleOK(handle) BY <1>1 DEF WaitInit, HandleOK, Terminal
<1>4. PollsInv /\ RecordInv /\ TimeInv /\ LeaseIsHonoured BY <1>1 DEF WaitInit, PollsInv, RecordInv, TimeInv, LeaseIsHonoured
<1> QED BY <1>2, <1>3, <1>4 DEF WaitInv

\* Every step of a wait, and of the job, keeps what handles say.
LEMMA WaitStepInv == WaitInv /\ [WaitNext]_waitVars => WaitInv'
<1> SUFFICES ASSUME WaitInv, [WaitNext]_waitVars PROVE WaitInv' OBVIOUS
<1> USE WaitAssumption
<1>0. WaitTypeOK /\ HandleOK(given) /\ HandleOK(handle) /\ PollsInv /\ RecordInv /\ TimeInv /\ LeaseIsHonoured
      BY DEF WaitInv
<1>t. handle \in Handles /\ given \in Handles /\ Remote \in Statuses BY <1>0 DEF WaitTypeOK, Remote, Statuses
<1>p. /\ handle.polls \in Nat /\ given.polls \in Nat /\ handle.status \in Statuses
      /\ handle.abandoned \in BOOLEAN /\ handle.exhausted \in BOOLEAN BY <1>t DEF Handles
<1>1. CASE Wait
      BY <1>0, <1>t, <1>p, <1>1 DEF Wait, WaitInv, WaitTypeOK, HandleOK, PollsInv, RecordInv, TimeInv, LeaseIsHonoured, Remote, Terminal
<1>2. CASE WaitStep
  <2>1. CASE (Terminal(handle) \/ handle.abandoned) /\ Stop(handle)
        BY <1>0, <1>t, <1>p, <1>2, <2>1 DEF WaitStep, Stop, WaitInv, WaitTypeOK, HandleOK, PollsInv, RecordInv, TimeInv, LeaseIsHonoured, Remote, Terminal
  <2>2. ASSUME NEW b \in BOOLEAN, ~Terminal(handle), ~handle.abandoned, Stop(AbandonedLease(handle, b)),
               b <=> handle.polls < MaxPolls, b => left <= interval
        PROVE  WaitInv'
    <3>1. /\ at = "step" /\ handle' = AbandonedLease(handle, b) /\ at' = "returned"
          /\ UNCHANGED <<job, named, interval, given, record, left, asked, waits>>
          BY <1>2, <2>2 DEF WaitStep, Stop
    <3>2. /\ handle' \in Handles /\ handle'.polls = handle.polls /\ handle'.status = handle.status
          /\ handle'.abandoned = TRUE /\ handle'.exhausted = b
          BY <1>t, <2>2, <3>1, AbandonedFacts
    <3>3. HandleOK(handle)' /\ TimeInv' BY <1>0, <1>p, <2>2, <3>1, <3>2 DEF HandleOK, TimeInv, Remote, Terminal
    <3> QED BY <1>0, <1>t, <1>p, <2>2, <3>1, <3>2, <3>3 DEF WaitInv, WaitTypeOK, HandleOK, PollsInv, RecordInv, TimeInv, LeaseIsHonoured, Remote, Terminal
  <2>3. CASE ~Terminal(handle) /\ ~handle.abandoned /\ ~(handle.polls >= MaxPolls) /\ at' = "sleep" /\ UNCHANGED handle
        BY <1>0, <1>t, <1>p, <1>2, <2>3 DEF WaitStep, WaitInv, WaitTypeOK, HandleOK, PollsInv, RecordInv, TimeInv, LeaseIsHonoured, Remote, Terminal
  <2>4. CASE Terminal(handle) \/ handle.abandoned BY <1>2, <2>1, <2>4 DEF WaitStep
  <2>5. CASE ~Terminal(handle) /\ ~handle.abandoned /\ handle.polls >= MaxPolls
    <3>1. Stop(AbandonedLease(handle, FALSE)) BY <1>2, <2>5 DEF WaitStep
    <3>2. ~(handle.polls < MaxPolls) BY <1>p, <2>5
    <3> QED BY <2>2, <2>5, <3>1, <3>2
  <2>6. CASE ~Terminal(handle) /\ ~handle.abandoned /\ ~(handle.polls >= MaxPolls) /\ interval >= left
    <3>1. Stop(AbandonedLease(handle, TRUE)) BY <1>2, <2>6 DEF WaitStep
    <3>2. handle.polls < MaxPolls /\ left <= interval BY <1>0, <1>p, <2>6 DEF WaitTypeOK
    <3> QED BY <2>2, <2>6, <3>1, <3>2
  <2>7. CASE ~Terminal(handle) /\ ~handle.abandoned /\ ~(handle.polls >= MaxPolls) /\ ~(interval >= left)
    <3>1. at' = "sleep" /\ UNCHANGED handle BY <1>2, <2>7 DEF WaitStep
    <3> QED BY <2>3, <2>7, <3>1
  <2> QED BY <2>4, <2>5, <2>6, <2>7
<1>3. CASE Sleep
  <2>1. /\ at = "sleep" /\ at' = "poll"
        /\ UNCHANGED <<job, named, interval, given, handle, record, asked, waits>> BY <1>3 DEF Sleep
  <2>2. left' \in 0..Budget BY <1>0, <1>3 DEF Sleep, Spend, WaitTypeOK
  <2> QED BY <1>0, <1>t, <1>p, <2>1, <2>2 DEF WaitInv, WaitTypeOK, HandleOK, PollsInv, RecordInv, TimeInv, LeaseIsHonoured, Remote, Terminal
<1>4. CASE Poll
  <2>1. CASE left = 0
    <3>1. /\ at = "poll" /\ handle' = AbandonedLease(handle, TRUE) /\ at' = "returned"
          /\ UNCHANGED <<job, named, interval, given, record, left, asked, waits>>
          BY <1>4, <2>1 DEF Poll, Stop
    <3>2. /\ handle' \in Handles /\ handle'.polls = handle.polls /\ handle'.status = handle.status
          /\ handle'.abandoned = TRUE /\ handle'.exhausted = TRUE
          BY <1>t, <3>1, AbandonedFacts
    <3>3. handle.polls < MaxPolls /\ ~Terminal(handle) BY <1>0, <3>1 DEF PollsInv
    <3>4. HandleOK(handle)' BY <1>0, <1>p, <3>2, <3>3 DEF HandleOK, Terminal
    <3>5. TimeInv' BY <1>0, <2>1, <3>1 DEF TimeInv, WaitTypeOK
    <3> QED BY <1>0, <1>t, <1>p, <3>1, <3>2, <3>4, <3>5 DEF WaitInv, WaitTypeOK, HandleOK, PollsInv, RecordInv, LeaseIsHonoured, Remote, Terminal
  <2>2. CASE left # 0
    <3>1. /\ at = "poll" /\ at' = "flight" /\ asked' = IF asked > MaxPolls THEN asked ELSE asked + 1
          /\ UNCHANGED <<job, named, interval, given, handle, record, left, waits>>
          BY <1>4, <2>2 DEF Poll
    <3>2. asked' = asked + 1 /\ handle.polls = given.polls + asked /\ handle.polls < MaxPolls
          BY <1>0, <1>p, <3>1 DEF PollsInv, WaitTypeOK
    <3> QED BY <1>0, <1>t, <1>p, <3>1, <3>2 DEF WaitInv, WaitTypeOK, HandleOK, PollsInv, RecordInv, TimeInv, LeaseIsHonoured, Remote, Terminal
  <2> QED BY <2>1, <2>2
<1>5. CASE PollAnswered
  <2>1. at = "flight" /\ left' \in 0..Budget /\ UNCHANGED <<job, named, interval, given, asked, waits>>
        BY <1>0, <1>5 DEF PollAnswered, Spend, WaitTypeOK
  <2>2. CASE Stop(AbandonedLease(handle, TRUE)) /\ UNCHANGED record /\ left' = 0
    <3>1. handle' = AbandonedLease(handle, TRUE) /\ at' = "returned" BY <2>2 DEF Stop
    <3>2. /\ handle' \in Handles /\ handle'.polls = handle.polls /\ handle'.status = handle.status
          /\ handle'.abandoned = TRUE /\ handle'.exhausted = TRUE
          BY <1>t, <3>1, AbandonedFacts
    <3>3. handle.polls < MaxPolls /\ ~Terminal(handle) BY <1>0, <2>1 DEF PollsInv
    <3>4. HandleOK(handle)' BY <1>0, <1>p, <3>2, <3>3 DEF HandleOK, Terminal
    <3>5. TimeInv' BY <1>0, <2>1, <2>2 DEF TimeInv, WaitTypeOK
    <3> QED BY <1>0, <1>t, <1>p, <2>1, <2>2, <3>1, <3>2, <3>4, <3>5 DEF WaitInv, WaitTypeOK, HandleOK, PollsInv, RecordInv, LeaseIsHonoured, Remote, Terminal
  <2>3. CASE at' = "step" /\ handle' = Observed(handle, Remote) /\ record' = Remote
    <3>1. /\ handle' \in Handles /\ handle'.polls = handle.polls + 1 /\ handle'.status = Remote
          /\ handle'.abandoned = handle.abandoned /\ handle'.exhausted = handle.exhausted
          BY <1>t, <2>3, ObservedFacts
    <3>2. asked > 0 /\ ~handle.abandoned /\ Remote' = Remote BY <1>0, <1>p, <2>1 DEF PollsInv, Remote, WaitTypeOK, LeaseIsHonoured
    <3> QED BY <1>0, <1>t, <1>p, <2>1, <2>3, <3>1, <3>2 DEF WaitInv, WaitTypeOK, HandleOK, PollsInv, RecordInv, TimeInv, LeaseIsHonoured, Remote, Terminal
  <2>4. PICK d \in 0..MaxDelay :
           /\ Spend(d)
           /\ IF d >= left
              THEN Stop(AbandonedLease(handle, TRUE)) /\ UNCHANGED record
              ELSE at' = "step" /\ handle' = Observed(handle, Remote) /\ record' = Remote
        BY <1>5 DEF PollAnswered
  <2>5. d >= left => left' = 0 BY <1>0, <2>4 DEF Spend, WaitTypeOK
  <2> QED BY <2>2, <2>3, <2>4, <2>5
<1>6. CASE WaitRaises
      BY <1>0, <1>t, <1>p, <1>6 DEF WaitRaises, WaitInv, WaitTypeOK, HandleOK, PollsInv, RecordInv, TimeInv, LeaseIsHonoured, Remote, Terminal
<1>7. CASE JobAdvances
      BY <1>0, <1>t, <1>p, <1>7 DEF JobAdvances, WaitInv, WaitTypeOK, HandleOK, PollsInv, RecordInv, TimeInv, LeaseIsHonoured, Remote, Terminal, Statuses
<1>8. CASE UNCHANGED waitVars
      BY <1>0, <1>8 DEF waitVars, WaitInv, WaitTypeOK, HandleOK, PollsInv, RecordInv, TimeInv, LeaseIsHonoured, Remote, Terminal
<1> QED BY <1>1, <1>2, <1>3, <1>4, <1>5, <1>6, <1>7, <1>8 DEF WaitNext, WaitProgress

\* What a handle records of its waits agrees with them, over any number of waits.
LEMMA WaitInvariance == ClientSpec => []WaitInv
<1>1. ClientInit => WaitInv BY WaitInitInv DEF ClientInit
<1>2. WaitInv /\ [ClientNext]_clientVars => WaitInv'
  <2>1. [ClientNext]_clientVars => [WaitNext]_waitVars BY DEF ClientNext, Service, Export, Waiting, clientVars
  <2> QED BY <2>1, WaitStepInv
<1> QED BY <1>1, <1>2, PTL DEF ClientSpec

\* A lease is finite over all its waits (LeaseIsHonoured).
THEOREM LeasesAreHonoured == ClientSpec => []LeaseIsHonoured
<1>1. WaitInv => LeaseIsHonoured BY DEF WaitInv
<1> QED BY <1>1, WaitInvariance, PTL

\* A result never lets outstanding work go unnoticed and tells why the wait ended, over
\* any number of waits on one handle (WaitReportsTruth).
THEOREM WaitsTellTheTruth == ClientSpec => []WaitReportsTruth
<1>1. WaitInv => WaitReportsTruth
  <2> SUFFICES ASSUME WaitInv PROVE WaitReportsTruth OBVIOUS
  <2>1. handle.abandoned \in BOOLEAN BY DEF WaitInv, WaitTypeOK, Handles
  <2> QED BY <2>1 DEF WaitInv, WaitReportsTruth, PollsInv, RecordInv, TimeInv, HandleOK, Terminal
<1> QED BY <1>1, WaitInvariance, PTL

-----------------------------------------------------------------------------
(* A streamed export                                                        *)

\* Nothing has been reported, and nothing is on its way to the caller.
Quiet == ~settled /\ error = "none" /\ events = <<>>

\* Everything read so far was within the limit, readable and passed to the sink.
Digested(n) == sunk = n /\ n <= MaxBytes /\ garbled \notin 1..n

\* Before and while the response is opened.
OpeningInv ==
    /\ verdicts \in {<<>>, <<"success">>, <<"failure">>}
    /\ phase \in {"start", "send"} => Quiet /\ verdicts = <<>> /\ response = "none" /\ ~consumed
    /\ phase \notin {"start", "send"} => ~trial
    /\ phase = "start" => ~trial
    /\ phase \in {"start", "send", "opened", "redirect", "rejected"} => taken = 0 /\ sunk = 0 /\ ~consumed
    /\ phase \in {"opened", "redirect"} => Quiet /\ response = "open"
    /\ phase = "opened" => verdicts = <<>>
    /\ phase = "redirect" => verdicts = <<"success">>
    /\ phase = "rejected" => ~settled /\ error = "other" /\ events = <<"failed">> /\ response = "open"

\* While its body is read and the stream closed.
ReadingInv ==
    /\ phase \in {"reading", "chunk", "closing", "completing"} => Quiet /\ verdicts = <<>>
    /\ phase \in {"reading", "chunk"} => response = "open" /\ ~consumed
    /\ phase = "reading" => Digested(taken)
    /\ phase = "chunk" => taken > 0 /\ Digested(taken - 1)
    /\ phase \in {"closing", "completing"} => taken = length /\ Digested(length) /\ garbled = 0 /\ consumed
    /\ phase = "closing" => response = "open"
    /\ phase = "completing" => response = "closed"

\* Once it has failed: the first report counts, and is of the error the caller gets.
FailingInv ==
    /\ phase \in {"failing", "abandon"} =>
          /\ response = "open" /\ error # "none" /\ verdicts \in {<<>>, <<"failure">>}
          /\ IF settled THEN events = <<Outcome(error)>> ELSE events = <<>> /\ verdicts = <<>>
    /\ phase = "abandon" => settled
    /\ phase = "raised" => error # "none" /\ (settled => verdicts # <<"success">>)

ExportInv ==
    ExportTypeOK /\ OpeningInv /\ ReadingInv /\ FailingInv /\ OutcomeMatchesResult /\ SucceededIsWhole

\* What appending to, and joining, the empty sequence gives.
LEMMA EmptyFacts ==
    /\ \A x : Append(<<>>, x) = <<x>> /\ Len(<<x>>) = 1 /\ <<x>> # <<>>
    /\ \A x, y : <<x>> = <<y>> => x = y
    /\ Len(<<>>) = 0
    /\ \A x, S : x \in S => <<x>> \in Seq(S)
    /\ \A S : <<>> \in Seq(S)
<1>1. ASSUME NEW x PROVE Append(<<>>, x) = <<x>> OBVIOUS
<1>2. ASSUME NEW x PROVE Len(<<x>>) = 1 /\ <<x>> # <<>> OBVIOUS
<1>3. ASSUME NEW x, NEW y, <<x>> = <<y>> PROVE x = y BY <1>3
<1>4. ASSUME NEW x, NEW S, x \in S PROVE <<x>> \in Seq(S) BY <1>4
<1>5. Len(<<>>) = 0 /\ \A S : <<>> \in Seq(S) OBVIOUS
<1> QED BY <1>1, <1>2, <1>3, <1>4, <1>5

\* An export starts quiet.
LEMMA ExportInitInv == ExportInit => ExportInv
<1> SUFFICES ASSUME ExportInit PROVE ExportInv OBVIOUS
<1> USE ExportAssumption
<1>1. verdicts \in Seq({"success", "failure"}) /\ Len(verdicts) = 0
      BY EmptyFacts DEF ExportInit
<1>2. events \in Seq({"budget_exhausted", "cancelled", "failed", "breaker_open", "succeeded"})
      BY EmptyFacts DEF ExportInit
<1>b. trial \in BOOLEAN /\ overdue \in BOOLEAN /\ settled \in BOOLEAN /\ consumed \in BOOLEAN
      BY DEF ExportInit
<1>3. ExportTypeOK BY <1>1, <1>2, <1>b DEF ExportInit, ExportTypeOK
<1>4. OpeningInv /\ ReadingInv /\ FailingInv
      BY DEF ExportInit, OpeningInv, ReadingInv, FailingInv, Quiet
<1>5. OutcomeMatchesResult /\ SucceededIsWhole
      BY <1>3 DEF ExportInit, OutcomeMatchesResult, SucceededIsWhole, ExportEnded
<1> QED BY <1>3, <1>4, <1>5 DEF ExportInv
Errors == {"budget", "transport", "cancelled", "interrupt", "other"}

\* The sequences an export's reports can be, and what an error is reported as.
LEMMA ReportFacts ==
    /\ \A v \in {<<>>, <<"success">>, <<"failure">>} : v \in Seq({"success", "failure"}) /\ Len(v) <= 1
    /\ \A o \in {"budget_exhausted", "cancelled", "failed", "breaker_open", "succeeded"} :
          <<o>> \in Seq({"budget_exhausted", "cancelled", "failed", "breaker_open", "succeeded"})
    /\ <<>> \in Seq({"budget_exhausted", "cancelled", "failed", "breaker_open", "succeeded"})
    /\ \A e : Outcome(e) \in {"budget_exhausted", "cancelled", "failed"}
<1>1. \A v \in {<<>>, <<"success">>, <<"failure">>} : v \in Seq({"success", "failure"}) /\ Len(v) <= 1
  <2>1. /\ <<>> \in Seq({"success", "failure"}) /\ <<"success">> \in Seq({"success", "failure"})
        /\ <<"failure">> \in Seq({"success", "failure"})
        BY EmptyFacts
  <2>2. Len(<<>>) <= 1 /\ Len(<<"success">>) <= 1 /\ Len(<<"failure">>) <= 1 BY EmptyFacts
  <2> SUFFICES ASSUME NEW v \in {<<>>, <<"success">>, <<"failure">>}
               PROVE  v \in Seq({"success", "failure"}) /\ Len(v) <= 1
        OBVIOUS
  <2>3. CASE v = <<>> BY <2>1, <2>2, <2>3
  <2>4. CASE v = <<"success">> BY <2>1, <2>2, <2>4
  <2>5. CASE v = <<"failure">> BY <2>1, <2>2, <2>5
  <2> QED BY <2>3, <2>4, <2>5
<1>2. \A e : Outcome(e) \in {"budget_exhausted", "cancelled", "failed"} BY DEF Outcome
<1> QED BY <1>1, <1>2, EmptyFacts

\* The call raises: every report so far, or none where the code has none, fits.
LEMMA RaisedStep ==
    ASSUME ExportInv, UNCHANGED <<style, length, garbled, overdue, taken, sunk, consumed>>,
           phase' = "raised", trial' = FALSE, response' \in {"none", "closed"}, settled' \in BOOLEAN,
           error' \in Errors, verdicts' \in {<<>>, <<"success">>, <<"failure">>},
           settled' => verdicts' # <<"success">>,
           \/ events' \in {<<Outcome(error')>>, <<"breaker_open">>}
           \/ /\ events' = <<"failed">> /\ error' = "cancelled"
              /\ verdicts' = <<"success">> /\ ~settled'
           \/ /\ events' = <<>>
              /\ \/ response' = "none" /\ error' # "transport"
                 \/ consumed' /\ error' = "interrupt"
    PROVE  ExportInv'
<1>0. ExportTypeOK BY DEF ExportInv
<1>1. /\ events' \in Seq({"budget_exhausted", "cancelled", "failed", "breaker_open", "succeeded"})
      /\ verdicts' \in Seq({"success", "failure"}) /\ Len(verdicts') <= 1
      BY ReportFacts
<1>b. trial' \in BOOLEAN OBVIOUS
<1>2. ExportTypeOK' BY <1>0, <1>1, <1>b DEF ExportTypeOK, Errors
<1>3. OpeningInv' /\ ReadingInv' /\ FailingInv' BY DEF OpeningInv, ReadingInv, FailingInv, Errors
<1>4. SucceededIsWhole' BY DEF SucceededIsWhole
<1>5. OutcomeMatchesResult' BY <1>2 DEF OutcomeMatchesResult, ExportEnded
<1> QED BY <1>2, <1>3, <1>4, <1>5 DEF ExportInv

\* The guard has settled an error that is about to leave.
LEMMA SettledStep ==
    ASSUME ExportInv, UNCHANGED <<style, length, garbled, overdue, taken, sunk, consumed, response, trial>>,
           phase \in {"reading", "failing"}, phase' \in {"failing", "abandon"}, settled' = TRUE,
           error' \in Errors, verdicts' \in {<<>>, <<"failure">>}, events' = <<Outcome(error')>>
    PROVE  ExportInv'
<1>0. ExportTypeOK /\ OpeningInv /\ ReadingInv /\ FailingInv BY DEF ExportInv
<1>1. /\ events' \in Seq({"budget_exhausted", "cancelled", "failed", "breaker_open", "succeeded"})
      /\ verdicts' \in Seq({"success", "failure"}) /\ Len(verdicts') <= 1
      BY ReportFacts
<1>b. settled' \in BOOLEAN OBVIOUS
<1>2. ExportTypeOK' BY <1>0, <1>1, <1>b DEF ExportTypeOK, Errors
<1>3. OpeningInv' /\ ReadingInv' /\ FailingInv' BY <1>0, EmptyFacts DEF OpeningInv, ReadingInv, FailingInv, Errors
<1>4. SucceededIsWhole' BY EmptyFacts DEF SucceededIsWhole
<1>5. OutcomeMatchesResult' BY <1>2 DEF OutcomeMatchesResult, ExportEnded
<1> QED BY <1>2, <1>3, <1>4, <1>5 DEF ExportInv

\* settle_failure reports once.
LEMMA SettleFailureFacts ==
    ASSUME NEW e, SettleFailure(e), settled \in BOOLEAN
    PROVE  /\ settled => UNCHANGED <<settled, verdicts, events>>
           /\ ~settled => /\ settled' = TRUE /\ events' = Append(events, Outcome(e))
                          /\ verdicts' = IF e = "transport" THEN Append(verdicts, "failure") ELSE verdicts
BY DEF SettleFailure, Emit

\* Every step of an export keeps what it knows, reports and has passed on.
LEMMA ExportStepInv == ExportInv /\ [ExportNext]_exportVars => ExportInv'
<1> SUFFICES ASSUME ExportInv, [ExportNext]_exportVars PROVE ExportInv' OBVIOUS
<1> USE ExportAssumption
<1>0. ExportTypeOK /\ OpeningInv /\ ReadingInv /\ FailingInv /\ OutcomeMatchesResult /\ SucceededIsWhole
      BY DEF ExportInv
<1>i. Interruption \in Errors /\ Interruption # "transport" BY DEF Interruption, Errors
<1>t. settled \in BOOLEAN /\ consumed \in BOOLEAN BY <1>0 DEF ExportTypeOK
<1>1. CASE PreludeFails
  <2>1. PICK e \in {"budget", "other", Interruption} : Emit(Outcome(e)) /\ Throw(e) BY <1>1 DEF PreludeFails
  <2>2. Quiet /\ verdicts = <<>> /\ response = "none" /\ ~trial BY <1>0, <1>1 DEF PreludeFails, OpeningInv
  <2>3. error' = e /\ error' \in Errors /\ phase' = "raised" /\ events' = <<Outcome(e)>>
        BY <1>i, <2>1, <2>2, EmptyFacts DEF Emit, Throw, Quiet, Errors
  <2>4. UNCHANGED <<style, length, garbled, overdue, trial, verdicts, taken, sunk, response, settled, consumed>>
        BY <1>1 DEF PreludeFails, source, guardState
  <2>5. trial' = FALSE /\ settled' = FALSE BY <1>0, <2>2, <2>4 DEF ExportTypeOK, Quiet
  <2> QED BY <1>0, <2>2, <2>3, <2>4, <2>5, RaisedStep
<1>2. CASE Admit
  <2>1. Quiet /\ verdicts = <<>> /\ response = "none" /\ ~trial /\ phase = "start" BY <1>0, <1>2 DEF Admit, OpeningInv
  <2>2. UNCHANGED <<style, length, garbled, overdue, verdicts, taken, sunk, response, settled, consumed>>
        BY <1>2 DEF Admit, source, guardState
  <2>3. CASE Emit("breaker_open") /\ Throw("other") /\ UNCHANGED trial
    <3>1. error' = "other" /\ error' \in Errors /\ phase' = "raised" /\ events' = <<"breaker_open">>
          BY <2>1, <2>3, EmptyFacts DEF Emit, Throw, Quiet, Errors
    <3>2. trial' = FALSE /\ settled' = FALSE BY <1>0, <2>1, <2>2, <2>3 DEF ExportTypeOK, Quiet
    <3> QED BY <2>1, <2>2, <3>1, <3>2, RaisedStep
  <2>4. CASE phase' = "send" /\ trial' \in BOOLEAN /\ UNCHANGED <<error, events>>
    <3>1. ExportTypeOK' BY <1>0, <2>2, <2>4 DEF ExportTypeOK
    <3>2. OpeningInv' /\ ReadingInv' /\ FailingInv'
          BY <1>0, <2>1, <2>2, <2>4 DEF OpeningInv, ReadingInv, FailingInv, Quiet
    <3> QED BY <2>1, <2>2, <2>4, <3>1, <3>2
            DEF ExportInv, OutcomeMatchesResult, SucceededIsWhole, ExportEnded, Quiet
  <2> QED BY <1>2, <2>3, <2>4 DEF Admit
<1>3. CASE SendFails
  <2>1. Quiet /\ verdicts = <<>> /\ response = "none" BY <1>0, <1>3 DEF SendFails, OpeningInv
  <2>2. PICK e \in {"transport", "other", Interruption} \cup (IF overdue THEN {"budget"} ELSE {}) :
           /\ Throw(e)
           /\ IF e = "transport" THEN verdicts' = Append(verdicts, "failure") /\ Emit("failed")
                                 ELSE UNCHANGED <<verdicts, events>>
        BY <1>3 DEF SendFails
  <2>3. error' = e /\ error' \in Errors /\ phase' = "raised" BY <1>i, <2>2 DEF Throw, Errors
  <2>4. IF e = "transport" THEN verdicts' = <<"failure">> /\ events' = <<Outcome(e)>>
                           ELSE verdicts' = <<>> /\ events' = <<>>
        BY <2>1, <2>2, EmptyFacts DEF Emit, Quiet, Outcome
  <2>5. UNCHANGED <<style, length, garbled, overdue, taken, sunk, response, settled, consumed>>
        BY <1>3 DEF SendFails, source, guardState
  <2>6. trial' = FALSE /\ settled' = FALSE BY <1>0, <1>3, <2>1, <2>5 DEF SendFails, ExportTypeOK, Quiet
  <2>7. response' \in {"none", "closed"} /\ settled' \in BOOLEAN BY <2>1, <2>5, <2>6
  <2>8. CASE e = "transport" BY <2>3, <2>4, <2>5, <2>6, <2>7, <2>8, RaisedStep
  <2>9. CASE e # "transport"
    <3>1. verdicts' = <<>> /\ events' = <<>> /\ response' = "none" /\ error' # "transport"
          BY <2>1, <2>3, <2>4, <2>5, <2>9
    <3>2. verdicts' \in {<<>>, <<"success">>, <<"failure">>} BY <3>1
    <3>3. settled' => verdicts' # <<"success">> BY <2>6
    <3>4. \/ events' \in {<<Outcome(error')>>, <<"breaker_open">>}
          \/ /\ events' = <<>>
             /\ \/ response' = "none" /\ error' # "transport"
                \/ consumed' /\ error' = "interrupt"
          BY <3>1
    <3> QED BY <2>3, <2>5, <2>6, <2>7, <3>2, <3>3, <3>4, RaisedStep
  <2> QED BY <2>8, <2>9
<1>4. CASE Respond
  <2>1. Quiet /\ verdicts = <<>> /\ taken = 0 /\ sunk = 0 /\ ~consumed BY <1>0, <1>4 DEF Respond, OpeningInv
  <2>2. PICK status \in {200, 300, 400, 500} :
           /\ verdicts' = verdicts \o Verdict(status)
           /\ \/ status = 200 /\ phase' = "opened" /\ UNCHANGED <<error, events>>
              \/ status = 300 /\ phase' = "redirect" /\ UNCHANGED <<error, events>>
              \/ status # 200 /\ phase' = "rejected" /\ error' = "other" /\ Emit("failed")
        BY <1>4 DEF Respond
  <2>3. /\ verdicts' \in {<<>>, <<"success">>, <<"failure">>} /\ (status = 200 => verdicts' = <<>>)
        /\ status = 300 => verdicts' = <<"success">>
    <3>1. /\ Verdict(status) \in {<<>>, <<"success">>, <<"failure">>} /\ (status = 200 => Verdict(status) = <<>>)
          /\ status = 300 => Verdict(status) = <<"success">>
          BY DEF Verdict
    <3>2. Verdict(status) \in Seq({"success", "failure"}) BY <3>1, ReportFacts
    <3>3. verdicts' = Verdict(status) BY <2>1, <2>2, <3>2
    <3> QED BY <3>1, <3>3
  <2>4. /\ UNCHANGED <<style, length, garbled, overdue, taken, sunk, settled, consumed>>
        /\ response' = "open" /\ trial' = FALSE
        BY <1>4 DEF Respond, source, guardState
  <2>5. phase' = "rejected" => events' = <<"failed">> BY <2>1, <2>2, EmptyFacts DEF Emit, Quiet
  <2>6. /\ phase' \in {"opened", "redirect", "rejected"} /\ error' \in {"none", "other"}
        /\ phase' # "rejected" => UNCHANGED <<error, events>>
        /\ phase' = "rejected" => error' = "other" /\ events' = <<"failed">>
        /\ phase' = "opened" => verdicts' = <<>>
        /\ phase' = "redirect" => verdicts' = <<"success">>
        BY <2>1, <2>2, <2>3, <2>5 DEF Quiet
  <2>7. ExportTypeOK'
    <3>1. verdicts' \in Seq({"success", "failure"}) /\ Len(verdicts') <= 1 BY <2>3, ReportFacts
    <3>2. events' \in Seq({"budget_exhausted", "cancelled", "failed", "breaker_open", "succeeded"})
          BY <2>1, <2>6, ReportFacts DEF Quiet
    <3>3. trial' \in BOOLEAN BY <2>4
    <3> QED BY <1>0, <2>4, <2>6, <3>1, <3>2, <3>3 DEF ExportTypeOK
  <2>8. OpeningInv' /\ ReadingInv' /\ FailingInv'
        BY <1>0, <2>1, <2>3, <2>4, <2>6 DEF OpeningInv, ReadingInv, FailingInv, Quiet
  <2> QED BY <2>1, <2>4, <2>6, <2>7, <2>8
          DEF ExportInv, OutcomeMatchesResult, SucceededIsWhole, ExportEnded, Quiet
<1>5. CASE CloseRejected
  <2>1. /\ UNCHANGED <<style, length, garbled, overdue, trial, verdicts, taken, sunk, settled, consumed, events>>
        /\ response' = "closed" /\ phase' = "raised" /\ error' \in {"other", "interrupt"}
        BY <1>0, <1>5 DEF CloseRejected, Throw, OpeningInv, source, guardState
  <2>2. ~settled /\ ~trial /\ events = <<"failed">> BY <1>0, <1>5 DEF CloseRejected, OpeningInv
  <2>3. events' = <<Outcome(error')>> /\ error' \in Errors BY <2>1, <2>2 DEF Outcome, Errors
  <2>4. trial' = FALSE /\ settled' = FALSE BY <1>0, <2>1, <2>2 DEF ExportTypeOK
  <2>5. verdicts \in {<<>>, <<"success">>, <<"failure">>} BY <1>0 DEF OpeningInv
  <2> QED BY <2>1, <2>3, <2>4, <2>5, RaisedStep
<1>6. CASE SettleRedirect
  <2>1. Quiet /\ ~trial /\ response' = "closed" BY <1>0, <1>6 DEF SettleRedirect, OpeningInv
  <2>2. UNCHANGED <<style, length, garbled, overdue, trial, verdicts, taken, sunk, settled, consumed>>
        BY <1>6 DEF SettleRedirect, source, guardState
  <2>3. trial' = FALSE /\ settled' = FALSE /\ ~consumed BY <1>0, <1>6, <2>1, <2>2 DEF ExportTypeOK, Quiet, OpeningInv, SettleRedirect
  <2>4. verdicts \in {<<>>, <<"success">>, <<"failure">>} BY <1>0 DEF OpeningInv
  <2>5. CASE phase' = "returned" /\ Emit("succeeded") /\ UNCHANGED error
    <3>1. events' = <<"succeeded">> BY <2>1, <2>5, EmptyFacts DEF Emit, Quiet
    <3>2. events' \in Seq({"budget_exhausted", "cancelled", "failed", "breaker_open", "succeeded"})
          BY <3>1, ReportFacts
    <3>3. ExportTypeOK' BY <1>0, <2>1, <2>2, <2>5, <3>2 DEF ExportTypeOK
    <3> QED BY <2>1, <2>2, <2>3, <2>5, <3>1, <3>3
            DEF ExportInv, OpeningInv, ReadingInv, FailingInv, OutcomeMatchesResult, SucceededIsWhole, ExportEnded
  <2>6. ASSUME NEW e \in {"other", Interruption}, Throw(e) /\ Emit("failed") PROVE ExportInv'
    <3>1. error' = e /\ error' \in Errors /\ phase' = "raised" /\ events' = <<"failed">>
          BY <1>i, <2>1, <2>6, EmptyFacts DEF Emit, Throw, Quiet, Errors
    <3>2. verdicts' = <<"success">> /\ verdicts' \in {<<>>, <<"success">>, <<"failure">>}
          BY <1>0, <1>6, <2>2 DEF SettleRedirect, OpeningInv
    <3>3. CASE e = "cancelled" BY <2>1, <2>2, <2>3, <3>1, <3>2, <3>3, RaisedStep
    <3>4. CASE e # "cancelled"
      <4>1. events' = <<Outcome(error')>> BY <2>6, <3>1, <3>4 DEF Outcome, Interruption
      <4> QED BY <2>1, <2>2, <2>3, <3>1, <3>2, <4>1, RaisedStep
    <3> QED BY <3>3, <3>4
  <2> QED BY <1>6, <2>5, <2>6 DEF SettleRedirect, RedirectError
<1>7. CASE CheckMediaType \/ ReadChunk
  <2>1. /\ UNCHANGED <<style, length, garbled, overdue, trial, verdicts, sunk, response, settled, consumed, events>>
        /\ phase \in {"opened", "reading"} /\ phase' \in {"reading", "chunk", "failing"}
        BY <1>7 DEF CheckMediaType, ReadChunk, Fail, source, guardState
  <2>2. ExportTypeOK' BY <1>0, <1>7, <2>1 DEF CheckMediaType, ReadChunk, Fail, ExportTypeOK
  <2>3. OpeningInv' /\ ReadingInv' /\ FailingInv'
        BY <1>0, <1>7, <2>1 DEF CheckMediaType, ReadChunk, Fail, ExportTypeOK, OpeningInv, ReadingInv, FailingInv, Quiet, Digested
  <2> QED BY <1>0, <2>1, <2>2, <2>3
          DEF ExportInv, OpeningInv, ReadingInv, OutcomeMatchesResult, SucceededIsWhole, ExportEnded, Quiet
<1>8. CASE ReadFails
  <2>1. Quiet /\ verdicts = <<>> /\ phase = "reading" BY <1>0, <1>8 DEF ReadFails, ReadingInv
  <2>2. PICK e \in {"transport", Interruption} \cup (IF overdue THEN {"budget"} ELSE {}) : Fail(e) /\ SettleFailure(e)
        BY <1>8 DEF ReadFails
  <2>3. error' = e /\ error' \in Errors /\ phase' = "failing" BY <1>i, <2>2 DEF Fail, Errors
  <2>4. settled' = TRUE /\ events' = <<Outcome(e)>> /\ verdicts' \in {<<>>, <<"failure">>}
        BY <1>t, <2>1, <2>2, SettleFailureFacts, EmptyFacts DEF Quiet
  <2>5. UNCHANGED <<style, length, garbled, overdue, taken, sunk, consumed, response, trial>>
        BY <1>8 DEF ReadFails, source
  <2> QED BY <2>1, <2>3, <2>4, <2>5, SettledStep
<1>9. CASE DigestChunk \/ EndOfStream
  <2>1. /\ UNCHANGED <<style, length, garbled, overdue, trial, verdicts, taken, response, settled, events>>
        /\ phase \in {"chunk", "reading"} /\ phase' \in {"reading", "closing", "failing"}
        BY <1>9 DEF DigestChunk, EndOfStream, Fail, source, guardState
  <2>2. ExportTypeOK'
    <3>1. consumed' \in BOOLEAN BY <1>t, <1>9 DEF DigestChunk, EndOfStream, guardState
    <3>2. error' \in Errors \cup {"none"} BY <1>0, <1>i, <1>9 DEF DigestChunk, EndOfStream, Fail, ExportTypeOK, Errors
    <3>3. sunk' \in 0..taken BY <1>0, <1>9 DEF DigestChunk, EndOfStream, ExportTypeOK
    <3> QED BY <1>0, <2>1, <3>1, <3>2, <3>3 DEF ExportTypeOK, Errors
  <2>3. OpeningInv' /\ ReadingInv' /\ FailingInv'
        BY <1>0, <1>i, <1>9, <2>1 DEF DigestChunk, EndOfStream, Fail, guardState, ExportTypeOK, OpeningInv, ReadingInv, FailingInv, Quiet, Digested, Errors
  <2> QED BY <1>0, <2>1, <2>2, <2>3
          DEF ExportInv, ReadingInv, OutcomeMatchesResult, SucceededIsWhole, ExportEnded, Quiet
<1>10. CASE ReportFailure
  <2>1. /\ phase = "failing" /\ phase' = "abandon" /\ SettleFailure(error)
        /\ UNCHANGED <<style, length, garbled, overdue, trial, taken, sunk, response, consumed, error>>
        BY <1>10 DEF ReportFailure, source
  <2>2. /\ error # "none" /\ verdicts \in {<<>>, <<"failure">>}
        /\ IF settled THEN events = <<Outcome(error)>> ELSE events = <<>> /\ verdicts = <<>>
        BY <1>0, <2>1 DEF FailingInv
  <2>3. settled' = TRUE /\ events' = <<Outcome(error)>> /\ verdicts' \in {<<>>, <<"failure">>}
    <3>1. CASE settled
      <4>1. UNCHANGED <<settled, verdicts, events>> BY <1>t, <2>1, <3>1, SettleFailureFacts
      <4>2. settled = TRUE BY <1>t, <3>1
      <4> QED BY <2>2, <3>1, <4>1, <4>2
    <3>2. CASE ~settled BY <1>t, <2>1, <2>2, <3>2, SettleFailureFacts, EmptyFacts
    <3> QED BY <3>1, <3>2
  <2>4. error' \in Errors BY <1>0, <2>1, <2>2 DEF ExportTypeOK, Errors
  <2> QED BY <2>1, <2>3, <2>4, SettledStep
<1>11. CASE CloseFailed
  <2>1. /\ settled /\ error # "none" /\ events = <<Outcome(error)>> /\ verdicts \in {<<>>, <<"failure">>} /\ ~trial
        BY <1>0, <1>11 DEF CloseFailed, FailingInv, OpeningInv
  <2>2. UNCHANGED <<settled, verdicts, events>> BY <1>t, <1>11, <2>1 DEF CloseFailed, SettleFailure
  <2>3. /\ response' = "closed" /\ phase' = "raised" /\ error' = error
        /\ UNCHANGED <<style, length, garbled, overdue, trial, taken, sunk, consumed>>
        BY <1>11 DEF CloseFailed, Throw, source
  <2>4. trial' = FALSE /\ error' \in Errors /\ verdicts # <<"success">>
        BY <1>0, <2>1, <2>3, EmptyFacts DEF ExportTypeOK, Errors
  <2> QED BY <1>t, <2>1, <2>2, <2>3, <2>4, RaisedStep
<1>12. CASE CloseConsumed
  <2>1. /\ Quiet /\ verdicts = <<>> /\ consumed /\ ~trial /\ taken = length /\ Digested(length) /\ garbled = 0
        BY <1>0, <1>12 DEF CloseConsumed, ReadingInv, OpeningInv
  <2>2. UNCHANGED <<style, length, garbled, overdue, trial, taken, sunk, consumed>> /\ response' = "closed"
        BY <1>12 DEF CloseConsumed, source
  <2>3. CASE phase' = "completing" /\ UNCHANGED <<settled, verdicts, events, error>>
    <3>1. ExportTypeOK' BY <1>0, <2>2, <2>3 DEF ExportTypeOK
    <3> QED BY <1>0, <2>1, <2>2, <2>3, <3>1
            DEF ExportInv, OpeningInv, ReadingInv, FailingInv, Quiet, Digested, OutcomeMatchesResult, SucceededIsWhole, ExportEnded
  <2>4. ASSUME NEW e \in {"transport", "other", Interruption}, Throw(e),
               IF e = "interrupt" THEN UNCHANGED <<settled, verdicts, events>> ELSE SettleFailure(e)
        PROVE  ExportInv'
    <3>1. error' = e /\ error' \in Errors /\ phase' = "raised" BY <1>i, <2>4 DEF Throw, Errors
    <3>2. IF e = "interrupt" THEN settled' = settled /\ events' = <<>> /\ verdicts' = <<>>
          ELSE settled' = TRUE /\ events' = <<Outcome(e)>> /\ verdicts' \in {<<>>, <<"failure">>}
          BY <1>t, <2>1, <2>4, SettleFailureFacts, EmptyFacts DEF Quiet
    <3>3. verdicts' # <<"success">> BY <3>2, EmptyFacts
    <3>4. trial' = FALSE /\ settled' \in BOOLEAN BY <1>0, <1>t, <2>1, <2>2, <3>2 DEF ExportTypeOK
    <3> QED BY <1>t, <2>1, <2>2, <3>1, <3>2, <3>3, <3>4, RaisedStep
  <2> QED BY <1>12, <2>3, <2>4 DEF CloseConsumed
<1>13. CASE Complete
  <2>1. /\ Quiet /\ verdicts = <<>> /\ consumed /\ ~trial /\ taken = length /\ Digested(length) /\ garbled = 0
        /\ response = "closed"
        BY <1>0, <1>13 DEF Complete, ReadingInv, OpeningInv
  <2>2. UNCHANGED <<style, length, garbled, overdue, trial, taken, sunk, response, consumed>>
        BY <1>13 DEF Complete, source
  <2>3. CASE overdue
    <3>1. Throw("budget") /\ SettleFailure("budget") BY <1>13, <2>3 DEF Complete
    <3>2. error' = "budget" /\ error' \in Errors /\ phase' = "raised" BY <3>1 DEF Throw, Errors
    <3>3. settled' = TRUE /\ events' = <<Outcome("budget")>> /\ verdicts' = <<>>
          BY <2>1, <3>1, EmptyFacts DEF SettleFailure, Emit, Quiet
    <3>4. trial' = FALSE /\ verdicts' # <<"success">> BY <1>0, <2>1, <2>2, <3>3, EmptyFacts DEF ExportTypeOK
    <3> QED BY <2>1, <2>2, <3>2, <3>3, <3>4, RaisedStep
  <2>4. CASE ~overdue
    <3>1. settled' = TRUE /\ verdicts' = <<"success">> /\ events' = <<"succeeded">> /\ phase' = "returned" /\ error' = error
          BY <1>13, <2>1, <2>4, EmptyFacts DEF Complete, Emit, Quiet
    <3>2. /\ events' \in Seq({"budget_exhausted", "cancelled", "failed", "breaker_open", "succeeded"})
          /\ verdicts' \in Seq({"success", "failure"}) /\ Len(verdicts') <= 1 /\ settled' \in BOOLEAN
          BY <3>1, ReportFacts
    <3>3. ExportTypeOK' BY <1>0, <2>2, <3>1, <3>2 DEF ExportTypeOK
    <3> QED BY <2>1, <2>2, <2>4, <3>1, <3>3
            DEF ExportInv, OpeningInv, ReadingInv, FailingInv, Digested, OutcomeMatchesResult, SucceededIsWhole, ExportEnded
  <2> QED BY <2>3, <2>4
<1>14. CASE ExportDeadlinePasses
  <2>1. /\ UNCHANGED <<style, length, garbled, phase, trial, verdicts, taken, sunk, response, settled, consumed, error, events>>
        /\ ~ExportEnded /\ overdue' = TRUE
        BY <1>14 DEF ExportDeadlinePasses, source, guardState
  <2>2. overdue' \in BOOLEAN BY <2>1
  <2>3. ExportTypeOK' /\ OpeningInv' /\ ReadingInv' /\ FailingInv'
        BY <1>0, <2>1, <2>2 DEF ExportTypeOK, OpeningInv, ReadingInv, FailingInv, Quiet, Digested
  <2> QED BY <1>0, <2>1, <2>3
          DEF ExportInv, ExportEnded, OpeningInv, ReadingInv, FailingInv, OutcomeMatchesResult, SucceededIsWhole, Quiet
<1>15. CASE UNCHANGED exportVars
       BY <1>0, <1>15 DEF exportVars, ExportInv, ExportTypeOK, OpeningInv, ReadingInv, FailingInv, Quiet, Digested, OutcomeMatchesResult, SucceededIsWhole, ExportEnded
<1> QED BY <1>1, <1>2, <1>3, <1>4, <1>5, <1>6, <1>7, <1>8, <1>9, <1>10, <1>11, <1>12, <1>13, <1>14, <1>15
        DEF ExportNext, ExportStep

\* At every step of an export, the response, the guard and the digest agree.
LEMMA ExportInvariance == ClientSpec => []ExportInv
<1>1. ClientInit => ExportInv BY ExportInitInv DEF ClientInit
<1>2. ExportInv /\ [ClientNext]_clientVars => ExportInv'
  <2>1. [ClientNext]_clientVars => [ExportNext]_exportVars BY DEF ClientNext, Service, Export, Waiting, clientVars
  <2> QED BY <2>1, ExportStepInv
<1> QED BY <1>1, <1>2, PTL DEF ClientSpec

\* No export goes unreported or is reported as something else, but for the cancelled
\* close of a redirect, which is reported as failed (OutcomeMatchesResult).
THEOREM ExportsAreReported == ClientSpec => []OutcomeMatchesResult
<1>1. ExportInv => OutcomeMatchesResult BY DEF ExportInv
<1> QED BY <1>1, ExportInvariance, PTL

\* Only a whole document is a success (SucceededIsWhole).
THEOREM ExportsAreWhole == ClientSpec => []SucceededIsWhole
<1>1. ExportInv => SucceededIsWhole BY DEF ExportInv
<1> QED BY <1>1, ExportInvariance, PTL

-----------------------------------------------------------------------------
(* An operation of a service                                                *)

Steps == {"policy", "build", "permission", "authority", "current", "target"}

ErrorRecords ==
    [kind : {"none", "refused", "native", "os", "budget", "transport", "cancelled", "interrupt", "exit"},
     status : {0, 2, 3, 4, 5}, ambiguous : BOOLEAN]

\* Where an error may be raised.
Places == Steps \cup Stages \cup {"none", "decode"}

CallRecords ==
    [op : Shapes \cup {None}, todo : Seq(Steps), policy : Policies \cup {None},
     evidence : Evidences \cup {None}, credential : Yields, attempts : 0..MaxAttempts,
     begun : BOOLEAN, answer : {0, 2, 3, 4, 5}, bound : BOOLEAN, at : Places,
     error : ErrorRecords, receipt : Outcomes, input : {"none", "open", "closed"}]

Traffic ==
    [sent : BOOLEAN, applied : BOOLEAN, method : {"none", "GET", "POST", "PUT"}, body : BOOLEAN,
     as : Yields, at : Targets, hops : 0..MaxRedirects, scope : Scopes \cup {None}]

\* Every variable is what Init and the steps can make it; a call under way has an
\* operation.
RecordsInv ==
    /\ stage \in Stages /\ call \in CallRecords /\ net \in Traffic
    /\ late \in BOOLEAN /\ origin \in {"controlled", "public"}
    /\ stage # "idle" => call.op \in Shapes

\* The step is still to be made.
Pending(step) == \E i \in 1..Len(call.todo) : call.todo[i] = step

Writing == ~call.op.reads /\ ~OnCKAN

\* What has been checked of the permission and the policy, before and after the
\* service's steps are done.
CheckedInv ==
    stage # "idle" =>
        /\ OnCKAN \/ call.policy = None \/ AcceptsPolicy(call.policy, call.op.destructive)
        /\ call.evidence # None => /\ call.credential \in {None, call.evidence.scope}
                                   /\ call.op.guard = "admin" => call.evidence.admin
        /\ stage = "service" =>
              /\ call.op.guard # "none" => call.evidence # None \/ Pending("permission")
              /\ call.op.policed /\ ~OnCKAN => call.policy # None \/ Pending("policy")
        /\ stage \in InPipeline =>
              /\ call.op.guard # "none" => call.evidence # None
              /\ call.op.policed /\ ~OnCKAN => call.policy # None
        /\ stage \in {"request", "attempt", "encoded", "flight", "handled"} => RequireDispatchable
        /\ stage \in {"attempt", "encoded", "flight", "handled"} /\ OnCKAN => AcceptsTier(call.policy, call.op)

\* Attempts are counted, and only what may be repeated is attempted again.
AttemptsInv ==
    /\ stage \in {"idle", "service", "gate", "scope", "request", "settled", "done"} => call.attempts = 0
    /\ stage = "attempt" => call.attempts < MaxAttempts /\ (call.attempts > 0 => AllowsRetry)
    /\ stage # "idle" /\ Writing => call.attempts <= 1
    /\ stage # "idle" /\ ~call.op.reads /\ call.attempts > 1 => call.policy # None /\ call.policy.odd = "retry"

\* What the network has seen of the call.
TrafficInv ==
    /\ stage \in {"idle", "service", "gate", "scope", "request"} => net = NoTraffic
    /\ stage \notin {"flight", "handled"} => net = Ended(net)
    /\ stage \in {"flight", "handled"} => net.as \in {None, call.credential}
    /\ net.hops > 0 => OnCKAN \/ call.op.body \in {"none", "json"}
    /\ RedirectsKeepSecrets

\* Before a write of uData is in flight, and while its first request is, nothing has
\* been applied; the services with a dispatch mark of their own have set it.
DispatchInv ==
    stage # "idle" /\ Writing =>
        /\ stage \in {"attempt", "encoded"} \/ (stage = "flight" /\ net.hops = 0) => ~net.applied
        /\ stage \in InPipeline /\ call.op.service = "site" => call.begun
        /\ stage \in {"encoded", "flight", "handled"} /\ call.op.service = "oauth" => call.begun

\* The answer tells a write apart from a read it was turned into.
AnswerInv ==
    /\ stage = "answered" =>
          /\ net.applied => call.answer \in {2, 5}
          /\ call.answer = 2 /\ ~call.op.reads => net.applied \/ net.method = "GET"
    /\ stage = "shape" /\ ~call.op.reads =>
          /\ call.bound
          /\ \/ call.answer = 2 /\ (net.applied \/ net.method = "GET")
             \/ call.answer = 3 /\ call.op.service = "oauth"

\* An error after the write was applied says so, in one of the ways the receipt knows.
Explained(where, e) ==
    \/ e.kind \in {"interrupt", "cancelled", "exit"} \/ e.ambiguous
    \/ e.kind = "os" /\ call.op.body # "stream"
    \/ e.kind = "transport" /\ (call.op.service \in {"oauth", "site"} => call.begun)
    \/ e.kind = "native" /\ where = "decode" /\ e.status \in {2, 5}
    \/ e.kind = "native" /\ where = "shape" /\ e.status = 0 /\ call.bound /\ call.answer \in {2, 3}

RaisedInv ==
    stage = "raised" =>
        /\ call.error.kind # "none"
        /\ call.error.kind = "refused" \/ call.at = "build" => ~net.sent
        /\ Writing /\ net.applied => Explained(call.at, call.error)

\* What the receipt says, from the moment it is written.
ReceiptInv ==
    /\ stage \in {"settled", "done"} =>
          /\ call.receipt = "rejected" => ~net.sent
          /\ call.receipt = "succeeded" => net.applied \/ net.method = "GET" \/ call.op.service = "oauth"
          /\ call.receipt = "failed" /\ net.applied =>
                \/ call.error.kind = "exit"
                \/ call.error.kind = "os" /\ call.op.body # "stream"
                \/ call.error.status = 5 /\ call.op.service # "transfers"
          /\ ~call.op.reads /\ call.receipt = "none" =>
                OnCKAN \/ (call.op.service = "site" /\ call.error.kind \in {"interrupt", "exit"})
    /\ stage = "done" => call.input # "open"

CallsInv ==
    /\ RecordsInv /\ CheckedInv /\ AttemptsInv /\ TrafficInv
    /\ DispatchInv /\ AnswerInv /\ RaisedInv /\ ReceiptInv

\* What the records without content are.
LEMMA EmptyRecords ==
    /\ NoCall \in CallRecords /\ NoCall.op = None /\ NoCall.todo = <<>> /\ NoCall.attempts = 0
    /\ NoCall.policy = None /\ NoCall.evidence = None /\ NoCall.credential = None
    /\ NoCall.receipt = "none" /\ NoCall.input = "none"
    /\ NoTraffic \in Traffic /\ Ended(NoTraffic) = NoTraffic /\ NoTraffic.hops = 0 /\ NoTraffic.at = "home"
    /\ NoTraffic.as = None /\ NoTraffic.applied = FALSE /\ NoTraffic.sent = FALSE
    /\ NoError \in ErrorRecords
<1>1. NoError \in ErrorRecords BY DEF NoError, ErrorRecords
<1>2. <<>> \in Seq(Steps) /\ "none" \in Places BY DEF Places
<1>s. None \in Yields /\ 0 \in 0..MaxAttempts /\ "none" \in Outcomes BY CallsAssumption DEF Yields, Outcomes
<1>3. NoCall \in CallRecords BY <1>1, <1>2, <1>s DEF NoCall, CallRecords
<1>4. /\ NoCall.op = None /\ NoCall.todo = <<>> /\ NoCall.attempts = 0 /\ NoCall.policy = None
      /\ NoCall.evidence = None /\ NoCall.credential = None /\ NoCall.receipt = "none" /\ NoCall.input = "none"
      BY DEF NoCall
<1>5. NoTraffic \in Traffic BY CallsAssumption DEF NoTraffic, Traffic, Yields, Targets
<1>6. /\ NoTraffic.hops = 0 /\ NoTraffic.at = "home" /\ NoTraffic.as = None
      /\ NoTraffic.applied = FALSE /\ NoTraffic.sent = FALSE
      BY DEF NoTraffic
<1>7. Ended(NoTraffic) = NoTraffic BY DEF NoTraffic, Ended
<1> QED BY <1>1, <1>3, <1>4, <1>5, <1>6, <1>7

\* What is left of an exchange that is over.
LEMMA EndedFacts ==
    ASSUME NEW t \in Traffic
    PROVE  /\ Ended(t) \in Traffic /\ Ended(t).sent = t.sent /\ Ended(t).applied = t.applied
           /\ Ended(t).method = t.method /\ Ended(t).hops = 0 /\ Ended(t).at = "home" /\ Ended(t).as = None
           /\ Ended(Ended(t)) = Ended(t)
<1>1. NoTraffic \in Traffic BY EmptyRecords
<1>2. t.sent \in BOOLEAN /\ t.applied \in BOOLEAN /\ t.method \in {"none", "GET", "POST", "PUT"} BY DEF Traffic
<1>3. Ended(t).sent = t.sent BY DEF Ended, NoTraffic
<1>4. Ended(t).applied = t.applied BY DEF Ended, NoTraffic
<1>5. Ended(t).method = t.method BY DEF Ended, NoTraffic
<1>6. Ended(t).hops = 0 /\ Ended(t).at = "home" /\ Ended(t).as = None BY DEF Ended, NoTraffic
<1>7. Ended(t) \in Traffic BY <1>1, <1>2 DEF Ended, Traffic
<1>8. Ended(Ended(t)) = Ended(t) BY <1>3, <1>4, <1>5 DEF Ended
<1> QED BY <1>3, <1>4, <1>5, <1>6, <1>7, <1>8

\* What a step made leaves of the steps to make.
LEMMA TailFacts ==
    ASSUME NEW s \in Seq(Steps), s # <<>>
    PROVE  /\ Tail(s) \in Seq(Steps) /\ Head(s) \in Steps
           /\ \A x : x # Head(s) /\ (\E i \in 1..Len(s) : s[i] = x) =>
                 \E i \in 1..Len(Tail(s)) : Tail(s)[i] = x
<1>1. Tail(s) \in Seq(Steps) /\ Head(s) \in Steps /\ Len(Tail(s)) = Len(s) - 1 /\ Len(s) \in Nat /\ Head(s) = s[1]
      OBVIOUS
<1>2. ASSUME NEW x, x # Head(s), NEW i \in 1..Len(s), s[i] = x PROVE \E j \in 1..Len(Tail(s)) : Tail(s)[j] = x
  <2>1. i # 1 /\ i - 1 \in 1..Len(Tail(s)) BY <1>1, <1>2
  <2>2. Tail(s)[i - 1] = s[i] BY <2>1
  <2> QED BY <1>2, <2>1, <2>2
<1> QED BY <1>1, <1>2

\* Every service checks the evidence and the policy its operation asks for.
LEMMA ServiceStepsFacts ==
    ASSUME NEW op \in Shapes
    PROVE  /\ ServiceSteps(op) \in Seq(Steps)
           /\ op.guard # "none" => \E i \in 1..Len(ServiceSteps(op)) : ServiceSteps(op)[i] = "permission"
           /\ op.policed /\ op.service \notin CKANServices =>
                 \E i \in 1..Len(ServiceSteps(op)) : ServiceSteps(op)[i] = "policy"
<1> DEFINE T == ServiceSteps(op)
           Has(x) == \E i \in 1..Len(T) : T[i] = x
<1>0. /\ op \in ShapeRecords
      /\ op.service \in CKANServices => op.guard = "none" /\ op.method = "POST"
      /\ op.service \notin CKANServices => (op.reads <=> op.method = "GET") /\ (op.policed => ~op.reads)
      BY ShapesAssumption
<1>1. CASE op.service = "ckan"
  <2>1. T = <<"build">> \/ T = <<"policy", "build">> BY <1>0, <1>1 DEF ServiceSteps, CKANServices
  <2>2. <<"build">> \in Seq(Steps) /\ <<"policy", "build">> \in Seq(Steps) BY DEF Steps
  <2> QED BY <1>0, <1>1, <2>1, <2>2 DEF CKANServices
<1>2. CASE op.service = "ckanNative"
  <2>1. T = <<"build">> BY <1>0, <1>2 DEF ServiceSteps, ShapeRecords, CKANServices
  <2> QED BY <1>0, <1>2, <2>1 DEF CKANServices, Steps
<1>3. CASE op.service \notin CKANServices /\ op.method = "GET"
  <2>1. /\ op.guard = "none" => T = <<"build">>
        /\ op.guard # "none" => T = <<"permission", "build">>
        BY <1>0, <1>3 DEF ServiceSteps, ShapeRecords, CKANServices
  <2>2. op.guard # "none" => T[1] = "permission" /\ 1 \in 1..Len(T) BY <2>1
  <2>3. <<"build">> \in Seq(Steps) /\ <<"permission", "build">> \in Seq(Steps) BY DEF Steps
  <2>4. T \in Seq(Steps) BY <2>1, <2>3
  <2> QED BY <1>0, <1>3, <2>2, <2>4
<1>4. CASE op.service \notin CKANServices /\ op.method # "GET"
  <2> DEFINE Fits(s) == /\ s \in Seq(Steps) /\ \E i \in 1..Len(s) : s[i] = "permission"
                        /\ op.policed => \E i \in 1..Len(s) : s[i] = "policy"
  <2>1. Fits(<<"permission", "policy", "build">>)
    <3>1. <<"permission", "policy", "build">> \in Seq(Steps) BY DEF Steps
    <3> QED BY <3>1
  <2>2. Fits(<<"build", "policy", "permission">>)
    <3>1. <<"build", "policy", "permission">> \in Seq(Steps) BY DEF Steps
    <3> QED BY <3>1
  <2>3. Fits(<<"policy", "build", "permission">>)
    <3>1. <<"policy", "build", "permission">> \in Seq(Steps) BY DEF Steps
    <3> QED BY <3>1
  <2>4. Fits(<<"policy", "permission", "build">>)
    <3>1. <<"policy", "permission", "build">> \in Seq(Steps) BY DEF Steps
    <3> QED BY <3>1
  <2>5. ~op.policed => Fits(<<"permission", "build">>)
    <3>1. <<"permission", "build">> \in Seq(Steps) BY DEF Steps
    <3> QED BY <3>1
  <2>6. Fits(<<"authority", "build", "permission", "policy", "current", "authority", "target", "build">>)
    <3>1. <<"authority", "build", "permission", "policy", "current", "authority", "target", "build">> \in Seq(Steps)
          BY DEF Steps
    <3> QED BY <3>1
  <2>7. CASE op.service = "oauth"
    <3>1. IF op.policed THEN T = <<"permission", "policy", "build">> ELSE T = <<"permission", "build">>
          BY <1>4, <2>7 DEF ServiceSteps, CKANServices
    <3> HIDE DEF T, Fits
    <3>2. Fits(T) BY <2>1, <2>5, <3>1
    <3> QED BY <3>2 DEF T, Fits
  <2>8. CASE op.service # "oauth"
    <3>1. \/ T = <<"permission", "policy", "build">>
          \/ T = <<"build", "policy", "permission">>
          \/ T = <<"policy", "build", "permission">>
          \/ T = <<"policy", "permission", "build">>
          \/ T = <<"authority", "build", "permission", "policy", "current", "authority", "target", "build">>
          BY <1>0, <1>4, <2>8 DEF ServiceSteps, ShapeRecords, CKANServices, Services
    <3> HIDE DEF T, Fits
    <3>2. Fits(T) BY <2>1, <2>2, <2>3, <2>4, <2>6, <3>1
    <3> QED BY <3>2 DEF T, Fits
  <2> QED BY <2>7, <2>8
<1> QED BY <1>0, <1>1, <1>2, <1>3, <1>4 DEF ShapeRecords, CKANServices

\* A call under way can be compared with its operation's row of the tables.
LEMMA UnderWay ==
    ASSUME RecordsInv, stage # "idle"
    PROVE  /\ call.op \in Shapes /\ call.op \in ShapeRecords
           /\ OnCKAN => call.op.guard = "none" /\ call.op.method = "POST"
           /\ ~OnCKAN => /\ call.op.reads <=> call.op.method = "GET"
                         /\ call.op.policed => ~call.op.reads
                         /\ call.op.onRedirect = "follow" => call.op.body \in {"none", "json"}
                         /\ call.op.service = "oauth" /\ ~call.op.reads => call.op.body = "form"
           /\ ~call.op.reads /\ call.op.onRedirect = "answer" => call.op.service \in {"oauth", "site"}
           /\ call.op.lenient => call.op.reads
<1>1. call.op \in Shapes BY DEF RecordsInv
<1> QED BY <1>1, ShapesAssumption DEF OnCKAN

\* A raised error keeps the invariant when it does not hide what the deployment did.
LEMMA RaiseStep ==
    ASSUME CallsInv, stage # "idle", NEW where \in Places, NEW e \in ErrorRecords, e.kind # "none",
           e.kind = "refused" \/ where = "build" => ~net.sent,
           Writing /\ net.applied => Explained(where, e),
           Raise(where, e)
    PROVE  CallsInv'
<1>0. RecordsInv /\ call \in CallRecords /\ net \in Traffic BY DEF CallsInv, RecordsInv
<1>1. stage' = "raised" /\ late' = late /\ origin' = origin /\ net' = Ended(net) BY DEF Raise
<1>2. call' = [call EXCEPT !.error = e, !.at = where] BY DEF Raise
<1>3. /\ call'.op = call.op /\ call'.todo = call.todo /\ call'.policy = call.policy
      /\ call'.evidence = call.evidence /\ call'.credential = call.credential
      /\ call'.attempts = call.attempts /\ call'.begun = call.begun /\ call'.answer = call.answer
      /\ call'.bound = call.bound /\ call'.error = e /\ call'.at = where
      BY <1>0, <1>2 DEF CallRecords
<1>4. call' \in CallRecords BY <1>0, <1>2 DEF CallRecords
<1>5. /\ net' \in Traffic /\ net'.sent = net.sent /\ net'.applied = net.applied /\ net'.hops = 0
      /\ net'.at = "home" /\ net' = Ended(net')
      BY <1>0, <1>1, EndedFacts
<1>6. RecordsInv' BY <1>0, <1>1, <1>3, <1>4, <1>5 DEF RecordsInv, Stages
<1>7. CheckedInv' BY <1>1, <1>3 DEF CallsInv, CheckedInv, OnCKAN, InPipeline
<1>8. AttemptsInv' BY <1>1, <1>3 DEF CallsInv, AttemptsInv, Writing, OnCKAN
<1>9. TrafficInv' BY <1>1, <1>3, <1>5 DEF TrafficInv, RedirectsKeepSecrets
<1>10. DispatchInv' BY <1>1 DEF DispatchInv, InPipeline
<1>11. AnswerInv' BY <1>1 DEF AnswerInv
<1>12. RaisedInv' BY <1>1, <1>3, <1>5 DEF RaisedInv, Writing, OnCKAN, Explained
<1>13. ReceiptInv' BY <1>1 DEF ReceiptInv
<1> QED BY <1>6, <1>7, <1>8, <1>9, <1>10, <1>11, <1>12, <1>13 DEF CallsInv

\* A call that is settled keeps what it was, what it failed with and its input.
LEMMA SettleStep ==
    ASSUME CallsInv, stage # "idle", NEW r \in Outcomes,
           r = "rejected" => ~net.sent,
           r = "succeeded" => net.applied \/ net.method = "GET" \/ call.op.service = "oauth",
           r = "failed" /\ net.applied =>
              \/ call.error.kind = "exit"
              \/ call.error.kind = "os" /\ call.op.body # "stream"
              \/ call.error.status = 5 /\ call.op.service # "transfers",
           ~call.op.reads /\ r = "none" =>
              OnCKAN \/ (call.op.service = "site" /\ call.error.kind \in {"interrupt", "exit"}),
           net = Ended(net),
           SettleAs(r)
    PROVE  CallsInv'
<1>0. RecordsInv /\ call \in CallRecords /\ net \in Traffic BY DEF CallsInv, RecordsInv
<1>1. stage' = "settled" /\ late' = FALSE /\ origin' = origin /\ net' = net BY DEF SettleAs
<1>2. call' = [NoCall EXCEPT !.op = call.op, !.error = call.error, !.receipt = r, !.input = call.input]
      BY DEF SettleAs
<1>3. /\ call'.op = call.op /\ call'.policy = None /\ call'.evidence = None
      /\ call'.attempts = 0 /\ call'.error = call.error /\ call'.receipt = r
      BY <1>0, <1>2 DEF NoCall
<1>4. call' \in CallRecords BY <1>0, <1>2, EmptyRecords DEF CallRecords
<1>5. net.hops = 0 /\ net.at = "home" BY <1>0, EndedFacts
<1>6. late' \in BOOLEAN BY <1>1
<1>7. RecordsInv' BY <1>0, <1>1, <1>3, <1>4, <1>6 DEF RecordsInv, Stages
<1>8. CheckedInv' BY <1>1, <1>3 DEF CheckedInv, InPipeline
<1>9. AttemptsInv' BY <1>1, <1>3, CallsAssumption DEF AttemptsInv
<1>10. TrafficInv' BY <1>1, <1>5 DEF TrafficInv, RedirectsKeepSecrets
<1>11. DispatchInv' /\ AnswerInv' /\ RaisedInv' BY <1>1 DEF DispatchInv, AnswerInv, RaisedInv, InPipeline
<1>12. ReceiptInv' BY <1>1, <1>3 DEF ReceiptInv, OnCKAN
<1> QED BY <1>7, <1>8, <1>9, <1>10, <1>11, <1>12 DEF CallsInv

ErrorKinds == {"refused", "native", "os", "budget", "transport", "cancelled", "interrupt", "exit"}

\* What an error tells.
LEMMA ErrorFacts ==
    ASSUME NEW kind \in ErrorKinds, NEW status \in {0, 2, 3, 4, 5}
    PROVE  /\ Error(kind, status) \in ErrorRecords /\ Error(kind, status).kind = kind
           /\ Error(kind, status).status = status /\ Error(kind, status).kind # "none"
BY DEF Error, NoError, ErrorRecords, ErrorKinds

\* What running out of time tells once the transport has the request.
LEMMA BudgetFacts ==
    ASSUME RecordsInv, stage # "idle", NEW status \in {0, 2, 3, 4, 5}
    PROVE  /\ BudgetError(status) \in ErrorRecords /\ BudgetError(status).kind = "budget"
           /\ BudgetError(status).ambiguous = ~call.op.reads
<1>1. call.op.reads \in BOOLEAN BY UnderWay DEF ShapeRecords
<1>2. Error("budget", status) \in ErrorRecords /\ Error("budget", status).kind = "budget" BY ErrorFacts DEF ErrorKinds
<1> QED BY <1>1, <1>2 DEF BudgetError, ErrorRecords

\* A write of uData is never repeated: the policy it was accepted with refuses retries.
LEMMA NoRetry ==
    ASSUME RecordsInv, CheckedInv, stage # "idle", Writing
    PROVE  ~AllowsRetry
BY DEF CheckedInv, Writing, AllowsRetry, AcceptsPolicy, PolicyFields

Sending == {"encoded", "flight", "handled"}

\* Waiting for the next attempt.
LEMMA RetryStep ==
    ASSUME CallsInv, stage \in Sending, RetryLater
    PROVE  CallsInv'
<1>0. /\ RecordsInv /\ CheckedInv /\ AttemptsInv /\ call \in CallRecords /\ net \in Traffic
      /\ AllowsRetry /\ call.attempts < MaxAttempts /\ stage # "idle"
      BY DEF CallsInv, RecordsInv, RetryLater, Retries, Sending
<1>1. ~Writing BY <1>0, NoRetry
<1>2. CASE stage' = "attempt" /\ net' = Ended(net) /\ UNCHANGED <<call, late, origin>>
  <2>1. /\ net' \in Traffic /\ net'.hops = 0 /\ net'.at = "home" /\ net' = Ended(net')
        BY <1>0, <1>2, EndedFacts
  <2>2. RecordsInv' BY <1>0, <1>2, <2>1 DEF RecordsInv, Stages, InPipeline
  <2>3. CheckedInv' BY <1>0, <1>2 DEF CheckedInv, OnCKAN, InPipeline, Sending, RequireDispatchable
  <2>4. AttemptsInv' BY <1>0, <1>2 DEF AttemptsInv, Writing, OnCKAN, AllowsRetry
  <2>5. TrafficInv' BY <1>2, <2>1 DEF TrafficInv, RedirectsKeepSecrets
  <2>6. DispatchInv' BY <1>1, <1>2 DEF DispatchInv, Writing, OnCKAN
  <2>7. AnswerInv' /\ RaisedInv' /\ ReceiptInv' BY <1>2 DEF AnswerInv, RaisedInv, ReceiptInv
  <2> QED BY <2>2, <2>3, <2>4, <2>5, <2>6, <2>7 DEF CallsInv
<1>3. CASE Raise("flight", Error("budget", 0))
  <2>1. "flight" \in Places /\ Error("budget", 0) \in ErrorRecords /\ Error("budget", 0).kind = "budget"
        BY ErrorFacts DEF Places, Stages, InPipeline, ErrorKinds
  <2>2. Error("budget", 0).kind = "refused" \/ "flight" = "build" => ~net.sent BY <2>1
  <2>3. Writing /\ net.applied => Explained("flight", Error("budget", 0)) BY <1>1
  <2>4. Error("budget", 0).kind # "none" BY <2>1
  <2> QED BY <1>0, <1>3, <2>1, <2>2, <2>3, <2>4, RaiseStep
<1> QED BY <1>2, <1>3 DEF RetryLater

\* A request whose connection failed.
LEMMA TransportStep ==
    ASSUME CallsInv, stage \in Sending, TransportFails
    PROVE  CallsInv'
<1>0. CallsInv /\ DispatchInv /\ stage # "idle" BY DEF CallsInv, Sending
<1>1. CASE RetryLater BY <1>1, RetryStep
<1>2. CASE Raise("flight", Error("transport", 0))
  <2>1. "flight" \in Places /\ Error("transport", 0) \in ErrorRecords /\ Error("transport", 0).kind = "transport"
        BY ErrorFacts DEF Places, Stages, InPipeline, ErrorKinds
  <2>2. Error("transport", 0).kind = "refused" \/ "flight" = "build" => ~net.sent BY <2>1
  <2>3. Writing /\ net.applied => Explained("flight", Error("transport", 0))
        BY <1>0, <2>1 DEF Explained, DispatchInv, Sending, InPipeline
  <2>4. Error("transport", 0).kind # "none" BY <2>1
  <2> QED BY <1>0, <1>2, <2>1, <2>2, <2>3, <2>4, RaiseStep
<1> QED BY <1>1, <1>2 DEF TransportFails

\* A call out of time once the transport has the request.
LEMMA BudgetStep ==
    ASSUME CallsInv, stage \in Sending, NEW status \in {0, 2, 3, 4, 5}, Raise("flight", BudgetError(status))
    PROVE  CallsInv'
<1>0. RecordsInv /\ stage # "idle" BY DEF CallsInv, Sending
<1>1. "flight" \in Places /\ BudgetError(status) \in ErrorRecords /\ BudgetError(status).kind = "budget"
      BY <1>0, BudgetFacts DEF Places, Stages, InPipeline
<1>2. BudgetError(status).kind = "refused" \/ "flight" = "build" => ~net.sent BY <1>1
<1>3. Writing /\ net.applied => Explained("flight", BudgetError(status))
      BY <1>0, BudgetFacts DEF Explained, Writing
<1>4. BudgetError(status).kind # "none" BY <1>1
<1> QED BY <1>0, <1>1, <1>2, <1>3, <1>4, RaiseStep

\* An error raised before anything was sent, or applied, explains nothing it has to.
LEMMA EarlyStep ==
    ASSUME CallsInv, stage # "idle", NEW where \in Places, NEW kind \in ErrorKinds, NEW status \in {0, 2, 3, 4, 5},
           kind = "refused" \/ where = "build" => ~net.sent,
           Writing => ~net.applied,
           Raise(where, Error(kind, status))
    PROVE  CallsInv'
<1>1. /\ Error(kind, status) \in ErrorRecords /\ Error(kind, status).kind = kind
      /\ Error(kind, status).kind # "none"
      BY ErrorFacts
<1>2. Error(kind, status).kind = "refused" \/ where = "build" => ~net.sent BY <1>1
<1>3. Writing /\ net.applied => Explained(where, Error(kind, status)) OBVIOUS
<1> QED BY <1>1, <1>2, <1>3, RaiseStep

\* Before the first call nothing is known and nothing was sent.
LEMMA CallsInitInv == Init => CallsInv
<1> SUFFICES ASSUME Init PROVE CallsInv OBVIOUS
<1>1. stage = "idle" /\ call = NoCall /\ late = FALSE /\ net = NoTraffic /\ origin \in {"controlled", "public"} BY DEF Init
<1>2. late \in BOOLEAN BY <1>1
<1>3. RecordsInv BY <1>1, <1>2, EmptyRecords DEF RecordsInv, Stages
<1>4. CheckedInv /\ DispatchInv /\ AnswerInv /\ RaisedInv /\ ReceiptInv
      BY <1>1 DEF CheckedInv, DispatchInv, AnswerInv, RaisedInv, ReceiptInv
<1>5. AttemptsInv BY <1>1, EmptyRecords DEF AttemptsInv
<1>6. TrafficInv BY <1>1, EmptyRecords DEF TrafficInv, RedirectsKeepSecrets
<1> QED BY <1>3, <1>4, <1>5, <1>6 DEF CallsInv

\* A call begins with the steps of its service to make.
LEMMA BeginStep ==
    ASSUME CallsInv, NEW op \in Shapes, Begin(op)
    PROVE  CallsInv'
<1>0. stage = "idle" /\ stage' = "service" /\ net' = net /\ late' = late /\ origin' = origin /\ net = NoTraffic /\ RecordsInv
      BY DEF Begin, CallsInv, TrafficInv
<1>1. PICK policy \in {None} \cup (IF op.service = "ckanNative" THEN Policies ELSE {}) :
         call' = [NoCall EXCEPT !.op = op, !.todo = ServiceSteps(op), !.policy = policy,
                               !.input = IF op.body = "stream" THEN "open" ELSE "none"]
      BY DEF Begin
<1>2. /\ call'.op = op /\ call'.todo = ServiceSteps(op) /\ call'.policy = policy
      /\ call'.evidence = None /\ call'.attempts = 0
      BY <1>1 DEF NoCall
<1>3. call' \in CallRecords BY <1>1, EmptyRecords, ServiceStepsFacts DEF CallRecords
<1>4. RecordsInv' BY <1>0, <1>2, <1>3 DEF RecordsInv, Stages
<1>5. policy = None \/ op.service \in CKANServices BY DEF CKANServices
<1>6. CheckedInv' BY <1>0, <1>2, <1>5, ServiceStepsFacts DEF CheckedInv, Pending, OnCKAN, InPipeline
<1>7. AttemptsInv' BY <1>0, <1>2 DEF AttemptsInv
<1>8. TrafficInv' BY <1>0, EmptyRecords DEF TrafficInv, RedirectsKeepSecrets
<1>9. DispatchInv' /\ AnswerInv' /\ RaisedInv' /\ ReceiptInv'
      BY <1>0 DEF DispatchInv, AnswerInv, RaisedInv, ReceiptInv, InPipeline
<1> QED BY <1>4, <1>6, <1>7, <1>8, <1>9 DEF CallsInv

\* A step of a service that passes: what it checked is no longer pending.
LEMMA PassedStep ==
    ASSUME CallsInv, stage = "service", call.todo # <<>>, UNCHANGED <<stage, late, net, origin>>,
           call' \in CallRecords, call'.op = call.op, call'.todo = Tail(call.todo), call'.attempts = call.attempts,
           OnCKAN \/ call'.policy = None \/ AcceptsPolicy(call'.policy, call.op.destructive),
           call'.evidence # None => /\ call'.credential \in {None, call'.evidence.scope}
                                    /\ call.op.guard = "admin" => call'.evidence.admin,
           call.evidence # None \/ Head(call.todo) = "permission" => call'.evidence # None,
           ~OnCKAN => (call.policy # None \/ Head(call.todo) = "policy" => call'.policy # None)
    PROVE  CallsInv'
<1>0. RecordsInv /\ call.todo \in Seq(Steps) /\ net = NoTraffic BY DEF CallsInv, RecordsInv, CallRecords, TrafficInv
<1>1. RecordsInv' BY <1>0 DEF RecordsInv
<1>p. ASSUME NEW x, x # Head(call.todo), Pending(x)
      PROVE  \E i \in 1..Len(call'.todo) : call'.todo[i] = x
      BY <1>0, <1>p, TailFacts DEF Pending
<1>q. /\ call.op.guard # "none" => call.evidence # None \/ Pending("permission")
      /\ call.op.policed /\ ~OnCKAN => call.policy # None \/ Pending("policy")
      BY DEF CallsInv, CheckedInv
<1>2. /\ call.op.guard # "none" => call'.evidence # None \/ Pending("permission")'
      /\ call.op.policed /\ ~OnCKAN => call'.policy # None \/ Pending("policy")'
  <2>1. Pending("permission") /\ "permission" # Head(call.todo) => Pending("permission")' BY <1>p DEF Pending
  <2>2. Pending("policy") /\ "policy" # Head(call.todo) => Pending("policy")' BY <1>p DEF Pending
  <2> HIDE DEF Pending
  <2> QED BY <1>q, <2>1, <2>2
<1>3. CheckedInv' BY <1>2 DEF CheckedInv, OnCKAN, InPipeline
<1>4. AttemptsInv' BY DEF CallsInv, AttemptsInv
<1>5. TrafficInv' BY <1>0, EmptyRecords DEF TrafficInv, RedirectsKeepSecrets
<1>6. DispatchInv' /\ AnswerInv' /\ RaisedInv' /\ ReceiptInv'
      BY DEF DispatchInv, AnswerInv, RaisedInv, ReceiptInv, InPipeline
<1> QED BY <1>1, <1>3, <1>4, <1>5, <1>6 DEF CallsInv

\* A step of a service that checks neither evidence nor policy.
LEMMA DoneStep ==
    ASSUME CallsInv, NEW step \in Steps \ {"permission", "policy"}, OnStep(step), Done(step)
    PROVE  CallsInv'
<1>0. /\ call \in CallRecords /\ stage = "service" /\ call.todo # <<>> /\ Head(call.todo) = step
      /\ UNCHANGED <<stage, late, net, origin>> /\ call' = [call EXCEPT !.todo = Tail(@)]
      BY DEF CallsInv, RecordsInv, OnStep, Done
<1>1. Tail(call.todo) \in Seq(Steps) BY <1>0, TailFacts DEF CallRecords
<1>2. call' \in CallRecords BY <1>0, <1>1 DEF CallRecords
<1>3. /\ call'.op = call.op /\ call'.todo = Tail(call.todo) /\ call'.attempts = call.attempts
      /\ call'.policy = call.policy /\ call'.evidence = call.evidence /\ call'.credential = call.credential
      BY <1>0 DEF CallRecords
<1>4. /\ OnCKAN \/ call'.policy = None \/ AcceptsPolicy(call'.policy, call.op.destructive)
      /\ call'.evidence # None => /\ call'.credential \in {None, call'.evidence.scope}
                                  /\ call.op.guard = "admin" => call'.evidence.admin
      BY <1>0, <1>3 DEF CallsInv, CheckedInv
<1>5. /\ call.evidence # None \/ Head(call.todo) = "permission" => call'.evidence # None
      /\ ~OnCKAN => (call.policy # None \/ Head(call.todo) = "policy" => call'.policy # None)
      BY <1>0, <1>3
<1> QED BY <1>0, <1>2, <1>3, <1>4, <1>5, PassedStep

\* The checks of a service.
LEMMA ServiceStepInv ==
    ASSUME CallsInv, CheckPolicy \/ CheckPermission \/ Build \/ CheckAuthority \/ ReadCurrent \/ CheckTarget
    PROVE  CallsInv'
<1>0. /\ CallsInv /\ RecordsInv /\ CheckedInv /\ call \in CallRecords /\ stage = "service" /\ stage # "idle"
      /\ call.todo # <<>> /\ call.todo \in Seq(Steps)
      BY DEF CallsInv, RecordsInv, CallRecords, CheckPolicy, CheckPermission, Build, CheckAuthority, ReadCurrent,
         CheckTarget, OnStep
<1>1. net = NoTraffic /\ ~net.sent /\ ~net.applied BY <1>0, EmptyRecords DEF CallsInv, TrafficInv
<1>2. Tail(call.todo) \in Seq(Steps) BY <1>0, TailFacts
<1>3. ASSUME NEW where \in Steps, NEW kind \in ErrorKinds, NEW status \in {0, 2, 3, 4, 5},
             Raise(where, Error(kind, status))
      PROVE  CallsInv'
      BY <1>0, <1>1, <1>3, EarlyStep DEF Places
<1>4. CASE CheckPolicy
  <2>1. PICK policy \in Policies \cup {None} :
          \/ /\ Accepts(policy, call.op) /\ call' = [call EXCEPT !.todo = Tail(@), !.policy = policy]
             /\ UNCHANGED <<stage, late, net, origin>>
          \/ Raise("policy", Error("refused", 0))
        BY <1>4 DEF CheckPolicy
  <2>2. CASE Raise("policy", Error("refused", 0)) BY <1>3, <2>2 DEF Steps, ErrorKinds
  <2>3. CASE /\ Accepts(policy, call.op) /\ call' = [call EXCEPT !.todo = Tail(@), !.policy = policy]
             /\ UNCHANGED <<stage, late, net, origin>>
    <3>1. /\ call'.op = call.op /\ call'.todo = Tail(call.todo) /\ call'.attempts = call.attempts
          /\ call'.policy = policy /\ call'.evidence = call.evidence /\ call'.credential = call.credential
          BY <1>0, <2>3 DEF CallRecords
    <3>2. call' \in CallRecords BY <1>0, <1>2, <2>3 DEF CallRecords
    <3>3. ~OnCKAN => call'.policy # None /\ AcceptsPolicy(call'.policy, call.op.destructive)
          BY <2>3, <3>1 DEF Accepts, AcceptsPolicy, OnCKAN
    <3>4. /\ call'.evidence # None => /\ call'.credential \in {None, call'.evidence.scope}
                                      /\ call.op.guard = "admin" => call'.evidence.admin
          BY <1>0, <3>1 DEF CheckedInv
    <3>5. call.evidence # None \/ Head(call.todo) = "permission" => call'.evidence # None
          BY <1>4, <3>1 DEF CheckPolicy, OnStep
    <3>6. ~OnCKAN => (call.policy # None \/ Head(call.todo) = "policy" => call'.policy # None) BY <3>3
    <3>7. OnCKAN \/ call'.policy = None \/ AcceptsPolicy(call'.policy, call.op.destructive) BY <3>3
    <3> QED BY <1>0, <2>3, <3>1, <3>2, <3>4, <3>5, <3>6, <3>7, PassedStep
  <2> QED BY <2>1, <2>2, <2>3
<1>5. CASE CheckPermission
  <2>1. PICK evidence \in Evidences \cup {None}, now \in Yields :
          \/ /\ AcceptsEvidence(evidence, now)
             /\ call' = [call EXCEPT !.todo = Tail(@), !.evidence = evidence, !.credential = now]
             /\ UNCHANGED <<stage, late, net, origin>>
          \/ Raise("permission", Error("refused", 0))
        BY <1>5 DEF CheckPermission
  <2>2. CASE Raise("permission", Error("refused", 0)) BY <1>3, <2>2 DEF Steps, ErrorKinds
  <2>3. CASE /\ AcceptsEvidence(evidence, now)
             /\ call' = [call EXCEPT !.todo = Tail(@), !.evidence = evidence, !.credential = now]
             /\ UNCHANGED <<stage, late, net, origin>>
    <3>1. /\ call'.op = call.op /\ call'.todo = Tail(call.todo) /\ call'.attempts = call.attempts
          /\ call'.policy = call.policy /\ call'.evidence = evidence /\ call'.credential = now
          BY <1>0, <2>3 DEF CallRecords
    <3>2. call' \in CallRecords BY <1>0, <1>2, <2>3 DEF CallRecords
    <3>3. /\ call'.evidence # None
          /\ call'.credential \in {None, call'.evidence.scope}
          /\ call.op.guard = "admin" => call'.evidence.admin
          BY <2>3, <3>1 DEF AcceptsEvidence
    <3>4. OnCKAN \/ call'.policy = None \/ AcceptsPolicy(call'.policy, call.op.destructive)
          BY <1>0, <3>1 DEF CheckedInv
    <3>5. ~OnCKAN => (call.policy # None \/ Head(call.todo) = "policy" => call'.policy # None)
          BY <1>5, <3>1 DEF CheckPermission, OnStep
    <3> QED BY <1>0, <2>3, <3>1, <3>2, <3>3, <3>4, <3>5, PassedStep
  <2> QED BY <2>1, <2>2, <2>3
<1>6. CASE Build
  <2>1. OnStep("build") /\ "build" \in Steps \ {"permission", "policy"} BY <1>6 DEF Build, Steps
  <2>2. CASE Done("build") BY <1>0, <2>1, <2>2, DoneStep
  <2>3. ASSUME NEW kind \in {"refused", "native"}, Raise("build", Error(kind, 0)) PROVE CallsInv'
        BY <1>3, <2>1, <2>3 DEF ErrorKinds
  <2> QED BY <1>6, <2>2, <2>3 DEF Build
<1>7. CASE CheckAuthority
  <2>1. OnStep("authority") /\ "authority" \in Steps \ {"permission", "policy"} BY <1>7 DEF CheckAuthority, Steps
  <2>2. CASE Done("authority") BY <1>0, <2>1, <2>2, DoneStep
  <2>3. CASE Raise("authority", Error("refused", 0)) BY <1>3, <2>1, <2>3 DEF ErrorKinds
  <2> QED BY <1>7, <2>2, <2>3 DEF CheckAuthority
<1>8. CASE ReadCurrent
  <2>1. OnStep("current") /\ "current" \in Steps \ {"permission", "policy"} BY <1>8 DEF ReadCurrent, Steps
  <2>2. CASE Done("current") BY <1>0, <2>1, <2>2, DoneStep
  <2>3. ASSUME NEW e \in {Error("native", status) : status \in {0, 2, 3, 4, 5}} \cup {Error("transport", 0)},
               Raise("current", e)
        PROVE  CallsInv'
    <3>1. PICK kind \in ErrorKinds, status \in {0, 2, 3, 4, 5} : e = Error(kind, status)
          BY <2>3 DEF ErrorKinds
    <3>2. Raise("current", Error(kind, status)) BY <2>3, <3>1
    <3> QED BY <1>3, <2>1, <3>2
  <2> QED BY <1>8, <2>2, <2>3 DEF ReadCurrent
<1>9. CASE CheckTarget
  <2>1. OnStep("target") /\ "target" \in Steps \ {"permission", "policy"} BY <1>9 DEF CheckTarget, Steps
  <2>2. CASE Done("target") BY <1>0, <2>1, <2>2, DoneStep
  <2>3. CASE Raise("target", Error("refused", 0)) BY <1>3, <2>1, <2>3 DEF ErrorKinds
  <2> QED BY <1>9, <2>2, <2>3 DEF CheckTarget
<1> QED BY <1>4, <1>5, <1>6, <1>7, <1>8, <1>9

\* A call whose service is done enters the request pipeline with everything checked.
LEMMA EnterStep ==
    ASSUME CallsInv, EnterPipeline
    PROVE  CallsInv'
<1>0. /\ RecordsInv /\ CheckedInv /\ AttemptsInv /\ call \in CallRecords /\ stage = "service" /\ call.todo = <<>>
      /\ net = NoTraffic
      BY DEF CallsInv, RecordsInv, EnterPipeline, TrafficInv
<1>1. stage' \in {"scope", "gate"} /\ UNCHANGED <<late, net, origin>> BY DEF EnterPipeline
<1>2. call' = [call EXCEPT !.begun = (call.op.service = "site")] BY DEF EnterPipeline
<1>3. /\ call'.op = call.op /\ call'.policy = call.policy /\ call'.evidence = call.evidence
      /\ call'.credential = call.credential /\ call'.attempts = call.attempts
      BY <1>0, <1>2 DEF CallRecords
<1>4. call'.begun = (call.op.service = "site") BY <1>0, <1>2 DEF CallRecords
<1>5. call' \in CallRecords
  <2>1. (call.op.service = "site") \in BOOLEAN OBVIOUS
  <2> QED BY <1>0, <1>2, <2>1 DEF CallRecords
<1>6. RecordsInv' BY <1>0, <1>1, <1>3, <1>5 DEF RecordsInv, Stages, InPipeline
<1>7. ~Pending("permission") /\ ~Pending("policy") BY <1>0 DEF Pending
<1>8. CheckedInv'
  <2> HIDE DEF Pending
  <2> QED BY <1>0, <1>1, <1>3, <1>7 DEF CheckedInv, OnCKAN, InPipeline
<1>9. AttemptsInv' BY <1>0, <1>1, <1>3 DEF AttemptsInv
<1>10. TrafficInv' BY <1>0, <1>1, EmptyRecords DEF TrafficInv, RedirectsKeepSecrets
<1>11. DispatchInv' BY <1>1, <1>3, <1>4 DEF DispatchInv
<1>12. AnswerInv' /\ RaisedInv' /\ ReceiptInv' BY <1>1 DEF AnswerInv, RaisedInv, ReceiptInv
<1> QED BY <1>6, <1>8, <1>9, <1>10, <1>11, <1>12 DEF CallsInv

\* The steps before the first attempt.
LEMMA PrepareStep ==
    ASSUME CallsInv, PassGate \/ ResolveScope \/ BuildRequest
    PROVE  CallsInv'
<1>0. /\ CallsInv /\ RecordsInv /\ CheckedInv /\ AttemptsInv /\ DispatchInv /\ call \in CallRecords
      /\ stage \in {"gate", "scope", "request"} /\ stage # "idle" /\ stage \in Places
      BY DEF CallsInv, RecordsInv, PassGate, ResolveScope, BuildRequest, Places
<1>1. net = NoTraffic /\ ~net.sent /\ ~net.applied BY <1>0, EmptyRecords DEF CallsInv, TrafficInv
<1>2. ASSUME NEW where \in Places, NEW kind \in ErrorKinds, NEW status \in {0, 2, 3, 4, 5},
             Raise(where, Error(kind, status))
      PROVE  CallsInv'
      BY <1>0, <1>1, <1>2, EarlyStep
<1>3. "gate" \in Places /\ "scope" \in Places /\ "request" \in Places BY DEF Places, Stages, InPipeline
<1>4. ASSUME UNCHANGED <<late, net, origin>>, call' \in CallRecords, call'.op = call.op,
             call'.policy = call.policy, call'.evidence = call.evidence, call'.attempts = call.attempts,
             call'.begun = call.begun,
             call.evidence # None => call'.credential \in {None, call.credential},
             \/ stage' = "scope"
             \/ stage' = "request" /\ RequireDispatchable
             \/ stage = "request" /\ stage' = "attempt" /\ (OnCKAN => AcceptsTier(call.policy, call.op))
      PROVE  CallsInv'
  <2>1. RecordsInv' BY <1>0, <1>4 DEF RecordsInv, Stages, InPipeline
  <2>2. CheckedInv' BY <1>0, <1>4 DEF CheckedInv, OnCKAN, InPipeline, RequireDispatchable
  <2>3. AttemptsInv' BY <1>0, <1>4, CallsAssumption DEF AttemptsInv
  <2>4. TrafficInv' BY <1>1, <1>4, EmptyRecords DEF TrafficInv, RedirectsKeepSecrets
  <2>5. DispatchInv' BY <1>0, <1>1, <1>4 DEF DispatchInv, Writing, OnCKAN, InPipeline
  <2>6. AnswerInv' /\ RaisedInv' /\ ReceiptInv' BY <1>4 DEF AnswerInv, RaisedInv, ReceiptInv
  <2> QED BY <2>1, <2>2, <2>3, <2>4, <2>5, <2>6 DEF CallsInv
<1>5. CASE PassGate
  <2>1. CASE Raise("gate", Error("budget", 0)) BY <1>2, <1>3, <2>1 DEF ErrorKinds
  <2>2. ASSUME NEW status \in {0, 4}, Raise("gate", Error("native", status)) PROVE CallsInv'
        BY <1>2, <1>3, <2>2 DEF ErrorKinds
  <2>3. CASE stage' = "scope" /\ UNCHANGED <<call, late, net, origin>> BY <1>0, <1>4, <2>3
  <2> QED BY <1>5, <2>1, <2>2, <2>3 DEF PassGate
<1>6. CASE ResolveScope
  <2>1. ASSUME NEW kind \in {"refused", "native"}, Raise("scope", Error(kind, 0)) PROVE CallsInv'
        BY <1>2, <1>3, <2>1 DEF ErrorKinds
  <2>2. ASSUME RequireDispatchable, stage' = "request", NEW now \in Yields,
               call' = [call EXCEPT !.credential = SentCredential(now)], UNCHANGED <<late, net, origin>>
        PROVE  CallsInv'
    <3>1. SentCredential(now) \in Yields BY <1>0, <2>2 DEF SentCredential, CallRecords, Yields
    <3>2. call' \in CallRecords BY <1>0, <2>2, <3>1 DEF CallRecords
    <3>3. /\ call'.op = call.op /\ call'.policy = call.policy /\ call'.evidence = call.evidence
          /\ call'.attempts = call.attempts /\ call'.begun = call.begun /\ call'.credential = SentCredential(now)
          BY <1>0, <2>2 DEF CallRecords
    <3>4. call.evidence # None => call'.credential \in {None, call.credential} BY <3>3 DEF SentCredential
    <3> QED BY <1>4, <2>2, <3>2, <3>3, <3>4
  <2> QED BY <1>6, <2>1, <2>2 DEF ResolveScope
<1>7. CASE BuildRequest
  <2>1. ASSUME NEW kind \in {"budget", "native", "refused"}, Raise("request", Error(kind, 0)) PROVE CallsInv'
        BY <1>2, <1>3, <2>1 DEF ErrorKinds
  <2>2. CASE /\ OnCKAN => AcceptsTier(call.policy, call.op)
             /\ stage' = "attempt" /\ UNCHANGED <<call, late, net, origin>>
        BY <1>0, <1>4, <1>7, <2>2 DEF BuildRequest
  <2> QED BY <1>7, <2>1, <2>2 DEF BuildRequest
<1> QED BY <1>5, <1>6, <1>7

\* An attempt is counted before it is sent.
LEMMA AttemptStep ==
    ASSUME CallsInv, Attempt
    PROVE  CallsInv'
<1>0. /\ CallsInv /\ RecordsInv /\ CheckedInv /\ AttemptsInv /\ TrafficInv /\ DispatchInv /\ call \in CallRecords
      /\ stage = "attempt" /\ stage # "idle"
      BY DEF CallsInv, RecordsInv, Attempt
<1>1. Writing => ~net.applied /\ ~AllowsRetry BY <1>0, NoRetry DEF DispatchInv
<1>2. ASSUME NEW kind \in {"budget", "native"}, Raise("attempt", Error(kind, 0)) PROVE CallsInv'
  <2>1. "attempt" \in Places /\ kind \in ErrorKinds BY DEF Places, Stages, InPipeline, ErrorKinds
  <2>2. kind = "refused" \/ "attempt" = "build" => ~net.sent OBVIOUS
  <2> QED BY <1>0, <1>1, <1>2, <2>1, <2>2, EarlyStep
<1>3. CASE /\ stage' = "encoded" /\ UNCHANGED <<late, net, origin>>
           /\ call' = [call EXCEPT !.attempts = @ + 1, !.begun = @ \/ call.op.body = "form"]
  <2>1. /\ call'.op = call.op /\ call'.policy = call.policy /\ call'.evidence = call.evidence
        /\ call'.credential = call.credential
        BY <1>0, <1>3 DEF CallRecords
  <2>2. call'.attempts = call.attempts + 1 BY <1>0, <1>3 DEF CallRecords
  <2>3. call'.begun = (call.begun \/ call.op.body = "form") BY <1>0, <1>3 DEF CallRecords
  <2>4. call.attempts + 1 \in 0..MaxAttempts BY <1>0, CallsAssumption DEF AttemptsInv, CallRecords
  <2>5. call' \in CallRecords
    <3>1. (call.begun \/ call.op.body = "form") \in BOOLEAN OBVIOUS
    <3> QED BY <1>0, <1>3, <2>4, <3>1 DEF CallRecords
  <2>6. RecordsInv' BY <1>0, <1>3, <2>1, <2>5 DEF RecordsInv, Stages, InPipeline
  <2>7. CheckedInv' BY <1>0, <1>3, <2>1 DEF CheckedInv, OnCKAN, InPipeline, RequireDispatchable
  <2>8. AttemptsInv'
    <3>1. call.attempts \in Nat BY <1>0 DEF CallRecords
    <3>2. call.attempts > 0 => AllowsRetry BY <1>0 DEF AttemptsInv
    <3>3. Writing => call.attempts = 0 BY <1>1, <3>1, <3>2
    <3>4. ~call.op.reads /\ call.attempts > 0 => call.policy # None /\ call.policy.odd = "retry"
          BY <3>2 DEF AllowsRetry
    <3> QED BY <1>3, <2>1, <2>2, <3>1, <3>3, <3>4 DEF AttemptsInv, Writing, OnCKAN
  <2>9. TrafficInv' BY <1>0, <1>3, <2>1 DEF TrafficInv, RedirectsKeepSecrets, OnCKAN
  <2>10. DispatchInv'
    <3>1. Writing /\ call.op.service = "oauth" => call'.begun BY <1>0, <2>3, UnderWay DEF Writing
    <3>2. Writing /\ call.op.service = "site" => call'.begun BY <1>0, <2>3 DEF DispatchInv, InPipeline
    <3> QED BY <1>0, <1>1, <1>3, <2>1, <3>1, <3>2 DEF DispatchInv, Writing, OnCKAN
  <2>11. AnswerInv' /\ RaisedInv' /\ ReceiptInv' BY <1>3 DEF AnswerInv, RaisedInv, ReceiptInv
  <2> QED BY <2>6, <2>7, <2>8, <2>9, <2>10, <2>11 DEF CallsInv
<1> QED BY <1>2, <1>3 DEF Attempt

\* A request in the network keeps the invariant while the call itself is unchanged.
LEMMA FlightStep ==
    ASSUME CallsInv, stage \in Sending, stage' \in {"flight", "handled"}, UNCHANGED <<call, late, origin>>,
           net' \in Traffic, net'.as \in {None, call.credential},
           net'.hops > 0 => OnCKAN \/ call.op.body \in {"none", "json"},
           RedirectsKeepSecrets',
           Writing /\ stage' = "flight" /\ net'.hops = 0 => ~net'.applied
    PROVE  CallsInv'
<1>0. RecordsInv /\ CheckedInv /\ AttemptsInv /\ DispatchInv /\ stage # "idle" BY DEF CallsInv, Sending
<1>1. RecordsInv' BY <1>0 DEF RecordsInv, Stages, InPipeline
<1>2. CheckedInv' BY <1>0 DEF CheckedInv, OnCKAN, InPipeline, Sending, RequireDispatchable
<1>3. AttemptsInv' BY <1>0 DEF AttemptsInv, Writing, OnCKAN, Sending
<1>4. TrafficInv' BY DEF TrafficInv, OnCKAN
<1>5. DispatchInv' BY <1>0 DEF DispatchInv, Writing, OnCKAN, InPipeline, Sending
<1>6. AnswerInv' /\ RaisedInv' /\ ReceiptInv' BY DEF AnswerInv, RaisedInv, ReceiptInv
<1> QED BY <1>1, <1>2, <1>3, <1>4, <1>5, <1>6 DEF CallsInv

\* A request is sent with the credential that was checked.
LEMMA SendStep ==
    ASSUME CallsInv, Send
    PROVE  CallsInv'
<1>0. /\ CallsInv /\ RecordsInv /\ DispatchInv /\ call \in CallRecords /\ net \in Traffic
      /\ stage = "encoded" /\ stage \in Sending /\ stage # "idle"
      BY DEF CallsInv, RecordsInv, Send, Sending
<1>1. CASE Raise("attempt", Error("budget", 0))
  <2>1. "attempt" \in Places /\ "budget" \in ErrorKinds BY DEF Places, Stages, InPipeline, ErrorKinds
  <2>2. Writing => ~net.applied BY <1>0 DEF DispatchInv
  <2>3. "budget" = "refused" \/ "attempt" = "build" => ~net.sent OBVIOUS
  <2> QED BY <1>0, <1>1, <2>1, <2>2, <2>3, EarlyStep
<1>2. CASE Raise("flight", BudgetError(0)) BY <1>0, <1>2, BudgetStep
<1>3. CASE TransportFails BY <1>0, <1>3, TransportStep
<1>4. CASE /\ stage' = "flight" /\ UNCHANGED <<call, late, origin>>
           /\ net' = [NoTraffic EXCEPT !.sent = TRUE, !.applied = net.applied, !.method = call.op.method,
                                       !.body = call.op.body # "none", !.as = call.credential]
  <2>1. net'.as = call.credential /\ net'.hops = 0 /\ net'.at = "home" BY <1>4 DEF NoTraffic
  <2>2. net'.applied = net.applied BY <1>4 DEF NoTraffic
  <2>3. net' \in Traffic
    <3>1. /\ NoTraffic \in Traffic /\ call.op.method \in {"GET", "POST", "PUT"} /\ call.credential \in Yields
          /\ net.applied \in BOOLEAN
          BY <1>0, EmptyRecords, UnderWay DEF ShapeRecords, CallRecords, Traffic
    <3>2. TRUE \in BOOLEAN /\ (call.op.body # "none") \in BOOLEAN OBVIOUS
    <3> QED BY <1>4, <3>1, <3>2 DEF Traffic
  <2>4. RedirectsKeepSecrets' BY <2>1 DEF RedirectsKeepSecrets
  <2>5. Writing => ~net'.applied BY <1>0, <2>2 DEF DispatchInv
  <2> QED BY <1>0, <1>4, <2>1, <2>3, <2>4, <2>5, FlightStep
<1> QED BY <1>1, <1>2, <1>3, <1>4 DEF Send

\* A redirect takes neither credential nor body where they may not go.
LEMMA RedirectStep ==
    ASSUME CallsInv, Redirect
    PROVE  CallsInv'
<1>0. /\ CallsInv /\ RecordsInv /\ TrafficInv /\ call \in CallRecords /\ net \in Traffic
      /\ stage = "handled" /\ stage \in Sending /\ stage # "idle" /\ call.op.onRedirect = "follow"
      BY DEF CallsInv, RecordsInv, Redirect, Sending
<1>p. PICK status \in {301, 303, 307}, target \in Targets,
           scope \in IF net.scope = None THEN Scopes ELSE {net.scope} :
         \/ TransportFails
         \/ /\ ~RefusesBody(status, target)
            /\ net.hops < MaxRedirects
            /\ stage' = "flight"
            /\ net' = [net EXCEPT !.method = IF Downgrades(status) THEN "GET" ELSE @,
                                  !.body = @ /\ ~Downgrades(status),
                                  !.as = IF RetainsCredentials(scope, target) THEN @ ELSE None,
                                  !.at = target, !.hops = @ + 1, !.scope = scope]
            /\ UNCHANGED <<call, late, origin>>
      BY DEF Redirect
<1>1. CASE TransportFails BY <1>0, <1>1, TransportStep
<1>2. CASE /\ ~RefusesBody(status, target)
           /\ net.hops < MaxRedirects
           /\ stage' = "flight"
           /\ net' = [net EXCEPT !.method = IF Downgrades(status) THEN "GET" ELSE @,
                                 !.body = @ /\ ~Downgrades(status),
                                 !.as = IF RetainsCredentials(scope, target) THEN @ ELSE None,
                                 !.at = target, !.hops = @ + 1, !.scope = scope]
           /\ UNCHANGED <<call, late, origin>>
  <2>1. scope \in Scopes /\ (net.scope # None => scope = net.scope) BY <1>0 DEF Traffic
  <2>2. net'.as = (IF RetainsCredentials(scope, target) THEN net.as ELSE None) BY <1>0, <1>2 DEF Traffic
  <2>3. net'.at = target BY <1>0, <1>2 DEF Traffic
  <2>4. net'.hops = net.hops + 1 BY <1>0, <1>2 DEF Traffic
  <2>5. net'.scope = scope BY <1>0, <1>2 DEF Traffic
  <2>6. net'.body = (net.body /\ ~Downgrades(status)) BY <1>0, <1>2 DEF Traffic
  <2>7. net' \in Traffic
    <3>1. PICK m \in {"none", "GET", "POST", "PUT"} : m = IF Downgrades(status) THEN "GET" ELSE net.method
          BY <1>0 DEF Traffic
    <3>2. PICK b \in BOOLEAN : b = (net.body /\ ~Downgrades(status)) OBVIOUS
    <3>3. PICK a \in Yields : a = IF RetainsCredentials(scope, target) THEN net.as ELSE None
          BY <1>0 DEF Traffic, Yields
    <3>4. PICK h \in 0..MaxRedirects : h = net.hops + 1 BY <1>0, <1>2, CallsAssumption DEF Traffic
    <3>5. net' = [net EXCEPT !.method = m, !.body = b, !.as = a, !.at = target, !.hops = h, !.scope = scope]
          BY <1>2, <3>1, <3>2, <3>3, <3>4
    <3> QED BY <1>0, <2>1, <3>5 DEF Traffic
  <2>8. net'.at # "home" => ~net'.body
        BY <1>0, <1>2, <2>3, <2>6 DEF TrafficInv, RedirectsKeepSecrets, RefusesBody
  <2>9. net'.at # "home" /\ net'.as # None => net'.scope = "redirects" /\ net'.at = "allied"
    <3>1. SUFFICES ASSUME target # "home", RetainsCredentials(scope, target), net.as # None
                   PROVE  scope = "redirects" /\ target = "allied"
          BY <2>2, <2>3, <2>5
    <3>2. CASE scope = "unset"
      <4>1. target = net.at BY <3>1, <3>2 DEF RetainsCredentials
      <4>2. net.scope = "redirects" BY <1>0, <3>1, <4>1 DEF TrafficInv, RedirectsKeepSecrets
      <4>3. net.scope # None BY <4>2, ScopesAssumption DEF Scopes
      <4> QED BY <2>1, <3>2, <4>2, <4>3
    <3>3. CASE scope = "redirects" BY <3>1, <3>3 DEF RetainsCredentials
    <3>4. CASE scope = "pinned" BY <3>1, <3>4 DEF RetainsCredentials
    <3> QED BY <2>1, <3>2, <3>3, <3>4 DEF Scopes
  <2>10. RedirectsKeepSecrets' BY <2>8, <2>9 DEF RedirectsKeepSecrets
  <2>11. net'.as \in {None, call.credential} BY <1>0, <2>2 DEF TrafficInv
  <2>12. OnCKAN \/ call.op.body \in {"none", "json"} BY <1>0, UnderWay
  <2>13. net'.hops # 0 BY <1>0, <2>4, CallsAssumption DEF Traffic
  <2> QED BY <1>0, <1>2, <2>7, <2>10, <2>11, <2>12, <2>13, FlightStep
<1> QED BY <1>p, <1>1, <1>2

\* The deployment handles the request, or an upload fails while it is read.
LEMMA HandleStep ==
    ASSUME CallsInv, Handle \/ InputUnreadable
    PROVE  CallsInv'
<1>0. /\ CallsInv /\ RecordsInv /\ TrafficInv /\ DispatchInv /\ net \in Traffic
      /\ stage = "flight" /\ stage \in Sending /\ stage # "idle"
      BY DEF CallsInv, RecordsInv, Handle, InputUnreadable, Sending
<1>1. CASE Handle
  <2>1. PICK applied \in BOOLEAN : net' = [net EXCEPT !.applied = @ \/ applied] BY <1>1 DEF Handle
  <2>2. stage' = "handled" /\ UNCHANGED <<call, late, origin>> BY <1>1 DEF Handle
  <2>3. net'.as = net.as /\ net'.hops = net.hops /\ net'.at = net.at /\ net'.body = net.body /\ net'.scope = net.scope
        BY <1>0, <2>1 DEF Traffic
  <2>4. net' \in Traffic
    <3>1. (net.applied \/ applied) \in BOOLEAN OBVIOUS
    <3> QED BY <1>0, <2>1, <3>1 DEF Traffic
  <2>5. RedirectsKeepSecrets' BY <1>0, <2>3 DEF TrafficInv, RedirectsKeepSecrets
  <2>6. net'.as \in {None, call.credential} /\ (net'.hops > 0 => OnCKAN \/ call.op.body \in {"none", "json"})
        BY <1>0, <2>3 DEF TrafficInv
  <2> QED BY <1>0, <2>2, <2>4, <2>5, <2>6, FlightStep
<1>2. CASE InputUnreadable
  <2>1. call.op.body = "stream" /\ Raise("flight", Error("os", 0)) BY <1>2 DEF InputUnreadable
  <2>2. Writing => ~net.applied
    <3>1. net.hops \in Nat BY <1>0 DEF Traffic
    <3> QED BY <1>0, <2>1, <3>1 DEF TrafficInv, DispatchInv, Writing
  <2>3. "flight" \in Places /\ "os" \in ErrorKinds BY DEF Places, Stages, InPipeline, ErrorKinds
  <2>4. "os" = "refused" \/ "flight" = "build" => ~net.sent OBVIOUS
  <2> QED BY <1>0, <2>1, <2>2, <2>3, <2>4, EarlyStep
<1> QED BY <1>1, <1>2

\* An answer is applied to the call, retried, lost, or cut short.
LEMMA AnswerStep ==
    ASSUME CallsInv, Answer \/ Lose \/ CutErrorBody
    PROVE  CallsInv'
<1>0. /\ CallsInv /\ RecordsInv /\ CheckedInv /\ AttemptsInv /\ call \in CallRecords /\ net \in Traffic
      /\ stage \in {"flight", "handled"} /\ stage \in Sending /\ stage # "idle"
      BY DEF CallsInv, RecordsInv, Answer, Lose, CutErrorBody, Sending
<1>3. CASE CutErrorBody
  <2>1. Raise("flight", Error("os", 0)) /\ (Writing => call.op.body # "stream")
        BY <1>3 DEF CutErrorBody, Writing
  <2>2. "flight" \in Places /\ "os" \in ErrorKinds BY DEF Places, Stages, InPipeline, ErrorKinds
  <2>3. /\ Error("os", 0) \in ErrorRecords /\ Error("os", 0).kind = "os" /\ Error("os", 0).kind # "none"
        BY <2>2, ErrorFacts
  <2>4. Error("os", 0).kind = "refused" \/ "flight" = "build" => ~net.sent BY <2>3
  <2>5. Writing /\ net.applied => Explained("flight", Error("os", 0)) BY <2>1, <2>3 DEF Explained
  <2> QED BY <1>0, <2>1, <2>2, <2>3, <2>4, <2>5, RaiseStep
<1>1. CASE Lose
  <2>1. CASE Raise("flight", BudgetError(0)) BY <1>0, <2>1, BudgetStep
  <2>2. CASE TransportFails BY <1>0, <2>2, TransportStep
  <2> QED BY <1>1, <2>1, <2>2 DEF Lose
<1>2. CASE Answer
  <2>1. PICK s \in IF net.applied THEN {2, 5} ELSE IF OnlyReads THEN {2, 3, 4, 5} ELSE {3, 4, 5} :
          \/ Raise("flight", BudgetError(s))
          \/ RetryLater
          \/ /\ stage' = "answered" /\ call' = [call EXCEPT !.answer = s] /\ net' = Ended(net)
             /\ UNCHANGED <<late, origin>>
        BY <1>2 DEF Answer
  <2>2. s \in {0, 2, 3, 4, 5} OBVIOUS
  <2>3. CASE Raise("flight", BudgetError(s)) BY <1>0, <2>2, <2>3, BudgetStep
  <2>4. CASE RetryLater BY <1>0, <2>4, RetryStep
  <2>5. CASE /\ stage' = "answered" /\ call' = [call EXCEPT !.answer = s] /\ net' = Ended(net)
             /\ UNCHANGED <<late, origin>>
    <3>1. /\ call'.op = call.op /\ call'.policy = call.policy /\ call'.evidence = call.evidence
          /\ call'.credential = call.credential /\ call'.attempts = call.attempts /\ call'.answer = s
          BY <1>0, <2>5 DEF CallRecords
    <3>2. call' \in CallRecords BY <1>0, <2>2, <2>5 DEF CallRecords
    <3>3. /\ net' \in Traffic /\ net'.applied = net.applied /\ net'.method = net.method /\ net'.hops = 0
          /\ net'.at = "home" /\ net' = Ended(net')
          BY <1>0, <2>5, EndedFacts
    <3>4. RecordsInv' BY <1>0, <2>5, <3>1, <3>2, <3>3 DEF RecordsInv, Stages
    <3>5. CheckedInv' BY <1>0, <2>5, <3>1 DEF CheckedInv, OnCKAN, InPipeline
    <3>6. AttemptsInv' BY <1>0, <2>5, <3>1 DEF AttemptsInv, Writing, OnCKAN
    <3>7. TrafficInv' BY <2>5, <3>3 DEF TrafficInv, RedirectsKeepSecrets
    <3>8. AnswerInv'
      <4>1. net.applied => s \in {2, 5} OBVIOUS
      <4>2. s = 2 /\ ~call.op.reads => net.applied \/ net.method = "GET" BY DEF OnlyReads
      <4> QED BY <2>5, <3>1, <3>3, <4>1, <4>2 DEF AnswerInv
    <3>9. DispatchInv' /\ RaisedInv' /\ ReceiptInv' BY <2>5 DEF DispatchInv, RaisedInv, ReceiptInv, InPipeline
    <3> QED BY <3>4, <3>5, <3>6, <3>7, <3>8, <3>9 DEF CallsInv
  <2> QED BY <2>1, <2>3, <2>4, <2>5
<1> QED BY <1>1, <1>2, <1>3

\* The answer is decoded, or its error is raised with its status.
LEMMA DecodeStep ==
    ASSUME CallsInv, Decode
    PROVE  CallsInv'
<1>0. /\ CallsInv /\ RecordsInv /\ CheckedInv /\ AttemptsInv /\ TrafficInv /\ AnswerInv /\ call \in CallRecords
      /\ net \in Traffic /\ stage = "answered" /\ stage # "idle"
      BY DEF CallsInv, RecordsInv, Decode
<1>1. CASE Raise("decode", Error("native", call.answer))
  <2> DEFINE e == Error("native", call.answer)
  <2>1. /\ "decode" \in Places /\ e \in ErrorRecords /\ e.kind = "native" /\ e.status = call.answer /\ e.kind # "none"
        BY <1>0, ErrorFacts DEF Places, ErrorKinds, CallRecords
  <2>2. e.kind = "refused" \/ "decode" = "build" => ~net.sent BY <2>1
  <2>3. Writing /\ net.applied => Explained("decode", e) BY <1>0, <2>1 DEF Explained, AnswerInv
  <2> HIDE DEF e
  <2>4. Raise("decode", e) BY <1>1 DEF e
  <2> QED BY <1>0, <2>1, <2>2, <2>3, <2>4, RaiseStep
<1>2. CASE /\ \/ call.answer = 2
              \/ call.answer = 3 /\ call.op.onRedirect = "answer" /\ call.op.service # "site"
              \/ call.answer \in {4, 5} /\ call.op.lenient
           /\ stage' = "shape" /\ call' = [call EXCEPT !.bound = TRUE] /\ UNCHANGED <<late, net, origin>>
  <2>1. /\ call'.op = call.op /\ call'.policy = call.policy /\ call'.evidence = call.evidence
        /\ call'.credential = call.credential /\ call'.attempts = call.attempts /\ call'.answer = call.answer
        BY <1>0, <1>2 DEF CallRecords
  <2>2. call'.bound = TRUE BY <1>0, <1>2 DEF CallRecords
  <2>3. call' \in CallRecords BY <1>0, <1>2 DEF CallRecords
  <2>4. RecordsInv' BY <1>0, <1>2, <2>1, <2>3 DEF RecordsInv, Stages
  <2>5. CheckedInv' BY <1>0, <1>2, <2>1 DEF CheckedInv, OnCKAN, InPipeline
  <2>6. AttemptsInv' BY <1>0, <1>2, <2>1 DEF AttemptsInv, Writing, OnCKAN
  <2>7. TrafficInv' BY <1>0, <1>2, <2>1 DEF TrafficInv, RedirectsKeepSecrets, OnCKAN
  <2>8. AnswerInv'
    <3>1. ~call.op.reads => \/ call.answer = 2 /\ (net.applied \/ net.method = "GET")
                            \/ call.answer = 3 /\ call.op.service = "oauth"
          BY <1>0, <1>2, UnderWay DEF AnswerInv
    <3> QED BY <1>2, <2>1, <2>2, <3>1 DEF AnswerInv
  <2>9. DispatchInv' /\ RaisedInv' /\ ReceiptInv' BY <1>2 DEF DispatchInv, RaisedInv, ReceiptInv, InPipeline
  <2> QED BY <2>4, <2>5, <2>6, <2>7, <2>8, <2>9 DEF CallsInv
<1> QED BY <1>1, <1>2 DEF Decode

\* The receipt of a failed write is one of the caller's outcomes of a failure.
LEMMA FailureReceiptFacts ==
    ASSUME CallsInv, stage = "raised", Writing
    PROVE  /\ FailureReceipt \in {"rejected", "failed", "ambiguous", "cancelled"}
           /\ FailureReceipt = "rejected" => ~net.sent
           /\ FailureReceipt = "failed" /\ net.applied =>
                 \/ call.error.kind = "exit"
                 \/ call.error.kind = "os" /\ call.op.body # "stream"
                 \/ call.error.status = 5 /\ call.op.service # "transfers"
<1>0. /\ call.error.kind = "refused" \/ call.at = "build" => ~net.sent
      /\ net.applied => Explained(call.at, call.error)
      BY DEF CallsInv, RaisedInv
<1>1. ASSUME NEW dispatched \in BOOLEAN
      PROVE  /\ MutationOutcome(dispatched) \in {"rejected", "failed", "ambiguous", "cancelled"}
             /\ MutationOutcome(dispatched) = "rejected" => call.error.kind = "refused"
             /\ MutationOutcome(dispatched) = "failed" =>
                   /\ call.error.kind \notin Cancellations
                   /\ ~call.error.ambiguous /\ ~TransferUnsettled
                   /\ ErrorStatus \notin {2, 3} /\ ~(dispatched /\ call.error.kind = "transport")
      BY DEF MutationOutcome
<1>2. ASSUME NEW dispatched \in BOOLEAN, call.op.service \in {"oauth", "site"} => dispatched = call.begun,
             call.op.service \notin {"oauth", "site"} => dispatched,
             MutationOutcome(dispatched) = "failed", net.applied
      PROVE  \/ call.error.kind = "exit"
             \/ call.error.kind = "os" /\ call.op.body # "stream"
             \/ call.error.status = 5 /\ call.op.service # "transfers"
      BY <1>0, <1>1, <1>2 DEF Explained, Cancellations, TransferUnsettled, ErrorStatus
<1>3. call.begun \in BOOLEAN BY DEF CallsInv, RecordsInv, CallRecords
<1>4. CASE call.op.service = "oauth"
  <2>1. FailureReceipt \in {"ambiguous", MutationOutcome(call.begun)} BY <1>4 DEF FailureReceipt
  <2> QED BY <1>0, <1>1, <1>2, <1>3, <1>4, <2>1
<1>5. CASE call.op.service = "site"
  <2>1. FailureReceipt = MutationOutcome(call.begun) BY <1>5 DEF FailureReceipt
  <2> QED BY <1>0, <1>1, <1>2, <1>3, <1>5, <2>1
<1>6. CASE call.op.service \notin {"oauth", "site"}
  <2>1. \/ FailureReceipt = "rejected" /\ call.at = "build"
        \/ FailureReceipt = "ambiguous"
        \/ FailureReceipt = MutationOutcome(TRUE)
        BY <1>6 DEF FailureReceipt
  <2> QED BY <1>0, <1>1, <1>2, <1>6, <2>1
<1> QED BY <1>4, <1>5, <1>6

\* The outcome is settled.
LEMMA SettlementStep ==
    ASSUME CallsInv, ShapeResult \/ Settle
    PROVE  CallsInv'
<1>0. /\ CallsInv /\ RecordsInv /\ AnswerInv /\ RaisedInv /\ stage # "idle" /\ net = Ended(net)
      BY DEF CallsInv, TrafficInv, ShapeResult, Settle
<1>1. CASE ShapeResult
  <2> DEFINE r == IF call.op.reads \/ call.op.service = "ckanNative" THEN "none" ELSE "succeeded"
             e == Error("native", 0)
  <2>1. CASE SettleAs(r)
    <3>1. r \in Outcomes /\ r # "rejected" /\ r # "failed" BY DEF Outcomes
    <3>2. r = "succeeded" => net.applied \/ net.method = "GET" \/ call.op.service = "oauth"
          BY <1>0, <1>1 DEF AnswerInv, ShapeResult
    <3>3. ~call.op.reads /\ r = "none" =>
             OnCKAN \/ (call.op.service = "site" /\ call.error.kind \in {"interrupt", "exit"})
          BY DEF OnCKAN, CKANServices
    <3> HIDE DEF r
    <3> QED BY <1>0, <2>1, <3>1, <3>2, <3>3, SettleStep
  <2>2. CASE Raise("shape", e)
    <3>1. "shape" \in Places /\ e \in ErrorRecords /\ e.kind = "native" /\ e.kind # "none" /\ e.status = 0
          BY ErrorFacts DEF Places, Stages, ErrorKinds
    <3>2. e.kind = "refused" \/ "shape" = "build" => ~net.sent BY <3>1
    <3>3. Writing /\ net.applied => Explained("shape", e)
          BY <1>0, <1>1, <3>1 DEF Explained, AnswerInv, ShapeResult, Writing
    <3> HIDE DEF e
    <3> QED BY <1>0, <2>2, <3>1, <3>2, <3>3, RaiseStep
  <2> QED BY <1>1, <2>1, <2>2 DEF ShapeResult
<1>2. CASE Settle
  <2> DEFINE r == IF ~call.op.reads /\ Covered THEN FailureReceipt ELSE "none"
  <2>1. stage = "raised" /\ SettleAs(r) BY <1>2 DEF Settle
  <2>2. ~call.op.reads /\ Covered => Writing BY DEF Covered, Writing
  <2>3. /\ r \in Outcomes /\ (r = "rejected" => ~net.sent) /\ r # "succeeded"
        /\ r = "failed" /\ net.applied =>
              \/ call.error.kind = "exit"
              \/ call.error.kind = "os" /\ call.op.body # "stream"
              \/ call.error.status = 5 /\ call.op.service # "transfers"
        BY <1>0, <2>1, <2>2, FailureReceiptFacts DEF Outcomes
  <2>4. ~call.op.reads /\ r = "none" =>
           OnCKAN \/ (call.op.service = "site" /\ call.error.kind \in {"interrupt", "exit"})
        BY <1>0, <2>1, <2>2, FailureReceiptFacts DEF Covered
  <2> HIDE DEF r
  <2> QED BY <1>0, <2>1, <2>3, <2>4, SettleStep
<1> QED BY <1>1, <1>2

\* The input is closed and the caller has its answer.
LEMMA ReturnStep ==
    ASSUME CallsInv, Finish \/ Return
    PROVE  CallsInv'
<1>0. RecordsInv /\ CheckedInv /\ AttemptsInv /\ TrafficInv /\ ReceiptInv /\ call \in CallRecords
      BY DEF CallsInv, RecordsInv
<1>1. CASE Finish
  <2>1. stage = "settled" /\ stage' = "done" /\ UNCHANGED <<late, net, origin>> BY <1>1 DEF Finish
  <2>2. call' = [call EXCEPT !.input = IF @ = "open" THEN "closed" ELSE @] BY <1>1 DEF Finish
  <2>3. /\ call'.op = call.op /\ call'.policy = call.policy /\ call'.evidence = call.evidence
        /\ call'.credential = call.credential /\ call'.attempts = call.attempts /\ call'.error = call.error
        /\ call'.receipt = call.receipt
        BY <1>0, <2>2 DEF CallRecords
  <2>4. call'.input # "open" BY <1>0, <2>2 DEF CallRecords
  <2>5. call' \in CallRecords BY <1>0, <2>2 DEF CallRecords
  <2>6. RecordsInv' BY <1>0, <2>1, <2>3, <2>5 DEF RecordsInv, Stages
  <2>7. CheckedInv' BY <1>0, <2>1, <2>3 DEF CheckedInv, OnCKAN, InPipeline
  <2>8. AttemptsInv' BY <1>0, <2>1, <2>3 DEF AttemptsInv, Writing, OnCKAN
  <2>9. TrafficInv' BY <1>0, <2>1, <2>3 DEF TrafficInv, RedirectsKeepSecrets, OnCKAN
  <2>10. DispatchInv' /\ AnswerInv' /\ RaisedInv' BY <2>1 DEF DispatchInv, AnswerInv, RaisedInv, InPipeline
  <2>11. ReceiptInv' BY <1>0, <2>1, <2>3, <2>4 DEF ReceiptInv, OnCKAN
  <2> QED BY <2>6, <2>7, <2>8, <2>9, <2>10, <2>11 DEF CallsInv
<1>2. CASE Return
  <2>1. stage' = "idle" /\ call' = NoCall /\ late' = FALSE /\ net' = NoTraffic /\ origin' = origin BY <1>2 DEF Return
  <2>2. late' \in BOOLEAN BY <2>1
  <2>3. RecordsInv' BY <1>0, <2>1, <2>2, EmptyRecords DEF RecordsInv, Stages
  <2>4. CheckedInv' /\ DispatchInv' /\ AnswerInv' /\ RaisedInv' /\ ReceiptInv'
        BY <2>1 DEF CheckedInv, DispatchInv, AnswerInv, RaisedInv, ReceiptInv
  <2>5. AttemptsInv' BY <2>1, EmptyRecords DEF AttemptsInv
  <2>6. TrafficInv' BY <2>1, EmptyRecords DEF TrafficInv, RedirectsKeepSecrets
  <2> QED BY <2>3, <2>4, <2>5, <2>6 DEF CallsInv
<1> QED BY <1>1, <1>2

\* Time passing and interrupts.
LEMMA SurroundingsStep ==
    ASSUME CallsInv, DeadlinePasses \/ Interrupt
    PROVE  CallsInv'
<1>0. RecordsInv /\ call \in CallRecords BY DEF CallsInv, RecordsInv
<1>1. CASE DeadlinePasses
  <2>1. UNCHANGED <<stage, call, net, origin>> BY <1>1 DEF DeadlinePasses
  <2>2. late' \in BOOLEAN BY <1>1 DEF DeadlinePasses
  <2>3. RecordsInv' BY <1>0, <2>1, <2>2 DEF RecordsInv
  <2>4. CheckedInv' BY <2>1 DEF CallsInv, CheckedInv, OnCKAN, RequireDispatchable, Pending
  <2>5. AttemptsInv' /\ TrafficInv' /\ DispatchInv'
        BY <2>1 DEF CallsInv, AttemptsInv, TrafficInv, DispatchInv, RedirectsKeepSecrets, Writing, OnCKAN, AllowsRetry
  <2>6. AnswerInv' /\ RaisedInv' /\ ReceiptInv'
        BY <2>1 DEF CallsInv, AnswerInv, RaisedInv, ReceiptInv, Writing, OnCKAN, Explained
  <2> QED BY <2>3, <2>4, <2>5, <2>6 DEF CallsInv
<1>2. CASE Interrupt
  <2> DEFINE where == IF stage = "service" /\ call.todo # <<>> THEN Head(call.todo)
                      ELSE IF stage \in {"flight", "handled"} THEN "flight" ELSE stage
  <2>1. PICK kind \in {"interrupt", "exit", "cancelled"} :
          stage \in InPipeline \cup {"service", "answered", "shape"} /\ Raise(where, Error(kind, 0))
        BY <1>2 DEF Interrupt
  <2>2. stage # "idle" /\ stage # "build" BY <2>1 DEF InPipeline
  <2>3. where \in Places
    <3>1. stage = "service" /\ call.todo # <<>> => Head(call.todo) \in Steps BY <1>0, TailFacts DEF CallRecords
    <3>2. stage \in Places /\ "flight" \in Places BY <1>0 DEF RecordsInv, Places, Stages, InPipeline
    <3> QED BY <3>1, <3>2 DEF Places
  <2>4. where = "build" => ~net.sent
    <3>1. where = "build" => stage = "service" BY <2>2
    <3> QED BY <3>1, EmptyRecords DEF CallsInv, TrafficInv
  <2>5. /\ Error(kind, 0) \in ErrorRecords /\ Error(kind, 0).kind = kind /\ Error(kind, 0).kind # "none"
        BY ErrorFacts DEF ErrorKinds
  <2>6. Error(kind, 0).kind = "refused" \/ where = "build" => ~net.sent BY <2>4, <2>5
  <2> HIDE DEF where
  <2>7. Writing /\ net.applied => Explained(where, Error(kind, 0)) BY <2>5 DEF Explained
  <2> QED BY <2>1, <2>2, <2>3, <2>5, <2>6, <2>7, RaiseStep
<1> QED BY <1>1, <1>2

\* Every step of a call keeps the invariant.
LEMMA CallsStepInv == CallsInv /\ [Next]_vars => CallsInv'
<1> SUFFICES ASSUME CallsInv, [Next]_vars PROVE CallsInv' OBVIOUS
<1>1. ASSUME NEW op \in Shapes, Begin(op) PROVE CallsInv' BY <1>1, BeginStep
<1>2. CASE CheckPolicy \/ CheckPermission \/ Build \/ CheckAuthority \/ ReadCurrent \/ CheckTarget BY <1>2, ServiceStepInv
<1>3. CASE EnterPipeline BY <1>3, EnterStep
<1>4. CASE PassGate \/ ResolveScope \/ BuildRequest BY <1>4, PrepareStep
<1>5. CASE Attempt BY <1>5, AttemptStep
<1>6. CASE Send BY <1>6, SendStep
<1>7. CASE Redirect BY <1>7, RedirectStep
<1>8. CASE Handle \/ InputUnreadable BY <1>8, HandleStep
<1>9. CASE Answer \/ Lose \/ CutErrorBody BY <1>9, AnswerStep
<1>10. CASE Decode BY <1>10, DecodeStep
<1>11. CASE ShapeResult \/ Settle BY <1>11, SettlementStep
<1>12. CASE Finish \/ Return BY <1>12, ReturnStep
<1>13. CASE DeadlinePasses \/ Interrupt BY <1>13, SurroundingsStep
<1>14. CASE UNCHANGED vars
  <2>1. UNCHANGED <<stage, call, late, net, origin>> BY <1>14 DEF vars
  <2>2. RecordsInv' BY <2>1 DEF CallsInv, RecordsInv
  <2>3. CheckedInv' BY <2>1 DEF CallsInv, CheckedInv, OnCKAN, RequireDispatchable, Pending
  <2>4. AttemptsInv' /\ TrafficInv' /\ DispatchInv'
        BY <2>1 DEF CallsInv, AttemptsInv, TrafficInv, DispatchInv, RedirectsKeepSecrets, Writing, OnCKAN, AllowsRetry
  <2>5. AnswerInv' /\ RaisedInv' /\ ReceiptInv'
        BY <2>1 DEF CallsInv, AnswerInv, RaisedInv, ReceiptInv, Writing, OnCKAN, Explained
  <2> QED BY <2>2, <2>3, <2>4, <2>5 DEF CallsInv
<1> QED BY <1>1, <1>2, <1>3, <1>4, <1>5, <1>6, <1>7, <1>8, <1>9, <1>10, <1>11, <1>12, <1>13, <1>14
        DEF Next, CallStep, ServiceStep, PipelineStep, ServerStep

\* What the invariant says of a call to its caller.
LEMMA CallsInvImplies ==
    ASSUME CallsInv
    PROVE  /\ WriteIsSentOnce /\ NothingSentUnchecked /\ RedirectsKeepSecrets
           /\ ReceiptIsTruthful /\ FailureIsSettled
<1>0. RecordsInv /\ call \in CallRecords /\ net \in Traffic BY DEF CallsInv, RecordsInv
<1>1. TypeOK BY <1>0 DEF TypeOK, RecordsInv, CallRecords, Traffic
<1>2. WriteIsSentOnce
  <2>1. IsWrite => stage # "idle" \/ call.attempts = 0 BY DEF CallsInv, AttemptsInv
  <2>2. call.attempts > 1 => call.attempts # 0 BY <1>0 DEF CallRecords
  <2>3. net.hops > 0 => OnCKAN \/ call.op.body \in {"none", "json"} BY DEF CallsInv, TrafficInv
  <2>4. IsWrite /\ call.attempts > 1 => OnCKAN /\ call.policy # None /\ call.policy.odd = "retry"
    <3>1. call.attempts \in Nat BY <1>0 DEF CallRecords
    <3> QED BY <2>1, <2>2, <3>1 DEF CallsInv, AttemptsInv, IsWrite, Writing
  <2> QED BY <1>1, <2>3, <2>4 DEF WriteIsSentOnce
<1>3. NothingSentUnchecked
  <2> SUFFICES ASSUME stage = "flight"
               PROVE  /\ call.op.guard # "none" => /\ call.evidence # None
                                                   /\ net.as \in {None, call.evidence.scope}
                                                   /\ call.op.guard = "admin" => call.evidence.admin
                      /\ call.op.policed =>
                          IF OnCKAN THEN call.op.destructive => /\ call.policy.destructive
                                                                /\ call.policy.odd # "confirmed"
                          ELSE AcceptsPolicy(call.policy, call.op.destructive)
                      /\ OnCKAN \/ call.op.read \/ origin = "controlled"
      BY DEF NothingSentUnchecked
  <2>1. /\ OnCKAN \/ call.policy = None \/ AcceptsPolicy(call.policy, call.op.destructive)
        /\ call.evidence # None => /\ call.credential \in {None, call.evidence.scope}
                                   /\ call.op.guard = "admin" => call.evidence.admin
        /\ call.op.guard # "none" => call.evidence # None
        /\ call.op.policed /\ ~OnCKAN => call.policy # None
        /\ RequireDispatchable
        /\ OnCKAN => AcceptsTier(call.policy, call.op)
        BY DEF CallsInv, CheckedInv, InPipeline
  <2>2. net.as \in {None, call.credential} BY DEF CallsInv, TrafficInv
  <2> QED BY <2>1, <2>2 DEF AcceptsTier, RequireDispatchable
<1>4. RedirectsKeepSecrets BY DEF CallsInv, TrafficInv
<1>5. ReceiptIsTruthful BY DEF CallsInv, ReceiptInv, ReceiptIsTruthful
<1>6. FailureIsSettled BY DEF CallsInv, ReceiptInv, FailureIsSettled, IsWrite
<1> QED BY <1>2, <1>3, <1>4, <1>5, <1>6

\* In every state of every call of a service, the records are well formed and what has
\* been checked, attempted, sent, answered and raised so far fits together.
THEOREM CallsInvariance == ClientSpec => []CallsInv
<1>1. ClientInit => CallsInv BY CallsInitInv DEF ClientInit
<1>2. CallsInv /\ [ClientNext]_clientVars => CallsInv'
  <2>1. [ClientNext]_clientVars => [Next]_vars BY DEF ClientNext, Service, Export, Waiting, clientVars
  <2> QED BY <2>1, CallsStepInv
<1> QED BY <1>1, <1>2, PTL DEF ClientSpec

\* A write leaves the process once, whatever is lost or answered, but for a CKAN write
\* whose caller allowed a retry (WriteIsSentOnce).
THEOREM WritesAreSentOnce == ClientSpec => []WriteIsSentOnce
<1>1. CallsInv => WriteIsSentOnce BY CallsInvImplies
<1> QED BY <1>1, CallsInvariance, PTL

\* What leaves the process was checked against what leaves, whatever the provider has
\* yielded since (NothingSentUnchecked).
THEOREM SendingIsChecked == ClientSpec => []NothingSentUnchecked
<1>1. CallsInv => NothingSentUnchecked BY CallsInvImplies
<1> QED BY <1>1, CallsInvariance, PTL

\* No chain of redirects, however long, takes credential or body where the scope of the
\* credential does not allow it (RedirectsKeepSecrets).
THEOREM SecretsAreKept == ClientSpec => []RedirectsKeepSecrets
<1>1. CallsInv => RedirectsKeepSecrets BY CallsInvImplies
<1> QED BY <1>1, CallsInvariance, PTL

\* The receipt never misleads the caller about the deployment, unless urllib's error
\* body broke off or the process was exiting (ReceiptIsTruthful).
THEOREM ReceiptsAreTruthful == ClientSpec => []ReceiptIsTruthful
<1>1. CallsInv => ReceiptIsTruthful BY CallsInvImplies
<1> QED BY <1>1, CallsInvariance, PTL

\* Every failed write of uData has a receipt, and every upload is closed
\* (FailureIsSettled).
THEOREM FailuresAreSettled == ClientSpec => []FailureIsSettled
<1>1. CallsInv => FailureIsSettled BY CallsInvImplies
<1> QED BY <1>1, CallsInvariance, PTL
=============================================================================
