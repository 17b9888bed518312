---------------------------- MODULE TargetAnswer ----------------------------
(***************************************************************************)
(* What one request of a workflow can come back with, and what the code    *)
(* makes of it: session/job-http-client.js first, then the client that     *)
(* asked (workflow/target-http-client.js, otp/otp-client.js with its table *)
(* parser, documents/document-client.js with its PDF validator).           *)
(*                                                                         *)
(* The order of the checks decides.  A verdict is "ok", "retry" (an error  *)
(* that calls itself retryable), "challenge" (MANUAL_CHALLENGE_REQUIRED)   *)
(* or "fatal".                                                             *)
(***************************************************************************)
\* expect.response of a step.
Expectations == { "json", "text", "empty" }

\* "none": no answer in time.  "reset": the connection fails before the head.
\* "cut": it fails, or the time is up, while the body is read.
Arrivals == { "none", "reset", "cut", "complete" }

\* "listed": a success expect.statuses lists.  "success": one it does not.
Statuses ==
  { "listed", "success", "redirect", "forbidden", "refused", "throttled", "serverError" }

\* "good" is what the request asked for: JSON, an OTP table or a PDF.
\* "challenge" carries a marker of a human-verification page.
Bodies == { "good", "empty", "malformed", "oversized", "challenge" }

ContentTypes == { "json", "html", "pdf", "absent" }

\* location: the redirect goes to a challenge.
Answers ==
  { a \in [arrival : Arrivals, status : Statuses, location : BOOLEAN,
           body : Bodies, type : ContentTypes] :
      a.location => a.status = "redirect" }

IsRedirect(a) == a.status = "redirect"
IsSuccess(a) == a.status \in { "listed", "success" }
IsHtml(a) == a.type \in { "html", "absent" }

\* A challenge page, whoever gets to see it.
IsChallengePage(a) ==
  /\ a.arrival = "complete"
  /\ \/ a.location
     \/ IsHtml(a) /\ a.body = "challenge"

\* JobHttpClient.request: a rate limit or a server error is thrown, and the body
\* thrown away, before anybody looks at it.
Transient(a) ==
  \/ a.arrival \in { "none", "reset" }
  \/ a.status \in { "throttled", "serverError" }

\* An error while the body is read is passed on as it is, and does not call
\* itself retryable; neither does the size limit.
Unreadable(a) == a.arrival = "cut" \/ a.body = "oversized"

\* What the clients' own checks are applied to.
ClientVerdict(a, verdict) ==
  CASE Transient(a) -> "retry"
    [] ~Transient(a) /\ Unreadable(a) -> "fatal"
    [] OTHER -> verdict

\* detectManualChallenge.
DetectManualChallenge(a) ==
  \/ IsRedirect(a) /\ a.location
  \/ IsHtml(a) /\ a.body = "challenge"

\* parseExpectedResponse.
Parses(a, expect) ==
  \/ expect \in { "empty", "text" }
  \/ a.type \in { "json", "absent" } /\ a.body \in { "good", "empty" }

\* TargetHttpClient.requestStep and uploadPdf, with validateResponse.
TargetVerdict(a, expect) ==
  ClientVerdict(a,
    CASE DetectManualChallenge(a) -> "challenge"
      [] ~DetectManualChallenge(a) /\ a.status = "listed" /\ Parses(a, expect) -> "ok"
      [] OTHER -> "fatal")

\* OtpTableParser.parse finds the table.
IsTable(a) == a.body = "good"

\* OtpClient.fetchTableHtml and the parser: a 403 counts as a challenge.
TableVerdict(a) ==
  ClientVerdict(a,
    CASE a.status = "forbidden" \/ IsRedirect(a) -> "challenge"
      [] IsSuccess(a) /\ IsHtml(a) /\ a.body = "challenge" -> "challenge"
      [] IsSuccess(a) /\ IsHtml(a) /\ IsTable(a) -> "ok"
      [] OTHER -> "fatal")

\* validatePdf.
IsPdf(a) == a.type = "pdf" /\ a.body = "good"

\* DocumentClient.download and the validator.
DocumentVerdict(a) ==
  ClientVerdict(a,
    CASE DetectManualChallenge(a) -> "challenge"
      [] ~DetectManualChallenge(a) /\ IsSuccess(a) /\ IsPdf(a) -> "ok"
      [] OTHER -> "fatal")

\* What is left of an answer: its verdict, and whether it was a challenge page.
Outcome(a, verdict) == [verdict |-> verdict, page |-> IsChallengePage(a)]

TargetOutcomes ==
  [e \in Expectations |-> { Outcome(a, TargetVerdict(a, e)) : a \in Answers }]
TableOutcomes == { Outcome(a, TableVerdict(a)) : a \in Answers }
DocumentOutcomes == { Outcome(a, DocumentVerdict(a)) : a \in Answers }
=============================================================================
