----------------------------- MODULE WorkflowRun -----------------------------
(***************************************************************************)
(* A workflow inside one process: WorkflowEngine.execute over the memory   *)
(* of a JobContext, the OTP service with its matcher, the document service *)
(* and the uploads, against a target that answers anything TargetAnswer    *)
(* knows.  ExecutionAttempt calls this a step and looks only at its error; *)
(* here a run that failed retryably or met a challenge is executed again   *)
(* on the same JobContext.                                                 *)
(*                                                                         *)
(* A job stands for the phone number of its application; the table of OTPs *)
(* also shows the codes of strangers.                                      *)
(***************************************************************************)
EXTENDS TargetAnswer, Naturals, Sequences, FiniteSets, SequencesExt

CONSTANTS
  Jobs,
  Strangers,    \* other phone numbers in the OTP table
  Workflow,     \* the steps: their type, and what the answer should look like
  Sources,      \* the number of documents of the application
  Contents,     \* what a source may serve
  Patience,     \* timeoutMs of the OTP service, in units of its clock
  MaxAttempts,  \* bound: executions of one job
  MaxCodes,     \* bound: codes sent to one phone number
  Null

StepTypes == { "http", "otp.prepare", "otp.wait", "documents.prepare", "documents.upload" }

ASSUME WorkflowAssumption ==
  /\ Workflow \in Seq([type : StepTypes, expect : Expectations])
  /\ Sources \in Nat \ {0} /\ Patience \in Nat
  /\ MaxAttempts \in Nat /\ MaxCodes \in Nat
  /\ Jobs \intersect Strangers = {}
  /\ Null \notin Contents

VARIABLES
  \* JobContext
  responses,   \* steps with a response
  currentStep, \* 0 for null
  otpWatch,    \* the rows of the baseline, or Null
  otp,         \* the row whose code was taken, or Null
  documents,   \* prepared documents, by content
  uploads,     \* documentUploads: steps and contents
  \* the stack of execute
  place,       \* what the run waits for
  left,        \* time until the deadline of waitForOtp
  downloaded,  \* documents prepareForJobContext has so far
  item,        \* the document whose upload is out
  verdict,     \* how the last execution ended
  attempts,
  \* the process and the world
  aborted,     \* the job's signal
  table,       \* rows the OTP table shows
  codes,       \* codes sent to a phone number so far
  \* history
  seen,         \* rows the table showed when the watch was taken
  acknowledged, \* uploads whose answer was accepted
  page          \* the answer that ended the execution was a challenge page

contextVars == << responses, currentStep, otpWatch, otp, documents, uploads >>
stackVars == << place, left, downloaded, item, verdict >>
worldVars == << aborted, table, codes >>
historyVars == << seen, acknowledged, page >>
vars == << contextVars, stackVars, attempts, worldVars, historyVars >>

Steps == 1 .. Len(Workflow)
Phones == Jobs \union Strangers

\* Row 0 of a phone number is a code of an earlier session or, with a stranger,
\* any code.
Rows == (Phones \X {0}) \union (Jobs \X (1 .. MaxCodes))

ASSUME NullAssumption == Null \notin Rows /\ \A baseline \in SUBSET Rows : baseline # Null

Places == { "idle", "between", "sent", "sleeping", "documents" }
Verdicts == { "none", "retry", "challenge", "fatal", "cancelled", "refused", "completed" }

RunTypeOK ==
  /\ responses \in [Jobs -> SUBSET Steps]
  /\ currentStep \in [Jobs -> Steps \union {0}]
  /\ otpWatch \in [Jobs -> (SUBSET Rows) \union { Null }]
  /\ otp \in [Jobs -> Rows \union { Null }]
  /\ documents \in [Jobs -> Seq(Contents)]
  /\ uploads \in [Jobs -> SUBSET (Steps \X Contents)]
  /\ place \in [Jobs -> Places]
  /\ left \in [Jobs -> 0 .. Patience]
  /\ downloaded \in [Jobs -> Seq(Contents)]
  /\ item \in [Jobs -> Contents \union { Null }]
  /\ verdict \in [Jobs -> Verdicts]
  /\ attempts \in [Jobs -> 0 .. MaxAttempts]
  /\ aborted \in BOOLEAN
  /\ table \in SUBSET Rows
  /\ codes \in [Jobs -> 0 .. MaxCodes]
  /\ seen \in [Jobs -> SUBSET Rows]
  /\ acknowledged \in [Jobs -> SUBSET (Steps \X Contents)]
  /\ page \in [Jobs -> BOOLEAN]
  /\ \A j \in Jobs : IsInjective(documents[j]) /\ IsInjective(downloaded[j])

RunInit ==
  /\ responses = [j \in Jobs |-> {}]
  /\ currentStep = [j \in Jobs |-> 0]
  /\ otpWatch = [j \in Jobs |-> Null]
  /\ otp = [j \in Jobs |-> Null]
  /\ documents = [j \in Jobs |-> << >>]
  /\ uploads = [j \in Jobs |-> {}]
  /\ place = [j \in Jobs |-> "idle"]
  /\ left = [j \in Jobs |-> 0]
  /\ downloaded = [j \in Jobs |-> << >>]
  /\ item = [j \in Jobs |-> Null]
  /\ verdict = [j \in Jobs |-> "none"]
  /\ attempts = [j \in Jobs |-> 0]
  /\ aborted = FALSE
  /\ table \in SUBSET (Phones \X {0})
  /\ codes = [j \in Jobs |-> 0]
  /\ seen = [j \in Jobs |-> {}]
  /\ acknowledged = [j \in Jobs |-> {}]
  /\ page = [j \in Jobs |-> FALSE]

GoTo(j, p) == place' = [place EXCEPT ![j] = p]

\* The first step that is not done, or the one after the last.
FirstOutside(done) == 1 + Cardinality({ s \in Steps : 1 .. s \subseteq done })
FirstIncomplete(j) == FirstOutside(responses[j])

Step(j) == Workflow[currentStep[j]]

\* Waiting for the answer to a request of a step of the type.
Awaits(j, type) == place[j] = "sent" /\ Step(j).type = type

\* execute rejects.
Throw(j, v, isPage) ==
  /\ GoTo(j, "idle")
  /\ verdict' = [verdict EXCEPT ![j] = v]
  /\ page' = [page EXCEPT ![j] = isPage]

\* setResponse, and on to the next step.
StepCompletes(j) ==
  /\ responses' = [responses EXCEPT ![j] = @ \union { currentStep[j] }]
  /\ GoTo(j, "between")
  /\ UNCHANGED << verdict, page >>

------------------------------------------------------------------------------
(* WorkflowEngine.execute.                                                  *)

\* findResumeIndex finds the state it left: a prefix of responses, and the first
\* step without one as the current one, if any.
Resumable(j) ==
  /\ responses[j] = 1 .. FirstIncomplete(j) - 1
  /\ currentStep[j] \in { 0, FirstIncomplete(j) }

\* The first execution, or a retry or a manual resume on the same JobContext;
\* RetryingExecutionRunner and the handler allow neither once the signal is
\* aborted.
Execute(j) ==
  /\ place[j] = "idle"
  /\ verdict[j] = "none" \/ (verdict[j] \in { "retry", "challenge" } /\ ~aborted)
  /\ attempts[j] < MaxAttempts
  /\ attempts' = [attempts EXCEPT ![j] = @ + 1]
  /\ page' = [page EXCEPT ![j] = FALSE]
  /\ IF Resumable(j)
       THEN GoTo(j, "between") /\ verdict' = [verdict EXCEPT ![j] = "none"]
       ELSE verdict' = [verdict EXCEPT ![j] = "refused"] /\ UNCHANGED place
  /\ UNCHANGED << contextVars, left, downloaded, item, worldVars, seen, acknowledged >>

Complete(j) ==
  /\ place[j] = "between" /\ FirstIncomplete(j) > Len(Workflow)
  /\ currentStep' = [currentStep EXCEPT ![j] = 0]
  /\ Throw(j, "completed", FALSE)
  /\ UNCHANGED << responses, otpWatch, otp, documents, uploads, left, downloaded, item,
                  attempts, worldVars, seen, acknowledged >>

\* assertNotAborted.
NoticeAbort(j) ==
  /\ place[j] \in { "between", "documents", "sleeping" } /\ aborted
  /\ place[j] = "between" => FirstIncomplete(j) <= Len(Workflow)
  /\ Throw(j, "cancelled", FALSE)
  /\ UNCHANGED << contextVars, left, downloaded, item, attempts, worldVars, seen,
                  acknowledged >>

\* A wait without a watch, or an upload without documents.
Unprepared(j, type) ==
  \/ type = "otp.wait" /\ otpWatch[j] = Null
  \/ type = "documents.upload" /\ documents[j] = << >>

\* Mutant: the step is recorded as current when it is over.
StartStep_NotRecorded(j) ==
  /\ place[j] = "between" /\ ~aborted /\ FirstIncomplete(j) <= Len(Workflow)
  /\ currentStep' = [currentStep EXCEPT ![j] = IF @ = 0 THEN FirstIncomplete(j) ELSE @]
  /\ GoTo(j, IF Workflow[FirstIncomplete(j)].type = "documents.upload"
               THEN "documents" ELSE "sent")
  /\ left' = [left EXCEPT ![j] = Patience]
  /\ downloaded' = [downloaded EXCEPT ![j] = << >>]
  /\ UNCHANGED << responses, otpWatch, otp, documents, uploads, item, verdict, attempts,
                  worldVars, historyVars >>

\* renderTemplate, renderHeaders, renderFormFields: a step that has fields may find
\* nothing to fill them with.
Renders(type) == IF type = "otp.wait" THEN { TRUE } ELSE BOOLEAN

\* buildUrl, assertContractRoute, validateHeaders: a request the contract does not
\* list is not sent.
Sendable(type) == IF type = "http" THEN BOOLEAN ELSE { TRUE }

\* setCurrentStep, and the first request of the step.  The OTP service looks at
\* its deadline only after a first poll.
StartStep(j) ==
  /\ place[j] = "between" /\ ~aborted /\ FirstIncomplete(j) <= Len(Workflow)
  /\ currentStep' = [currentStep EXCEPT ![j] = FirstIncomplete(j)]
  /\ LET type == Workflow[FirstIncomplete(j)].type
     IN \E renders \in Renders(type), sendable \in Sendable(type) :
          IF Unprepared(j, type) \/ ~renders \/ ~sendable
          THEN Throw(j, "fatal", FALSE)
          ELSE /\ GoTo(j, IF type = "documents.upload" THEN "documents" ELSE "sent")
               /\ UNCHANGED << verdict, page >>
  /\ left' = [left EXCEPT ![j] = Patience]
  /\ downloaded' = [downloaded EXCEPT ![j] = << >>]
  /\ UNCHANGED << responses, otpWatch, otp, documents, uploads, item, attempts, worldVars,
                  seen, acknowledged >>

\* The target sends a code when it accepts the request before an otp.wait, and
\* may have done so when no answer arrived.
SendsCode(j) ==
  currentStep[j] < Len(Workflow) /\ Workflow[currentStep[j] + 1].type = "otp.wait"

HttpAnswered(j) ==
  /\ Awaits(j, "http")
  /\ \E o \in TargetOutcomes[Step(j).expect] :
       /\ IF o.verdict = "ok" THEN StepCompletes(j)
          ELSE Throw(j, o.verdict, o.page) /\ UNCHANGED responses
       /\ \E sent \in BOOLEAN :
            /\ o.verdict = "ok" /\ SendsCode(j) /\ codes[j] < MaxCodes => sent
            /\ sent => SendsCode(j) /\ o.verdict \in { "ok", "retry" } /\ codes[j] < MaxCodes
            /\ codes' = IF sent THEN [codes EXCEPT ![j] = @ + 1] ELSE codes
  /\ UNCHANGED << currentStep, otpWatch, otp, documents, uploads, left, downloaded, item,
                  attempts, aborted, table, seen, acknowledged >>

------------------------------------------------------------------------------
(* OtpService and OtpMatcher.                                               *)

\* Mutant: a watch that knows no old rows.
CreateWatch_NoBaseline(j) == {}

\* createWatch: the rows of the phone number.
CreateWatch(j) == { r \in table : r[1] = j }

\* prepareForJobContext: the table is fetched, the watch set, the old code gone.
OtpPrepared(j) ==
  /\ Awaits(j, "otp.prepare")
  /\ \E o \in TableOutcomes :
       IF o.verdict = "ok"
         THEN /\ StepCompletes(j)
              /\ otpWatch' = [otpWatch EXCEPT ![j] = CreateWatch(j)]
              /\ otp' = [otp EXCEPT ![j] = Null]
              /\ seen' = [seen EXCEPT ![j] = table]
         ELSE Throw(j, o.verdict, o.page) /\ UNCHANGED << responses, otpWatch, otp, seen >>
  /\ UNCHANGED << currentStep, documents, uploads, left, downloaded, item, attempts,
                  worldVars, acknowledged >>

\* Mutant: any new row is as good.
NewRows_AnyPhone(j) == { r \in table : r \notin otpWatch[j] }

\* findNewOtp: rows of the phone number that are not in the baseline.
NewRows(j) == { r \in table : r[1] = j /\ r \notin otpWatch[j] }

\* One poll: one new row is the code, several are refused, none is waited for
\* while there is time.
OtpPolled(j) ==
  /\ Awaits(j, "otp.wait")
  /\ \E o \in TableOutcomes, rest \in 0 .. left[j] :
       /\ left' = [left EXCEPT ![j] = rest]
       /\ \/ /\ o.verdict # "ok"
             /\ Throw(j, o.verdict, o.page)
             /\ UNCHANGED << responses, otp, otpWatch >>
          \/ /\ o.verdict = "ok" /\ Cardinality(NewRows(j)) = 1
             /\ otp' = [otp EXCEPT ![j] = CHOOSE r \in NewRows(j) : TRUE]
             /\ otpWatch' = [otpWatch EXCEPT ![j] = Null]
             /\ StepCompletes(j)
          \/ /\ o.verdict = "ok" /\ Cardinality(NewRows(j)) > 1
             /\ Throw(j, "fatal", FALSE)
             /\ UNCHANGED << responses, otp, otpWatch >>
          \/ /\ o.verdict = "ok" /\ NewRows(j) = {}
             /\ IF rest = 0 THEN Throw(j, "retry", FALSE)
                ELSE GoTo(j, "sleeping") /\ UNCHANGED << verdict, page >>
             /\ UNCHANGED << responses, otp, otpWatch >>
  /\ UNCHANGED << currentStep, documents, uploads, downloaded, item, attempts, worldVars,
                  seen, acknowledged >>

\* Mutant: the deadline is forgotten while asleep.
PollAgain_Forever(j) ==
  /\ place[j] = "sleeping" /\ ~aborted
  /\ GoTo(j, "sent")
  /\ UNCHANGED << contextVars, left, downloaded, item, verdict, attempts, worldVars,
                  historyVars >>

\* The sleep is over, and takes time: another poll, or OtpTimeoutError.
PollAgain(j) ==
  /\ place[j] = "sleeping" /\ ~aborted
  /\ \E rest \in 0 .. left[j] - 1 :
       /\ left' = [left EXCEPT ![j] = rest]
       /\ IF rest = 0 THEN Throw(j, "retry", FALSE)
          ELSE GoTo(j, "sent") /\ UNCHANGED << verdict, page >>
  /\ UNCHANGED << contextVars, downloaded, item, attempts, worldVars, seen, acknowledged >>

------------------------------------------------------------------------------
(* DocumentService and the uploads.                                         *)

\* setDocuments: markers of other documents are dropped.
SetDocuments(j, docs) ==
  /\ documents' = [documents EXCEPT ![j] = docs]
  /\ uploads' = [uploads EXCEPT ![j] = IF documents[j] \in { << >>, docs } THEN @ ELSE {}]

\* Mutant: a seen hash is not refused.
Duplicate_Accepted(docs) == Len(docs) > Sources

\* seenHashes has the last one already.
Duplicate(docs) == \E k \in 1 .. Len(docs) - 1 : docs[k] = Last(docs)

\* prepareForJobContext, one download: a content twice, too much of it, or a next
\* source that may not be asked (resolveSourceUrl) ends the run; the last one sets
\* the documents.
Downloaded(j) ==
  /\ Awaits(j, "documents.prepare")
  /\ \E o \in DocumentOutcomes, c \in Contents, allowed \in BOOLEAN :
       LET docs == Append(downloaded[j], c) IN
       \/ /\ o.verdict # "ok"
          /\ Throw(j, o.verdict, o.page)
          /\ UNCHANGED << responses, documents, uploads, downloaded >>
       \/ /\ o.verdict = "ok" /\ (~allowed \/ Duplicate(docs))
          /\ Throw(j, "fatal", FALSE)
          /\ UNCHANGED << responses, documents, uploads, downloaded >>
       \/ /\ o.verdict = "ok" /\ allowed /\ ~Duplicate(docs) /\ Len(docs) < Sources
          /\ downloaded' = [downloaded EXCEPT ![j] = docs]
          /\ UNCHANGED << responses, documents, uploads, place, verdict, page >>
       \/ /\ o.verdict = "ok" /\ allowed /\ ~Duplicate(docs) /\ Len(docs) = Sources
          /\ SetDocuments(j, docs)
          /\ StepCompletes(j)
          /\ UNCHANGED downloaded
  /\ UNCHANGED << currentStep, otpWatch, otp, left, item, attempts, worldVars, seen,
                  acknowledged >>

\* Mutant: the markers of the step are not asked.
Missing_All(j) == 1 .. Len(documents[j])

\* The documents without a marker of the step.
Missing(j) ==
  { k \in 1 .. Len(documents[j]) : << currentStep[j], documents[j][k] >> \notin uploads[j] }

\* The loop over the documents sends the next missing one, if uploadPdf can make a
\* request of it.
NextDocument(j) ==
  /\ place[j] = "documents" /\ ~aborted
  /\ \E next \in Missing(j) :
       /\ \A k \in Missing(j) : next <= k
       /\ \/ /\ item' = [item EXCEPT ![j] = documents[j][next]]
             /\ GoTo(j, "sent")
             /\ UNCHANGED << verdict, page >>
          \/ Throw(j, "fatal", FALSE) /\ UNCHANGED item
  /\ UNCHANGED << contextVars, left, downloaded, attempts, worldVars, seen, acknowledged >>

AllUploaded(j) ==
  /\ place[j] = "documents" /\ Missing(j) = {}
  /\ StepCompletes(j)
  /\ UNCHANGED << currentStep, otpWatch, otp, documents, uploads, left, downloaded, item,
                  attempts, worldVars, seen, acknowledged >>

\* Mutant: the markers are set when all documents are through.
SetDocumentUpload_AtTheEnd(j) ==
  uploads' = [uploads EXCEPT ![j] =
    IF item[j] = Last(documents[j])
      THEN { << currentStep[j], c >> : c \in ToSet(documents[j]) } ELSE @]

SetDocumentUpload(j) ==
  uploads' = [uploads EXCEPT ![j] = @ \union { << currentStep[j], item[j] >> }]

Uploaded(j) ==
  /\ Awaits(j, "documents.upload")
  /\ \E o \in TargetOutcomes[Step(j).expect] :
       IF o.verdict = "ok"
         THEN /\ SetDocumentUpload(j)
              /\ acknowledged' = [acknowledged EXCEPT ![j] =
                                    @ \union { << currentStep[j], item[j] >> }]
              /\ GoTo(j, "documents")
              /\ UNCHANGED << verdict, page >>
         ELSE Throw(j, o.verdict, o.page) /\ UNCHANGED << uploads, acknowledged >>
  /\ item' = [item EXCEPT ![j] = Null]
  /\ UNCHANGED << responses, currentStep, otpWatch, otp, documents, left, downloaded,
                  attempts, worldVars, seen >>

------------------------------------------------------------------------------
(* The process and the world.                                               *)

Abort ==
  /\ ~aborted /\ aborted' = TRUE
  /\ UNCHANGED << contextVars, stackVars, attempts, table, codes, historyVars >>

\* A code reaches the table, in any order and any time after it was sent.
RowAppears(r) ==
  /\ r \notin table
  /\ r[2] > 0 => r[2] <= codes[r[1]]
  /\ table' = table \union { r }
  /\ UNCHANGED << contextVars, stackVars, attempts, aborted, codes, historyVars >>

Run(j) ==
  \/ Complete(j) \/ NoticeAbort(j) \/ StartStep(j) \/ HttpAnswered(j)
  \/ OtpPrepared(j) \/ OtpPolled(j) \/ PollAgain(j)
  \/ Downloaded(j) \/ NextDocument(j) \/ AllUploaded(j) \/ Uploaded(j)

RunNext ==
  \/ \E j \in Jobs : Execute(j) \/ Run(j)
  \/ Abort
  \/ \E r \in Rows : RowAppears(r)

RunSpec == RunInit /\ [][RunNext]_vars

\* A request ends with an answer or its timeout, a sleep with its timer, and
\* nothing else is waited for.
FairRunSpec == RunSpec /\ \A j \in Jobs : WF_vars(Run(j))

------------------------------------------------------------------------------
(* Properties.                                                              *)

\* The code a job signs in with was sent to the job's own phone number, and was
\* not yet in the table when its watch was taken; whatever else is in the table
\* or reaches it meanwhile, and whenever the job is retried.  Once a wait is
\* over the job has such a code, until a later sign-in is prepared.
OwnFreshCode ==
  \A j \in Jobs :
    /\ otp[j] # Null => otp[j][1] = j /\ otp[j] \notin seen[j]
    /\ \A s \in responses[j] :
         Workflow[s].type = "otp.wait" =>
           \/ otp[j] # Null
           \/ \E t \in responses[j] : t > s /\ Workflow[t].type = "otp.prepare"

\* After a failed step or document the next execution goes on exactly there: no
\* request repeats a step that has its response, and no document the target
\* acknowledged is sent again.
NothingRepeated ==
  \A j \in Jobs :
    place[j] = "sent" =>
      /\ currentStep[j] \notin responses[j]
      /\ Step(j).type = "documents.upload" =>
           << currentStep[j], item[j] >> \notin acknowledged[j]

\* findResumeIndex fails closed on a state it does not understand; no execution,
\* however it ended, leaves such a state behind.
ResumeAccepted == \A j \in Jobs : verdict[j] # "refused"

\* An execution that waits for answers, the OTP table or the next document comes
\* to an end: each request and the wait for a code are bounded.
ExecutionEnds == \A j \in Jobs : place[j] # "idle" ~> place[j] = "idle"

\* job-workflow-executor.js: "human-verification challenges propagate as
\* MANUAL_CHALLENGE_REQUIRED".  A challenge page is never retried automatically.
ChallengeIsNotRetried == \A j \in Jobs : page[j] => verdict[j] # "retry"
=============================================================================
