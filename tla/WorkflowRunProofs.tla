-------------------------- MODULE WorkflowRunProofs --------------------------
(***************************************************************************)
(* The safety properties of WorkflowRun for every workflow definition and  *)
(* any number of jobs, documents, contents, codes and executions.          *)
(***************************************************************************)
EXTENDS WorkflowRun, FiniteSetTheorems, SequenceTheorems, TLAPS

Inside == { "sent", "sleeping", "documents" }

\* The responses are those of a prefix of the workflow, and a run is at the first
\* step outside it, unless it is between two steps or over for good.
PositionedAt(j) ==
  /\ FirstIncomplete(j) \in 1 .. Len(Workflow) + 1
  /\ responses[j] = 1 .. FirstIncomplete(j) - 1
  /\ place[j] \in Inside => currentStep[j] = FirstIncomplete(j) /\ currentStep[j] \in Steps
  /\ place[j] = "sleeping" => Step(j).type = "otp.wait"
  /\ place[j] = "documents" => Step(j).type = "documents.upload"
  /\ place[j] = "idle" /\ verdict[j] \in { "none", "retry", "challenge" } =>
       currentStep[j] \in { 0, FirstIncomplete(j) }
  /\ verdict[j] # "refused"

\* A watch is the job's part of what the table showed, a wait has a watch, and a
\* code was outside of it.
WatchedAt(j) ==
  /\ otpWatch[j] # Null => otpWatch[j] = { r \in seen[j] : r[1] = j }
  /\ place[j] \in { "sent", "sleeping" } /\ Step(j).type = "otp.wait" => otpWatch[j] # Null
  /\ otp[j] # Null => otp[j][1] = j /\ otp[j] \notin seen[j]
  /\ \A s \in responses[j] :
       Workflow[s].type = "otp.wait" =>
         \/ otp[j] # Null
         \/ \E t \in responses[j] : t > s /\ Workflow[t].type = "otp.prepare"

\* The markers know every acknowledged upload of the step that is not complete
\* yet, and what is being sent is not marked.
MarkedAt(j) ==
  /\ \A u \in acknowledged[j] :
       /\ Workflow[u[1]].type = "documents.upload"
       /\ u[1] \in responses[j] \/ (u[1] = FirstIncomplete(j) /\ u \in uploads[j])
  /\ place[j] = "sent" /\ Step(j).type = "documents.upload" =>
       item[j] \in Contents /\ << currentStep[j], item[j] >> \notin uploads[j]

JobInv(j) == PositionedAt(j) /\ WatchedAt(j) /\ MarkedAt(j)

RunInv == RunTypeOK /\ \A j \in Jobs : JobInv(j)

------------------------------------------------------------------------------
(* Facts about the operators.                                              *)

AnswerVerdicts == { "ok", "retry", "challenge", "fatal" }

\* Every answer has one of the four verdicts.
LEMMA TargetAnswers ==
  ASSUME NEW e \in Expectations, NEW o \in TargetOutcomes[e]
  PROVE  o.verdict \in AnswerVerdicts /\ o.page \in BOOLEAN
<1>1. PICK a \in Answers : o = Outcome(a, TargetVerdict(a, e)) BY DEF TargetOutcomes
<1>2. TargetVerdict(a, e) \in AnswerVerdicts
  BY DEF TargetVerdict, ClientVerdict, AnswerVerdicts
<1>3. IsChallengePage(a) \in BOOLEAN BY DEF IsChallengePage
<1> QED BY <1>1, <1>2, <1>3 DEF Outcome

LEMMA TableAnswers ==
  ASSUME NEW o \in TableOutcomes
  PROVE  o.verdict \in AnswerVerdicts /\ o.page \in BOOLEAN
<1>1. PICK a \in Answers : o = Outcome(a, TableVerdict(a)) BY DEF TableOutcomes
<1>2. TableVerdict(a) \in AnswerVerdicts
  BY DEF TableVerdict, ClientVerdict, AnswerVerdicts
<1>3. IsChallengePage(a) \in BOOLEAN BY DEF IsChallengePage
<1> QED BY <1>1, <1>2, <1>3 DEF Outcome

LEMMA DocumentAnswers ==
  ASSUME NEW o \in DocumentOutcomes
  PROVE  o.verdict \in AnswerVerdicts /\ o.page \in BOOLEAN
<1>1. PICK a \in Answers : o = Outcome(a, DocumentVerdict(a)) BY DEF DocumentOutcomes
<1>2. DocumentVerdict(a) \in AnswerVerdicts
  BY DEF DocumentVerdict, ClientVerdict, AnswerVerdicts
<1>3. IsChallengePage(a) \in BOOLEAN BY DEF IsChallengePage
<1> QED BY <1>1, <1>2, <1>3 DEF Outcome

LEMMA StepType ==
  /\ Len(Workflow) \in Nat
  /\ \A s \in Steps : Workflow[s].type \in StepTypes /\ Workflow[s].expect \in Expectations
<1>1. Workflow \in Seq([type : StepTypes, expect : Expectations]) BY WorkflowAssumption
<1>2. Len(Workflow) \in Nat BY <1>1
<1>3. ASSUME NEW s \in Steps PROVE Workflow[s] \in [type : StepTypes, expect : Expectations]
  BY <1>1, ElementOfSeq DEF Steps
<1> QED BY <1>2, <1>3

\* findResumeIndex after a prefix of m steps.
LEMMA FirstOutsidePrefix ==
  ASSUME NEW m \in 0 .. Len(Workflow)
  PROVE  FirstOutside(1 .. m) = m + 1
<1>1. { s \in Steps : 1 .. s \subseteq 1 .. m } = 1 .. m
  BY StepType DEF Steps
<1>2. m \in Nat BY StepType
<1>3. Cardinality(1 .. m) = IF 1 > m THEN 0 ELSE m - 1 + 1 BY <1>2, FS_Interval
<1>4. Cardinality(1 .. m) = m BY <1>2, <1>3
<1>5. FirstOutside(1 .. m) = 1 + Cardinality({ s \in Steps : 1 .. s \subseteq 1 .. m })
  BY DEF FirstOutside
<1>6. FirstOutside(1 .. m) = 1 + m BY Zenon, <1>1, <1>4, <1>5
<1> QED BY <1>2, <1>6

\* setResponse moves the first incomplete step on by one.
LEMMA Advance ==
  ASSUME NEW n \in Steps
  PROVE  /\ n \in Nat /\ (1 .. n - 1) \union { n } = 1 .. n
         /\ FirstOutside(1 .. n) = n + 1 /\ n + 1 \in 1 .. Len(Workflow) + 1
<1>1. n \in Nat /\ n \in 1 .. Len(Workflow) BY StepType DEF Steps
<1>2. FirstOutside(1 .. n) = n + 1 BY <1>1, FirstOutsidePrefix, StepType
<1> QED BY <1>1, <1>2, StepType

\* A content that is no duplicate keeps the documents distinct.
LEMMA NoDuplicate ==
  ASSUME NEW docs \in Seq(Contents), IsInjective(docs), NEW c \in Contents,
         ~Duplicate(Append(docs, c))
  PROVE  Append(docs, c) \in Seq(Contents) /\ IsInjective(Append(docs, c))
<1> DEFINE more == Append(docs, c)
<1>1. /\ more \in Seq(Contents) /\ Len(more) = Len(docs) + 1
      /\ \A k \in 1 .. Len(docs) : more[k] = docs[k]
      /\ more[Len(docs) + 1] = c
  BY AppendProperties
<1>2. \A k \in 1 .. Len(docs) : more[k] # more[Len(docs) + 1]
  BY <1>1 DEF Duplicate, Last
<1>3. DOMAIN docs = 1 .. Len(docs) /\ DOMAIN more = 1 .. Len(docs) + 1
  BY <1>1
<1> QED BY <1>1, <1>2, <1>3 DEF IsInjective

------------------------------------------------------------------------------
(* What one job's run does to its part of the invariant.                   *)

\* Nothing that the invariant looks at changes for the job.
Same(j) ==
  /\ responses'[j] = responses[j] /\ currentStep'[j] = currentStep[j]
  /\ otpWatch'[j] = otpWatch[j] /\ otp'[j] = otp[j] /\ seen'[j] = seen[j]
  /\ uploads'[j] = uploads[j] /\ acknowledged'[j] = acknowledged[j]
  /\ place'[j] = place[j] /\ item'[j] = item[j] /\ verdict'[j] = verdict[j]

LEMMA SameKeeps ==
  ASSUME RunInv, NEW j \in Jobs, Same(j)
  PROVE  JobInv(j)'
<1> USE DEF RunInv, JobInv, Same, Step, FirstIncomplete
<1>1. PositionedAt(j)' BY DEF PositionedAt
<1>2. WatchedAt(j)' BY DEF WatchedAt
<1>3. MarkedAt(j)' BY DEF MarkedAt
<1> QED BY <1>1, <1>2, <1>3

\* A run inside a step.
LEMMA InsideStep ==
  ASSUME RunInv, NEW j \in Jobs, place[j] \in Inside
  PROVE  /\ currentStep[j] \in Steps /\ currentStep[j] = FirstIncomplete(j)
         /\ currentStep[j] \notin responses[j]
         /\ Step(j).type \in StepTypes /\ Step(j).expect \in Expectations
<1>1. /\ currentStep[j] \in Steps /\ currentStep[j] = FirstIncomplete(j)
      /\ responses[j] = 1 .. currentStep[j] - 1
  BY DEF RunInv, JobInv, PositionedAt
<1>2. currentStep[j] \notin responses[j] BY <1>1, Advance
<1> QED BY <1>1, <1>2, StepType DEF Step

\* What completed, failed or parked runs keep.
LEMMA MemoryKept ==
  ASSUME RunInv, NEW j \in Jobs, responses'[j] = responses[j],
         otpWatch'[j] = otpWatch[j], otp'[j] = otp[j], seen'[j] = seen[j],
         uploads'[j] = uploads[j], acknowledged'[j] = acknowledged[j],
         place'[j] \in { "idle", "between", "documents" }
  PROVE  WatchedAt(j)' /\ MarkedAt(j)'
<1> USE DEF RunInv, JobInv, FirstIncomplete
<1>1. WatchedAt(j)' BY DEF WatchedAt
<1>2. MarkedAt(j)' BY DEF MarkedAt
<1> QED BY <1>1, <1>2

\* execute rejects, or is over.
LEMMA EndKeeps ==
  ASSUME RunInv, NEW j \in Jobs, responses'[j] = responses[j],
         otpWatch'[j] = otpWatch[j], otp'[j] = otp[j], seen'[j] = seen[j],
         uploads'[j] = uploads[j], acknowledged'[j] = acknowledged[j],
         place'[j] = "idle", verdict'[j] # "refused",
         \/ verdict'[j] \notin { "none", "retry", "challenge" }
         \/ place[j] \in Inside /\ currentStep'[j] = currentStep[j]
  PROVE  JobInv(j)'
<1>1. PositionedAt(j)'
  BY InsideStep DEF RunInv, JobInv, PositionedAt, FirstIncomplete, Inside
<1>2. WatchedAt(j)' /\ MarkedAt(j)' BY MemoryKept
<1> QED BY <1>1, <1>2 DEF JobInv

\* The step inside of which the run is completes.
LEMMA DoneKeeps ==
  ASSUME RunInv, NEW j \in Jobs, place[j] \in Inside, place'[j] = "between",
         responses'[j] = responses[j] \union { currentStep[j] },
         verdict'[j] = verdict[j], acknowledged'[j] = acknowledged[j]
  PROVE  PositionedAt(j)' /\ MarkedAt(j)'
<1> DEFINE n == currentStep[j]
<1>1. n \in Steps /\ n = FirstIncomplete(j) BY InsideStep
<1>2. responses'[j] = 1 .. n /\ FirstIncomplete(j)' = n + 1 /\ n + 1 \in 1 .. Len(Workflow) + 1
  <2>1. responses'[j] = 1 .. n
    BY <1>1, Advance DEF RunInv, JobInv, PositionedAt
  <2> QED BY <1>1, <2>1, Advance DEF FirstIncomplete
<1>3. n \in Nat /\ n + 1 - 1 = n BY <1>1, Advance
<1>4. PositionedAt(j)'
  BY <1>2, <1>3 DEF RunInv, JobInv, PositionedAt, Inside
<1>5. MarkedAt(j)'
  BY <1>1 DEF RunInv, JobInv, MarkedAt
<1> QED BY <1>4, <1>5

\* A step that is no step of the sign-in completes.
LEMMA WatchKept ==
  ASSUME RunInv, NEW j \in Jobs, place'[j] = "between",
         responses'[j] = responses[j] \union { currentStep[j] },
         Step(j).type # "otp.wait",
         otpWatch'[j] = otpWatch[j], otp'[j] = otp[j], seen'[j] = seen[j]
  PROVE  WatchedAt(j)'
BY DEF RunInv, JobInv, WatchedAt, Step

\* The run stays inside its step.
LEMMA StayKeeps ==
  ASSUME RunInv, NEW j \in Jobs, place[j] \in Inside, place'[j] \in Inside,
         responses'[j] = responses[j], currentStep'[j] = currentStep[j],
         otpWatch'[j] = otpWatch[j], otp'[j] = otp[j], seen'[j] = seen[j],
         uploads'[j] = uploads[j], acknowledged'[j] = acknowledged[j],
         verdict'[j] = verdict[j],
         place'[j] \in { "sent", "sleeping" } /\ Step(j).type = "otp.wait" =>
           otpWatch[j] # Null,
         place'[j] = "sleeping" => Step(j).type = "otp.wait",
         place'[j] = "documents" => Step(j).type = "documents.upload",
         place'[j] = "sent" /\ Step(j).type = "documents.upload" =>
           item'[j] \in Contents /\ << currentStep[j], item'[j] >> \notin uploads[j]
  PROVE  JobInv(j)'
<1> USE DEF RunInv, JobInv, FirstIncomplete, Step
<1>1. PositionedAt(j)' BY DEF PositionedAt, Inside
<1>2. WatchedAt(j)' BY DEF WatchedAt
<1>3. MarkedAt(j)' BY DEF MarkedAt
<1> QED BY <1>1, <1>2, <1>3

LEMMA ExecuteKeepsInv ==
  ASSUME RunInv, NEW j \in Jobs, Execute(j)
  PROVE  RunInv'
<1>a. Resumable(j)
  <2>1. verdict[j] \in { "none", "retry", "challenge" } /\ place[j] = "idle" BY DEF Execute
  <2> QED BY <2>1 DEF RunInv, JobInv, PositionedAt, Resumable
<1>b. /\ place' = [place EXCEPT ![j] = "between"]
      /\ verdict' = [verdict EXCEPT ![j] = "none"]
  BY <1>a DEF Execute, GoTo
<1>1. RunTypeOK'
  <2>1. /\ responses' \in [Jobs -> SUBSET Steps]
        /\ currentStep' \in [Jobs -> Steps \union {0}]
        /\ seen' \in [Jobs -> SUBSET Rows]
    BY DEF Execute, Resumable, GoTo, RunInv, RunTypeOK, contextVars, stackVars,
       worldVars, historyVars
  <2>2. /\ otpWatch' \in [Jobs -> (SUBSET Rows) \union { Null }]
        /\ otp' \in [Jobs -> Rows \union { Null }]
    BY DEF Execute, Resumable, GoTo, RunInv, RunTypeOK, contextVars, stackVars,
       worldVars, historyVars
  <2>3. /\ uploads' \in [Jobs -> SUBSET (Steps \X Contents)]
        /\ acknowledged' \in [Jobs -> SUBSET (Steps \X Contents)]
        /\ item' \in [Jobs -> Contents \union { Null }]
    BY DEF Execute, Resumable, GoTo, RunInv, RunTypeOK, contextVars, stackVars,
       worldVars, historyVars
  <2>4. /\ documents' \in [Jobs -> Seq(Contents)]
        /\ downloaded' \in [Jobs -> Seq(Contents)]
        /\ \A i \in Jobs : IsInjective(documents'[i]) /\ IsInjective(downloaded'[i])
    BY DEF Execute, Resumable, GoTo, RunInv, RunTypeOK, contextVars, stackVars,
       worldVars, historyVars
  <2>5. /\ place' \in [Jobs -> Places]
        /\ verdict' \in [Jobs -> Verdicts]
    BY <1>b
       DEF Execute, Resumable, GoTo, RunInv, RunTypeOK, contextVars, stackVars,
          worldVars, historyVars, Places, Verdicts
  <2>6. /\ left' \in [Jobs -> 0 .. Patience]
        /\ attempts' \in [Jobs -> 0 .. MaxAttempts]
        /\ table' \in SUBSET Rows
        /\ codes' \in [Jobs -> 0 .. MaxCodes]
    BY WorkflowAssumption
       DEF Execute, Resumable, GoTo, RunInv, RunTypeOK, contextVars, stackVars,
          worldVars, historyVars
  <2>7. page' \in [Jobs -> BOOLEAN]
    BY DEF Execute, Resumable, GoTo, RunInv, RunTypeOK, contextVars, stackVars,
       worldVars, historyVars
  <2>8. aborted' \in BOOLEAN
    BY DEF Execute, Resumable, GoTo, RunInv, RunTypeOK, contextVars, stackVars,
       worldVars, historyVars
  <2> QED BY <2>1, <2>2, <2>3, <2>4, <2>5, <2>6, <2>7, <2>8 DEF RunTypeOK
<1>2. \A i \in Jobs \ {j} : Same(i)
  BY DEF Execute, Resumable, GoTo, Same, RunInv, RunTypeOK, contextVars, stackVars,
     worldVars, historyVars
<1>3. JobInv(j)'
  <2>3. place'[j] = "between" /\ verdict'[j] = "none" BY <1>b DEF RunInv, RunTypeOK
  <2>4. PositionedAt(j)'
    BY <2>3 DEF Execute, contextVars, RunInv, JobInv, PositionedAt, FirstIncomplete, Inside
  <2>5. WatchedAt(j)' /\ MarkedAt(j)'
    BY <2>3, MemoryKept DEF Execute, contextVars
  <2> QED BY <2>4, <2>5 DEF JobInv
<1> QED BY <1>1, <1>2, <1>3, SameKeeps DEF RunInv

LEMMA CompleteKeepsInv ==
  ASSUME RunInv, NEW j \in Jobs, Complete(j)
  PROVE  RunInv'
<1>1. RunTypeOK'
  <2>1. /\ responses' \in [Jobs -> SUBSET Steps]
        /\ currentStep' \in [Jobs -> Steps \union {0}]
        /\ seen' \in [Jobs -> SUBSET Rows]
    BY DEF Complete, Throw, GoTo, RunInv, RunTypeOK, contextVars, stackVars,
       worldVars, historyVars
  <2>2. /\ otpWatch' \in [Jobs -> (SUBSET Rows) \union { Null }]
        /\ otp' \in [Jobs -> Rows \union { Null }]
    BY DEF Complete, Throw, GoTo, RunInv, RunTypeOK, contextVars, stackVars,
       worldVars, historyVars
  <2>3. /\ uploads' \in [Jobs -> SUBSET (Steps \X Contents)]
        /\ acknowledged' \in [Jobs -> SUBSET (Steps \X Contents)]
        /\ item' \in [Jobs -> Contents \union { Null }]
    BY DEF Complete, Throw, GoTo, RunInv, RunTypeOK, contextVars, stackVars,
       worldVars, historyVars
  <2>4. /\ documents' \in [Jobs -> Seq(Contents)]
        /\ downloaded' \in [Jobs -> Seq(Contents)]
        /\ \A i \in Jobs : IsInjective(documents'[i]) /\ IsInjective(downloaded'[i])
    BY DEF Complete, Throw, GoTo, RunInv, RunTypeOK, contextVars, stackVars,
       worldVars, historyVars
  <2>5. /\ place' \in [Jobs -> Places]
        /\ verdict' \in [Jobs -> Verdicts]
    BY DEF Complete, Throw, GoTo, RunInv, RunTypeOK, contextVars, stackVars,
       worldVars, historyVars, Places, Verdicts
  <2>6. /\ left' \in [Jobs -> 0 .. Patience]
        /\ attempts' \in [Jobs -> 0 .. MaxAttempts]
        /\ table' \in SUBSET Rows
        /\ codes' \in [Jobs -> 0 .. MaxCodes]
    BY DEF Complete, Throw, GoTo, RunInv, RunTypeOK, contextVars, stackVars,
       worldVars, historyVars
  <2>7. page' \in [Jobs -> BOOLEAN]
    BY DEF Complete, Throw, GoTo, RunInv, RunTypeOK, contextVars, stackVars,
       worldVars, historyVars
  <2>8. aborted' \in BOOLEAN
    BY DEF Complete, Throw, GoTo, RunInv, RunTypeOK, contextVars, stackVars,
       worldVars, historyVars
  <2> QED BY <2>1, <2>2, <2>3, <2>4, <2>5, <2>6, <2>7, <2>8 DEF RunTypeOK
<1>2. \A i \in Jobs \ {j} : Same(i)
  BY DEF Complete, Throw, GoTo, Same, RunInv, RunTypeOK, contextVars, stackVars,
     worldVars, historyVars
<1>3. JobInv(j)'
  <2>1. place'[j] = "idle" /\ verdict'[j] = "completed" BY DEF Complete, Throw, GoTo, RunInv, RunTypeOK
  <2> QED BY <2>1, EndKeeps DEF Complete
<1> QED BY <1>1, <1>2, <1>3, SameKeeps DEF RunInv

LEMMA NoticeAbortKeepsInv ==
  ASSUME RunInv, NEW j \in Jobs, NoticeAbort(j)
  PROVE  RunInv'
<1>1. RunTypeOK'
  <2>1. /\ responses' \in [Jobs -> SUBSET Steps]
        /\ currentStep' \in [Jobs -> Steps \union {0}]
        /\ seen' \in [Jobs -> SUBSET Rows]
    BY DEF NoticeAbort, Throw, GoTo, RunInv, RunTypeOK, contextVars, stackVars,
       worldVars, historyVars
  <2>2. /\ otpWatch' \in [Jobs -> (SUBSET Rows) \union { Null }]
        /\ otp' \in [Jobs -> Rows \union { Null }]
    BY DEF NoticeAbort, Throw, GoTo, RunInv, RunTypeOK, contextVars, stackVars,
       worldVars, historyVars
  <2>3. /\ uploads' \in [Jobs -> SUBSET (Steps \X Contents)]
        /\ acknowledged' \in [Jobs -> SUBSET (Steps \X Contents)]
        /\ item' \in [Jobs -> Contents \union { Null }]
    BY DEF NoticeAbort, Throw, GoTo, RunInv, RunTypeOK, contextVars, stackVars,
       worldVars, historyVars
  <2>4. /\ documents' \in [Jobs -> Seq(Contents)]
        /\ downloaded' \in [Jobs -> Seq(Contents)]
        /\ \A i \in Jobs : IsInjective(documents'[i]) /\ IsInjective(downloaded'[i])
    BY DEF NoticeAbort, Throw, GoTo, RunInv, RunTypeOK, contextVars, stackVars,
       worldVars, historyVars
  <2>5. /\ place' \in [Jobs -> Places]
        /\ verdict' \in [Jobs -> Verdicts]
    BY DEF NoticeAbort, Throw, GoTo, RunInv, RunTypeOK, contextVars, stackVars,
       worldVars, historyVars, Places, Verdicts
  <2>6. /\ left' \in [Jobs -> 0 .. Patience]
        /\ attempts' \in [Jobs -> 0 .. MaxAttempts]
        /\ table' \in SUBSET Rows
        /\ codes' \in [Jobs -> 0 .. MaxCodes]
    BY DEF NoticeAbort, Throw, GoTo, RunInv, RunTypeOK, contextVars, stackVars,
       worldVars, historyVars
  <2>7. page' \in [Jobs -> BOOLEAN]
    BY DEF NoticeAbort, Throw, GoTo, RunInv, RunTypeOK, contextVars, stackVars,
       worldVars, historyVars
  <2>8. aborted' \in BOOLEAN
    BY DEF NoticeAbort, Throw, GoTo, RunInv, RunTypeOK, contextVars, stackVars,
       worldVars, historyVars
  <2> QED BY <2>1, <2>2, <2>3, <2>4, <2>5, <2>6, <2>7, <2>8 DEF RunTypeOK
<1>2. \A i \in Jobs \ {j} : Same(i)
  BY DEF NoticeAbort, Throw, GoTo, Same, RunInv, RunTypeOK, contextVars, stackVars,
     worldVars, historyVars
<1>3. JobInv(j)'
  <2>1. place'[j] = "idle" /\ verdict'[j] = "cancelled"
    BY DEF NoticeAbort, Throw, GoTo, RunInv, RunTypeOK
  <2> QED BY <2>1, EndKeeps DEF NoticeAbort, contextVars
<1> QED BY <1>1, <1>2, <1>3, SameKeeps DEF RunInv

LEMMA StartStepKeepsInv ==
  ASSUME RunInv, NEW j \in Jobs, StartStep(j)
  PROVE  RunInv'
<1> DEFINE n == FirstIncomplete(j)
           type == Workflow[n].type
<1>a. n \in Steps /\ n \in Nat /\ type \in StepTypes
  BY StepType DEF StartStep, RunInv, JobInv, PositionedAt, Steps
<1>b. \/ place' = [place EXCEPT ![j] = "idle"] /\ verdict' = [verdict EXCEPT ![j] = "fatal"]
         /\ page' = [page EXCEPT ![j] = FALSE]
      \/ /\ ~Unprepared(j, type)
         /\ place' = [place EXCEPT ![j] =
                        IF type = "documents.upload" THEN "documents" ELSE "sent"]
         /\ UNCHANGED << verdict, page >>
  BY DEF StartStep, Throw, GoTo
<1>1. RunTypeOK'
  <2>1. /\ responses' \in [Jobs -> SUBSET Steps]
        /\ currentStep' \in [Jobs -> Steps \union {0}]
        /\ seen' \in [Jobs -> SUBSET Rows]
    BY <1>a
       DEF StartStep, Throw, GoTo, RunInv, RunTypeOK, contextVars, stackVars,
          worldVars, historyVars
  <2>2. /\ otpWatch' \in [Jobs -> (SUBSET Rows) \union { Null }]
        /\ otp' \in [Jobs -> Rows \union { Null }]
    BY DEF StartStep, Throw, GoTo, RunInv, RunTypeOK, contextVars, stackVars,
       worldVars, historyVars
  <2>3. /\ uploads' \in [Jobs -> SUBSET (Steps \X Contents)]
        /\ acknowledged' \in [Jobs -> SUBSET (Steps \X Contents)]
        /\ item' \in [Jobs -> Contents \union { Null }]
    BY DEF StartStep, Throw, GoTo, RunInv, RunTypeOK, contextVars, stackVars,
       worldVars, historyVars
  <2>4. /\ documents' \in [Jobs -> Seq(Contents)]
        /\ downloaded' \in [Jobs -> Seq(Contents)]
        /\ \A i \in Jobs : IsInjective(documents'[i]) /\ IsInjective(downloaded'[i])
    BY EmptySeq
       DEF StartStep, Throw, GoTo, RunInv, RunTypeOK, contextVars, stackVars,
          worldVars, historyVars, IsInjective
  <2>5. /\ place' \in [Jobs -> Places]
        /\ verdict' \in [Jobs -> Verdicts]
    BY <1>b
       DEF StartStep, Throw, GoTo, RunInv, RunTypeOK, contextVars, stackVars,
          worldVars, historyVars, Places, Verdicts
  <2>6. /\ left' \in [Jobs -> 0 .. Patience]
        /\ attempts' \in [Jobs -> 0 .. MaxAttempts]
        /\ table' \in SUBSET Rows
        /\ codes' \in [Jobs -> 0 .. MaxCodes]
    BY WorkflowAssumption
       DEF StartStep, Throw, GoTo, RunInv, RunTypeOK, contextVars, stackVars,
          worldVars, historyVars
  <2>7. page' \in [Jobs -> BOOLEAN]
    BY Zenon, <1>b
       DEF StartStep, Throw, GoTo, RunInv, RunTypeOK, contextVars, stackVars,
          worldVars, historyVars
  <2>8. aborted' \in BOOLEAN
    BY DEF StartStep, Throw, GoTo, RunInv, RunTypeOK, contextVars, stackVars,
       worldVars, historyVars
  <2> QED BY <2>1, <2>2, <2>3, <2>4, <2>5, <2>6, <2>7, <2>8 DEF RunTypeOK
<1>2. \A i \in Jobs \ {j} : Same(i)
  BY DEF StartStep, Throw, GoTo, Same, RunInv, RunTypeOK, contextVars, stackVars,
     worldVars, historyVars
<1>3. JobInv(j)'
  <2>0. currentStep'[j] = n BY DEF StartStep, RunInv, RunTypeOK
  <2>1. CASE verdict' = [verdict EXCEPT ![j] = "fatal"] /\ place' = [place EXCEPT ![j] = "idle"]
    <3>1. place'[j] = "idle" /\ verdict'[j] = "fatal" BY <2>1 DEF RunInv, RunTypeOK
    <3> QED BY <3>1, EndKeeps DEF StartStep
  <2>2. CASE /\ ~Unprepared(j, type)
             /\ place' = [place EXCEPT ![j] =
                            IF type = "documents.upload" THEN "documents" ELSE "sent"]
             /\ UNCHANGED << verdict, page >>
    <3>1. place'[j] = IF type = "documents.upload" THEN "documents" ELSE "sent"
      BY <2>2 DEF RunInv, RunTypeOK
    <3>2. Step(j)' = Workflow[n] BY <2>0 DEF Step
    <3>3. PositionedAt(j)'
      BY <1>a, <2>0, <2>2, <3>1, <3>2
      DEF StartStep, RunInv, JobInv, PositionedAt, FirstIncomplete, Inside
    <3>4. WatchedAt(j)'
      BY <2>2, <3>1, <3>2 DEF StartStep, Unprepared, RunInv, JobInv, WatchedAt
    <3>5. MarkedAt(j)'
      BY <3>1, <3>2 DEF StartStep, RunInv, JobInv, MarkedAt, FirstIncomplete
    <3> QED BY <3>3, <3>4, <3>5 DEF JobInv
  <2> QED BY <1>b, <2>1, <2>2
<1> QED BY <1>1, <1>2, <1>3, SameKeeps DEF RunInv

LEMMA HttpAnsweredKeepsInv ==
  ASSUME RunInv, NEW j \in Jobs, HttpAnswered(j)
  PROVE  RunInv'
<1>a. /\ place[j] \in Inside /\ place[j] = "sent"
      /\ currentStep[j] \in Steps /\ currentStep[j] = FirstIncomplete(j)
      /\ currentStep[j] \notin responses[j]
      /\ Step(j).type \in StepTypes /\ Step(j).expect \in Expectations
  BY InsideStep DEF HttpAnswered, Awaits, Inside
<1>b. PICK o \in TargetOutcomes[Step(j).expect] :
        IF o.verdict = "ok" THEN StepCompletes(j)
        ELSE Throw(j, o.verdict, o.page) /\ UNCHANGED responses
  BY DEF HttpAnswered
<1>c. o.verdict \in AnswerVerdicts /\ o.page \in BOOLEAN BY <1>a, TargetAnswers
<1>d. codes' = codes \/ (codes[j] < MaxCodes /\ codes' = [codes EXCEPT ![j] = @ + 1])
  BY DEF HttpAnswered
<1> DEFINE done == responses[j] \union { currentStep[j] }
<1>e. responses' = responses \/ responses' = [responses EXCEPT ![j] = done]
  BY <1>b DEF StepCompletes
<1>k. done \in SUBSET Steps BY <1>a DEF RunInv, RunTypeOK
<1> HIDE DEF done
<1>f. UNCHANGED << currentStep, seen >> BY DEF HttpAnswered
<1>1. RunTypeOK'
  <2>1. /\ responses' \in [Jobs -> SUBSET Steps]
        /\ currentStep' \in [Jobs -> Steps \union {0}]
        /\ seen' \in [Jobs -> SUBSET Rows]
    BY <1>e, <1>f, <1>k DEF RunInv, RunTypeOK
  <2>2. /\ otpWatch' \in [Jobs -> (SUBSET Rows) \union { Null }]
        /\ otp' \in [Jobs -> Rows \union { Null }]
    BY DEF HttpAnswered, StepCompletes, Throw, GoTo, RunInv, RunTypeOK, contextVars,
       stackVars, worldVars, historyVars
  <2>3. /\ uploads' \in [Jobs -> SUBSET (Steps \X Contents)]
        /\ acknowledged' \in [Jobs -> SUBSET (Steps \X Contents)]
        /\ item' \in [Jobs -> Contents \union { Null }]
    BY DEF HttpAnswered, StepCompletes, Throw, GoTo, RunInv, RunTypeOK, contextVars,
       stackVars, worldVars, historyVars
  <2>4. /\ documents' \in [Jobs -> Seq(Contents)]
        /\ downloaded' \in [Jobs -> Seq(Contents)]
        /\ \A i \in Jobs : IsInjective(documents'[i]) /\ IsInjective(downloaded'[i])
    BY DEF HttpAnswered, StepCompletes, Throw, GoTo, RunInv, RunTypeOK, contextVars,
       stackVars, worldVars, historyVars
  <2>5. /\ place' \in [Jobs -> Places]
        /\ verdict' \in [Jobs -> Verdicts]
    BY <1>b, <1>c
       DEF HttpAnswered, StepCompletes, Throw, GoTo, RunInv, RunTypeOK, contextVars,
          stackVars, worldVars, historyVars, Places, Verdicts, AnswerVerdicts
  <2>6. /\ left' \in [Jobs -> 0 .. Patience]
        /\ attempts' \in [Jobs -> 0 .. MaxAttempts]
        /\ table' \in SUBSET Rows
        /\ codes' \in [Jobs -> 0 .. MaxCodes]
    BY <1>d, WorkflowAssumption
       DEF HttpAnswered, StepCompletes, Throw, GoTo, RunInv, RunTypeOK, contextVars,
          stackVars, worldVars, historyVars
  <2>7. page' \in [Jobs -> BOOLEAN]
    BY Zenon, <1>b, <1>c
       DEF HttpAnswered, StepCompletes, Throw, GoTo, RunInv, RunTypeOK, contextVars,
          stackVars, worldVars, historyVars
  <2>8. aborted' \in BOOLEAN
    BY DEF HttpAnswered, StepCompletes, Throw, GoTo, RunInv, RunTypeOK, contextVars,
       stackVars, worldVars, historyVars
  <2> QED BY <2>1, <2>2, <2>3, <2>4, <2>5, <2>6, <2>7, <2>8 DEF RunTypeOK
<1>2. \A i \in Jobs \ {j} : Same(i)
  BY DEF HttpAnswered, StepCompletes, Throw, GoTo, Same, RunInv, RunTypeOK,
     contextVars, stackVars, worldVars, historyVars
<1>3. JobInv(j)'
  <2>1. CASE o.verdict # "ok"
    <3>1. place'[j] = "idle" /\ verdict'[j] = o.verdict /\ responses' = responses
      BY <1>b, <2>1 DEF Throw, GoTo, RunInv, RunTypeOK
    <3> QED BY <1>a, <1>c, <3>1, EndKeeps DEF HttpAnswered, AnswerVerdicts
  <2>2. CASE o.verdict = "ok"
    <3>1. /\ place'[j] = "between" /\ verdict'[j] = verdict[j]
          /\ responses'[j] = responses[j] \union { currentStep[j] }
      BY <1>b, <2>2 DEF StepCompletes, GoTo, RunInv, RunTypeOK
    <3>2. PositionedAt(j)' /\ MarkedAt(j)' BY <1>a, <3>1, DoneKeeps DEF HttpAnswered
    <3>3. WatchedAt(j)' BY <3>1, WatchKept DEF HttpAnswered, Awaits
    <3> QED BY <3>2, <3>3 DEF JobInv
  <2> QED BY <2>1, <2>2
<1> QED BY <1>1, <1>2, <1>3, SameKeeps DEF RunInv

LEMMA OtpPreparedKeepsInv ==
  ASSUME RunInv, NEW j \in Jobs, OtpPrepared(j)
  PROVE  RunInv'
<1>a. /\ place[j] \in Inside /\ place[j] = "sent"
      /\ currentStep[j] \in Steps /\ currentStep[j] = FirstIncomplete(j)
      /\ currentStep[j] \notin responses[j]
      /\ Step(j).type \in StepTypes /\ Step(j).expect \in Expectations
  BY InsideStep DEF OtpPrepared, Awaits, Inside
<1>b. PICK o \in TableOutcomes :
        IF o.verdict = "ok"
          THEN /\ StepCompletes(j)
               /\ otpWatch' = [otpWatch EXCEPT ![j] = CreateWatch(j)]
               /\ otp' = [otp EXCEPT ![j] = Null]
               /\ seen' = [seen EXCEPT ![j] = table]
          ELSE Throw(j, o.verdict, o.page) /\ UNCHANGED << responses, otpWatch, otp, seen >>
  BY DEF OtpPrepared
<1>c. o.verdict \in AnswerVerdicts /\ o.page \in BOOLEAN BY TableAnswers
<1>d. CreateWatch(j) \in SUBSET Rows /\ table \in SUBSET Rows
  BY DEF CreateWatch, RunInv, RunTypeOK
<1> DEFINE done == responses[j] \union { currentStep[j] }
<1>e. \/ UNCHANGED << responses, seen >>
      \/ /\ responses' = [responses EXCEPT ![j] = done]
         /\ seen' = [seen EXCEPT ![j] = table]
  BY <1>b DEF StepCompletes
<1>k. done \in SUBSET Steps BY <1>a DEF RunInv, RunTypeOK
<1> HIDE DEF done
<1>f. UNCHANGED currentStep BY DEF OtpPrepared
<1>1. RunTypeOK'
  <2>1. /\ responses' \in [Jobs -> SUBSET Steps]
        /\ currentStep' \in [Jobs -> Steps \union {0}]
        /\ seen' \in [Jobs -> SUBSET Rows]
    BY <1>d, <1>e, <1>f, <1>k DEF RunInv, RunTypeOK
  <2>2. /\ otpWatch' \in [Jobs -> (SUBSET Rows) \union { Null }]
        /\ otp' \in [Jobs -> Rows \union { Null }]
    BY <1>b, <1>d
       DEF OtpPrepared, StepCompletes, Throw, GoTo, RunInv, RunTypeOK, contextVars,
          stackVars, worldVars, historyVars
  <2>3. /\ uploads' \in [Jobs -> SUBSET (Steps \X Contents)]
        /\ acknowledged' \in [Jobs -> SUBSET (Steps \X Contents)]
        /\ item' \in [Jobs -> Contents \union { Null }]
    BY DEF OtpPrepared, StepCompletes, Throw, GoTo, RunInv, RunTypeOK, contextVars,
       stackVars, worldVars, historyVars
  <2>4. /\ documents' \in [Jobs -> Seq(Contents)]
        /\ downloaded' \in [Jobs -> Seq(Contents)]
        /\ \A i \in Jobs : IsInjective(documents'[i]) /\ IsInjective(downloaded'[i])
    BY DEF OtpPrepared, StepCompletes, Throw, GoTo, RunInv, RunTypeOK, contextVars,
       stackVars, worldVars, historyVars
  <2>5. /\ place' \in [Jobs -> Places]
        /\ verdict' \in [Jobs -> Verdicts]
    BY <1>b, <1>c
       DEF OtpPrepared, StepCompletes, Throw, GoTo, RunInv, RunTypeOK, contextVars,
          stackVars, worldVars, historyVars, Places, Verdicts, AnswerVerdicts
  <2>6. /\ left' \in [Jobs -> 0 .. Patience]
        /\ attempts' \in [Jobs -> 0 .. MaxAttempts]
        /\ table' \in SUBSET Rows
        /\ codes' \in [Jobs -> 0 .. MaxCodes]
    BY DEF OtpPrepared, StepCompletes, Throw, GoTo, RunInv, RunTypeOK, contextVars,
       stackVars, worldVars, historyVars
  <2>7. page' \in [Jobs -> BOOLEAN]
    BY Zenon, <1>b, <1>c
       DEF OtpPrepared, StepCompletes, Throw, GoTo, RunInv, RunTypeOK, contextVars,
          stackVars, worldVars, historyVars
  <2>8. aborted' \in BOOLEAN
    BY DEF OtpPrepared, StepCompletes, Throw, GoTo, RunInv, RunTypeOK, contextVars,
       stackVars, worldVars, historyVars
  <2> QED BY <2>1, <2>2, <2>3, <2>4, <2>5, <2>6, <2>7, <2>8 DEF RunTypeOK
<1>2. \A i \in Jobs \ {j} : Same(i)
  BY DEF OtpPrepared, StepCompletes, Throw, GoTo, Same, RunInv, RunTypeOK,
     contextVars, stackVars, worldVars, historyVars
<1>3. JobInv(j)'
  <2>1. CASE o.verdict # "ok"
    <3>1. /\ place'[j] = "idle" /\ verdict'[j] = o.verdict
          /\ UNCHANGED << responses, otpWatch, otp, seen >>
      BY <1>b, <2>1 DEF Throw, GoTo, RunInv, RunTypeOK
    <3> QED BY <1>a, <1>c, <3>1, EndKeeps DEF OtpPrepared, AnswerVerdicts
  <2>2. CASE o.verdict = "ok"
    <3>1. /\ place'[j] = "between" /\ verdict'[j] = verdict[j]
          /\ responses'[j] = responses[j] \union { currentStep[j] }
      BY <1>b, <2>2 DEF StepCompletes, GoTo, RunInv, RunTypeOK
    <3>2. PositionedAt(j)' /\ MarkedAt(j)' BY <1>a, <3>1, DoneKeeps DEF OtpPrepared
    <3>3. /\ otpWatch'[j] = { r \in table : r[1] = j } /\ otp'[j] = Null /\ seen'[j] = table
      BY <1>b, <2>2 DEF CreateWatch, RunInv, RunTypeOK
    <3>4. \A s \in responses'[j] :
            Workflow[s].type = "otp.wait" =>
              \E t \in responses'[j] : t > s /\ Workflow[t].type = "otp.prepare"
      <4> SUFFICES ASSUME NEW s \in responses'[j], Workflow[s].type = "otp.wait"
                   PROVE  currentStep[j] > s /\ Workflow[currentStep[j]].type = "otp.prepare"
        BY <3>1
      <4>1. Workflow[currentStep[j]].type = "otp.prepare" BY DEF OtpPrepared, Awaits, Step
      <4>2. s \in responses[j] BY <3>1, <4>1
      <4>3. responses[j] = 1 .. currentStep[j] - 1
        BY <1>a DEF RunInv, JobInv, PositionedAt
      <4> QED BY <1>a, <4>1, <4>2, <4>3, Advance
    <3>5. WatchedAt(j)' BY <3>1, <3>3, <3>4 DEF WatchedAt
    <3> QED BY <3>2, <3>5 DEF JobInv
  <2> QED BY <2>1, <2>2
<1> QED BY <1>1, <1>2, <1>3, SameKeeps DEF RunInv

LEMMA OtpPolledKeepsInv ==
  ASSUME RunInv, NEW j \in Jobs, OtpPolled(j)
  PROVE  RunInv'
<1>a. /\ place[j] \in Inside /\ place[j] = "sent"
      /\ currentStep[j] \in Steps /\ currentStep[j] = FirstIncomplete(j)
      /\ currentStep[j] \notin responses[j]
      /\ Step(j).type \in StepTypes /\ Step(j).expect \in Expectations
  BY InsideStep DEF OtpPolled, Awaits, Inside
<1>b. PICK o \in TableOutcomes, rest \in 0 .. left[j] :
        /\ left' = [left EXCEPT ![j] = rest]
        /\ \/ /\ o.verdict # "ok"
              /\ Throw(j, o.verdict, o.page)
              /\ UNCHANGED << responses, otp, otpWatch >>
           \/ /\ o.verdict = "ok" /\ Cardinality(NewRows(j)) = 1
              /\ otp' = [otp EXCEPT ![j] = CHOOSE r \in NewRows(j) : TRUE]
              /\ otpWatch' = [otpWatch EXCEPT ![j] = Null]
              /\ StepCompletes(j)
           \/ /\ o.verdict = "ok" /\ Cardinality(NewRows(j)) > 1
              /\ Throw(j, "fatal", FALSE)
              /\ UNCHANGED << responses, otp, otpWatch >>
           \/ /\ o.verdict = "ok" /\ NewRows(j) = {}
              /\ IF rest = 0 THEN Throw(j, "retry", FALSE)
                 ELSE GoTo(j, "sleeping") /\ UNCHANGED << verdict, page >>
              /\ UNCHANGED << responses, otp, otpWatch >>
  BY DEF OtpPolled
<1>c. o.verdict \in AnswerVerdicts /\ o.page \in BOOLEAN BY TableAnswers
<1> DEFINE row == CHOOSE r \in NewRows(j) : TRUE
<1>d. \/ /\ \E v \in AnswerVerdicts \ { "ok" }, isPage \in BOOLEAN : Throw(j, v, isPage)
         /\ UNCHANGED << responses, otp, otpWatch >>
      \/ /\ row \in NewRows(j) /\ otp' = [otp EXCEPT ![j] = row]
         /\ otpWatch' = [otpWatch EXCEPT ![j] = Null]
         /\ StepCompletes(j)
      \/ /\ GoTo(j, "sleeping") /\ UNCHANGED << verdict, page >>
         /\ UNCHANGED << responses, otp, otpWatch >>
  <2>1. CASE o.verdict # "ok" BY <1>b, <1>c, <2>1
  <2>2. CASE o.verdict = "ok" /\ Cardinality(NewRows(j)) = 1
    <3>1. NewRows(j) # {} BY <2>2, FS_EmptySet
    <3>2. row \in NewRows(j) BY <3>1
    <3>3. NewRows(j) # {} /\ ~(Cardinality(NewRows(j)) > 1) BY <2>2, <3>1
    <3> HIDE DEF row
    <3> QED BY <1>b, <2>2, <3>2, <3>3 DEF row
  <2>3. CASE o.verdict = "ok" /\ Cardinality(NewRows(j)) # 1
    BY <1>b, <2>3 DEF AnswerVerdicts
  <2> QED BY <2>1, <2>2, <2>3
<1>e. row \in NewRows(j) => row \in Rows BY DEF NewRows, RunInv, RunTypeOK
<1> HIDE DEF row
<1> DEFINE done == responses[j] \union { currentStep[j] }
<1>f. responses' = responses \/ responses' = [responses EXCEPT ![j] = done]
  BY <1>d DEF StepCompletes
<1>k. done \in SUBSET Steps BY <1>a DEF RunInv, RunTypeOK
<1> HIDE DEF done
<1>g. \/ UNCHANGED << otp, otpWatch >>
      \/ /\ row \in Rows /\ otp' = [otp EXCEPT ![j] = row]
         /\ otpWatch' = [otpWatch EXCEPT ![j] = Null]
  BY <1>d, <1>e
<1>h. \/ \E v \in AnswerVerdicts \ { "ok" }, isPage \in BOOLEAN :
           /\ place' = [place EXCEPT ![j] = "idle"]
           /\ verdict' = [verdict EXCEPT ![j] = v] /\ page' = [page EXCEPT ![j] = isPage]
      \/ place' = [place EXCEPT ![j] = "between"] /\ UNCHANGED << verdict, page >>
      \/ place' = [place EXCEPT ![j] = "sleeping"] /\ UNCHANGED << verdict, page >>
  BY <1>d DEF Throw, GoTo, StepCompletes
<1>l. AnswerVerdicts \ { "ok" } \subseteq Verdicts BY DEF AnswerVerdicts, Verdicts
<1>i. UNCHANGED << currentStep, seen >> BY DEF OtpPolled
<1>1. RunTypeOK'
  <2>1. /\ responses' \in [Jobs -> SUBSET Steps]
        /\ currentStep' \in [Jobs -> Steps \union {0}]
        /\ seen' \in [Jobs -> SUBSET Rows]
    BY <1>f, <1>i, <1>k DEF RunInv, RunTypeOK
  <2>2. /\ otpWatch' \in [Jobs -> (SUBSET Rows) \union { Null }]
        /\ otp' \in [Jobs -> Rows \union { Null }]
    BY <1>g DEF RunInv, RunTypeOK
  <2>3. /\ uploads' \in [Jobs -> SUBSET (Steps \X Contents)]
        /\ acknowledged' \in [Jobs -> SUBSET (Steps \X Contents)]
        /\ item' \in [Jobs -> Contents \union { Null }]
    BY DEF OtpPolled, StepCompletes, Throw, GoTo, RunInv, RunTypeOK, contextVars,
       stackVars, worldVars, historyVars
  <2>4. /\ documents' \in [Jobs -> Seq(Contents)]
        /\ downloaded' \in [Jobs -> Seq(Contents)]
        /\ \A i \in Jobs : IsInjective(documents'[i]) /\ IsInjective(downloaded'[i])
    BY DEF OtpPolled, StepCompletes, Throw, GoTo, RunInv, RunTypeOK, contextVars,
       stackVars, worldVars, historyVars
  <2>5. /\ place' \in [Jobs -> Places]
        /\ verdict' \in [Jobs -> Verdicts]
    BY <1>h, <1>l DEF RunInv, RunTypeOK, Places
  <2>6. /\ left' \in [Jobs -> 0 .. Patience]
        /\ attempts' \in [Jobs -> 0 .. MaxAttempts]
        /\ table' \in SUBSET Rows
        /\ codes' \in [Jobs -> 0 .. MaxCodes]
    BY <1>b, WorkflowAssumption
       DEF OtpPolled, StepCompletes, Throw, GoTo, RunInv, RunTypeOK, contextVars,
          stackVars, worldVars, historyVars
  <2>7. page' \in [Jobs -> BOOLEAN]
    BY Zenon, <1>h DEF RunInv, RunTypeOK
  <2>8. aborted' \in BOOLEAN
    BY DEF OtpPolled, StepCompletes, Throw, GoTo, RunInv, RunTypeOK, contextVars,
       stackVars, worldVars, historyVars
  <2> QED BY <2>1, <2>2, <2>3, <2>4, <2>5, <2>6, <2>7, <2>8 DEF RunTypeOK
<1>2. \A i \in Jobs \ {j} : Same(i)
  BY DEF OtpPolled, StepCompletes, Throw, GoTo, Same, RunInv, RunTypeOK, contextVars,
     stackVars, worldVars, historyVars
<1>3. JobInv(j)'
  <2>1. CASE /\ \E v \in AnswerVerdicts \ { "ok" }, isPage \in BOOLEAN : Throw(j, v, isPage)
             /\ UNCHANGED << responses, otp, otpWatch >>
    <3>1. place'[j] = "idle" /\ verdict'[j] \in AnswerVerdicts
      BY <2>1 DEF Throw, GoTo, RunInv, RunTypeOK
    <3> QED BY <1>a, <2>1, <3>1, EndKeeps DEF OtpPolled, AnswerVerdicts
  <2>2. CASE /\ row \in NewRows(j) /\ otp' = [otp EXCEPT ![j] = row]
             /\ otpWatch' = [otpWatch EXCEPT ![j] = Null]
             /\ StepCompletes(j)
    <3>1. /\ place'[j] = "between" /\ verdict'[j] = verdict[j]
          /\ responses'[j] = responses[j] \union { currentStep[j] }
          /\ otp'[j] = row /\ otpWatch'[j] = Null /\ seen'[j] = seen[j]
      BY <2>2 DEF OtpPolled, StepCompletes, GoTo, RunInv, RunTypeOK
    <3>2. PositionedAt(j)' /\ MarkedAt(j)' BY <1>a, <3>1, DoneKeeps DEF OtpPolled
    <3>3. otpWatch[j] = { r \in seen[j] : r[1] = j }
      BY <1>a DEF OtpPolled, Awaits, RunInv, JobInv, WatchedAt
    <3>4. row[1] = j /\ row \notin seen[j]
      BY <2>2, <3>3 DEF NewRows
    <3>5. row # Null BY <1>e, <2>2, NullAssumption
    <3>6. WatchedAt(j)' BY <3>1, <3>4, <3>5 DEF WatchedAt
    <3> QED BY <3>2, <3>6 DEF JobInv
  <2>3. CASE /\ GoTo(j, "sleeping") /\ UNCHANGED << verdict, page >>
             /\ UNCHANGED << responses, otp, otpWatch >>
    <3>1. place'[j] = "sleeping" BY <2>3 DEF GoTo, RunInv, RunTypeOK
    <3>2. Step(j).type = "otp.wait" /\ otpWatch[j] # Null
      BY <1>a DEF OtpPolled, Awaits, RunInv, JobInv, WatchedAt
    <3> QED BY <1>a, <2>3, <3>1, <3>2, StayKeeps DEF OtpPolled, Inside
  <2> QED BY <1>d, <2>1, <2>2, <2>3
<1> QED BY <1>1, <1>2, <1>3, SameKeeps DEF RunInv

LEMMA PollAgainKeepsInv ==
  ASSUME RunInv, NEW j \in Jobs, PollAgain(j)
  PROVE  RunInv'
<1>a. PICK rest \in 0 .. left[j] - 1 :
        /\ left' = [left EXCEPT ![j] = rest]
        /\ IF rest = 0 THEN Throw(j, "retry", FALSE)
           ELSE GoTo(j, "sent") /\ UNCHANGED << verdict, page >>
  BY DEF PollAgain
<1>b. left[j] \in 0 .. Patience /\ rest \in 0 .. Patience
  BY <1>a, WorkflowAssumption DEF RunInv, RunTypeOK
<1>c. \/ /\ place' = [place EXCEPT ![j] = "idle"] /\ verdict' = [verdict EXCEPT ![j] = "retry"]
         /\ page' = [page EXCEPT ![j] = FALSE]
      \/ place' = [place EXCEPT ![j] = "sent"] /\ UNCHANGED << verdict, page >>
  BY <1>a DEF Throw, GoTo
<1>1. RunTypeOK'
  <2>1. /\ responses' \in [Jobs -> SUBSET Steps]
        /\ currentStep' \in [Jobs -> Steps \union {0}]
        /\ seen' \in [Jobs -> SUBSET Rows]
    BY DEF PollAgain, Throw, GoTo, RunInv, RunTypeOK, contextVars, stackVars,
       worldVars, historyVars
  <2>2. /\ otpWatch' \in [Jobs -> (SUBSET Rows) \union { Null }]
        /\ otp' \in [Jobs -> Rows \union { Null }]
    BY DEF PollAgain, Throw, GoTo, RunInv, RunTypeOK, contextVars, stackVars,
       worldVars, historyVars
  <2>3. /\ uploads' \in [Jobs -> SUBSET (Steps \X Contents)]
        /\ acknowledged' \in [Jobs -> SUBSET (Steps \X Contents)]
        /\ item' \in [Jobs -> Contents \union { Null }]
    BY DEF PollAgain, Throw, GoTo, RunInv, RunTypeOK, contextVars, stackVars,
       worldVars, historyVars
  <2>4. /\ documents' \in [Jobs -> Seq(Contents)]
        /\ downloaded' \in [Jobs -> Seq(Contents)]
        /\ \A i \in Jobs : IsInjective(documents'[i]) /\ IsInjective(downloaded'[i])
    BY DEF PollAgain, Throw, GoTo, RunInv, RunTypeOK, contextVars, stackVars,
       worldVars, historyVars
  <2>5. /\ place' \in [Jobs -> Places]
        /\ verdict' \in [Jobs -> Verdicts]
    BY <1>c DEF RunInv, RunTypeOK, Places, Verdicts
  <2>6. /\ left' \in [Jobs -> 0 .. Patience]
        /\ attempts' \in [Jobs -> 0 .. MaxAttempts]
        /\ table' \in SUBSET Rows
        /\ codes' \in [Jobs -> 0 .. MaxCodes]
    BY <1>a, <1>b
       DEF PollAgain, Throw, GoTo, RunInv, RunTypeOK, contextVars, stackVars,
          worldVars, historyVars
  <2>7. page' \in [Jobs -> BOOLEAN]
    BY Zenon, <1>c DEF RunInv, RunTypeOK
  <2>8. aborted' \in BOOLEAN
    BY DEF PollAgain, Throw, GoTo, RunInv, RunTypeOK, contextVars, stackVars,
       worldVars, historyVars
  <2> QED BY <2>1, <2>2, <2>3, <2>4, <2>5, <2>6, <2>7, <2>8 DEF RunTypeOK
<1>2. \A i \in Jobs \ {j} : Same(i)
  BY DEF PollAgain, Throw, GoTo, Same, RunInv, RunTypeOK, contextVars, stackVars,
     worldVars, historyVars
<1>3. JobInv(j)'
  <2>0. place[j] \in Inside /\ Step(j).type = "otp.wait" /\ otpWatch[j] # Null
    BY DEF PollAgain, Inside, RunInv, JobInv, PositionedAt, WatchedAt
  <2>1. CASE rest = 0
    <3>1. place'[j] = "idle" /\ verdict'[j] = "retry"
      BY <1>a, <2>1 DEF Throw, GoTo, RunInv, RunTypeOK
    <3> QED BY <2>0, <3>1, EndKeeps DEF PollAgain, contextVars
  <2>2. CASE rest # 0
    <3>1. place'[j] = "sent" /\ verdict' = verdict
      BY <1>a, <2>2 DEF GoTo, RunInv, RunTypeOK
    <3> QED BY <2>0, <3>1, StayKeeps DEF PollAgain, contextVars, Inside
  <2> QED BY <2>1, <2>2
<1> QED BY <1>1, <1>2, <1>3, SameKeeps DEF RunInv

LEMMA DownloadedKeepsInv ==
  ASSUME RunInv, NEW j \in Jobs, Downloaded(j)
  PROVE  RunInv'
<1>a. /\ place[j] \in Inside /\ place[j] = "sent"
      /\ currentStep[j] \in Steps /\ currentStep[j] = FirstIncomplete(j)
      /\ currentStep[j] \notin responses[j]
      /\ Step(j).type \in StepTypes /\ Step(j).expect \in Expectations
  BY InsideStep DEF Downloaded, Awaits, Inside
<1>b. PICK o \in DocumentOutcomes, c \in Contents, allowed \in BOOLEAN :
        LET docs == Append(downloaded[j], c) IN
        \/ /\ o.verdict # "ok"
           /\ Throw(j, o.verdict, o.page)
           /\ UNCHANGED << responses, documents, uploads, downloaded >>
        \/ /\ o.verdict = "ok" /\ (~allowed \/ Duplicate(docs))
           /\ Throw(j, "fatal", FALSE)
           /\ UNCHANGED << responses, documents, uploads, downloaded >>
        \/ /\ o.verdict = "ok" /\ allowed /\ ~Duplicate(docs) /\ Len(docs) < Sources
           /\ downloaded' = [downloaded EXCEPT ![j] = docs]
           /\ UNCHANGED << responses, documents, uploads, place, verdict, page >>
        \/ /\ o.verdict = "ok" /\ allowed /\ ~Duplicate(docs) /\ Len(docs) = Sources
           /\ SetDocuments(j, docs)
           /\ StepCompletes(j)
           /\ UNCHANGED downloaded
  BY DEF Downloaded
<1>c. o.verdict \in AnswerVerdicts /\ o.page \in BOOLEAN BY DocumentAnswers
<1> DEFINE docs == Append(downloaded[j], c)
           done == responses[j] \union { currentStep[j] }
           marks == IF documents[j] \in { << >>, docs } THEN uploads[j] ELSE {}
<1>d. ~Duplicate(docs) => docs \in Seq(Contents) /\ IsInjective(docs)
  BY NoDuplicate DEF RunInv, RunTypeOK
<1>e. marks \in SUBSET (Steps \X Contents) BY DEF RunInv, RunTypeOK
<1>k. done \in SUBSET Steps BY <1>a DEF RunInv, RunTypeOK
<1>f. \/ /\ \E v \in AnswerVerdicts \ { "ok" }, isPage \in BOOLEAN : Throw(j, v, isPage)
         /\ UNCHANGED << responses, documents, uploads, downloaded >>
      \/ /\ ~Duplicate(docs) /\ downloaded' = [downloaded EXCEPT ![j] = docs]
         /\ UNCHANGED << responses, documents, uploads, place, verdict, page >>
      \/ /\ ~Duplicate(docs) /\ SetDocuments(j, docs) /\ StepCompletes(j)
         /\ UNCHANGED downloaded
  BY <1>b, <1>c DEF AnswerVerdicts
<1> HIDE DEF docs
<1>g. \/ UNCHANGED << responses, documents, uploads >>
      \/ /\ ~Duplicate(docs) /\ documents' = [documents EXCEPT ![j] = docs]
         /\ uploads' = [uploads EXCEPT ![j] = marks]
         /\ responses' = [responses EXCEPT ![j] = done]
  BY <1>f DEF SetDocuments, StepCompletes
<1> HIDE DEF marks, done
<1>h. \/ \E v \in AnswerVerdicts \ { "ok" }, isPage \in BOOLEAN :
           /\ place' = [place EXCEPT ![j] = "idle"]
           /\ verdict' = [verdict EXCEPT ![j] = v] /\ page' = [page EXCEPT ![j] = isPage]
      \/ place' = [place EXCEPT ![j] = "between"] /\ UNCHANGED << verdict, page >>
      \/ UNCHANGED << place, verdict, page >>
  BY <1>f DEF Throw, GoTo, StepCompletes
<1>i. UNCHANGED << currentStep, seen, acknowledged, item, otp, otpWatch >> BY DEF Downloaded
<1>l. AnswerVerdicts \ { "ok" } \subseteq Verdicts BY DEF AnswerVerdicts, Verdicts
<1>m. \/ UNCHANGED downloaded
      \/ ~Duplicate(docs) /\ downloaded' = [downloaded EXCEPT ![j] = docs]
  BY <1>f
<1>n. documents' \in [Jobs -> Seq(Contents)] /\ \A i \in Jobs : IsInjective(documents'[i])
  <2>1. CASE UNCHANGED documents BY <2>1 DEF RunInv, RunTypeOK
  <2>2. CASE ~Duplicate(docs) /\ documents' = [documents EXCEPT ![j] = docs]
    <3>1. documents' \in [Jobs -> Seq(Contents)] BY <1>d, <2>2 DEF RunInv, RunTypeOK
    <3>2. \A i \in Jobs : documents'[i] = IF i = j THEN docs ELSE documents[i]
      BY <2>2 DEF RunInv, RunTypeOK
    <3> QED BY <1>d, <2>2, <3>1, <3>2 DEF RunInv, RunTypeOK
  <2> QED BY <1>g, <2>1, <2>2
<1>o. downloaded' \in [Jobs -> Seq(Contents)] /\ \A i \in Jobs : IsInjective(downloaded'[i])
  <2>1. CASE UNCHANGED downloaded BY <2>1 DEF RunInv, RunTypeOK
  <2>2. CASE ~Duplicate(docs) /\ downloaded' = [downloaded EXCEPT ![j] = docs]
    <3>1. downloaded' \in [Jobs -> Seq(Contents)] BY <1>d, <2>2 DEF RunInv, RunTypeOK
    <3>2. \A i \in Jobs : downloaded'[i] = IF i = j THEN docs ELSE downloaded[i]
      BY <2>2 DEF RunInv, RunTypeOK
    <3> QED BY <1>d, <2>2, <3>1, <3>2 DEF RunInv, RunTypeOK
  <2> QED BY <1>m, <2>1, <2>2
<1>1. RunTypeOK'
  <2>1. /\ responses' \in [Jobs -> SUBSET Steps]
        /\ currentStep' \in [Jobs -> Steps \union {0}]
        /\ seen' \in [Jobs -> SUBSET Rows]
    BY <1>g, <1>i, <1>k DEF RunInv, RunTypeOK
  <2>2. /\ otpWatch' \in [Jobs -> (SUBSET Rows) \union { Null }]
        /\ otp' \in [Jobs -> Rows \union { Null }]
    BY DEF Downloaded, SetDocuments, StepCompletes, Throw, GoTo, RunInv, RunTypeOK,
       contextVars, stackVars, worldVars, historyVars
  <2>3. /\ uploads' \in [Jobs -> SUBSET (Steps \X Contents)]
        /\ acknowledged' \in [Jobs -> SUBSET (Steps \X Contents)]
        /\ item' \in [Jobs -> Contents \union { Null }]
    BY <1>e, <1>g, <1>i DEF RunInv, RunTypeOK
  <2>4. /\ documents' \in [Jobs -> Seq(Contents)]
        /\ downloaded' \in [Jobs -> Seq(Contents)]
        /\ \A i \in Jobs : IsInjective(documents'[i]) /\ IsInjective(downloaded'[i])
    BY <1>n, <1>o DEF RunInv, RunTypeOK
  <2>5. /\ place' \in [Jobs -> Places]
        /\ verdict' \in [Jobs -> Verdicts]
    BY <1>h, <1>l DEF RunInv, RunTypeOK, Places
  <2>6. /\ left' \in [Jobs -> 0 .. Patience]
        /\ attempts' \in [Jobs -> 0 .. MaxAttempts]
        /\ table' \in SUBSET Rows
        /\ codes' \in [Jobs -> 0 .. MaxCodes]
    BY DEF Downloaded, SetDocuments, StepCompletes, Throw, GoTo, RunInv, RunTypeOK,
       contextVars, stackVars, worldVars, historyVars
  <2>7. page' \in [Jobs -> BOOLEAN]
    BY Zenon, <1>h DEF RunInv, RunTypeOK
  <2>8. aborted' \in BOOLEAN
    BY DEF Downloaded, SetDocuments, StepCompletes, Throw, GoTo, RunInv, RunTypeOK,
       contextVars, stackVars, worldVars, historyVars
  <2> QED BY <2>1, <2>2, <2>3, <2>4, <2>5, <2>6, <2>7, <2>8 DEF RunTypeOK
<1>2. \A i \in Jobs \ {j} : Same(i)
  BY DEF Downloaded, SetDocuments, StepCompletes, Throw, GoTo, Same, RunInv,
     RunTypeOK, contextVars, stackVars, worldVars, historyVars
<1>3. JobInv(j)'
  <2>1. CASE /\ \E v \in AnswerVerdicts \ { "ok" }, isPage \in BOOLEAN : Throw(j, v, isPage)
             /\ UNCHANGED << responses, documents, uploads, downloaded >>
    <3>1. place'[j] = "idle" /\ verdict'[j] \in AnswerVerdicts
      BY <2>1 DEF Throw, GoTo, RunInv, RunTypeOK
    <3> QED BY <1>a, <1>i, <2>1, <3>1, EndKeeps DEF AnswerVerdicts
  <2>2. CASE UNCHANGED << responses, documents, uploads, place, verdict, page >>
    <3>1. Same(j) BY <1>i, <2>2 DEF Same
    <3> QED BY <3>1, SameKeeps
  <2>3. CASE SetDocuments(j, docs) /\ StepCompletes(j)
    <3>1. /\ place'[j] = "between" /\ verdict'[j] = verdict[j]
          /\ responses'[j] = responses[j] \union { currentStep[j] }
      BY <2>3 DEF StepCompletes, GoTo, RunInv, RunTypeOK
    <3>2. PositionedAt(j)' /\ MarkedAt(j)' BY <1>a, <1>i, <3>1, DoneKeeps
    <3>3. WatchedAt(j)' BY <1>i, <3>1, WatchKept DEF Downloaded, Awaits
    <3> QED BY <3>2, <3>3 DEF JobInv
  <2> QED BY <1>f, <2>1, <2>2, <2>3
<1> QED BY <1>1, <1>2, <1>3, SameKeeps DEF RunInv

LEMMA NextDocumentKeepsInv ==
  ASSUME RunInv, NEW j \in Jobs, NextDocument(j)
  PROVE  RunInv'
<1>a. PICK next \in Missing(j) :
        \/ /\ item' = [item EXCEPT ![j] = documents[j][next]]
           /\ place' = [place EXCEPT ![j] = "sent"] /\ UNCHANGED << verdict, page >>
        \/ /\ UNCHANGED item
           /\ place' = [place EXCEPT ![j] = "idle"] /\ verdict' = [verdict EXCEPT ![j] = "fatal"]
           /\ page' = [page EXCEPT ![j] = FALSE]
  BY DEF NextDocument, Throw, GoTo
<1> DEFINE c == documents[j][next]
<1>b. c \in Contents /\ << currentStep[j], c >> \notin uploads[j]
  BY ElementOfSeq DEF Missing, RunInv, RunTypeOK
<1>c. place[j] \in Inside BY DEF NextDocument, Inside
<1>d. UNCHANGED << uploads, acknowledged >> BY DEF NextDocument, contextVars
<1> HIDE DEF c
<1>1. RunTypeOK'
  <2>1. /\ responses' \in [Jobs -> SUBSET Steps]
        /\ currentStep' \in [Jobs -> Steps \union {0}]
        /\ seen' \in [Jobs -> SUBSET Rows]
    BY DEF NextDocument, Throw, GoTo, RunInv, RunTypeOK, contextVars, stackVars,
       worldVars, historyVars
  <2>2. /\ otpWatch' \in [Jobs -> (SUBSET Rows) \union { Null }]
        /\ otp' \in [Jobs -> Rows \union { Null }]
    BY DEF NextDocument, Throw, GoTo, RunInv, RunTypeOK, contextVars, stackVars,
       worldVars, historyVars
  <2>3. /\ uploads' \in [Jobs -> SUBSET (Steps \X Contents)]
        /\ acknowledged' \in [Jobs -> SUBSET (Steps \X Contents)]
        /\ item' \in [Jobs -> Contents \union { Null }]
    BY <1>a, <1>b, <1>d DEF RunInv, RunTypeOK, c
  <2>4. /\ documents' \in [Jobs -> Seq(Contents)]
        /\ downloaded' \in [Jobs -> Seq(Contents)]
        /\ \A i \in Jobs : IsInjective(documents'[i]) /\ IsInjective(downloaded'[i])
    BY DEF NextDocument, Throw, GoTo, RunInv, RunTypeOK, contextVars, stackVars,
       worldVars, historyVars
  <2>5. /\ place' \in [Jobs -> Places]
        /\ verdict' \in [Jobs -> Verdicts]
    BY <1>a DEF RunInv, RunTypeOK, Places, Verdicts
  <2>6. /\ left' \in [Jobs -> 0 .. Patience]
        /\ attempts' \in [Jobs -> 0 .. MaxAttempts]
        /\ table' \in SUBSET Rows
        /\ codes' \in [Jobs -> 0 .. MaxCodes]
    BY DEF NextDocument, Throw, GoTo, RunInv, RunTypeOK, contextVars, stackVars,
       worldVars, historyVars
  <2>7. page' \in [Jobs -> BOOLEAN]
    BY Zenon, <1>a DEF RunInv, RunTypeOK
  <2>8. aborted' \in BOOLEAN
    BY DEF NextDocument, Throw, GoTo, RunInv, RunTypeOK, contextVars, stackVars,
       worldVars, historyVars
  <2> QED BY <2>1, <2>2, <2>3, <2>4, <2>5, <2>6, <2>7, <2>8 DEF RunTypeOK
<1>2. \A i \in Jobs \ {j} : Same(i)
  BY DEF NextDocument, Throw, GoTo, Same, RunInv, RunTypeOK, contextVars, stackVars,
     worldVars, historyVars
<1>3. JobInv(j)'
  <2>1. CASE item' = [item EXCEPT ![j] = c] /\ place' = [place EXCEPT ![j] = "sent"] /\ UNCHANGED verdict
    <3>1. place'[j] = "sent" /\ item'[j] = c BY <2>1 DEF RunInv, RunTypeOK
    <3>2. Step(j).type = "documents.upload"
      BY DEF NextDocument, RunInv, JobInv, PositionedAt
    <3> QED BY <1>b, <1>c, <2>1, <3>1, <3>2, StayKeeps DEF NextDocument, contextVars, Inside
  <2>2. CASE place' = [place EXCEPT ![j] = "idle"] /\ verdict' = [verdict EXCEPT ![j] = "fatal"]
    <3>1. place'[j] = "idle" /\ verdict'[j] = "fatal" BY <2>2 DEF RunInv, RunTypeOK
    <3> QED BY <3>1, EndKeeps DEF NextDocument, contextVars
  <2> QED BY <1>a, <2>1, <2>2 DEF c
<1> QED BY <1>1, <1>2, <1>3, SameKeeps DEF RunInv

LEMMA AllUploadedKeepsInv ==
  ASSUME RunInv, NEW j \in Jobs, AllUploaded(j)
  PROVE  RunInv'
<1>a. place[j] \in Inside /\ Step(j).type = "documents.upload"
  BY DEF AllUploaded, Inside, RunInv, JobInv, PositionedAt
<1> DEFINE done == responses[j] \union { currentStep[j] }
<1>b. done \in SUBSET Steps BY <1>a, InsideStep DEF RunInv, RunTypeOK
<1>c. responses' = [responses EXCEPT ![j] = done] /\ UNCHANGED << currentStep, seen >>
  BY DEF AllUploaded, StepCompletes
<1> HIDE DEF done
<1>1. RunTypeOK'
  <2>1. /\ responses' \in [Jobs -> SUBSET Steps]
        /\ currentStep' \in [Jobs -> Steps \union {0}]
        /\ seen' \in [Jobs -> SUBSET Rows]
    BY <1>b, <1>c DEF RunInv, RunTypeOK
  <2>2. /\ otpWatch' \in [Jobs -> (SUBSET Rows) \union { Null }]
        /\ otp' \in [Jobs -> Rows \union { Null }]
    BY DEF AllUploaded, StepCompletes, GoTo, RunInv, RunTypeOK, contextVars,
       stackVars, worldVars, historyVars
  <2>3. /\ uploads' \in [Jobs -> SUBSET (Steps \X Contents)]
        /\ acknowledged' \in [Jobs -> SUBSET (Steps \X Contents)]
        /\ item' \in [Jobs -> Contents \union { Null }]
    BY DEF AllUploaded, StepCompletes, GoTo, RunInv, RunTypeOK, contextVars,
       stackVars, worldVars, historyVars
  <2>4. /\ documents' \in [Jobs -> Seq(Contents)]
        /\ downloaded' \in [Jobs -> Seq(Contents)]
        /\ \A i \in Jobs : IsInjective(documents'[i]) /\ IsInjective(downloaded'[i])
    BY DEF AllUploaded, StepCompletes, GoTo, RunInv, RunTypeOK, contextVars,
       stackVars, worldVars, historyVars
  <2>5. /\ place' \in [Jobs -> Places]
        /\ verdict' \in [Jobs -> Verdicts]
    BY DEF AllUploaded, StepCompletes, GoTo, RunInv, RunTypeOK, contextVars,
       stackVars, worldVars, historyVars, Places, Verdicts
  <2>6. /\ left' \in [Jobs -> 0 .. Patience]
        /\ attempts' \in [Jobs -> 0 .. MaxAttempts]
        /\ table' \in SUBSET Rows
        /\ codes' \in [Jobs -> 0 .. MaxCodes]
    BY DEF AllUploaded, StepCompletes, GoTo, RunInv, RunTypeOK, contextVars,
       stackVars, worldVars, historyVars
  <2>7. page' \in [Jobs -> BOOLEAN]
    BY DEF AllUploaded, StepCompletes, GoTo, RunInv, RunTypeOK, contextVars,
       stackVars, worldVars, historyVars
  <2>8. aborted' \in BOOLEAN
    BY DEF AllUploaded, StepCompletes, GoTo, RunInv, RunTypeOK, contextVars,
       stackVars, worldVars, historyVars
  <2> QED BY <2>1, <2>2, <2>3, <2>4, <2>5, <2>6, <2>7, <2>8 DEF RunTypeOK
<1>2. \A i \in Jobs \ {j} : Same(i)
  BY DEF AllUploaded, StepCompletes, GoTo, Same, RunInv, RunTypeOK, contextVars,
     stackVars, worldVars, historyVars
<1>3. JobInv(j)'
  <2>1. /\ place'[j] = "between" /\ verdict'[j] = verdict[j]
        /\ responses'[j] = responses[j] \union { currentStep[j] }
    BY DEF AllUploaded, StepCompletes, GoTo, RunInv, RunTypeOK
  <2>2. PositionedAt(j)' /\ MarkedAt(j)' BY <1>a, <2>1, DoneKeeps DEF AllUploaded
  <2>3. WatchedAt(j)' BY <1>a, <2>1, WatchKept DEF AllUploaded
  <2> QED BY <2>2, <2>3 DEF JobInv
<1> QED BY <1>1, <1>2, <1>3, SameKeeps DEF RunInv

LEMMA UploadedKeepsInv ==
  ASSUME RunInv, NEW j \in Jobs, Uploaded(j)
  PROVE  RunInv'
<1>a. /\ place[j] \in Inside /\ place[j] = "sent"
      /\ currentStep[j] \in Steps /\ currentStep[j] = FirstIncomplete(j)
      /\ currentStep[j] \notin responses[j]
      /\ Step(j).type \in StepTypes /\ Step(j).expect \in Expectations
  BY InsideStep DEF Uploaded, Awaits, Inside
<1> DEFINE u == << currentStep[j], item[j] >>
           marks == uploads[j] \union { u }
           known == acknowledged[j] \union { u }
<1>b. PICK o \in TargetOutcomes[Step(j).expect] :
        IF o.verdict = "ok"
          THEN /\ uploads' = [uploads EXCEPT ![j] = marks]
               /\ acknowledged' = [acknowledged EXCEPT ![j] = known]
               /\ place' = [place EXCEPT ![j] = "documents"]
               /\ UNCHANGED << verdict, page >>
          ELSE /\ place' = [place EXCEPT ![j] = "idle"]
               /\ verdict' = [verdict EXCEPT ![j] = o.verdict]
               /\ page' = [page EXCEPT ![j] = o.page]
               /\ UNCHANGED << uploads, acknowledged >>
  BY DEF Uploaded, SetDocumentUpload, Throw, GoTo
<1>c. o.verdict \in AnswerVerdicts /\ o.page \in BOOLEAN BY <1>a, TargetAnswers
<1>d. item[j] \in Contents
  BY <1>a DEF Uploaded, Awaits, RunInv, JobInv, MarkedAt
<1>e. marks \in SUBSET (Steps \X Contents) /\ known \in SUBSET (Steps \X Contents)
  BY <1>a, <1>d DEF RunInv, RunTypeOK
<1>f. item' = [item EXCEPT ![j] = Null] BY DEF Uploaded
<1>g. AnswerVerdicts \ { "ok" } \subseteq Verdicts BY DEF AnswerVerdicts, Verdicts
<1> HIDE DEF marks, known
<1>1. RunTypeOK'
  <2>1. /\ responses' \in [Jobs -> SUBSET Steps]
        /\ currentStep' \in [Jobs -> Steps \union {0}]
        /\ seen' \in [Jobs -> SUBSET Rows]
    BY DEF Uploaded, SetDocumentUpload, Throw, GoTo, RunInv, RunTypeOK, contextVars,
       stackVars, worldVars, historyVars
  <2>2. /\ otpWatch' \in [Jobs -> (SUBSET Rows) \union { Null }]
        /\ otp' \in [Jobs -> Rows \union { Null }]
    BY DEF Uploaded, SetDocumentUpload, Throw, GoTo, RunInv, RunTypeOK, contextVars,
       stackVars, worldVars, historyVars
  <2>3. /\ uploads' \in [Jobs -> SUBSET (Steps \X Contents)]
        /\ acknowledged' \in [Jobs -> SUBSET (Steps \X Contents)]
        /\ item' \in [Jobs -> Contents \union { Null }]
    BY <1>b, <1>e, <1>f DEF RunInv, RunTypeOK
  <2>4. /\ documents' \in [Jobs -> Seq(Contents)]
        /\ downloaded' \in [Jobs -> Seq(Contents)]
        /\ \A i \in Jobs : IsInjective(documents'[i]) /\ IsInjective(downloaded'[i])
    BY DEF Uploaded, SetDocumentUpload, Throw, GoTo, RunInv, RunTypeOK, contextVars,
       stackVars, worldVars, historyVars
  <2>5. /\ place' \in [Jobs -> Places]
        /\ verdict' \in [Jobs -> Verdicts]
    BY <1>b, <1>c, <1>g DEF RunInv, RunTypeOK, Places
  <2>6. /\ left' \in [Jobs -> 0 .. Patience]
        /\ attempts' \in [Jobs -> 0 .. MaxAttempts]
        /\ table' \in SUBSET Rows
        /\ codes' \in [Jobs -> 0 .. MaxCodes]
    BY DEF Uploaded, SetDocumentUpload, Throw, GoTo, RunInv, RunTypeOK, contextVars,
       stackVars, worldVars, historyVars
  <2>7. page' \in [Jobs -> BOOLEAN]
    BY Zenon, <1>b, <1>c DEF RunInv, RunTypeOK
  <2>8. aborted' \in BOOLEAN
    BY DEF Uploaded, SetDocumentUpload, Throw, GoTo, RunInv, RunTypeOK, contextVars,
       stackVars, worldVars, historyVars
  <2> QED BY <2>1, <2>2, <2>3, <2>4, <2>5, <2>6, <2>7, <2>8 DEF RunTypeOK
<1>2. \A i \in Jobs \ {j} : Same(i)
  BY DEF Uploaded, SetDocumentUpload, Throw, GoTo, Same, RunInv, RunTypeOK,
     contextVars, stackVars, worldVars, historyVars
<1>3. JobInv(j)'
  <2>1. CASE o.verdict # "ok"
    <3>1. /\ place'[j] = "idle" /\ verdict'[j] = o.verdict
          /\ UNCHANGED << uploads, acknowledged >>
      BY <1>b, <2>1 DEF RunInv, RunTypeOK
    <3> QED BY <1>a, <1>c, <3>1, EndKeeps DEF Uploaded, AnswerVerdicts
  <2>2. CASE o.verdict = "ok"
    <3>1. /\ place'[j] = "documents" /\ UNCHANGED verdict
          /\ uploads'[j] = marks /\ acknowledged'[j] = known
      BY <1>b, <2>2 DEF RunInv, RunTypeOK
    <3>2. Step(j).type = "documents.upload" BY DEF Uploaded, Awaits
    <3>3. PositionedAt(j)'
      BY <1>a, <3>1, <3>2
      DEF Uploaded, RunInv, JobInv, PositionedAt, FirstIncomplete, Step, Inside
    <3>4. WatchedAt(j)' BY <3>1 DEF Uploaded, RunInv, JobInv, WatchedAt
    <3>5. \A a \in known :
            /\ Workflow[a[1]].type = "documents.upload"
            /\ a[1] \in responses[j] \/ (a[1] = FirstIncomplete(j) /\ a \in marks)
      <4> SUFFICES ASSUME NEW a \in known
                   PROVE  /\ Workflow[a[1]].type = "documents.upload"
                          /\ a[1] \in responses[j] \/ (a[1] = FirstIncomplete(j) /\ a \in marks)
        OBVIOUS
      <4>1. CASE a = u
        <5>1. a[1] = currentStep[j] /\ a \in marks BY <4>1 DEF marks
        <5> QED BY <1>a, <3>2, <5>1 DEF Step
      <4>2. CASE a \in acknowledged[j]
        BY <4>2 DEF marks, RunInv, JobInv, MarkedAt
      <4> QED BY <4>1, <4>2 DEF known
    <3>6. MarkedAt(j)' BY <3>1, <3>5 DEF Uploaded, MarkedAt, FirstIncomplete
    <3> QED BY <3>3, <3>4, <3>6 DEF JobInv
  <2> QED BY <2>1, <2>2
<1> QED BY <1>1, <1>2, <1>3, SameKeeps DEF RunInv

LEMMA AbortKeepsInv ==
  ASSUME RunInv, Abort
  PROVE  RunInv'
<1>1. RunTypeOK'
  <2>1. /\ responses' \in [Jobs -> SUBSET Steps]
        /\ currentStep' \in [Jobs -> Steps \union {0}]
        /\ seen' \in [Jobs -> SUBSET Rows]
    BY DEF Abort, RunInv, RunTypeOK, contextVars, stackVars, worldVars, historyVars
  <2>2. /\ otpWatch' \in [Jobs -> (SUBSET Rows) \union { Null }]
        /\ otp' \in [Jobs -> Rows \union { Null }]
    BY DEF Abort, RunInv, RunTypeOK, contextVars, stackVars, worldVars, historyVars
  <2>3. /\ uploads' \in [Jobs -> SUBSET (Steps \X Contents)]
        /\ acknowledged' \in [Jobs -> SUBSET (Steps \X Contents)]
        /\ item' \in [Jobs -> Contents \union { Null }]
    BY DEF Abort, RunInv, RunTypeOK, contextVars, stackVars, worldVars, historyVars
  <2>4. /\ documents' \in [Jobs -> Seq(Contents)]
        /\ downloaded' \in [Jobs -> Seq(Contents)]
        /\ \A i \in Jobs : IsInjective(documents'[i]) /\ IsInjective(downloaded'[i])
    BY DEF Abort, RunInv, RunTypeOK, contextVars, stackVars, worldVars, historyVars
  <2>5. /\ place' \in [Jobs -> Places]
        /\ verdict' \in [Jobs -> Verdicts]
    BY DEF Abort, RunInv, RunTypeOK, contextVars, stackVars, worldVars, historyVars,
       Places, Verdicts
  <2>6. /\ left' \in [Jobs -> 0 .. Patience]
        /\ attempts' \in [Jobs -> 0 .. MaxAttempts]
        /\ table' \in SUBSET Rows
        /\ codes' \in [Jobs -> 0 .. MaxCodes]
    BY DEF Abort, RunInv, RunTypeOK, contextVars, stackVars, worldVars, historyVars
  <2>7. page' \in [Jobs -> BOOLEAN]
    BY DEF Abort, RunInv, RunTypeOK, contextVars, stackVars, worldVars, historyVars
  <2>8. aborted' \in BOOLEAN
    BY DEF Abort, RunInv, RunTypeOK, contextVars, stackVars, worldVars, historyVars
  <2> QED BY <2>1, <2>2, <2>3, <2>4, <2>5, <2>6, <2>7, <2>8 DEF RunTypeOK
<1>2. \A i \in Jobs : Same(i)
  BY DEF Abort, Same, contextVars, stackVars, worldVars, historyVars
<1> QED BY <1>1, <1>2, SameKeeps DEF RunInv

LEMMA RowAppearsKeepsInv ==
  ASSUME RunInv, NEW r \in Rows, RowAppears(r)
  PROVE  RunInv'
<1>1. RunTypeOK'
  <2>1. /\ responses' \in [Jobs -> SUBSET Steps]
        /\ currentStep' \in [Jobs -> Steps \union {0}]
        /\ seen' \in [Jobs -> SUBSET Rows]
    BY DEF RowAppears, RunInv, RunTypeOK, contextVars, stackVars, worldVars,
       historyVars
  <2>2. /\ otpWatch' \in [Jobs -> (SUBSET Rows) \union { Null }]
        /\ otp' \in [Jobs -> Rows \union { Null }]
    BY DEF RowAppears, RunInv, RunTypeOK, contextVars, stackVars, worldVars,
       historyVars
  <2>3. /\ uploads' \in [Jobs -> SUBSET (Steps \X Contents)]
        /\ acknowledged' \in [Jobs -> SUBSET (Steps \X Contents)]
        /\ item' \in [Jobs -> Contents \union { Null }]
    BY DEF RowAppears, RunInv, RunTypeOK, contextVars, stackVars, worldVars,
       historyVars
  <2>4. /\ documents' \in [Jobs -> Seq(Contents)]
        /\ downloaded' \in [Jobs -> Seq(Contents)]
        /\ \A i \in Jobs : IsInjective(documents'[i]) /\ IsInjective(downloaded'[i])
    BY DEF RowAppears, RunInv, RunTypeOK, contextVars, stackVars, worldVars,
       historyVars
  <2>5. /\ place' \in [Jobs -> Places]
        /\ verdict' \in [Jobs -> Verdicts]
    BY DEF RowAppears, RunInv, RunTypeOK, contextVars, stackVars, worldVars,
       historyVars, Places, Verdicts
  <2>6. /\ left' \in [Jobs -> 0 .. Patience]
        /\ attempts' \in [Jobs -> 0 .. MaxAttempts]
        /\ table' \in SUBSET Rows
        /\ codes' \in [Jobs -> 0 .. MaxCodes]
    BY DEF RowAppears, RunInv, RunTypeOK, contextVars, stackVars, worldVars,
       historyVars
  <2>7. page' \in [Jobs -> BOOLEAN]
    BY DEF RowAppears, RunInv, RunTypeOK, contextVars, stackVars, worldVars,
       historyVars
  <2>8. aborted' \in BOOLEAN
    BY DEF RowAppears, RunInv, RunTypeOK, contextVars, stackVars, worldVars,
       historyVars
  <2> QED BY <2>1, <2>2, <2>3, <2>4, <2>5, <2>6, <2>7, <2>8 DEF RunTypeOK
<1>2. \A i \in Jobs : Same(i)
  BY DEF RowAppears, Same, contextVars, stackVars, worldVars, historyVars
<1> QED BY <1>1, <1>2, SameKeeps DEF RunInv

------------------------------------------------------------------------------
(* The invariant and the theorems.                                         *)

LEMMA InitInv ==
  ASSUME RunInit
  PROVE  RunInv
<1> USE DEF RunInit
<1>1. RunTypeOK
  <2>1. Len(<< >>) = 0 /\ << >> \in Seq(Contents) /\ IsInjective(<< >>)
    BY EmptySeq DEF IsInjective
  <2>2. page \in [Jobs -> BOOLEAN] /\ aborted \in BOOLEAN OBVIOUS
  <2>3. table \in SUBSET Rows BY DEF Rows
  <2> QED BY <2>1, <2>2, <2>3, WorkflowAssumption DEF RunTypeOK, Places, Verdicts
<1>2. ASSUME NEW j \in Jobs PROVE JobInv(j)
  <2>1. 1 .. 0 = {} OBVIOUS
  <2>2. FirstIncomplete(j) = 1 /\ 1 \in 1 .. Len(Workflow) + 1
    <3>1. FirstOutside(1 .. 0) = 1 BY FirstOutsidePrefix, StepType
    <3>2. responses[j] = 1 .. 0 BY <2>1
    <3> QED BY <3>1, <3>2, StepType DEF FirstIncomplete
  <2>3. PositionedAt(j) BY <2>1, <2>2 DEF PositionedAt, Inside
  <2>4. WatchedAt(j) BY DEF WatchedAt
  <2>5. MarkedAt(j) BY DEF MarkedAt
  <2> QED BY <2>3, <2>4, <2>5 DEF JobInv
<1> QED BY <1>1, <1>2 DEF RunInv

LEMMA NextInv ==
  ASSUME RunInv, [RunNext]_vars
  PROVE  RunInv'
<1>1. ASSUME NEW j \in Jobs, Execute(j) PROVE RunInv' BY <1>1, ExecuteKeepsInv
<1>2. ASSUME NEW j \in Jobs, Run(j) PROVE RunInv'
  <2>1. CASE Complete(j) \/ NoticeAbort(j) \/ StartStep(j) \/ HttpAnswered(j)
    BY <2>1, CompleteKeepsInv, NoticeAbortKeepsInv, StartStepKeepsInv,
       HttpAnsweredKeepsInv
  <2>2. CASE OtpPrepared(j) \/ OtpPolled(j) \/ PollAgain(j)
    BY <2>2, OtpPreparedKeepsInv, OtpPolledKeepsInv, PollAgainKeepsInv
  <2>3. CASE Downloaded(j) \/ NextDocument(j) \/ AllUploaded(j) \/ Uploaded(j)
    BY <2>3, DownloadedKeepsInv, NextDocumentKeepsInv, AllUploadedKeepsInv,
       UploadedKeepsInv
  <2> QED BY <1>2, <2>1, <2>2, <2>3 DEF Run
<1>3. CASE Abort BY <1>3, AbortKeepsInv
<1>4. CASE \E r \in Rows : RowAppears(r) BY <1>4, RowAppearsKeepsInv
<1>5. CASE UNCHANGED vars
  <2> USE <1>5 DEF vars, contextVars, stackVars, worldVars, historyVars
  <2>1. RunTypeOK' BY DEF RunInv, RunTypeOK
  <2>2. \A j \in Jobs : Same(j) BY DEF Same
  <2> QED BY <2>1, <2>2, SameKeeps DEF RunInv
<1> QED BY <1>1, <1>2, <1>3, <1>4, <1>5 DEF RunNext

THEOREM RunInvariant == RunSpec => []RunInv
BY InitInv, NextInv, PTL DEF RunSpec

\* The memory of a JobContext and the stack of its execution have their types,
\* and prepared documents are distinct (job-context.js, engine.js).
THEOREM Typed == RunSpec => []RunTypeOK
<1>1. RunInv => RunTypeOK BY DEF RunInv
<1> QED BY <1>1, RunInvariant, PTL

\* The code a job signs in with is its own and newer than its watch
\* (otp-service.js, otp-matcher.js).
THEOREM CodesAreOwn == RunSpec => []OwnFreshCode
<1>1. RunInv => OwnFreshCode BY DEF RunInv, JobInv, WatchedAt, OwnFreshCode
<1> QED BY <1>1, RunInvariant, PTL

\* No execution repeats a completed step or an acknowledged upload (engine.js,
\* job-context.js).
THEOREM WorkIsNotRepeated == RunSpec => []NothingRepeated
<1>1. RunInv => NothingRepeated
  <2> SUFFICES ASSUME RunInv, NEW j \in Jobs, place[j] = "sent"
               PROVE  /\ currentStep[j] \notin responses[j]
                      /\ Step(j).type = "documents.upload" =>
                           << currentStep[j], item[j] >> \notin acknowledged[j]
    BY DEF NothingRepeated
  <2>1. currentStep[j] \notin responses[j] BY InsideStep DEF Inside
  <2>2. ASSUME Step(j).type = "documents.upload",
               << currentStep[j], item[j] >> \in acknowledged[j]
        PROVE  FALSE
    <3>1. << currentStep[j], item[j] >> \notin uploads[j]
      BY <2>2 DEF RunInv, JobInv, MarkedAt
    <3>2. << currentStep[j], item[j] >>[1] \in responses[j]
      BY <2>2, <3>1 DEF RunInv, JobInv, MarkedAt
    <3> QED BY <2>1, <3>2
  <2> QED BY <2>1, <2>2
<1> QED BY <1>1, RunInvariant, PTL

\* findResumeIndex never meets a state it refuses (engine.js).
THEOREM ResumesAreAccepted == RunSpec => []ResumeAccepted
<1>1. RunInv => ResumeAccepted BY DEF RunInv, JobInv, PositionedAt, ResumeAccepted
<1> QED BY <1>1, RunInvariant, PTL
=============================================================================
