----------------------------- MODULE FinalResult -----------------------------
(***************************************************************************)
(* What the worker promises about the end of a job, with no word about     *)
(* failures, retries, lost answers or restarts: the job's outcome is       *)
(* captured once, the Portal applies it, the Portal's acknowledgement is   *)
(* recorded, only then the job ends as the outcome says, and only then its *)
(* address is given up.  No stage is skipped and none is ever left         *)
(* backwards.  ExecutionRuntime implements this module.                    *)
(***************************************************************************)
CONSTANT Jobs

VARIABLES
  stage,    \* how far the result of each job is
  outcome,  \* the captured outcome
  ending    \* the terminal state of the job, once it has one

vars == << stage, outcome, ending >>

Init ==
  /\ stage = [j \in Jobs |-> "working"]
  /\ outcome = [j \in Jobs |-> "NONE"]
  /\ ending = [j \in Jobs |-> "NONE"]

Passes(j, from, to) ==
  /\ stage[j] = from
  /\ stage' = [stage EXCEPT ![j] = to]

Capture(j) ==
  /\ Passes(j, "working", "captured")
  /\ \E o \in { "SUCCESS", "FAILURE" } : outcome' = [outcome EXCEPT ![j] = o]
  /\ UNCHANGED ending

Apply(j) ==
  /\ Passes(j, "captured", "applied")
  /\ UNCHANGED << outcome, ending >>

Acknowledge(j) ==
  /\ Passes(j, "applied", "acknowledged")
  /\ UNCHANGED << outcome, ending >>

Terminalize(j) ==
  /\ Passes(j, "acknowledged", "terminal")
  /\ ending' = [ending EXCEPT ![j] =
                  IF outcome[j] = "SUCCESS" THEN "COMPLETED" ELSE "FAILED_FINAL"]
  /\ UNCHANGED outcome

Release(j) ==
  /\ Passes(j, "terminal", "released")
  /\ UNCHANGED << outcome, ending >>

Next ==
  \E j \in Jobs :
    Capture(j) \/ Apply(j) \/ Acknowledge(j) \/ Terminalize(j) \/ Release(j)

Spec == Init /\ [][Next]_vars
=============================================================================
