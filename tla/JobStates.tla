----------------------------- MODULE JobStates -----------------------------
(***************************************************************************)
(* The job life cycle of src/jobs/job-state.js: the states a row of the    *)
(* jobs table can be in, the terminal ones, and the transitions the job    *)
(* store accepts.  Every other module takes the life cycle from here.      *)
(***************************************************************************)

\* JOB_STATES (TERMINAL_STATES included below).
LiveJobStates ==
  { "PENDING", "CLAIMED", "WAITING_FOR_IP", "RUNNING", "WAITING_FOR_OTP",
    "WAITING_FOR_MANUAL_CHALLENGE", "RETRY_PENDING" }

\* TERMINAL_STATES.
TerminalJobStates == { "COMPLETED", "FAILED_FINAL", "CANCELLED" }

JobStates == LiveJobStates \union TerminalJobStates

IsTerminal(state) == state \in TerminalJobStates

\* States in which no workflow step of the job has run yet.
PreExecutionStates == { "PENDING", "CLAIMED", "WAITING_FOR_IP" }

\* TRANSITIONS: what assertJobTransition lets through.
Successors(state) ==
  CASE state = "PENDING"         -> { "CLAIMED", "CANCELLED" }
    [] state = "CLAIMED"         -> { "WAITING_FOR_IP", "CANCELLED" }
    [] state = "WAITING_FOR_IP"  -> { "RUNNING", "CANCELLED" }
    [] state = "RUNNING"         -> { "WAITING_FOR_OTP",
                                      "WAITING_FOR_MANUAL_CHALLENGE",
                                      "RETRY_PENDING", "COMPLETED",
                                      "FAILED_FINAL", "CANCELLED" }
    [] state = "WAITING_FOR_OTP" -> { "RUNNING", "RETRY_PENDING",
                                      "FAILED_FINAL", "CANCELLED" }
    [] state = "WAITING_FOR_MANUAL_CHALLENGE" ->
                                    { "RUNNING", "FAILED_FINAL", "CANCELLED" }
    [] state = "RETRY_PENDING"   -> { "RUNNING", "FAILED_FINAL", "CANCELLED" }
    [] OTHER                     -> {}

CanTransition(from, to) == to \in Successors(from)

=============================================================================
