------------------------- MODULE MCExecutionRuntime -------------------------
(* Instances of ExecutionRuntime for TLC.                                   *)
EXTENDS ExecutionRuntime, TLC

\* One step of every kind, in the order the workflows of the repository use.
MCWorkflow == << "http", "otp", "upload" >>

MCShortWorkflow == << "http", "upload" >>

Symmetry == Permutations(Jobs)
=============================================================================
