---------------------------- MODULE MCWorkflowRun ----------------------------
\* Instances of WorkflowRun for TLC.
EXTENDS WorkflowRun

Kinds == << "otp.prepare", "http", "otp.wait", "http", "documents.prepare",
            "documents.upload" >>

\* The shipped sign-in followed by a document upload.
MCWorkflow == [s \in 1 .. 6 |-> [type |-> Kinds[s], expect |-> "json"]]

\* A single request.
MCRequest == << [type |-> "http", expect |-> "json"] >>
=============================================================================
