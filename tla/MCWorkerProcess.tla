-------------------------- MODULE MCWorkerProcess --------------------------
\* Instances of WorkerProcess for TLC.
EXTENDS WorkerProcess, TLC

Symmetric == Permutations(Jobs) \union Permutations(Proxies)
=============================================================================
