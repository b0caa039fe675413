-------------------------- MODULE MCWorkerRequests --------------------------
EXTENDS WorkerRequests, TLC

\* Requests are alike, and so are tasks and request ids.
WorkerSymmetry == Permutations(Requests) \cup Permutations(Tasks) \cup Permutations(RequestIds)
=============================================================================
