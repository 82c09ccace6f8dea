----------------------------- MODULE MCWorkerLoop -----------------------------
\* Instances of WorkerLoop small enough for TLC.
EXTENDS WorkerLoop, TLC

CONSTANTS c1, c2

Symmetry == Permutations(Caller)
===============================================================================
