------------------------------ MODULE MCJobQueue ------------------------------
\* Instances of JobQueue small enough for TLC.
EXTENDS JobQueue, TLC

CONSTANTS j1, j2, p1, p2, t1, t2

\* An old instance and the new one, a thread each.
OneThreadEach == t1 :> p1 @@ t2 :> p2
===============================================================================
