-------------------------------- MODULE MCIngest --------------------------------
\* Ingest with values small enough for TLC.
EXTENDS Ingest, TLC

CONSTANTS t1, t2, m1, r1, s1, s2

\* An opening email and a reply, each announced by an event of its own.
OneOfEach == s1 :> m1 @@ s2 :> r1
===============================================================================
