----------------------------- MODULE MCPayrollRun -----------------------------
\* Instances of PayrollRun small enough for TLC.
EXTENDS PayrollRun, TLC

CONSTANTS t1, t2, r1, r2, g1, g2

Symmetry == Permutations(Thread)
===============================================================================
