---------------------------- MODULE MCResumeMoney -----------------------------
\* Instances of ResumeMoney small enough for TLC.
EXTENDS ResumeMoney, TLC

\* A reply corrects the regular hours and zeroes the overtime, or says nothing of them.
Corrections == "hours_regular" :> {2} @@ "hours_overtime" :> {0}
===============================================================================
