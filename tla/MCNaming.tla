------------------------------- MODULE MCNaming --------------------------------
\* Instances of Naming small enough for TLC.
EXTENDS Naming, TLC

CONSTANT dre     \* "D. Reyes"

\* The seed data: two employees share an alias, the other nickname is unknown.
SeedRosters == {[e \in Employee |-> {dre}]}

Alike == Permutations(Employee) \cup Permutations(Run)
================================================================================
