------------------------------ MODULE MCDelivery ------------------------------
\* Instances of Delivery small enough for TLC.
EXTENDS Delivery, TLC

CONSTANTS t1, t2

Symmetry == Permutations(Thread)
===============================================================================
