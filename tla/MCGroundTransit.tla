-------------------------- MODULE MCGroundTransit --------------------------
EXTENDS GroundTransit, TLC
CONSTANTS p, q
Symmetry == Permutations(Procs)
OnTime == [cancelled |-> FALSE, serves |-> "SERVED", delay |-> 0]
Late == [OnTime EXCEPT !.delay = 1]
VeryLate == [OnTime EXCEPT !.delay = 2]
Cancelled == [cancelled |-> TRUE, serves |-> "UNKNOWN", delay |-> 1]
Reports == {OnTime, Late, Cancelled}
=============================================================================
