------------------------ MODULE MCExecutionLocation ------------------------
EXTENDS ExecutionLocation, TLC
CONSTANTS p, q
Symmetry == Permutations(Procs)
Line == <<2, 9>>
=============================================================================
