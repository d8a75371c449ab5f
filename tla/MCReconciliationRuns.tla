------------------------ MODULE MCReconciliationRuns ------------------------
EXTENDS ReconciliationRuns, TLC

Symmetry == Permutations(Workers)
=============================================================================
