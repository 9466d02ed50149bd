----------------------------- MODULE MCNotifier -----------------------------
EXTENDS Notifier, TLC
CONSTANTS p1, p2
ProcSymmetry == Permutations(Procs)
=============================================================================
