------------------------------ MODULE MCEcLog ------------------------------
EXTENDS EcLog, TLC
CONSTANTS c1, c2
ClientSymmetry == Permutations(Clients)
=============================================================================
