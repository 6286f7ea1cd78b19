----------------------------- MODULE MCHostBook -----------------------------
EXTENDS HostBook, TLC
Symm == Permutations(Names)
=============================================================================
