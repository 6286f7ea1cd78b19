---------------------------- MODULE MCProjectSync ----------------------------
EXTENDS ProjectSync
CONSTANTS p1, p2, h1, h2
\* One shared project with a host and one the user has yet to create.
OneToCreate == [p \in Projects |-> IF p = p1 THEN {h1} ELSE NoDoc]
SlotSymmetry == Permutations(Slots)
=============================================================================
