---------------------------- MODULE MCVaultSync ----------------------------
(* An edit and a re-key exclude each other, a re-key leaves room for one key less, *)
(* and not all the bounds are used up at once: four events, of which a fault counts *)
(* for two.  None of them bounds a step with fairness, so that no step is owed.    *)
(* Slots are alike: a command takes the first free one.                            *)
EXTENDS VaultSync, TLC

FirstFree == CHOOSE c \in Slots : cmd[c] = Idle
Bounded ==
    /\ spent'.edit + spent'.rekey <= 1 /\ spent'.rekey + spent'.key <= 2
    /\ spent'.edit + spent'.rekey + spent'.key + 2 * spent'.fault + spent'.push <= 4
    /\ \A c \in Slots : cmd[c] = Idle /\ cmd'[c] # Idle => c = FirstFree
MCSpec == Init /\ [][Next /\ Bounded]_vars
MCFairSpec == MCSpec /\ Fairness
=============================================================================
