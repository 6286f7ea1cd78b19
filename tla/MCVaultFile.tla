---------------------------- MODULE MCVaultFile ----------------------------
(* Any three of a second code, an edit, a race of it with a command, a     *)
(* fault, a crash and the other instance.                                 *)
EXTENDS VaultFile, TLC
CONSTANTS p1, p2, acc, h1, h2
Symm == Permutations(Passwords)
Bounded ==
    budget'.edits + budget'.races + budget'.faults + budget'.crashes + budget'.others
        + (IF budget'.codes < MaxCodes - 1 THEN 0 ELSE 1)
            > MaxEdits + MaxRaces + MaxFaults + MaxCrashes + MaxOthers - 3
MCSpec == Init /\ [][Next /\ Bounded]_vars
=============================================================================
