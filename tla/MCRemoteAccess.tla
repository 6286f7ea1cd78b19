--------------------------- MODULE MCRemoteAccess ---------------------------
(* Three presses and no command, or fewer presses and every command. *)
EXTENDS RemoteAccess, TLC
Interchangeable == Permutations(HostIds) \cup Permutations(Cmds)
Bounded == gen' <= 2 \/ \A c \in Cmds : cmd'[c].st = "none"
MCSpec  == Init /\ [][Next /\ Bounded]_vars
=============================================================================
