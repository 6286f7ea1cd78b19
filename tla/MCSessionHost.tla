---------------------------- MODULE MCSessionHost ----------------------------
(* An instance of SessionHost for TLC: the run that spawned the host, one   *)
(* that may adopt it, and a command.  Both runs compete for the stream; or  *)
(* the host is an old one that only the second finds, with the command; or  *)
(* the spawner is alone with it.                                            *)
EXTENDS SessionHost

CONSTANTS w1, w2, e1

OneAdopter == {w2}

MCInit ==
    \/ Start(FALSE, {}, {e1}, MaxUses)
    \/ Start(TRUE, {}, {}, MaxUses)
    \/ Start(FALSE, {w2}, {}, MaxUses)

MCSpec == MCInit /\ [][Next]_vars /\ Fairness
=============================================================================
