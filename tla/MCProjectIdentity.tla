------------------------- MODULE MCProjectIdentity -------------------------
(* One failure: a request, an answer, the process, or a write of the file; two *)
(* steps from elsewhere when nothing else happens.  What has fairness can      *)
(* always happen without a failure.                                            *)
EXTENDS ProjectIdentity

Bounded ==
    LET b == spent'
    IN  /\ b.fault + b.unsaved <= 1
        /\ b.other > 1 => b.fault + b.unsaved + b.key = 0
MCFairSpec ==
    Init /\ [][Next /\ Bounded]_vars /\ WF_vars(Served) /\ WF_vars(Answered)
=============================================================================
