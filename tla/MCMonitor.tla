------------------------------ MODULE MCMonitor ------------------------------
(***************************************************************************)
(* Instances of Monitor for TLC.                                           *)
(***************************************************************************)
EXTENDS Monitor, TLC

CONSTANTS p1, p2, c1, page, sched

OwnCred == (p1 :> c1)
SharedCred == (p1 :> c1) @@ (p2 :> c1)
OneThreshold == (p1 :> 1)
TwoThresholds == (p1 :> 1) @@ (p2 :> 1)

LowOrOk == {0, 1}
Steady == {1}
OkOrError == {1, Unreadable}

==============================================================================
