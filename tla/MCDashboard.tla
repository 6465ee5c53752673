----------------------------- MODULE MCDashboard -----------------------------
(***************************************************************************)
(* Instances of Dashboard for TLC.                                         *)
(***************************************************************************)
EXTENDS Dashboard, TLC

CONSTANTS n1, n2, v1, v2, sched, w1, w2

TwoProviders == (n1 :> v1) @@ (n2 :> v2)
JustOne == (n1 :> v1)
OneProvider == (n1 :> v1) @@ (n2 :> v1)

PageSymmetry == Permutations({w1, w2})

EmptyTable == Nothing
OneRow == (n1 :> Discovered)
TwoRows == (n1 :> Discovered) @@ (n2 :> Discovered)

==============================================================================
