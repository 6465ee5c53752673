---------------------------- MODULE MCJobScheduler ----------------------------
(***************************************************************************)
(* Instances of JobScheduler for TLC: a refresh, a check twice a day and *)
(* the retention sweep.                                                    *)
(***************************************************************************)
EXTENDS JobScheduler, TLC

\* email_scan has no schedule and never runs.
AllTasks == <<"dashboard_refresh", "alert_check", "email_scan", "history_retention">>
AllIntervals ==
  ("dashboard_refresh" :> 1) @@ ("history_retention" :> 3) @@ [t \in {"alert_check", "email_scan"} |-> 0]
AllSlots ==
  ("alert_check" :> {0, 2}) @@ [t \in {"dashboard_refresh", "email_scan", "history_retention"} |-> {}]

TwoTasks == <<"dashboard_refresh", "alert_check">>
TwoIntervals == ("dashboard_refresh" :> 1) @@ ("alert_check" :> 0)
TwoSlots == ("dashboard_refresh" :> {}) @@ ("alert_check" :> {0, 2})

===============================================================================
