----------------------------- MODULE MCMailScan -----------------------------
(***************************************************************************)
(* Instances of MailScan for TLC: a mail copied to two mailboxes.          *)
(***************************************************************************)
EXTENDS MailScan, TLC

CONSTANTS e1, b1, b2, sched, page

Copied == (e1 :> {b1, b2})
OneMute == {<<b1, e1>>}
\* With web alarms on the two scans differ in nothing but their name.
ScanSymmetry == Permutations({sched, page})
OneDay == (sched :> 1) @@ (page :> 1)

==============================================================================
