------------------------------- MODULE MailScan -------------------------------
(***************************************************************************)
(* Scans of mailboxes for billing mails and the alerts they send            *)
(* (src/internal/mailscan, app.ScanMailboxes, handleEmailScan and the       *)
(* suppression handlers).                                                  *)
(*                                                                         *)
(* A scan opens its mailboxes on a worker pool.  Each worker searches its   *)
(* inbox and takes the mails one by one: mark it seen for this scan, ask    *)
(* the store whether it was reported, post the webhook, record.  The        *)
(* scheduler's scan and a page's may overlap; pages among themselves are    *)
(* kept apart by scanGuard, so one page stands for all.                     *)
(*                                                                         *)
(* A mail stands for its Message-ID and for its sender, subject and date.   *)
(***************************************************************************)
EXTENDS Integers, FiniteSets

CONSTANTS
  Mails,
  Mailboxes,       \* enabled mailboxes with host, user and password
  InboxesOf,       \* the mailboxes a mail is delivered to
  Matching,        \* mails a keyword matches
  Mutable,         \* mailbox + mail pairs a user may mute
  Scheduler,
  Page,
  ScanDays,        \* days an actor's scan looks back
  Day,             \* ticks in a day
  Limit,           \* MAX_EMAILS_TO_SCAN
  Workers,         \* maxMailboxWorkers
  Retention,       \* ticks a row is kept
  Persistent,      \* SQL store or Volatile store
  EnableWebAlarm,
  MaxFaults,       \* bound: failures
  MaxArrival,      \* bound: last tick at which a mail comes
  MaxTime          \* bound: last clock tick

Actors == {Scheduler, Page}

ASSUME MailAssumption ==
  /\ Scheduler # Page
  /\ InboxesOf \in [Mails -> SUBSET Mailboxes]
  /\ Matching \subseteq Mails
  /\ Mutable \subseteq Mailboxes \X Mails
  /\ ScanDays \in [Actors -> Nat \ {0}]
  /\ {Day, Limit, Workers} \subseteq Nat \ {0}
  /\ {Retention, MaxFaults, MaxArrival, MaxTime} \subseteq Nat
  /\ {Persistent, EnableWebAlarm} \subseteq BOOLEAN

\* A row has to outlive the window that reads it (730 or 31 days against 30).
ASSUME MailRetention == \A a \in Actors : ScanDays[a] * Day <= Retention

VARIABLES
  webhook,     \* is a webhook configured?
  now,
  arrived,     \* when a mail came, Never before that
  rows,        \* the newest row of a mailbox and mail with alert_sent, Never if none
  muted,       \* email_suppressions
  pc,          \* progress of a mailbox in an actor's scan
  todo,        \* mails its worker has still to take
  cur,         \* the mail it is reporting
  seen,        \* scanState.seen
  alerts,      \* the alert mails of the scan so far, with the mailbox they were met in
  faults,
  found,       \* history: mails a scan has got hold of
  clean,       \* history: has everything gone well in this scan?
  delivered,   \* history: when the webhook last accepted a mail of a mailbox
  everMuted,   \* history: pairs that were muted at some time
  tainted      \* history: pairs whose de-duplication something has defeated

vars == <<webhook, now, arrived, rows, muted, pc, todo, cur, seen, alerts, faults,
          found, clean, delivered, everMuted, tainted>>

Never == -1
None == "none"
Pairs == Mailboxes \X Mails
InFlight == {"send", "sent", "unsent"}
Stages == {"idle", "queued", "open", "done"} \cup InFlight

\* email_scan always notifies; a page only with ENABLE_WEB_ALARM.
DryRun(a) == a = Page /\ ~EnableWebAlarm

Window(a) == ScanDays[a] * Day

\* IMAP SINCE compares dates only; of too many mails the newest are taken.
Search(a, m) ==
  LET since == (now - Window(a)) \div Day
      hits == {e \in Mails : m \in InboxesOf[e] /\ arrived[e] # Never /\ arrived[e] \div Day >= since}
  IN  {e \in hits : Cardinality({n \in hits : arrived[n] > arrived[e]}) < Limit}

\* Mutant: a row at the very start of the window is missed.
HasRecentEmailAlertLate(m, e, a) == rows[<<m, e>>] # Never /\ rows[<<m, e>>] > now - Window(a)

HasRecentEmailAlert(m, e, a) == rows[<<m, e>>] # Never /\ rows[<<m, e>>] >= now - Window(a)

\* Mutant: a failed notification is remembered like a sent one.
SaveEmailAlertAny(m, e, sent) == [rows EXCEPT ![<<m, e>>] = now]

\* Mutant: the row is stamped with the cutoff of the pruning.
SaveEmailAlertCutoff(m, e, sent) == IF sent THEN [rows EXCEPT ![<<m, e>>] = now - Retention] ELSE rows

\* Rows of failed and of muted mails are for the history page only: nothing the
\* scanner asks for returns them.  The Volatile store prunes as it saves.
SaveEmailAlert(m, e, sent) ==
  LET kept == [k \in Pairs |-> IF Persistent \/ now - rows[k] <= Retention THEN rows[k] ELSE Never]
  IN  IF sent THEN [kept EXCEPT ![<<m, e>>] = now] ELSE rows

\* Mutant: the set of seen mails is not shared between mailboxes.
markPerMailbox(a, m, e) == <<m, e>> \notin alerts[a]

\* seenSet.mark: is this the first time the scan meets the mail?
mark(a, m, e) == e \notin seen[a]

Busy(a) == {m \in Mailboxes : pc[a][m] \notin {"idle", "queued", "done"}}

Init ==
  /\ webhook \in BOOLEAN
  /\ now = 0
  /\ arrived = [e \in Mails |-> Never]
  /\ rows = [k \in Pairs |-> Never]
  /\ muted = {}
  /\ pc = [a \in Actors |-> [m \in Mailboxes |-> "idle"]]
  /\ todo = [a \in Actors |-> [m \in Mailboxes |-> {}]]
  /\ cur = [a \in Actors |-> [m \in Mailboxes |-> None]]
  /\ seen = [a \in Actors |-> {}]
  /\ alerts = [a \in Actors |-> {}]
  /\ faults = 0
  /\ found = [a \in Actors |-> {}]
  /\ clean = [a \in Actors |-> TRUE]
  /\ delivered = [k \in Pairs |-> Never]
  /\ everMuted = {}
  /\ tainted = {}

\* A fault of actor a's scan.
Fault(a) ==
  /\ faults < MaxFaults
  /\ faults' = faults + 1
  /\ clean' = [clean EXCEPT ![a] = FALSE]

-------------------------------------------------------------------------------
Scan(a) ==
  /\ \A m \in Mailboxes : pc[a][m] = "idle"
  /\ pc' = [pc EXCEPT ![a] = [m \in Mailboxes |-> "queued"]]
  /\ UNCHANGED <<webhook, now, arrived, rows, muted, todo, cur, seen, alerts, faults, found, clean, delivered, everMuted, tainted>>

\* A worker connects and searches; a mailbox without mails is done at once.
ScanInbox(a, m) ==
  LET nums == Search(a, m) IN
  /\ pc[a][m] = "queued"
  /\ Cardinality(Busy(a)) < Workers
  /\ pc' = [pc EXCEPT ![a][m] = IF nums = {} THEN "done" ELSE "open"]
  /\ todo' = [todo EXCEPT ![a][m] = nums]
  /\ found' = [found EXCEPT ![a] = @ \cup nums]
  /\ UNCHANGED <<webhook, now, arrived, rows, muted, cur, seen, alerts, faults, clean, delivered, everMuted, tainted>>

\* Connecting or searching fails, or the request is cancelled between two
\* batches: the mailbox is over, what it found so far is kept, and its error is
\* posted without any cooldown.
MailboxFails(a, m) ==
  /\ pc[a][m] \in {"queued", "open"}
  /\ Cardinality(Busy(a) \ {m}) < Workers
  /\ Fault(a)
  /\ pc' = [pc EXCEPT ![a][m] = "done"]
  /\ todo' = [todo EXCEPT ![a][m] = {}]
  /\ UNCHANGED <<webhook, now, arrived, rows, muted, cur, seen, alerts, found, delivered, everMuted, tainted>>

Rest(a, m, e) == todo[a][m] \ {e}
BackTo(rest) == IF rest = {} THEN "done" ELSE "open"

\* A mail that cannot be fetched is skipped; the others are not.
FetchFails(a, m, e) ==
  /\ pc[a][m] = "open"
  /\ e \in todo[a][m]
  /\ Fault(a)
  /\ todo' = [todo EXCEPT ![a][m] = Rest(a, m, e)]
  /\ pc' = [pc EXCEPT ![a][m] = BackTo(Rest(a, m, e))]
  /\ UNCHANGED <<webhook, now, arrived, rows, muted, cur, seen, alerts, found, delivered, everMuted, tainted>>

Overlapping(a, m, e) == \E b \in Actors \ {a} : pc[b][m] \in InFlight /\ cur[b][m] = e

\* The worker takes a mail, in any order, and marks it.  One the scan has met in
\* another mailbox is passed over, and so is one without a keyword; a dry run only
\* notes it.  `recent' is what the store answers.
Take(a, m, e, recent) ==
  LET hit == mark(a, m, e) /\ e \in Matching
      report == hit /\ ~DryRun(a) /\ ~recent
  IN  /\ pc[a][m] = "open"
      /\ e \in todo[a][m]
      /\ seen' = [seen EXCEPT ![a] = @ \cup {e}]
      /\ alerts' = [alerts EXCEPT ![a] = IF hit THEN @ \cup {<<m, e>>} ELSE @]
      /\ todo' = [todo EXCEPT ![a][m] = Rest(a, m, e)]
      /\ cur' = [cur EXCEPT ![a][m] = IF report THEN e ELSE None]
      /\ pc' = [pc EXCEPT ![a][m] = IF report THEN "send" ELSE BackTo(Rest(a, m, e))]
      /\ UNCHANGED <<webhook, now, arrived, rows, muted, found, delivered, everMuted>>

\* inspect up to the delivery.  Only workers of the same scan see the mark, and
\* they do not ask the store about this mail, so mark and query are one step.
Inspect(a, m, e) ==
  /\ Take(a, m, e, HasRecentEmailAlert(m, e, a))
  /\ tainted' = IF pc'[a][m] = "send" /\ Overlapping(a, m, e) THEN tainted \cup {<<m, e>>} ELSE tainted
  /\ UNCHANGED <<faults, clean>>

\* The query fails, which counts as not reported.
InspectBlind(a, m, e) ==
  /\ Persistent
  /\ mark(a, m, e) /\ e \in Matching /\ ~DryRun(a)
  /\ Take(a, m, e, FALSE)
  /\ Fault(a)
  /\ tainted' = tainted \cup {<<m, e>>}

\* The worker is done with its mail.
NextMail(a, m) ==
  /\ pc' = [pc EXCEPT ![a][m] = BackTo(todo[a][m])]
  /\ cur' = [cur EXCEPT ![a][m] = None]

\* Without a webhook nothing is sent or recorded; a muted pair is recorded as not
\* sent; otherwise the webhook accepts.
Send(a, m) ==
  LET k == <<m, cur[a][m]>> IN
  /\ pc[a][m] = "send"
  /\ \/ ~webhook /\ NextMail(a, m) /\ UNCHANGED delivered
     \/ /\ webhook /\ k \in muted
        /\ pc' = [pc EXCEPT ![a][m] = "unsent"]
        /\ UNCHANGED <<cur, delivered>>
     \/ /\ webhook /\ k \notin muted
        /\ pc' = [pc EXCEPT ![a][m] = "sent"]
        /\ delivered' = [delivered EXCEPT ![k] = now]
        /\ UNCHANGED cur
  /\ UNCHANGED <<webhook, now, arrived, rows, muted, todo, seen, alerts, faults, found, clean, everMuted, tainted>>

\* The webhook fails, or accepts and its answer is lost.
SendFails(a, m) ==
  LET k == <<m, cur[a][m]>> IN
  /\ pc[a][m] = "send"
  /\ webhook /\ k \notin muted
  /\ Fault(a)
  /\ pc' = [pc EXCEPT ![a][m] = "unsent"]
  /\ \/ UNCHANGED <<delivered, tainted>>
     \/ /\ delivered' = [delivered EXCEPT ![k] = now]
        /\ tainted' = tainted \cup {k}
  /\ UNCHANGED <<webhook, now, arrived, rows, muted, todo, cur, seen, alerts, found, everMuted>>

\* The list of suppressions cannot be read and the mail is sent although muted.
MuteUnread(a, m) ==
  /\ pc[a][m] = "send"
  /\ webhook
  /\ <<m, cur[a][m]>> \in muted
  /\ Fault(a)
  /\ pc' = [pc EXCEPT ![a][m] = "sent"]
  /\ delivered' = [delivered EXCEPT ![<<m, cur[a][m]>>] = now]
  /\ UNCHANGED <<webhook, now, arrived, rows, muted, todo, cur, seen, alerts, found, everMuted, tainted>>

Record(a, m) ==
  /\ pc[a][m] \in {"sent", "unsent"}
  /\ rows' = SaveEmailAlert(m, cur[a][m], pc[a][m] = "sent")
  /\ NextMail(a, m)
  /\ UNCHANGED <<webhook, now, arrived, muted, todo, seen, alerts, faults, found, clean, delivered, everMuted, tainted>>

RecordFails(a, m) ==
  /\ pc[a][m] \in {"sent", "unsent"}
  /\ Persistent
  /\ Fault(a)
  /\ tainted' = IF pc[a][m] = "sent" THEN tainted \cup {<<m, cur[a][m]>>} ELSE tainted
  /\ NextMail(a, m)
  /\ UNCHANGED <<webhook, now, arrived, rows, muted, todo, seen, alerts, found, delivered, everMuted>>

\* All mailboxes are done: what the scan found replaces what the page shows.
SetEmailScan(a) ==
  /\ \A m \in Mailboxes : pc[a][m] = "done"
  /\ pc' = [pc EXCEPT ![a] = [m \in Mailboxes |-> "idle"]]
  /\ seen' = [seen EXCEPT ![a] = {}]
  /\ alerts' = [alerts EXCEPT ![a] = {}]
  /\ found' = [found EXCEPT ![a] = {}]
  /\ clean' = [clean EXCEPT ![a] = TRUE]
  /\ UNCHANGED <<webhook, now, arrived, rows, muted, todo, cur, faults, delivered, everMuted, tainted>>

-------------------------------------------------------------------------------
(* Pages and environment                                                    *)

AddEmailSuppression ==
  /\ \E k \in Mutable \ muted : muted' = muted \cup {k} /\ everMuted' = everMuted \cup {k}
  /\ UNCHANGED <<webhook, now, arrived, rows, pc, todo, cur, seen, alerts, faults, found, clean, delivered, tainted>>

DeleteEmailSuppression ==
  /\ \E k \in muted : muted' = muted \ {k}
  /\ UNCHANGED <<webhook, now, arrived, rows, pc, todo, cur, seen, alerts, faults, found, clean, delivered, everMuted, tainted>>

\* Mails come one at a time.
Arrive ==
  /\ now <= MaxArrival
  /\ \E e \in Mails :
       /\ arrived[e] = Never
       /\ \A f \in Mails : arrived[f] < now
       /\ arrived' = [arrived EXCEPT ![e] = now]
  /\ UNCHANGED <<webhook, now, rows, muted, pc, todo, cur, seen, alerts, faults, found, clean, delivered, everMuted, tainted>>

Tick ==
  /\ now < MaxTime
  /\ now' = now + 1
  /\ UNCHANGED <<webhook, arrived, rows, muted, pc, todo, cur, seen, alerts, faults, found, clean, delivered, everMuted, tainted>>

\* The process dies: the scans and the Volatile store are gone.
Restart ==
  /\ faults < MaxFaults
  /\ faults' = faults + 1
  /\ pc' = [a \in Actors |-> [m \in Mailboxes |-> "idle"]]
  /\ todo' = [a \in Actors |-> [m \in Mailboxes |-> {}]]
  /\ cur' = [a \in Actors |-> [m \in Mailboxes |-> None]]
  /\ seen' = [a \in Actors |-> {}]
  /\ alerts' = [a \in Actors |-> {}]
  /\ found' = [a \in Actors |-> {}]
  /\ clean' = [a \in Actors |-> TRUE]
  /\ rows' = IF Persistent THEN rows ELSE [k \in Pairs |-> Never]
  /\ tainted' = IF ~Persistent THEN Pairs
                ELSE tainted \cup {k \in Pairs : \E a \in Actors : pc[a][k[1]] = "sent" /\ cur[a][k[1]] = k[2]}
  /\ UNCHANGED <<webhook, now, arrived, muted, delivered, everMuted>>

Next ==
  \/ \E a \in Actors :
       \/ Scan(a) \/ SetEmailScan(a)
       \/ \E m \in Mailboxes :
            \/ ScanInbox(a, m) \/ MailboxFails(a, m)
            \/ \E e \in Mails : Inspect(a, m, e) \/ InspectBlind(a, m, e) \/ FetchFails(a, m, e)
            \/ Send(a, m) \/ SendFails(a, m) \/ MuteUnread(a, m)
            \/ Record(a, m) \/ RecordFails(a, m)
  \/ AddEmailSuppression \/ DeleteEmailSuppression
  \/ Arrive \/ Tick \/ Restart

Spec == Init /\ [][Next]_vars

-------------------------------------------------------------------------------
(* Properties                                                               *)

\* Every variable stays in its type.
TypeOK ==
  /\ webhook \in BOOLEAN
  /\ now \in 0 .. MaxTime
  /\ arrived \in [Mails -> Nat \cup {Never}]
  /\ rows \in [Pairs -> Nat \cup {Never}]
  /\ muted \subseteq Mutable /\ everMuted \subseteq Mutable
  /\ pc \in [Actors -> [Mailboxes -> Stages]]
  /\ todo \in [Actors -> [Mailboxes -> SUBSET Mails]]
  /\ cur \in [Actors -> [Mailboxes -> Mails \cup {None}]]
  /\ seen \in [Actors -> SUBSET Mails] /\ found \in [Actors -> SUBSET Mails]
  /\ alerts \in [Actors -> SUBSET Pairs]
  /\ faults \in 0 .. MaxFaults
  /\ clean \in [Actors -> BOOLEAN]
  /\ delivered \in [Pairs -> Nat \cup {Never}]
  /\ tainted \subseteq Pairs

\* A mail copied to several mailboxes has one entry on the page, whichever workers
\* met it at the same time.
OneEntryPerMail ==
  \A a \in Actors : \A k, l \in alerts[a] : k[2] = l[2] => k = l

\* What a scan without a failure leaves behind: every billing mail it found is on
\* the page, and it has been accepted by the webhook, now or before, or is in a
\* mailbox where its sender was muted.  Failed attempts of earlier scans do not
\* hide a mail.
CleanScanReports ==
  [][\A a \in Actors :
       (SetEmailScan(a) /\ clean[a]) =>
         \A e \in found[a] \cap Matching :
           /\ \E m \in Mailboxes : <<m, e>> \in alerts[a]
           /\ DryRun(a) \/ ~webhook \/ \E m \in Mailboxes : delivered[<<m, e>>] # Never \/ <<m, e>> \in everMuted]_vars

\* A mail is not posted again for the same mailbox within the window of the scan,
\* unless something has defeated its de-duplication: overlapping scans, a failed
\* query, a lost record, a restart without a database.
NoRepeatWithinWindow ==
  \A a \in Actors, m \in Mailboxes :
    LET k == <<m, cur[a][m]>> IN
    (pc[a][m] = "send" /\ k \notin tainted) =>
      delivered[k] = Never \/ delivered[k] + Window(a) < now

===============================================================================
