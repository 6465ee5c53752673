---------------------------- MODULE Subscriptions ----------------------------
(***************************************************************************)
(* Renewal reminders: the rows of subscription_config, the handlers that   *)
(* edit them (src/internal/httpapi/subscription.go and                     *)
(* subscription_settings.go) and the checks that read them and remind      *)
(* (src/internal/subscription/checker.go).  A check runs in the            *)
(* scheduler's goroutine or at the end of a page's request, beside any     *)
(* other request; each database call, webhook call and assignment to the   *)
(* shared state is a step of its own.                                      *)
(*                                                                         *)
(* The rows checked here renew weekly; Calendar covers the other cycles.   *)
(* Which row a check looks at first is left open.                          *)
(***************************************************************************)
EXTENDS AlertStore, Calendar, Overlay

CONSTANTS
  Names,            \* subscription names
  EditNames,        \* those the requests are about; a rename may give any name
  Scheduler,        \* the scheduler's goroutine
  SubPages,         \* concurrent page requests
  Stored,           \* the rows at start, a function on some of Names
  Patches,          \* what an update may set: records of some of Edited
  Snoozes,          \* days a snooze may ask for
  Zones,            \* hours a subscription's timezone is ahead of the server
  SubCooldown,      \* ticks between two reminders of one subscription
  WebAlarm,         \* ENABLE_WEB_ALARM: pages remind too
  HasNotifier,      \* WEBHOOK_URL is set
  FirstDay,         \* the day number at tick 0
  MaxSubBusy,       \* requests and rounds at a time
  MaxSubEdits, MaxSubFaults, MaxSubTime,
  MaxSubEvents      \* edits and faults in all

\* Columns UpsertSubscription writes, and those only a statement of their own does.
Edited == {"day", "before", "enabled", "renewed"}
Settings == {"snoozed", "zone", "hook"}

ASSUME SubscriptionAssumption ==
  /\ IsFiniteSet(SubPages)
  /\ EditNames \subseteq Names
  /\ \A n \in DOMAIN Stored : DOMAIN Stored[n] = Edited \cup Settings
  /\ \A patch \in Patches : DOMAIN patch \subseteq Edited
  /\ SubCooldown \in Nat
  \* volatileRetention outlasts the cooldown
  /\ Persistent \/ SubCooldown <= Retention

SubProcs == SubPages \cup {Scheduler}

\* A row of handleAddSubscription before the request's fields; the settings
\* columns of a new row are NULL.
NewRow == [day |-> 1, before |-> 3, enabled |-> TRUE, renewed |-> NoMark]
Unset == [snoozed |-> NoMark, zone |-> 0, hook |-> FALSE]

Idle == [pc |-> "idle"]
Checking == {"check", "send", "record"}

VARIABLES
  now,            \* the clock, in ticks
  subscriptions,  \* the table: a function on the names that have a row
  reminders,      \* alert_history, type subscription_renewal
  subState,       \* the subscriptions the page shows: the results of the last check
  worker,         \* [SubProcs -> where the check or request is]
  subEdits, subFaults,
  delivered,      \* ghost: [Names -> last time a reminder reached the webhook]
  grace,          \* ghost: early reminders excused by a failure or an overlap
  intended,       \* ghost: the rows the requests ask for, one after the other
  spoilt,         \* ghost: names that have a row, or have none, against the requests
  amiss            \* ghost: <<name, column>> whose value is not the one asked for

SubVars == <<now, subscriptions, reminders, subState, worker, subEdits, subFaults,
             delivered, grace, intended, spoilt, amiss>>

SubInit ==
  /\ now = 0
  /\ subscriptions = Stored
  /\ reminders = {}
  /\ subState = {}
  /\ worker = [p \in SubProcs |-> Idle]
  /\ subEdits = 0 /\ subFaults = 0
  /\ delivered = [n \in Names |-> NoMark]
  /\ grace = [n \in Names |-> 0]
  /\ intended = Stored
  /\ spoilt = {} /\ amiss = {}

Has(rows, n) == n \in DOMAIN rows

\* Mutant: the statement writes every column.
UpsertSubscriptionWide(rows, n, row) == Over(Entry(n, row), rows)

\* INSERT ... ON CONFLICT (name): the settings of an existing row stay.
UpsertSubscription(rows, n, row) ==
  Over(Entry(n, Over([c \in Edited |-> row[c]], IF Has(rows, n) THEN rows[n] ELSE Unset)), rows)

DeleteSubscription(rows, n) == [m \in DOMAIN rows \ {n} |-> rows[m]]

\* UPDATE ... SET column WHERE name: nothing happens to a name without a row.
SetRowColumn(rows, n, column, value) ==
  IF Has(rows, n) THEN [rows EXCEPT ![n][column] = value] ELSE rows

\* Fields that are given replace the row's; the result is refused when its renewal
\* day does not fit the cycle.
applySubscriptionPatch(row, patch) ==
  LET result == Over(patch, row)
  IN  IF validRenewalDay("weekly", result.day) /\ result.before \in 0..365 THEN {result} ELSE {}

Today(zone) == FirstDay + (now + zone) \div Day

Go(p, state) == worker' = [worker EXCEPT ![p] = state]

Free(p) == worker[p] = Idle /\ Cardinality({q \in SubProcs : worker[q] # Idle}) < MaxSubBusy

Room == subEdits + subFaults < MaxSubEvents

Fault == Room /\ subFaults < MaxSubFaults /\ subFaults' = subFaults + 1

\* cfg.Subscriptions as Resolver.Load returns it: a failed query is logged and
\* gives no subscriptions.
Loaded(rows) == \/ rows = subscriptions /\ UNCHANGED subFaults
                \/ rows = <<>> /\ Fault

-----------------------------------------------------------------------------
(* The handlers.  An edit reads the configuration, then writes the row it  *)
(* made of what it read, then checks every subscription.                   *)

RowOf(rows, n) == IF Has(rows, n) THEN {rows[n]} ELSE {}

\* The request has read `rows' and will write `patch' applied to its row of
\* `from', under another name if it renames.
Job(from, newName, rows, patch) ==
  {[pc |-> IF newName = {} THEN "save" ELSE "remove",
    renames |-> newName # {}, from |-> from, name |-> CHOOSE n \in newName \cup {from} : newName # {} => n \in newName,
    patch |-> patch, row |-> row,
    read |-> RowOf(rows, from), base |-> {}, gone |-> {}] :
     row \in applySubscriptionPatch(IF Has(rows, from) THEN rows[from] ELSE Over(NewRow, Unset), patch)}

StartEdit(p) ==
  /\ Free(p)
  /\ Room /\ subEdits < MaxSubEdits /\ subEdits' = subEdits + 1
  /\ UNCHANGED <<now, subscriptions, reminders, subState, delivered, grace, intended, spoilt, amiss>>

handleAddSubscription(p, n, patch) ==
  /\ StartEdit(p)
  /\ \E rows \in {subscriptions, <<>>} :
       /\ Loaded(rows)
       /\ ~Has(rows, n)
       /\ \E job \in Job(n, {}, rows, Over(patch, NewRow)) : Go(p, job)

\* `newName' is empty unless the request gives a new name; it may be any name.
handleUpdateSubscription(p, n, newName, patch) ==
  /\ StartEdit(p)
  /\ Has(subscriptions, n) /\ UNCHANGED subFaults
  /\ \E job \in Job(n, newName, subscriptions, patch) : Go(p, job)

\* The date is the server's, whatever the subscription's timezone.
handleMarkRenewed(p, n) ==
  /\ StartEdit(p)
  /\ Has(subscriptions, n) /\ UNCHANGED subFaults
  /\ \E job \in Job(n, {}, subscriptions, [renewed |-> Today(0)]) : Go(p, job)

handleClearRenewed(p, n) ==
  /\ StartEdit(p)
  /\ Has(subscriptions, n) /\ UNCHANGED subFaults
  /\ \E job \in Job(n, {}, subscriptions, [renewed |-> NoMark]) : Go(p, job)

handleDeleteSubscription(p, n) ==
  /\ StartEdit(p)
  /\ Has(subscriptions, n) /\ UNCHANGED subFaults
  /\ Go(p, [pc |-> "drop", name |-> n])

\* What the requests ask for, whatever the statements make of it.
AllOf(n, columns) == {n} \X columns
Without(rows, n) == [m \in DOMAIN rows \ {n} |-> rows[m]]
Settled(n) == spoilt' = spoilt \ {n} /\ amiss' = {at \in amiss : at[1] # n}

\* Columns the request does not mean to change and will write as it read them, over
\* a value that is not the one it read.
StaleColumns(job) ==
  {c \in Edited \ DOMAIN job.patch :
     ~\E r \in RowOf(subscriptions, job.from), old \in job.read : r[c] = old[c]}

\* The DELETE of a rename.  A failure is only logged.
RemoveRenamed(p) ==
  LET job == worker[p]
      wrong == {c \in Edited : <<job.from, c>> \in amiss} \cup StaleColumns(job)
  IN  /\ job.pc = "remove"
      /\ Go(p, [job EXCEPT !.pc = "save", !.base = RowOf(intended, job.from),
                           !.gone = IF job.from \in spoilt THEN Edited ELSE wrong])
      /\ intended' = Without(intended, job.from)
      /\ \/ /\ subscriptions' = DeleteSubscription(subscriptions, job.from)
            /\ Settled(job.from)
            /\ UNCHANGED subFaults
         \/ /\ Fault
            /\ spoilt' = spoilt \cup {job.from}
            /\ UNCHANGED <<subscriptions, amiss>>
      /\ UNCHANGED <<now, reminders, subState, subEdits, delivered, grace>>

\* The row has its new name and is the old one but for the patch; the table has lost
\* what the request read too early, and the settings, which the DELETE took along.
Renamed(job) ==
  \/ /\ job.renames /\ job.base = {}
     /\ spoilt' = spoilt \cup {job.name}
     /\ UNCHANGED <<intended, amiss>>
  \/ \E b \in job.base :
       /\ job.renames
       /\ intended' = Over(Entry(job.name, Over(job.patch, b)), intended)
       /\ spoilt' = spoilt \ {job.name}
       /\ amiss' = {at \in amiss : at[1] # job.name}
                  \cup AllOf(job.name, job.gone \ DOMAIN job.patch)
                  \cup AllOf(job.name, {c \in Settings : Has(subscriptions, job.name) \/ b[c] # Unset[c]})

\* A row of its own, unless its name has been taken since the request looked.
Added(job) ==
  \/ /\ ~job.renames /\ job.read = {} /\ ~Has(intended, job.name)
     /\ intended' = Over(Entry(job.name, Over(job.patch, Over(NewRow, Unset))), intended)
     /\ amiss' = amiss \ AllOf(job.name, DOMAIN job.patch)
     /\ UNCHANGED spoilt
  \/ /\ ~job.renames /\ job.read = {} /\ Has(intended, job.name)
     /\ amiss' = amiss \cup AllOf(job.name, Edited)
     /\ UNCHANGED <<intended, spoilt>>

\* The patch and nothing else, unless the row has been deleted since it was read.
SavedOver(job) ==
  \/ /\ ~job.renames /\ job.read # {} /\ Has(intended, job.name)
     /\ intended' = [intended EXCEPT ![job.name] = Over(job.patch, @)]
     /\ amiss' = (amiss \ AllOf(job.name, DOMAIN job.patch)) \cup AllOf(job.name, StaleColumns(job))
     /\ UNCHANGED spoilt
  \/ /\ ~job.renames /\ job.read # {} /\ ~Has(intended, job.name)
     /\ spoilt' = spoilt \cup {job.name}
     /\ UNCHANGED <<intended, amiss>>

\* The INSERT of an edit.
Save(p) ==
  LET job == worker[p]
  IN  /\ job.pc = "save"
      /\ subscriptions' = UpsertSubscription(subscriptions, job.name, job.row)
      /\ Renamed(job) \/ Added(job) \/ SavedOver(job)
      /\ Go(p, [pc |-> "load"])
      /\ UNCHANGED <<now, reminders, subState, subEdits, subFaults, delivered, grace>>

\* The row a rename has removed and will never write again.
Abandoned(job) == IF job.pc = "save" /\ job.renames THEN {job.from} ELSE {}

\* A failed write ends the request; after the DELETE of a rename the row is gone.
SaveFails(p) ==
  LET never == Abandoned(worker[p])
  IN  /\ worker[p].pc = "save"
      /\ Fault
      /\ spoilt' = spoilt \cup never
      /\ intended' = Over([n \in {m \in never : worker[p].base # {}} |-> CHOOSE r \in worker[p].base : TRUE], intended)
      /\ Go(p, Idle)
      /\ UNCHANGED <<now, subscriptions, reminders, subState, subEdits, delivered, grace, amiss>>

\* The DELETE of handleDeleteSubscription.
Drop(p) ==
  /\ worker[p].pc = "drop"
  /\ subscriptions' = DeleteSubscription(subscriptions, worker[p].name)
  /\ intended' = Without(intended, worker[p].name)
  /\ Settled(worker[p].name)
  /\ Go(p, [pc |-> "load"])
  /\ UNCHANGED <<now, reminders, subState, subEdits, subFaults, delivered, grace>>

\* The settings handlers write one column without reading the row first.  The
\* UPDATE of a name without a row changes nothing; such requests are left out.
SetSetting(p, n, column, value) ==
  /\ Free(p) /\ Has(subscriptions, n)
  /\ Room /\ subEdits < MaxSubEdits /\ subEdits' = subEdits + 1
  /\ subscriptions' = SetRowColumn(subscriptions, n, column, value)
  /\ intended' = IF Has(intended, n) THEN [intended EXCEPT ![n][column] = value] ELSE intended
  /\ amiss' = amiss \ {<<n, column>>}
  /\ Go(p, [pc |-> "load"])
  /\ UNCHANGED <<now, reminders, subState, subFaults, delivered, grace, spoilt>>

handleSubscriptionSnooze(p, n) == \E d \in Snoozes : SetSetting(p, n, "snoozed", Today(0) + d)

handleSubscriptionTimezone(p, n) == \E z \in Zones : SetSetting(p, n, "zone", z)

handleSubscriptionWebhook(p, n) == \E h \in BOOLEAN : SetSetting(p, n, "hook", h)

-----------------------------------------------------------------------------
(* A check: refreshSubscriptions of a page, or of the scheduler's round.   *)

\* Load the configuration and keep a copy of the enabled rows: the end of an edit,
\* or the scheduler's round.
LoadSubscriptions(p) ==
  /\ worker[p].pc = "load" \/ (p = Scheduler /\ Free(p))
  /\ \E rows \in {subscriptions, <<>>} :
       /\ Loaded(rows)
       /\ Go(p, [pc |-> "check", dry |-> p # Scheduler /\ ~WebAlarm, rows |-> rows,
                 todo |-> {n \in DOMAIN rows : rows[n].enabled},
                 results |-> {}, clean |-> rows = subscriptions])
  /\ UNCHANGED <<now, subscriptions, reminders, subState, subEdits, delivered, grace, intended, spoilt, amiss>>

\* Evaluate's answer for every plan and day of a behaviour.
Plans == [cycle : {"weekly"}, day : 1..7, before : 0..7, mark : {NoMark} \cup FirstDay..(FirstDay + MaxSubTime)]
DueOn == [plan \in Plans,
           today \in {FirstDay + (t + z) \div Day : t \in 0..MaxSubTime, z \in Zones \cup {0}} |-> Due(plan, today)]

\* What checkOne decides before it would send.
Verdict(row, dry) ==
  LET today == Today(row.zone)
      due == DueOn[[cycle |-> "weekly", day |-> row.day, before |-> row.before, mark |-> row.renewed], today]
      snoozed == row.snoozed # NoMark /\ row.snoozed >= today
  IN  CASE ~due -> "quiet"
        [] due /\ snoozed -> "snoozed"
        [] due /\ ~snoozed -> IF dry THEN "dry_run" ELSE "due"

\* One more row is done.  What its result says (sent, cooling down, snoozed...) is
\* left out; `clean' remembers that nothing failed and the day did not change.
Result(p, n, ok) ==
  LET w == worker[p]
  IN  Go(p, [pc |-> "check", dry |-> w.dry, rows |-> w.rows, clean |-> w.clean /\ ok,
             todo |-> w.todo \ {n}, results |-> w.results \cup {n}])

\* Another check has asked for this name's cooldown and not yet written its row.
Beside(p, n) == \E q \in SubProcs \ {p} : worker[q].pc \in {"send", "record"} /\ worker[q].name = n

Excuse(names) == grace' = [n \in Names |-> IF n \in names THEN grace[n] + 1 ELSE grace[n]]

\* Mutant: the cooldown is derived from the newest row, sent or not.
CoolingAny(n) == \E r \in reminders : r.key = n /\ now < r.at + SubCooldown

\* Mutant: the cooldown ends a tick early.
CoolingShort(n) == \E t \in LastSentAlert(reminders, n, SubCooldown, now) : now < t + SubCooldown - 1

Cooling(n) == \E t \in LastSentAlert(reminders, n, SubCooldown, now) : now < t + SubCooldown

\* A row that needs no reminder is done.  For a due one dispatch asks when the last
\* reminder was sent; an error counts as never.
checkOne(p, n) ==
  LET w == worker[p]
      Sending(ok) == [pc |-> "send", name |-> n, dry |-> w.dry, rows |-> w.rows, todo |-> w.todo,
                      results |-> w.results, clean |-> w.clean /\ ok]
  IN  /\ w.pc = "check" /\ n \in w.todo
      /\ \E due \in {Verdict(w.rows[n], w.dry) = "due"} :
           \/ /\ ~due \/ Cooling(n)
              /\ Result(p, n, TRUE)
              /\ UNCHANGED <<subFaults, grace>>
           \/ /\ due /\ ~Cooling(n)
              /\ Go(p, Sending(TRUE))
              /\ Excuse(IF Beside(p, n) THEN {n} ELSE {})
              /\ UNCHANGED subFaults
           \/ /\ due
              /\ Fault
              /\ Go(p, Sending(FALSE))
              /\ Excuse({n})
      /\ UNCHANGED <<now, subscriptions, reminders, subState, subEdits, delivered, intended, spoilt, amiss>>

\* How the reminder went is about to be recorded.
Recording(w, status, ok) ==
  [pc |-> "record", name |-> w.name, status |-> status, dry |-> w.dry, rows |-> w.rows, todo |-> w.todo,
   results |-> w.results, clean |-> w.clean /\ ok]

\* The subscription's own webhook, or the deployment's, takes the reminder.
Deliver(p) ==
  LET n == worker[p].name
      early == delivered[n] # NoMark /\ now - delivered[n] < SubCooldown
  IN  /\ worker[p].pc = "send"
      /\ worker[p].rows[n].hook \/ HasNotifier
      /\ delivered' = [delivered EXCEPT ![n] = now]
      /\ grace' = [grace EXCEPT ![n] = IF early THEN @ - 1 ELSE @]
      /\ Go(p, Recording(worker[p], "sent", TRUE))
      /\ UNCHANGED <<now, subscriptions, reminders, subState, subEdits, subFaults, intended, spoilt, amiss>>

\* A post that reaches the webhook and whose answer is lost: Send tries again, and
\* may end in an error although the reminder has arrived.
AnswerLost(p) ==
  LET n == worker[p].name
      early == delivered[n] # NoMark /\ now - delivered[n] < SubCooldown
  IN  /\ worker[p].pc = "send"
      /\ worker[p].rows[n].hook \/ HasNotifier
      /\ Fault
      /\ delivered' = [delivered EXCEPT ![n] = now]
      /\ grace' = [grace EXCEPT ![n] = IF early THEN @ ELSE @ + 1]
      /\ UNCHANGED <<now, subscriptions, reminders, subState, worker, subEdits, intended, spoilt, amiss>>

\* The last try fails, whatever became of the ones before it; without any webhook
\* nothing is recorded.
DeliverFails(p) ==
  LET n == worker[p].name
  IN  /\ worker[p].pc = "send"
      /\ IF worker[p].rows[n].hook \/ HasNotifier
         THEN Fault /\ Go(p, Recording(worker[p], "failed", FALSE))
         ELSE Result(p, n, TRUE) /\ UNCHANGED subFaults
      /\ UNCHANGED <<now, subscriptions, reminders, subState, subEdits, delivered, grace, intended, spoilt, amiss>>

\* SaveAlert; an error is logged and the reminder leaves no trace.
record(p) ==
  LET w == worker[p]
  IN  /\ w.pc = "record"
      /\ \/ /\ reminders' = SaveAlert(reminders, w.name, w.status, now)
            /\ UNCHANGED <<subFaults, grace>>
         \/ /\ Fault
            /\ Excuse(IF w.status = "sent" THEN {w.name} ELSE {})
            /\ UNCHANGED reminders
      /\ Result(p, w.name, subFaults' = subFaults)
      /\ UNCHANGED <<now, subscriptions, subState, subEdits, delivered, intended, spoilt, amiss>>

\* The page's state is replaced as a whole.
SetSubscriptions(results) == subState' = results

FinishCheck(p) ==
  /\ worker[p].pc = "check" /\ worker[p].todo = {}
  /\ SetSubscriptions(worker[p].results)
  /\ Go(p, Idle)
  /\ UNCHANGED <<now, subscriptions, reminders, subEdits, subFaults, delivered, grace, intended, spoilt, amiss>>

-----------------------------------------------------------------------------
\* The process stops between any two steps; the shared state goes with it.
CrashChecks ==
  LET cut == {p \in SubProcs : worker[p].pc = "record" /\ worker[p].status = "sent"}
      never == UNION {Abandoned(worker[p]) : p \in SubProcs}
      bases(n) == UNION {worker[p].base : p \in {q \in SubProcs : n \in Abandoned(worker[q])}}
  IN  /\ Fault
      /\ worker' = [p \in SubProcs |-> Idle]
      /\ subState' = {}
      /\ Excuse({worker[p].name : p \in cut})
      /\ spoilt' = spoilt \cup never
      /\ intended' = Over([n \in {m \in never : bases(m) # {}} |-> CHOOSE r \in bases(n) : TRUE], intended)
      /\ UNCHANGED <<now, subscriptions, reminders, subEdits, delivered, amiss>>

TickDay ==
  /\ now < MaxSubTime
  /\ now' = now + 1
  /\ worker' = [p \in SubProcs |-> IF worker[p].pc \in Checking THEN [worker[p] EXCEPT !.clean = FALSE] ELSE worker[p]]
  /\ UNCHANGED <<subscriptions, reminders, subState, subEdits, subFaults, delivered, grace, intended, spoilt, amiss>>

SubNext ==
  \/ \E p \in SubPages, n \in EditNames :
       \/ \E patch \in Patches : handleAddSubscription(p, n, patch)
       \/ \E patch \in Patches, newName \in {{}} \cup {{m} : m \in Names} : handleUpdateSubscription(p, n, newName, patch)
       \/ handleMarkRenewed(p, n)
       \/ handleClearRenewed(p, n)
       \/ handleDeleteSubscription(p, n)
       \/ handleSubscriptionSnooze(p, n)
       \/ handleSubscriptionTimezone(p, n)
       \/ handleSubscriptionWebhook(p, n)
  \/ \E p \in SubPages : RemoveRenamed(p) \/ Save(p) \/ SaveFails(p) \/ Drop(p)
  \/ \E p \in SubProcs :
       \/ LoadSubscriptions(p)
       \/ \E n \in Names : checkOne(p, n)
       \/ Deliver(p)
       \/ AnswerLost(p)
       \/ DeliverFails(p)
       \/ record(p)
       \/ FinishCheck(p)
  \/ CrashChecks
  \/ TickDay

SubSpec == SubInit /\ [][SubNext]_SubVars

-----------------------------------------------------------------------------
(* Properties.                                                             *)

\* The abstract cooldown: reminders of one name are SubCooldown apart, and each
\* early one is paid for by a failed query, a lost record, a crash after sending,
\* a lost answer to a delivery or two checks that dispatched the same name at once.
Reminders == INSTANCE Throttle WITH Keys <- Names, Cooldown <- SubCooldown, Never <- NoMark, last <- delivered
RemindersThrottled == Reminders!Spec

\* However requests overlap, the table holds the rows and the values that the
\* requests ask for one after the other, the columns of the settings handlers
\* included.  The exceptions are these and no others.  A row is there or missing
\* against them (spoilt) after a rename whose DELETE or INSERT failed or was cut off,
\* or a save over a row deleted meanwhile.  A value is not the one asked for (amiss)
\* when an edit wrote a column back that someone else had changed since it was read,
\* when an add found its name taken, or when a rename left the settings behind.
EditsCompose ==
  \A n \in Names \ spoilt :
    /\ Has(subscriptions, n) <=> Has(intended, n)
    /\ \A c \in Edited \cup Settings :
         Has(subscriptions, n) /\ <<n, c>> \notin amiss => subscriptions[n][c] = intended[n][c]

\* "only provided fields change; renaming deletes the old name first, then writes
\* the new one" (subscription.go:93): a snooze, a timezone and a webhook of its own
\* survive the edits of a subscription.
SettingsSurvive ==
  \A n \in Names \ spoilt : \A c \in Settings :
    Has(subscriptions, n) /\ Has(intended, n) => subscriptions[n][c] = intended[n][c]

\* A check without failures over rows nobody touched meanwhile, on one and the
\* same day, leaves no due subscription without a reminder sent just now
\* or within the cooldown, shows every enabled subscription and no other.
CleanCheckReminds ==
  [][\A p \in SubProcs :
       LET w == worker[p]
       IN  (/\ w.pc = "check" /\ worker'[p] = Idle /\ subFaults' = subFaults
            /\ w.clean /\ w.rows = subscriptions)
           => /\ subState' = {n \in DOMAIN subscriptions : subscriptions[n].enabled}
              /\ \A n \in subState' :
                   (Verdict(subscriptions[n], w.dry) = "due" /\ HasNotifier)
                   => \E r \in reminders :
                        r.key = n /\ r.status = "sent" /\ (r.at = now \/ now < r.at + SubCooldown)]_SubVars

=============================================================================
