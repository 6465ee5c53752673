# QuotaPulse in TLA+

QuotaPulse watches the balances of paid APIs and cloud accounts, the renewal
dates of subscriptions and the billing mails of a few mailboxes. It shows them on
a dashboard, exports them as metrics and sends alerts to a webhook and to browsers.
This directory holds TLA+ models of the parts of it where order, overlap and
failure decide what the user sees, the TLC configurations that check them, and
proofs that TLAPS checks.

All paths below are relative to the repository (`src/`).

## 1. Inventory

One process. A scheduler goroutine runs jobs one after the other; HTTP handlers
run at any time beside it; rounds of checks fan out over worker goroutines. They
share a store (SQLite, MySQL or PostgreSQL, or an in-memory stand-in), an in-memory
state for the pages, Prometheus collectors and one notifier.

| Component | State | Operations | What is hard | What makes it correct |
|---|---|---|---|---|
| Alert store (`internal/store`) | `alert_history`, or a map without a database | SaveAlert, LastSentAlert, HasRecentAlert, PruneHistoryBefore | row limit, day-rounded windows, retention | a sent row is found for as long as it cools |
| Balance monitor (`internal/monitor`, `internal/runway/alerts.go`, `internal/cost/alerter.go`) | response cache, rounds under way | Run, CheckProject, deliver, emit, Check, CheckUsage | query, send and record are three steps; rounds overlap; any of them fails | no repeat within a cooldown; a failed send does not mute; a low balance is reported in the end |
| Notifier (`internal/notify`) | none | Send with retries | an accepted message whose answer is lost | at least once |
| Dashboard state (`internal/state`, `internal/httpapi/core.go`) | cards, last update, job table | SetBalance, MergeBalance, RemoveBalanceProject, health | full and single-project rounds overlap with edits | converges to the configuration; an outage shows |
| Project configuration (`internal/config`, `internal/httpapi/project.go`) | `project_config`, environment | save, threshold, delete, discovery | read, patch, write back; environment against database | what is configured is what is checked |
| Metrics (`internal/metrics`) | one series per project | UpdateBalance | published from a copy | in line with the cards |
| Job scheduler (`internal/scheduler`, `internal/app/app.go`) | next run per task, failure streaks | RunPending, RunTask, onJobResult, Stop | long runs, slots during a run, broken webhook, shutdown | slots fire once, nobody starves, streaks are reported once |
| Mail scanner (`internal/mailscan`) | set of seen mails, `email_alert_history` | Scan, inspect, send | concurrent mailboxes, overlapping scans, windows | a billing mail is reported, and once |
| Subscriptions (`internal/subscription`, `internal/httpapi/subscription*.go`) | `subscription_config`, cards of the page | check, add, update, rename, delete, renew, snooze, time zone, webhook | calendar arithmetic; edits read, patch and write back; reminders overlap | edits compose; one reminder per cooldown; the right date |
| Push (`internal/push`, `internal/httpapi/push.go`) | VAPID keys, their cache, browser registrations | config, subscribe, unsubscribe, Notify, SendTo | keys made on first use, in two writes; dead endpoints | one pair for good; no live registration is removed |
| Providers (`internal/provider`, `internal/config/resolve.go`, `internal/httpapi/customprovider.go`) | `custom_provider_config`, registry, seeding marker | Load, seed, save, delete, lookup, fetch, extract | every request and round loads and replaces the registry; answers nobody foresaw | the page has the last word; a reading is what was asked for |
| Stored secrets (`internal/store/crypto.go`) | encrypted columns | encrypt, decrypt, encryption on read | the key changes or goes | a secret survives and stays sealed |
| Sessions, rate limit and keys (`internal/httpapi/session.go`, `server.go`, `ratelimit.go`, `internal/config/mcpkeys.go`) | cookies, token buckets | login, renewal, logout, mcpCaller, take | expiry, rotation, one token in two roles, bursts | a session lives as long as its key; an agent stays in its scope and rate |
| MCP server (`internal/mcpserver`) | none of its own | read-only tools, paging | cursors over changing data, capped reads | pages miss nothing silently |
| Usage and costs (`internal/httpapi/usage.go`, `costs.go`, `internal/cost`, `internal/runway`) | `usage_events` | ingest, summary, estimates | batches fail in the middle; the same spending computed in several places | a batch is whole; the figures agree |
| Weekly report (`internal/report`) | none | Build | its own sums | agrees with the other figures |
| Storage engines (`internal/store/engine_*.go`, `sqlc/`, `Backup`) | tables, backup files | SQL per engine, backup, migrations | three sets of statements; a copy fails half-way | engines agree; the last good copy stays |
| Self-check, import (`internal/selfcheck`, `app/importconfig.go`) | none | one-shot runs | - | - |
| UI (`ui/`) | browser state | fetch and render | responses out of order | - |

The hazards this code is exposed to are in `PROJECT.json`, each at its line.

## 2. Modules

| Module | Models | Composes |
|---|---|---|
| `AlertStore` | rows of the alert history and the queries over them | |
| `Monitor` | monitoring rounds and all alert kinds | extends `AlertStore` |
| `Overlay` | one map laid over another: how rows, patches and maps are updated | |
| `Dashboard` | cards, freshness, health, metrics, project handlers, configuration | extends `Overlay` |
| `JobScheduler` | scheduling loop, job table, escalation, shutdown | |
| `MailScan` | mailbox scans, their de-duplication and alerts | |
| `Throttle` | what a cooldown promises: the abstract specification | |
| `Subscriptions` | subscription edits, checks and reminders; implements `Throttle` | extends `AlertStore`, `Calendar`, `Overlay` |
| `Calendar` | renewal dates of the four cycles, marks of renewal (functions) | |
| `Push` | the VAPID pair, registrations, sends | |
| `Providers` | the registry, its loads, the seeding of defaults, edits | extends `Overlay` |
| `Extract` | one fetch: retries, the verdict on the answer, the number in it | |
| `Secrets` | encrypted values, changing keys, encryption on read, masks | |
| `Sessions` | page sessions and key rotation | |
| `McpAccess` | which caller a token stands for; the token buckets | |
| `Tables` | the generated SQL of the three engines as operators on rows | |
| `Engines` | the same statements sent to each engine | extends `Tables` |
| `Usage` | reported usage, batch by batch | |
| `History` | paging and counts of the agents' history tools | extends `Tables` |
| `Spend` | runway, spending, trends, down-sampling, costs, weekly report (functions) | |
| `Figures` | inputs for these functions, chosen step by step, and what their results owe each other | extends `Spend`, `Calendar` |
| `Backups` | copy, verification, pruning | |
| `MCServices` | one instance of the modules from `Subscriptions` on | extends all of them |
| `MCMonitor`, `MCDashboard`, `MCJobScheduler`, `MCMailScan`, `MCSubscriptions` | instances for TLC | |
| `MonitorProofs`, `DashboardProofs`, `JobSchedulerProofs`, `MailScanProofs`, `SubscriptionsProofs` | theorems about one module | extends that module |
| `RegistryProofs` | theorems about `Push`, `Providers`, `Extract`, `Sessions`, `McpAccess` | extends them |
| `StoreProofs` | theorems about `Backups`, `Secrets`, `Engines`, `History` | extends them |
| `FiguresProofs` | theorems about `Figures` (and so `Spend`) and `Usage` | extends them |

### AlertStore and Monitor

An actor is the scheduler or one HTTP handler that runs a round. `phase[a]` says
where its `Monitor.Run` stands (the checks, then budgets, reported usage, trends),
`pc[a][p]` where one project stands in that phase, `src[a][p]` which alert it is
delivering. Every alert takes the same path, as in the code:

| Step | Code |
|---|---|
| `CheckProject`, `Fetch`, `NoAdapter` | `CheckProject` up to the verdict, with the response cache |
| `QueryCooldown`, `QueryFails` | `LastSentAlert` in `deliver`, `HasRecentAlert` in the other alerters |
| `Send`, `SendFails` | `notifier.Send`; a failure may hide an accepted message |
| `RecordAlert`, `RecordFails` | `recordAlert` / `SaveAlert` |
| `BudgetCheck`, `CheckUsage`, `CheckUsageBlind`, `RunwayCheck`, `SpikeCheck`, `SkipPhase` | `checkBudgets`, `CheckUsage`, the trend alerter |
| `NilNotifier` | the budget alerters' call of a nil notifier |
| `PruneHistory`, `Restart` | the retention job, a crash |

Two keys per alert: the one the query reads and the one the record writes. They
are the same for every kind but reported usage. The clock may tick between any
two steps. `tainted` is a history variable: the keys whose cooldown an overlap, a
failed query, a lost record or a restart without a database has defeated. It makes
the claim of `NoRepeatWithinCooldown` exact: these are the only ways.

Whether a budget is overrun, a runway short or a day a spike is chosen freely; the
arithmetic is in `Spend`.

### Dashboard

Each request of a page and each run of the refresh job is a sequence of steps: read
the configuration (`Load`; a failed database read leaves only the environment),
write the row, select projects, check, apply to the state, copy, publish metrics.
Only the write of the state is atomic in the code and so in the model. `age` is
the time since `last_update`, capped just above the staleness limit; `readAge` is the
same for the last round that really read something. Because nothing depends on
absolute time the state space is finite without a last tick.

### JobScheduler

`wait[t]` counts down to `nextRun`; the calendar is a cycle of slots, so that daily
and weekly times are a set of slots. `RunPending` takes the tasks due when the loop
wakes, `RunTask` and `EndRun` bracket a run of any length, `Escalate` is the webhook
of `maybeEscalateJobFailure`. `Outcomes` says when a run fails: a broken task, a task
that needs the database where there is none, a cancelled context.

### MailScan

A scan opens its mailboxes on a pool of `Workers`; `pc[a][m]` is where the worker of
mailbox `m` stands in actor `a`'s scan. `Inspect` marks a mail in the scan's shared
set and asks the store; `Send` looks for a mute and posts; `Record` writes the row; each
has its failing form. `SetEmailScan` ends the scan. Pages are kept apart by `scanGuard`,
so one page stands for all. A mail stands for its Message-ID and for its sender, subject
and date; keyword matching is the parameter `Matching`. `rows` keeps the newest sent
row per mailbox and mail, which is all the query can tell apart. Muting has the grain of
a mailbox and a mail, where the code has mailbox and sender. `found`, `clean`,
`delivered`, `everMuted` and `tainted` are history variables.

### Subscriptions, Calendar and Throttle

`worker[p]` is what process `p` (the scheduler or a page) is doing: the rest of an
edit, or a check with the rows it loaded, the names it has still to look at and the
reminder it is delivering. The read of an edit (`handleUpdateSubscription`,
`findSubscription`) is one step and its write another (`RemoveRenamed`, `Save`,
`SaveFails`, `Drop`); the settings handlers are one statement. A check is
`LoadSubscriptions`, `checkOne` for each row, `Deliver` or `DeliverFails`, `record`, and
`FinishCheck`, which replaces the page's cards. `AnswerLost` is a try of `notifier.Send`
that arrives while its answer does not: `Send` goes on, and may deliver again or end in
an error.

`intended` holds the rows the requests ask for, one after the other: a rename moves a row
as it is, settings included, and a patch changes the fields it names. It is not made with
the operators of the table, so it differs where the statements do something else. Where it
may differ is on record: `spoilt` has the names that have a row, or none, against the
requests (a rename cut in half, a save over a row deleted meanwhile), `amiss` the pairs of
a name and a column whose value is not the one asked for (a column written back over a
newer value, an "add" that finds its name taken, the settings that a rename leaves
behind). A request that gives a column its value clears the pair.

`Throttle` says what any cooldown promises: deliveries of a key are a cooldown apart,
and each early one uses up one excuse; a delivery whose sender does not learn of it
(`Unknown`) starts no cooldown and brings an excuse for the next. `Subscriptions` implements it under
`Reminders == INSTANCE Throttle WITH ..., last <- delivered`: every step that delivers
is a `Deliver`, every step that fails, crashes or overlaps may add an excuse, and all
others stutter. `RemindersThrottled` is that refinement.

`Calendar` has the functions of `date.go` with the same names. `EarliestRenewal` compares
`Evaluate` with the first day from today on that the plain meaning of the cycle calls a
renewal; `MarkPaysForOne` walks through the days after a mark. Lunar dates come from a
table of the months of four real years, external to the code (it calls a library), so lunar
renewals are followed over the days `LunarDaysKnown`, of which the table has the years
before, of and after them.

### Push

`pushActor[a]` is where a request or the alerter stands: it takes the manager's lock,
reads the two halves of the pair, makes a pair, saves the halves one after the other,
then answers or sends. A pair is a number; both stored halves are the numbers they were
saved with. `PushRestart` empties the cache and cuts every request off. `holds` is what
the browsers hold, and the push service accepts a send signed with the pair the browser
registered with.

### Providers and Extract

Each request and round runs `ListProjects`, `ListDefinitions`, the seeding if the marker is
missing, `Relist` and `Install`; an edit or a deletion goes on from there. A list that
fails looks empty. `wanted` is what the seeding and the page made of the table, `contested`
the names for which a failed read, or a request before or beside the seeding, excuses a
difference, `skipped` the defaults whose own write failed while seeding: the marker is set
all the same, and no later load adds them. A project names its platform by the bare or by
the `custom:` key (`form`); lookups resolve both, the delete compares with the second.
`excusedUses` are the projects that may lose their platform for it, or to a race.

`Extract` follows one `Client.Do`: `Respond`, `NetworkError`, `Resend`, `ContextEnds`. An
answer is a small JSON value; `DigPath`, `NumLoose`, `MinWindowExtract` and `customCheck`
work on it as the code does, with numbers in hundredths.

### Secrets, Sessions, McpAccess

A stored value is the text and the key it is encrypted under. `List` reads it (and may
decide to encrypt what it found), `Rewrite` writes that back, `SaveSecret` takes what a page
sends, the mask included, and `ChangeKey` restarts with another key or none. In `Sessions` a
cookie is its expiry and the key that signed it; `Rotate` restarts with other keys.
`McpAccess` chooses an environment, refuses what `LoadSettings` refuses, and sends tokens;
buckets count 120 to a request so that the refill stays whole. Signatures and ciphertexts
are taken to be unforgeable.

### Tables, Engines, Usage, History, Backups

`Tables` reads each engine's statements: which columns an upsert sets, what its conflict
clause does, how text compares (`Folded` is MySQL's collation). `Engines` sends the same
statements to all three. `Usage` is the transaction of a batch, on a database that locks as
a whole (`single`) or row by row. `History` asks page after page (`AskPage`, `ReadSource`,
`AnswerPage`), each a fresh query cut at the read limit, while `HistRecord` adds rows and the
window moves. `Backups` is `VACUUM INTO`, the verification and the pruning, with copies that
fail or are damaged and crashes at every step.

### Spend

Functions on a series of snapshots: `Compute` (runway), `SpendView` and `TrendTool` (the agents'
tools), `DownsampleTrend` (charts), `SpendInMonth`, `BuildCosts`, `CostsSummary` (costs) and
`WeeklyReport`. Amounts are exact, quotients are pairs; rounding is left out.

Each is given all that is stored and does its own reading. `TrendTool` summarizes
(`Summarize`) and groups (`Bucket`) the series that `BalanceTrend` has thinned.
`CostsSummary` takes the request: `MonthShown` is the month it is about, `MonthRead` the
moment that counts as now and how far back the balances are read, `NameSince` and
`ReportedSince` are the two queries. `CountedOnce` compares the page's total with everything
that was spent and reported in the month, not with what was read, and names each
difference.

What the code filters and sorts is written with `Arranged`, a list of the positions of
another one in a given order (`Where`, `SortedBy`). The community modules' `SelectSeq` and
`SortSeq` would do for TLC, but the proof system has no definition of them, and `SortSeq`
does not say what becomes of equals. `validPoints` sorts with `sort.Slice`, which is not
stable; the rows it is given are in order already, and those it leaves as they are.

`Figures` gives the functions their inputs: a shape is chosen, then the values. `Sane` says
what the program can meet: rows of a project in order of time (to the second, so that two
may have the same time, or strictly where the database's own timestamps are used), whole
amounts, one project to a name, months of 28 to 31 days that begin at midnight. `FiguresAssumption` requires it of the inputs of a model;
TLC checks it for those of `MCServices`, and the theorems need nothing else of them.

### MCServices

These components meet only through the database or their results. A behaviour is about
one of them (`part`); the others stay as they start. `Figures` is one of them.

## 3. Runs

| Run | Question | Result |
|---|---|---|
| `MonitorOverlap` | rounds of scheduler and page at once, two faults, SQL store, row limit 1 | cooldowns hold unless defeated; failed sends never mute |
| `MonitorAnalysis` | budget, usage, runway and spike alerts, with and without a webhook, one fault | each kind keeps its own cooldown |
| `MonitorLive` | page beside scheduler with web alarms off, fairness | no exception without a fault; pushes follow the cooldown; a low balance is reported again and again |
| `MonitorUsageBug` | one budget alert per window, as `cost/alerter.go` says | violated |
| `DashboardRaces` | scheduler and two pages on one project, one failing database call | one manual refresh at a time, spaced |
| `DashboardLive` | stored and environment project, outage, fairness | converges; an outage turns red; never fresher than read |
| `Scheduler` | four tasks, one of them without a schedule, lost answers, shutdown, fairness | slots fire once, streaks reported once, no starvation, the loop ends |
| `SchedulerNoDatabaseBug` | without a database capabilities degrade gracefully, as `docs/ARCHITECTURE.md` says | violated |
| `MailScan` | a mail in two mailboxes, scans of scheduler and page, mutes, one fault | one entry per mail; no early repeat unless defeated; a clean scan loses nothing |
| `Services` | every other part by itself: see the table below | each property holds |
| `SubscriptionRenameBug` | a rename changes the fields that are provided and no others, as `subscription.go` says | violated |
| `ProviderDeleteBug` | a platform is not deleted while a project uses it, as `docs/API.md` says | violated |

The properties of `Services`:

| Property | Says |
|---|---|
| `EditsCompose` | the table holds the rows and values that overlapping edits ask for, but for the causes named in it |
| `RemindersThrottled` | `Subscriptions` implements `Throttle`, answers lost on the way included |
| `CleanCheckReminds` | an undisturbed check leaves no due subscription without a reminder |
| `PushKeepsWorking` | one matching pair, browsers reachable, live registrations kept |
| `DefinitionsLast` | the page has the last word on definitions; the registry follows; the defaults arrive; a project loses its platform in the named cases only |
| `SecretsKept` | a secret keeps its text and its seal through key changes |
| `SessionsEndRight` | a session ends with its key or its user's absence, and not before |
| `AgentsStayInScope`, `BudgetHolds` | an agent's key opens what it is for, while it lasts, at its rate |
| `EnginesAgree` | the three engines hold the same rows; one row per key |
| `SpendIsOneReport` | reported spend is that of one whole report |
| `HistoryExact` | pages miss nothing silently and repeat nothing; counts are of one window |
| `FetchSound` | no repeated writes; the number read is the one asked for |
| `LastBackupStays` | a reported backup is there until a newer one is |
| `SpendingAgrees`, `ChartKeepsShape`, `CostsExact` | runway, summaries, buckets and the weekly report agree as far as each of them reads; thinned charts keep their ends, order and extremes; a month's costs are counted once, but for the named omissions and doubles |
| `RenewalsRight` | the earliest renewal; one mark pays for one |

Several of these are conjunctions of named parts; each part is a definition of its own in
the component's module, with its own comment.

**Bounds.** One project suffices for the cooldown runs because keys of different
projects never meet except in the worker pool and the cache; the theorems cover any
number of projects and workers. The runs use the SQL store; that the in-memory one keeps
the same promises is part of the theorems, which hold for either value of `Persistent`. Two actors are enough to overlap; the theorems cover any number of them, too.
`Cooldown` is one or two ticks and the clock runs to one tick beyond it, so that an
alert can be repeated too early, in time and after a restart. `RowLimit = 1` is the
tightest the 50 of the code can get. `MaxFaults` bounds failures per behaviour: two
where a fault has to meet another (a failed query after a lost record), one elsewhere.
In `Dashboard` two requests (`MaxEdits`) and the scheduler's endless rounds give every
pair of handlers an overlap. `JobScheduler` has no bound but `MaxLost` and the caps
on counters.

`MailScan` has one mail, copied to two mailboxes, days of two ticks and a window of one
day, and `MaxTime` is two ticks, so that the mail is inside the window and at its very edge
while the search by date still finds it. A second mail only repeats the first one's path: mails
meet nowhere but in the newest-first limit, which one mail does not reach.

`Services` gives each part two interchangeable clients, two edits and two failures, and a
clock that passes its cooldown, expiry or window by at least one tick: enough for one
request to begin before, in the middle of and after another, and for a second fault to
meet the first. Read limits and page limits are 1 and 2 so that every read can be cut.
Series have up to seven snapshots, which is more than the four of `TrendPointCap` and enough
to lie on both sides of a day, a week and a month; `SeriesShapes` puts gaps of one tick to
nine between them, and the groupings get series of four, which are drawn whole, and of six,
which are thinned. Costs are asked for the current month, a past one and one to come, with
snapshots too old to be read, reports of both months and reports on a configured project. Renewals are tried around month ends, leap days, the turn of the year and
lunar months that some years lack.

**Symmetry.** Pages are interchangeable in `DashboardRaces`, scheduler and page in
`MailScan`, where web alarms are on, and the two clients in `Services`; no run with a
liveness property uses symmetry.

**Deadlock** is checked in every run of `Monitor`, `Dashboard`, `JobScheduler` and
`MailScan`. `Services`, `SubscriptionRenameBug` and `ProviderDeleteBug` switch it off: their behaviours have a bounded
number of requests and failures, so they end when these are used up, and a chosen input of a
function has no next step.

**Fairness.** `Monitor`: a round that has begun goes on (weak fairness of its steps:
every call has a timeout), time passes, and the scheduler's alerting round comes
again (strong fairness of `Run(Scheduler)` with alerts on: `alert_check` has its own
time of day, and the loop runs one job after the other, so it can only be delayed;
`NobodyStarves` of `JobScheduler` is the claim this rests on). `Dashboard`: the same
per actor. `JobScheduler`: the loop goes on, because a run ends by its timeout at the
latest, and time passes. In `MonitorLive` the clock stops at its bound; `Covered` then
speaks about the last window, which every behaviour reaches.

## 4. Where code and documents disagree

Each of these has a run that shows it (section 3), and an entry in `PROJECT.json`:

- Reported-usage alerts ask the cooldown under the project's id and record under
  `id-usage`, so they repeat at every alerting check.
- `history_retention` is registered without a database, where it fails every day and
  turns `/health` red.
- A rename deletes the row and inserts one, and the insert does not write snooze, time zone
  and webhook: they are lost although `subscription.go` says that only provided fields change.
- A platform can be deleted under a project that names it by its bare name, although
  `docs/API.md` says that this is refused.

Others came up while modelling and are visible in the models, without a run of
their own:

- The budget alerters call the notifier without asking whether there is one (`NilNotifier`),
  although `notify.go` lets callers skip sending without a webhook.
- A page-defined platform cannot be updated (`RefuseSave`): the guard that keeps the names of
  built-in platforms asks the registry, which holds every stored definition.
- A refresh under way during a deletion puts the project back on the dashboard until
  the next round, although `state.go` drops it "right after deletion" (`Apply` after
  `RemoveCard`); `Converges` is what holds.
- Two rounds that pass the cooldown query before either records send twice
  (`OncePerCooldown`, which holds only while pages do not alert and nothing fails:
  `QuietPagesKeepCooldown`).
- `deliver` pushes to browsers before it looks for a webhook and records nothing
  without one: `PushesFollowCooldown` says nothing then.
- A save reads a project, patches it and writes the whole row; an overlapping save of
  another field is lost (`SaveProject`, `UpsertProject`).
- A stored project hides every environment account of its provider (`Config`).
- A failed configuration read looks like an empty configuration, and a round without
  projects counts as fresh (`SetBalance`; the exception in `NeverFresherThanRead`).
- Metrics are published from a copy without a lock, so an older copy may win until
  the next round (`CopyBalance`, `UpdateBalance`).
- An environment-pinned row, a disabled card and a metric all heal with the next round:
  that is `Converges`.
- De-duplication across scans is per mailbox, the mark within a scan is not: a mail copied
  to two mailboxes may be posted once through each, in different scans.
- The mark comes before the mute: if the muted mailbox takes a copied mail first, the
  other mailbox passes it over in that scan (the `everMuted` case of `CleanScanReports`).
- IMAP SINCE compares dates and the de-duplication window instants, so a mail reported
  early in a day may be found and reported again late the next day.
- A rename to the name of an existing subscription replaces it (`Renamed`), and a failed list
  lets "add" overwrite (`Added`).
- An edit writes back every column of the row it read, so one that overlaps another of the
  same row undoes it (`StaleColumns`).
- A lunar day that is over in this lunar year and missing in the next is dated a year from
  today; when the lunar year turns the date of the year after comes into view.
- A default platform whose write fails during the seeding is never added again, since the
  marker is set all the same (`SeedDefault`, `SetMarker`; the `skipped` case of `DefaultsSeeded`).
- A page that sends back the mask of an API key that is no longer stored stores the mask
  (`Patched`; the case `lost` allows in `SecretSurvives`).
- An agent's key named like the page's caller shares that caller's bucket.
- Events pages can list mails older than alerts that the read limit cut; the last page
  says that it is truncated (`query.capped`).
- Files of failed copies count towards `DB_BACKUP_KEEP` until they are verified or pruned.
- On MySQL names that differ in case only are one row (`confused` in `SameRows`).
- Costs are grouped by bare project name, and a configured project without history hides
  what was reported under its name, while the reported-usage alert counts it
  (`OfProjects` in `CountedOnce`).
- The costs of a past month read the snapshots of as many days back from today as that
  month is long (`StepsUnread`), and reported usage without an upper date, so that what was
  reported for later months counts again (`CellsAfter`; both in `CountedOnce`).
- `balance_trend` summarizes the series after thinning, although `trend.go` speaks of "every
  sample of the window": above the chart's cap it tells fewer samples and may tell less
  spending than there was, and less than `spend_summary` (`FlowsConserve`). Thinning drops a
  sample with the time of the one kept before it, an extreme included.

## 5. Proofs

TLAPS checks every theorem below for all values of the constants: any sets of pages,
projects, mailboxes, browsers, keys and names, any cooldown, window and threshold, and
any number of failures and restarts. Where a property is one that a run checks, the run
shows it on a small instance, and its mutant that it can fail.

| Module | Theorem | Says |
|---|---|---|
| `MonitorProofs` | `CooldownKept` | `NoRepeatWithinCooldown` |
| | `QuietPages` | `QuietPagesKeepCooldown` |
| | `FailuresDoNotMute` | `FailuresNeverMute` |
| | `TypeCorrect` | `TypeOK` |
| `DashboardProofs` | `RefreshesSpaced` | `RefreshSpacing` |
| | `GuardComesBack` | a taken refresh guard has a refresh under way that will release it |
| | `FreshnessEarned` | `NeverFresherThanRead` |
| | `TypeCorrect` | `TypeOK` |
| `JobSchedulerProofs` | `SlotsFire` | `SlotsFireOnce` |
| | `ReportedOnce` | `OneReportPerStreak` |
| | `NoEarlyReport` | a report is sent only for a streak that has reached the threshold |
| | `TypeCorrect` | `TypeOK` |
| `MailScanProofs` | `OneEntry` | `OneEntryPerMail` |
| | `NoRepeat` | `NoRepeatWithinWindow` |
| | `CleanScans` | `CleanScanReports`, an action property |
| | `TypeCorrect` | `TypeOK` |
| `SubscriptionsProofs` | `RowsCompose` | `EditsCompose` |
| | `RemindersImplementCooldown` | `RemindersThrottled`: `Subscriptions` implements `Throttle` |
| | `CleanChecksRemind` | `CleanCheckReminds`, an action property |
| | `SubTypeCorrect` | `SubTypeOK` |
| `RegistryProofs` | `PushWorks` | `PushKeepsWorking` |
| | `DefinitionsStay` | `DefinitionsLast`; `SeedingComplete` is its part about the defaults |
| | `FetchSafe` | `FetchSound`: sent once, and the number that is read is the one asked for |
| | `SessionsEnd` | `SessionsEndRight`, an action property |
| | `AgentsInScope` | `AgentsStayInScope` |
| | `BudgetBinds` | `BudgetHolds` |
| `StoreProofs` | `LastBackupKept` | `LastBackupStays` |
| | `SecretsStay` | `SecretsKept` |
| | `EnginesAlike` | `EnginesAgree` |
| | `PastIsExact` | `HistoryExact`: pages and counts |
| `FiguresProofs` | `SpendingInvariance` | `SpendingAgrees`, from `EstimatesRead`, `NothingIsLost` and `ReportReads` |
| | `CostsInvariance` | `CostsExact`, from `EveryMonthSplits` and `EveryCostOnce` |
| | `ChartInvariance` | `ChartKeepsShape`, from `ShapeIsKept` |
| | `RenewalsInvariance` | `RenewalsRight`, from `RenewalComesFirst` and `MarkPaysOnce` |
| | `SpendIsWhole` | `SpendIsOneReport` |

Each of them rests on an inductive invariant, itself a theorem (`Invariance` in the
modules about one component; `SubInvariance`, `PushInvariance`, `ProvInvariance`,
`BackupInvariance`, `EnginesInvariance`, `HistoryInvariance`, `UsageInvariance`,
`SessionInvariance`, `McpInvariance`). A proof
has one lemma for an action or a few alike, and under it a step for each conjunct the
action can disturb; what most actions leave alone is a lemma of its own (`Harmless`,
`OutsideStep`, `InsideStep`, `QuietKeeps`, `OutdatedKeeps`, `StatementStep`). The theorems
about `Figures` need no more of a state than that its input is sane (`InputsAreSane`); their
work is in the theorems about one input that the table names.

**Why the invariants say more than the properties.**

- *Alerts.* `NoRepeatWithinCooldown` is not inductive: when the clock is past the query,
  only the store and the other actors can tell what has been delivered. `IInv` adds, for
  every key that is not tainted: one delivery in flight at most (`OneInFlight`); a delivery
  past its query sees no row that still cools (`PastQuery`); whatever was accepted is a
  cooldown ago, in the store, or about to be recorded (`Remembered`); and rows of a key are a
  cooldown apart (`RowsSpaced`), which is why `LastSentAlert`'s row limit can never hide a row
  that still cools. `WindowCovers` shows that the query's whole-day window is at least the
  cooldown.
- *Dashboard.* `GuardInv` ties the refresh guard to the one request that holds it; nothing
  in the code says who does.
- *Scheduler.* `IsNext`: `wait[t]` is the first slot of the task after now. That one tick
  less is still the first slot, over the end of the period, is arithmetic of `%` (`Turn`).
- *Mail.* `RepeatInv`: unless something defeated the de-duplication of a mail, one scan at a
  time reports it, and what was accepted is recorded, about to be, or too old for any scan.
  `CleanInv`: a scan without a failure has not lost track of what it found.
- *Subscriptions.* `RenamesCompose` describes what the second half of a rename will write and
  which of its columns are stale already (`gone`), `GraceInv` and `CheckInv` what a check under way has seen and which excuse each early
  reminder has. The refinement then needs only that a delivery whose key is still cooling
  has an excuse to use up.
- *Push.* `MutexInv` makes the actor that resolves the pair the only one; `PairInv` says
  that a stored private key that fits no public one is about to be replaced unless two
  things went wrong; `OnePairInv` that without a failure everything in use is what is stored.
- *Providers.* `Sound` says what each load under way relies on: a list that is still fresh is
  the table, and a load that seeds knows only of edits that are already contested, because
  while the marker is unset all edits are. `SowingInv`: a default that such a load has
  found or is done with has its row, was touched by the page, or was skipped.
- *Backups, secrets, sessions, keys, engines.* Which file may not go (`LastInv`), who may
  still rewrite (`RewriteInv`), whose key signed a cookie (`CookieInv`), what a bucket has
  given out (`FlowInv`), and that engines tell keys apart alike unless two are confused.
- *History.* While an agent reads a list to its end, every row that was there at the start
  is on a page, lies after the cursor among what the next read will find, or has a full read
  of rows beside or after it (`KeptInv`, `FoundInv`, `Deep`); rows only arrive, so the last
  two stay so, and a read that is not capped misses none. A page needs that distinct
  positions are numbered without gaps: an injection into as many numbers is onto. The counts
  by kind are taken later than the total over the same window, so they can only be more;
  that the kinds sum to a cardinality is a lemma (`SumOfKinds`).
- *Usage.* `UsageInv`: an open transaction holds the first entries of its report, a closed
  one nothing, and what is committed is the rows of one report or none. That a whole batch
  leaves exactly its own rows (`BatchStores`), and that rows and entries sum to the same
  whatever the order (`SumOrder`, `SumImage`), are facts about folds.
- *Fetches.* `Verdict`: what was read is what `Extracted` makes of the last answer, which
  passed the platform's own check. What it makes of it is two lemmas: the least percentage of
  the windows that reset soon (`WindowReading`), and the total of the first account that a
  filter names (`AccountRead`).

- *Spending.* The estimates walk the snapshots and add to three totals; the summaries sum
  over sets of positions. A trace of the fold (`FlowTrace`) shows them equal. Spending less
  top-ups telescopes to what the balance lost (`FlowsBalance`); the days are a partition of
  the steps, and a sum over a partition is the sum of the parts' sums (`SumOfParts`,
  `ViewSums`). What `balance_trend` tells is about the drawn series (`SummaryTellsAll`), which
  has the ends and the extremes of all rows (`DrawnCharts`); between two drawn points at least
  as much was spent as the balance lost (`SpentBetween`), so a chart tells no more spending
  than the rows (`ChartSpendsLess`).
  `Grouped` is the invariant of `bucket`: which snapshots the points so far hold, in which
  order and range. A stable sort puts a list in an order that is total (`ArrangedFacts`), so
  whoever is missing from the weekly chart spent no more than the last on it.
- *Costs.* Of a name's steps within a month, those whose first snapshot is too old are missed
  and the others are read (`ReadAndMissed`): the rows that are read are the end of all of
  them, so neighbours there are neighbours in the table (`SideBySide`), and what counts as now
  cuts them at the month's end (`MonthFacts`). In the current month the read goes back past the
  day before it (`NothingMissed`). Reports are grouped by name, source and currency, and the
  sums of the groups are the sum of the cells (`SumOfGroups`, `ReportsAddUp`), whose worth adds
  up over months and over names (`WorthFacts`).
- *Charts.* The bucket of the next position that is looked at is a later one (`EndFacts`:
  rounding down and up of the same quotients), so there are at most as many picks as twice
  the buckets; each pick stands for its bucket, since it has the bucket's extremes
  (`StandsFor`), and the picks of consecutive buckets stand for all of it (`FollowsFacts`).
  `DrawnSoFar` is the invariant of the last loop, which drops a point at the time of the one
  before it: with distinct times that is the same point.
- *Renewals.* A day number has one date and a date one number, and both are in the same order
  (`Civil`, `CivilOf`, `CivilIs`, `CivilOrder`, from the lengths of years and months). "The
  day of the month, or its last if the month is shorter" is then the day `safeMonthDate`
  gives (`ClampedDay`), so a schedule has one renewal in each of its months, and the code's
  two candidates, this period's and the next one's, are the first two it can have
  (`WeeklyNext`, `MonthlyNext`, `YearlyNext`). A lunar year holds its own months and its
  renewal, if it has one (`LunarPlace`), so the same goes for two lunar years (`LunarNext`);
  `LunarOver` is the case in which neither has one. For the marks only two facts about a
  schedule are needed: `onOrAfter` is the first renewal and `before` is no later. What a mark
  covers is then the next renewal after it or an earlier day (`CoveredIs`), and a day is due
  if the next renewal is in its window and not covered (`DueIs`).

**Folds.** The community modules define a fold by a recursive function over the subsets of
its set. The induction that this needs is done by hand, on the least size for which a fact
fails (`LeastOfNat`, from the well-foundedness of `<`): the function exists (`FoldExists`,
`FoldLeftExists`), and what it computes follows the same way. The library's induction rules
take an operator as a parameter and cannot be used.

**Assumptions.** Every one is a named `ASSUME` in the module of its constants and is
evaluated by TLC in the runs of that module: the kinds of the constants
(`MonitorAssumption` and its like, `TableAssumption`, `BackupAssumption`,
`SessionAssumption`, `McpAssumption`, `SubscriptionAssumption`, `HistoryAssumption`; in
`SchedulerAssumption` also that the task list is a sequence), and some that say more:

- `TrendAssumption`: a chart has room for two points (the code's cap is 600; with less than
  two there would be no bucket to divide by).
- `FiguresAssumption`: inputs are sane, as described under *Spend*. Strict order is needed
  for charts and trends: of two snapshots of the same instant a chart keeps one.
- `FiguresAssumption` also says of a renewal that its day is one `validRenewalDay` accepts,
  which the handlers check, that days are positive, and that a lunar plan is looked at on
  days the table knows. The library knows more years; the model's table ends.
- `RetentionAssumption` and `MailRetention`: rows are kept at least as long as the cooldown
  or window that reads them. The defaults satisfy them; the code does not enforce them.
- `FetchAssumption`: numbers in windows and accounts are whole (the model counts in the
  smallest unit; the code has floats), a list of accounts is a list, and a definition that
  says which account it wants (`wants`, a field of the model only) has the path that reads it.
- `UsageAssumption`: the reports that are not refused are of the same cells and name each
  once. This is what `SpendIsOneReport` is about, not something the handler checks: a report
  of other cells adds to what is there, and a cell named twice keeps its last entry.

**What proving changed.** Four definitions were wrong outside the small instances:

- `SaveSecret` still counted a secret as sealed when a process without a key saved what it
  had read before another process's write: that puts the old plain text over the new
  ciphertext. The history variable now compares with what is stored.
- `RemoveRenamed` did not count an edit that is overtaken between the two statements of a
  rename as a race; it does now (`gone`, `amiss`).
- `CleanCheckReminds` asked for a reminder younger than the cooldown; a cooldown of zero is a
  legal setting, so a reminder of this very moment is enough, too.
- `EarliestRenewal` excused a lunar day only when this year and the next both lack it; the
  code also dates it a year ahead when this year's is already over, and the reference says so
  now. `Services` looks at such days, too.

**What stays with TLC.**

- Liveness (`MonitorLive`, `DashboardLive`, `Scheduler`): the proof system has no rule for
  fairness here.
- That the table of lunar months and the arithmetic of package `time` are the real
  calendars: both are external. The proofs use what the model says of them.

## 6. Not modelled

- Message formats and webhook payloads (`internal/notify`): wording. Whether a message is
  accepted is in `Monitor`.
- Server-sent events: a stream of row counts, polled, without state of its own.
- Settings other than the keys: parsing into what the models have as constants.
- Migrations, connection strings, the cipher, the request signatures of two platforms
  (`provider/sign.go`): opaque here.
- IMAP and MIME decoding and keyword matching: the parameter `Matching` of `MailScan`.
- The agents' status and dashboard tools: they reshape the state of `Dashboard`.
- Self-check and legacy import: one-shot tools; the import is a sequence of the upserts of
  `Tables`.
- The wording of the weekly report, and the UI.

## 7. Plan

1. **Done** `AlertStore`, `Monitor`, `MonitorProofs`: the alert path, its cooldowns
   and their proof.
2. **Done** `Dashboard`: state, configuration, handlers, metrics.
3. **Done** `JobScheduler`: loop, job table, escalation.
4. **Done** `MailScan`: concurrent mailboxes, the two layers of de-duplication.
5. **Done** `Throttle`, `Subscriptions`, `Calendar`: edits, reminders, renewal dates.
6. **Done** `Push`, `Providers`, `Extract`, `Secrets`, `Sessions`, `McpAccess`.
7. **Done** `Tables`, `Engines`, `Usage`, `History`, `Spend`, `Backups`.
8. **Done** Proofs of the dashboard, the scheduler, the mail scanner, subscriptions and
   their refinement, push, providers, fetches, backups, secrets, engines, sessions and keys.
9. **Done** Pages and counts of the past, fetches up to the account a filter names, and
   reported usage up to its sum.
10. **Done** `Figures` and its proofs: estimates, summaries, trends, costs, charts and the
    weekly report agree for every input.
11. **Done** The two calendars, so that `RenewalsRight` is proved for every date and mark.
