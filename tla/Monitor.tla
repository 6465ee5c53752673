-------------------------------- MODULE Monitor --------------------------------
(***************************************************************************)
(* Balance monitoring rounds and the alerts they send                      *)
(* (src/internal/monitor, runway/alerts.go, cost/alerter.go).              *)
(*                                                                         *)
(* An actor runs rounds of Monitor.Run: the scheduler's loop (the jobs     *)
(* alert_check and dashboard_refresh, one at a time) and HTTP handlers     *)
(* (manual refresh, project edits), which nothing keeps apart from the     *)
(* scheduler.  A round checks its projects on a worker pool, then judges   *)
(* budgets, reported usage and trends one project at a time.  Whatever     *)
(* wants to notify goes through the same three steps: ask the store        *)
(* whether this kind of alert is cooling down, post the webhook, record    *)
(* the outcome.  The clock may advance between any two steps.              *)
(***************************************************************************)
EXTENDS AlertStore

CONSTANTS
  Projects,        \* enabled projects
  Scheduler,       \* the scheduler's loop
  Pages,           \* concurrent HTTP handlers that run a round
  Creds,           \* provider + API key pairs
  CredOf,          \* the credential of a project; two projects may share one
  Readings,        \* what an upstream may answer: balances, and Unreadable for an error
  Threshold,       \* alert threshold of a project
  Workers,         \* MAX_CONCURRENT_CHECKS
  Cooldown,        \* ALERT_COOLDOWN_SECONDS
  TTL,             \* RESPONSE_CACHE_TTL
  EnableWebAlarm,  \* ENABLE_WEB_ALARM
  Webhooks,        \* is WEBHOOK_URL set?  The settings to explore
  HasPush,         \* is a browser registered for push?
  Budgeted,        \* projects with a monthly budget
  UsageReported,   \* projects a local tool reports spend for
  TrendAlerts,     \* are runway / spike alerts switched on?
  MaxFaults,       \* bound: failures of store, webhook and process
  MaxTime          \* bound: last clock tick

ASSUME MonitorAssumption ==
  /\ CredOf \in [Projects -> Creds]
  /\ Readings \subseteq Nat \cup {-1}
  /\ Threshold \in [Projects -> Nat]
  /\ Workers \in Nat \ {0}
  /\ Cooldown \in Nat
  /\ TTL \in Nat
  /\ {EnableWebAlarm, HasPush, TrendAlerts} \subseteq BOOLEAN
  /\ Webhooks \subseteq BOOLEAN
  /\ Budgeted \subseteq Projects
  /\ UsageReported \subseteq Projects
  /\ MaxFaults \in Nat
  /\ MaxTime \in Nat
  /\ Scheduler \notin Pages

\* A row has to outlive the cooldown that reads it.  The defaults (730 and 31
\* days against one day) do; nothing in the code enforces it.
ASSUME RetentionAssumption == Cooldown <= Retention

VARIABLES
  now,        \* the clock
  credits,    \* what the upstream says of a credential: a balance, or Unreadable
  cache,      \* responseCache: a set of at most one entry per credential
  saved,      \* balance_history: when a reading of a project was last saved
  alerts,     \* rows of the alert store
  phase,      \* phase of an actor's round
  dry,        \* its dryRun argument
  pc,         \* progress of one project in an actor's round
  src,        \* the alert that project is about to deliver
  res,        \* its check result in this round
  faults,     \* failures so far
  delivered,  \* history: when a webhook was last accepted, per project and kind
  pushed,     \* history: when a push notification last went out
  tainted,    \* history: keys whose cooldown something has defeated
  webhook     \* is WEBHOOK_URL set?  Read once at startup

vars == <<now, credits, cache, saved, alerts, phase, dry, pc, src, res, faults,
          delivered, pushed, tainted, webhook>>

Actors == {Scheduler} \cup Pages
Sources == {"low_balance", "check_failed", "budget", "usage", "low_runway", "spend_spike"}
Keys == Projects \X Sources
Phases == {"idle", "check", "budget", "usage", "trend"}
Never == -1
Unreadable == -1
Balances == Readings \ {Unreadable}
Active == {"fetch", "query", "send", "sent", "failed", "spike"}
Stages == Active \cup {"idle", "queued", "done"}

-------------------------------------------------------------------------------
(* Cooldown keys.  Reported-usage alerts ask under the project's budget     *)
(* key but record under an id of their own, id + "-usage".                  *)

\* Mutants: the record loses the kind; a spike is recorded under the runway's key.
RecordKeyUntyped(p, s) == <<p, "alert">>
RecordKeySpikeAsRunway(p, s) == <<p, IF s = "spend_spike" THEN "low_runway" ELSE s>>

QueryKey(p, s) == <<p, IF s = "usage" THEN "budget" ELSE s>>
RecordKey(p, s) == <<p, s>>

\* Kinds that go through Monitor.deliver: they push, and record failed sends.
ByDeliver == {"low_balance", "check_failed"}

\* Kinds that call the notifier without asking whether there is one.
Unguarded == {"budget", "usage"}

\* Mutant: whatever the look-back window returns counts as cooling down.
CoolingDownWindow(p, s) ==
  IF s \in ByDeliver
  THEN LastSentAlert(alerts, QueryKey(p, s), Cooldown, now) # {}
  ELSE HasRecentAlert(alerts, QueryKey(p, s), Cooldown, now)

\* deliver compares the newest sent row with the clock; the trend and budget
\* alerters ask HasRecentAlert.
CoolingDown(p, s) ==
  IF s \in ByDeliver
  THEN \E at \in LastSentAlert(alerts, QueryKey(p, s), Cooldown, now) : now < at + Cooldown
  ELSE HasRecentAlert(alerts, QueryKey(p, s), Cooldown, now)

\* Where a project goes once the delivery of alert s is over: the trend alerter
\* asks about a spike after it is done with the runway.
Finish(s) == IF s = "low_runway" THEN "spike" ELSE "done"

Busy(a) == {p \in Projects : pc[a][p] \in Active}

-------------------------------------------------------------------------------
Init ==
  /\ now = 0
  /\ credits \in [Creds -> Readings]
  /\ cache = {}
  /\ saved = [p \in Projects |-> Never]
  /\ alerts = {}
  /\ phase = [a \in Actors |-> "idle"]
  /\ dry = [a \in Actors |-> TRUE]
  /\ pc = [a \in Actors |-> [p \in Projects |-> "idle"]]
  /\ src = [a \in Actors |-> [p \in Projects |-> "none"]]
  /\ res = [a \in Actors |-> [p \in Projects |-> "none"]]
  /\ faults = 0
  /\ delivered = [k \in Keys |-> Never]
  /\ pushed = [k \in Keys |-> Never]
  /\ tainted = {}
  /\ webhook \in Webhooks

\* Mutant: the pages ignore ENABLE_WEB_ALARM.
DryRunsLoudPages(a) == IF a = Scheduler THEN {FALSE, ~EnableWebAlarm} ELSE {FALSE}

\* alert_check always notifies; the dashboard refresh and the pages only with
\* ENABLE_WEB_ALARM.
DryRuns(a) == IF a = Scheduler THEN {FALSE, ~EnableWebAlarm} ELSE {~EnableWebAlarm}

\* A job covers every enabled project; a page may ask for a single one.
Selections(a) == {Projects} \cup (IF a = Scheduler THEN {} ELSE {{p} : p \in Projects})

Run(a) ==
  /\ phase[a] = "idle"
  /\ \E d \in DryRuns(a), sel \in Selections(a) :
       /\ sel # {}
       /\ dry' = [dry EXCEPT ![a] = d]
       /\ pc' = [pc EXCEPT ![a] = [p \in Projects |-> IF p \in sel THEN "queued" ELSE "idle"]]
  /\ phase' = [phase EXCEPT ![a] = "check"]
  /\ UNCHANGED <<now, credits, cache, saved, alerts, src, res, faults, delivered, pushed, tainted, webhook>>

-------------------------------------------------------------------------------
(* CheckProject                                                             *)

\* The balance is known: save it and judge it against the threshold.  Without a
\* database there is no history to save it to, and a failed save is only logged;
\* the model keeps the readings a budget looks at.
Judge(a, p, balance) ==
  LET low == balance < Threshold[p]
      alerting == low /\ ~dry[a]
  IN  /\ \/ Persistent /\ p \in Budgeted /\ saved' = [saved EXCEPT ![p] = now]
         \/ saved' = saved
      /\ res' = [res EXCEPT ![a][p] = IF low THEN "low" ELSE "ok"]
      /\ pc' = [pc EXCEPT ![a][p] = IF alerting THEN "query" ELSE "done"]
      /\ src' = [src EXCEPT ![a][p] = IF alerting THEN "low_balance" ELSE "none"]

\* The check could not read the balance (Monitor.failure).
Failure(a, p) ==
  /\ res' = [res EXCEPT ![a][p] = "failed"]
  /\ pc' = [pc EXCEPT ![a][p] = IF dry[a] THEN "done" ELSE "query"]
  /\ src' = [src EXCEPT ![a][p] = IF dry[a] THEN "none" ELSE "check_failed"]
  /\ UNCHANGED saved

Fresh(e) == TTL > 0 /\ now - e.at < TTL

\* A worker takes the project from the queue.  A cached reading younger than
\* the TTL is judged at once; an expired one is dropped and fetched anew.
CheckProject(a, p) ==
  LET entries == {e \in cache : e.cred = CredOf[p]}
      hits == {e \in entries : Fresh(e)}
  IN  /\ phase[a] = "check"
      /\ pc[a][p] = "queued"
      /\ Cardinality(Busy(a)) < Workers
      /\ \/ /\ \E e \in hits : Judge(a, p, e.credits)
            /\ UNCHANGED cache
         \/ /\ hits = {}
            /\ cache' = IF TTL > 0 THEN cache \ entries ELSE cache
            /\ pc' = [pc EXCEPT ![a][p] = "fetch"]
            /\ UNCHANGED <<saved, src, res>>
      /\ UNCHANGED <<now, credits, alerts, phase, dry, faults, delivered, pushed, tainted, webhook>>

\* The upstream answers.  A balance enters the cache and is judged; an error
\* (a revoked key, an outage) fails the check.
Fetch(a, p) ==
  LET c == CredOf[p] IN
  /\ pc[a][p] = "fetch"
  /\ IF credits[c] = Unreadable
     THEN Failure(a, p) /\ UNCHANGED cache
     ELSE /\ Judge(a, p, credits[c])
          /\ cache' = IF TTL = 0 THEN cache
                      ELSE {e \in cache : e.cred # c} \cup {[cred |-> c, at |-> now, credits |-> credits[c]]}
  /\ UNCHANGED <<now, credits, alerts, phase, dry, faults, delivered, pushed, tainted, webhook>>

\* No adapter for the provider: the check fails before it looks at the cache.
NoAdapter(a, p) ==
  /\ phase[a] = "check"
  /\ pc[a][p] = "queued"
  /\ Cardinality(Busy(a)) < Workers
  /\ faults < MaxFaults
  /\ faults' = faults + 1
  /\ Failure(a, p)
  /\ UNCHANGED <<now, credits, cache, alerts, phase, dry, delivered, pushed, tainted, webhook>>

-------------------------------------------------------------------------------
(* Delivery: deliver, emit and the budget alerters                          *)

\* Is another actor between its cooldown query and its record, for the same alert?
Overlapping(a, p, s) ==
  \E b \in Actors \ {a} : pc[b][p] \in {"send", "sent", "failed"} /\ src[b][p] = s

\* The alert is not cooling down as far as this check knows: push, then go on to
\* the webhook if there is one.
Proceed(a, p, s) ==
  /\ webhook \/ s \notin Unguarded
  /\ pushed' = IF HasPush /\ s \in ByDeliver THEN [pushed EXCEPT ![<<p, s>>] = now] ELSE pushed
  /\ pc' = [pc EXCEPT ![a][p] = IF webhook THEN "send" ELSE Finish(s)]
  /\ src' = [src EXCEPT ![a][p] = IF webhook THEN s ELSE "none"]

\* Mutant: the push goes out before the cooldown is asked for.
QueryCooldownPushFirst(a, p) ==
  LET s == src[a][p] IN
  /\ pc[a][p] = "query"
  /\ pushed' = IF HasPush /\ s \in ByDeliver THEN [pushed EXCEPT ![<<p, s>>] = now] ELSE pushed
  /\ pc' = [pc EXCEPT ![a][p] = IF CoolingDown(p, s) THEN Finish(s) ELSE "send"]
  /\ src' = [src EXCEPT ![a][p] = IF CoolingDown(p, s) THEN "none" ELSE s]
  /\ tainted' = IF Overlapping(a, p, s) THEN tainted \cup {<<p, s>>} ELSE tainted
  /\ UNCHANGED <<now, credits, cache, saved, alerts, phase, dry, res, faults, delivered, webhook>>

QueryCooldown(a, p) ==
  LET s == src[a][p] IN
  /\ pc[a][p] = "query"
  /\ IF CoolingDown(p, s)
     THEN /\ pc' = [pc EXCEPT ![a][p] = Finish(s)]
          /\ src' = [src EXCEPT ![a][p] = "none"]
          /\ UNCHANGED <<pushed, tainted>>
     ELSE /\ Proceed(a, p, s)
          /\ tainted' = IF Overlapping(a, p, s) THEN tainted \cup {<<p, s>>} ELSE tainted
  /\ UNCHANGED <<now, credits, cache, saved, alerts, phase, dry, res, faults, delivered, webhook>>

\* A failing query counts as not cooling down; the map of the Volatile store
\* cannot fail.
QueryFails(a, p) ==
  LET s == src[a][p] IN
  /\ pc[a][p] = "query"
  /\ Persistent
  /\ faults < MaxFaults
  /\ faults' = faults + 1
  /\ Proceed(a, p, s)
  /\ tainted' = tainted \cup {<<p, s>>}
  /\ UNCHANGED <<now, credits, cache, saved, alerts, phase, dry, res, delivered, webhook>>

\* The webhook accepts.
Send(a, p) ==
  /\ pc[a][p] = "send"
  /\ pc' = [pc EXCEPT ![a][p] = "sent"]
  /\ delivered' = [delivered EXCEPT ![<<p, src[a][p]>>] = now]
  /\ UNCHANGED <<now, credits, cache, saved, alerts, phase, dry, src, res, faults, pushed, tainted, webhook>>

\* The webhook is unreachable, refuses, or accepts and its answer is lost: after
\* the retries of notify.Send the caller sees an error.  Only deliver keeps a
\* record of it.
SendFails(a, p) ==
  LET s == src[a][p] IN
  /\ pc[a][p] = "send"
  /\ faults < MaxFaults
  /\ faults' = faults + 1
  /\ \/ UNCHANGED <<delivered, tainted>>
     \/ /\ delivered' = [delivered EXCEPT ![<<p, s>>] = now]
        /\ tainted' = tainted \cup {<<p, s>>}
  /\ IF s \in ByDeliver
     THEN /\ pc' = [pc EXCEPT ![a][p] = "failed"]
          /\ UNCHANGED src
     ELSE /\ pc' = [pc EXCEPT ![a][p] = Finish(s)]
          /\ src' = [src EXCEPT ![a][p] = "none"]
  /\ UNCHANGED <<now, credits, cache, saved, alerts, phase, dry, res, pushed, webhook>>

RecordAlert(a, p) ==
  LET s == src[a][p] IN
  /\ pc[a][p] \in {"sent", "failed"}
  /\ alerts' = SaveAlert(alerts, RecordKey(p, s), pc[a][p], now)
  /\ pc' = [pc EXCEPT ![a][p] = Finish(s)]
  /\ src' = [src EXCEPT ![a][p] = "none"]
  /\ UNCHANGED <<now, credits, cache, saved, phase, dry, res, faults, delivered, pushed, tainted, webhook>>

\* Saving the row fails; every caller only logs it.
RecordFails(a, p) ==
  LET s == src[a][p] IN
  /\ pc[a][p] \in {"sent", "failed"}
  /\ Persistent
  /\ faults < MaxFaults
  /\ faults' = faults + 1
  /\ pc' = [pc EXCEPT ![a][p] = Finish(s)]
  /\ src' = [src EXCEPT ![a][p] = "none"]
  /\ tainted' = IF pc[a][p] = "sent" THEN tainted \cup {<<p, s>>} ELSE tainted
  /\ UNCHANGED <<now, credits, cache, saved, alerts, phase, dry, res, delivered, pushed, webhook>>

-------------------------------------------------------------------------------
(* After the checks: Monitor.analyze                                        *)

\* checkBudgets, then the trends; none of it without a database.  Whether the
\* history says a budget is overrun, a runway is short or today is a spike is an
\* input.
AfterBudgets == IF TrendAlerts THEN "trend" ELSE "idle"

NextPhase(ph) ==
  CASE ph = "check" /\ ~Persistent -> "idle"
    [] ph = "check" /\ Persistent -> IF Budgeted # {} THEN "budget" ELSE AfterBudgets
    [] ph = "budget" -> "usage"
    [] ph = "usage" -> AfterBudgets
    [] OTHER -> "idle"

RoundDone(a) == \A p \in Projects : pc[a][p] \in {"idle", "done"}

\* The next phase looks at the same projects again.
Advance(a) ==
  LET next == NextPhase(phase[a]) IN
  /\ phase[a] # "idle"
  /\ RoundDone(a)
  /\ phase' = [phase EXCEPT ![a] = next]
  /\ pc' = [pc EXCEPT ![a] = [p \in Projects |->
               IF next # "idle" /\ @[p] = "done" THEN "queued" ELSE "idle"]]
  /\ res' = [res EXCEPT ![a] = [p \in Projects |-> IF next = "idle" THEN "none" ELSE @[p]]]
  /\ UNCHANGED <<now, credits, cache, saved, alerts, dry, src, faults, delivered, pushed, tainted, webhook>>

\* A read of the history fails and the phase is skipped.
SkipPhase(a) ==
  /\ phase[a] \in {"budget", "usage", "trend"}
  /\ faults < MaxFaults
  /\ \A p \in Projects : pc[a][p] \in {"idle", "queued"}
  /\ faults' = faults + 1
  /\ pc' = [pc EXCEPT ![a] = [p \in Projects |-> IF @[p] = "queued" THEN "done" ELSE "idle"]]
  /\ UNCHANGED <<now, credits, cache, saved, alerts, phase, dry, src, res, delivered, pushed, tainted, webhook>>

\* These loops take one project after the other; the model lets them pick any
\* order.
NextInLoop(a, p, ph) ==
  /\ phase[a] = ph
  /\ pc[a][p] = "queued"
  /\ Busy(a) = {}

\* A due alert goes on to its cooldown query, unless the round is a dry run.
Raise(a, p, due, s, otherwise) ==
  /\ pc' = [pc EXCEPT ![a][p] = IF due /\ ~dry[a] THEN "query" ELSE otherwise]
  /\ src' = [src EXCEPT ![a][p] = IF due /\ ~dry[a] THEN s ELSE "none"]
  /\ UNCHANGED <<now, credits, cache, saved, alerts, phase, dry, res, delivered, pushed, tainted, webhook>>

\* Without a saved reading there is no spend to project.
BudgetCheck(a, p) ==
  /\ NextInLoop(a, p, "budget")
  /\ \E overrun \in BOOLEAN :
       Raise(a, p, overrun /\ p \in Budgeted /\ saved[p] # Never, "budget", "done")
  /\ UNCHANGED faults

\* A project with a balance reading of the last day is left to BudgetCheck.
CheckUsage(a, p) ==
  /\ NextInLoop(a, p, "usage")
  /\ \E overrun \in BOOLEAN :
       Raise(a, p, /\ overrun
                   /\ p \in Budgeted \cap UsageReported
                   /\ saved[p] = Never \/ saved[p] < now - Day, "usage", "done")
  /\ UNCHANGED faults

\* The readings of the last day cannot be read, and no project is left out.
CheckUsageBlind(a, p) ==
  /\ NextInLoop(a, p, "usage")
  /\ faults < MaxFaults
  /\ \E overrun \in BOOLEAN :
       Raise(a, p, overrun /\ p \in Budgeted \cap UsageReported, "usage", "done")
  /\ faults' = faults + 1

\* A failed check has no profile; a project already below its threshold is not
\* told about its runway as well.
RunwayCheck(a, p) ==
  /\ NextInLoop(a, p, "trend")
  /\ \E short \in BOOLEAN :
       Raise(a, p, short /\ res[a][p] = "ok", "low_runway",
             IF res[a][p] = "failed" THEN "done" ELSE "spike")
  /\ UNCHANGED faults

SpikeCheck(a, p) ==
  /\ phase[a] = "trend"
  /\ pc[a][p] = "spike"
  /\ \E spike \in BOOLEAN : Raise(a, p, spike, "spend_spike", "done")
  /\ UNCHANGED faults

-------------------------------------------------------------------------------
(* Environment                                                              *)

Tick ==
  /\ now < MaxTime
  /\ now' = now + 1
  /\ UNCHANGED <<credits, cache, saved, alerts, phase, dry, pc, src, res, faults, delivered, pushed, tainted, webhook>>

Upstream ==
  /\ \E c \in Creds, v \in Readings : v # credits[c] /\ credits' = [credits EXCEPT ![c] = v]
  /\ UNCHANGED <<now, cache, saved, alerts, phase, dry, pc, src, res, faults, delivered, pushed, tainted, webhook>>

\* The job history_retention, which the scheduler runs between its rounds.
PruneHistory ==
  /\ Persistent
  /\ phase[Scheduler] = "idle"
  /\ alerts' = PruneHistoryBefore(alerts, now - Retention)
  /\ alerts' # alerts
  /\ UNCHANGED <<now, credits, cache, saved, phase, dry, pc, src, res, faults, delivered, pushed, tainted, webhook>>

\* The rounds of actors S end where they are, and with them the record of a
\* webhook accepted but not yet saved.
RoundsLost(S) ==
  /\ phase' = [a \in Actors |-> IF a \in S THEN "idle" ELSE phase[a]]
  /\ pc' = [a \in Actors |-> IF a \in S THEN [p \in Projects |-> "idle"] ELSE pc[a]]
  /\ src' = [a \in Actors |-> IF a \in S THEN [p \in Projects |-> "none"] ELSE src[a]]
  /\ res' = [a \in Actors |-> IF a \in S THEN [p \in Projects |-> "none"] ELSE res[a]]

Unrecorded(S) ==
  {k \in Keys : \E a \in S : pc[a][k[1]] = "sent" /\ src[a][k[1]] = k[2]}

\* The process dies and is started again: all rounds, the cache and the Volatile
\* store are gone.
ProcessLost ==
  /\ RoundsLost(Actors)
  /\ cache' = {}
  /\ alerts' = IF Persistent THEN alerts ELSE {}
  /\ tainted' = IF Persistent THEN tainted \cup Unrecorded(Actors) ELSE Keys

Restart ==
  /\ faults < MaxFaults
  /\ faults' = faults + 1
  /\ ProcessLost
  /\ UNCHANGED <<now, credits, saved, dry, delivered, pushed, webhook>>

\* A budget alerter that is not cooling down, or cannot find out, calls the nil
\* notifier.  withRecovery ends a page's request,
\* and its round stops there; the scheduler has no recover and takes the process
\* with it.
NilNotifier(a, p) ==
  /\ pc[a][p] = "query"
  /\ src[a][p] \in Unguarded
  /\ ~webhook
  /\ \/ ~CoolingDown(p, src[a][p]) /\ UNCHANGED faults
     \/ faults < MaxFaults /\ faults' = faults + 1
  /\ IF a = Scheduler THEN ProcessLost
     ELSE /\ RoundsLost({a})
          /\ tainted' = tainted \cup Unrecorded({a})
          /\ UNCHANGED <<cache, alerts>>
  /\ UNCHANGED <<now, credits, saved, dry, delivered, pushed, webhook>>

\* The steps of a round that runs to its end.
Step(a) ==
  \/ Advance(a)
  \/ \E p \in Projects :
       \/ CheckProject(a, p) \/ Fetch(a, p)
       \/ QueryCooldown(a, p) \/ Send(a, p) \/ RecordAlert(a, p)
       \/ BudgetCheck(a, p) \/ CheckUsage(a, p) \/ RunwayCheck(a, p) \/ SpikeCheck(a, p)
       \/ NilNotifier(a, p)

Fault(a) ==
  \/ SkipPhase(a)
  \/ \E p \in Projects :
       \/ NoAdapter(a, p) \/ QueryFails(a, p) \/ SendFails(a, p) \/ RecordFails(a, p)
       \/ CheckUsageBlind(a, p)

Next ==
  \/ \E a \in Actors : Run(a) \/ Step(a) \/ Fault(a)
  \/ Tick
  \/ Upstream
  \/ PruneHistory
  \/ Restart

Spec == Init /\ [][Next]_vars

\* alert_check comes round every day whatever the other jobs do, and a round that
\* has begun runs to its end.
Fairness ==
  /\ SF_vars(Run(Scheduler) /\ dry'[Scheduler] = FALSE)
  /\ \A a \in Actors : WF_vars(Step(a))
  /\ WF_vars(Tick)

FairSpec == Spec /\ Fairness

-------------------------------------------------------------------------------
(* Properties                                                               *)

\* The world outside and what the store and the cache keep of it.
StoreTypes ==
  /\ now \in Nat
  /\ credits \in [Creds -> Readings]
  /\ cache \subseteq [cred : Creds, at : Nat, credits : Balances]
  /\ saved \in [Projects -> Nat \cup {Never}]
  /\ alerts \subseteq [key : Keys, status : Statuses, at : Nat]

\* The tables of the rounds under way.
RoundTypes ==
  /\ phase \in [Actors -> Phases]
  /\ pc \in [Actors -> [Projects -> Stages]]
  /\ src \in [Actors -> [Projects -> Sources \cup {"none"}]]
  /\ res \in [Actors -> [Projects -> {"none", "ok", "low", "failed"}]]

HistoryTypes ==
  /\ faults \in 0 .. MaxFaults
  /\ delivered \in [Keys -> Nat \cup {Never}]
  /\ pushed \in [Keys -> Nat \cup {Never}]
  /\ tainted \subseteq Keys

FlagTypes ==
  /\ dry \in [Actors -> BOOLEAN]
  /\ webhook \in Webhooks

\* Every variable stays in its type.
TypeOK == StoreTypes /\ RoundTypes /\ HistoryTypes /\ FlagTypes

\* No webhook for this key was accepted less than a cooldown ago.
Rested(k) == delivered[k] = Never \/ delivered[k] + Cooldown <= now

\* A check that is about to post an alert does so at least a cooldown after the
\* webhook last accepted one of the same project and kind, unless something has
\* defeated this key's cooldown: two rounds delivering it at once, a failed
\* cooldown query, an accepted alert whose row was lost, a restart without a
\* database.  Reported-usage alerts are left out: see OneBudgetAlert.
NoRepeatWithinCooldown ==
  \A a \in Actors, p \in Projects :
    (pc[a][p] = "send" /\ src[a][p] # "usage" /\ <<p, src[a][p]>> \notin tainted)
      => Rested(<<p, src[a][p]>>)

\* The cooldown as docs/overview.md promises it: once per window while the
\* balance stays low.
OncePerCooldown ==
  \A a \in Actors, p \in Projects :
    (pc[a][p] = "send" /\ src[a][p] \in ByDeliver) => Rested(<<p, src[a][p]>>)

\* While pages do not alert and nothing fails, the scheduler's one-at-a-time
\* rounds keep the promise without exception.
QuietPagesKeepCooldown == (~EnableWebAlarm /\ faults = 0) => OncePerCooldown

\* A failed send never starts a cooldown: as long as no webhook was accepted for
\* a key, the store has no sent row for it.
FailuresNeverMute ==
  \A r \in alerts : r.status = "sent" => delivered[r.key] # Never

\* cost/alerter.go: one budget alert per project and cooldown window, whether the
\* spend comes from balances or from reported usage.
OneBudgetAlert ==
  \A a \in Actors, p \in Projects :
    (pc[a][p] = "send" /\ src[a][p] \in {"budget", "usage"})
      => Rested(<<p, "budget">>) /\ Rested(<<p, "usage">>)

\* Browsers are disturbed no more than the webhook: a push of a project and kind
\* goes out only when the webhook has accepted none within a cooldown, unless
\* something has defeated the key's cooldown.  Without a webhook nothing is ever
\* accepted, and this promises nothing.
PushesFollowCooldown ==
  [][\A k \in Keys : pushed'[k] # pushed[k] => k \in tainted' \/ Rested(k)]_vars

LowNow(p) == credits[CredOf[p]] # Unreadable /\ credits[CredOf[p]] < Threshold[p]

\* An alert of this project's low balance has gone out and is still cooling.
Covered(p) ==
  /\ delivered[<<p, "low_balance">>] # Never
  /\ \E r \in alerts : r.key = <<p, "low_balance">> /\ r.status = "sent" /\ now < r.at + Cooldown

\* A balance that stays low is reported, and reported again after every cooldown,
\* however the first attempts fail.
LowBalanceReported ==
  \A p \in Projects : <>[]LowNow(p) => []<>Covered(p)

-------------------------------------------------------------------------------
(* The inductive invariant behind NoRepeatWithinCooldown,                    *)
(* FailuresNeverMute and QuietPagesKeepCooldown.                            *)

InFlight == {"send", "sent", "failed"}

\* The keys whose cooldown is intact.
Intact(p, s) == s # "usage" /\ <<p, s>> \notin tainted

\* A delivery under way has a kind, needs a webhook, and is not part of a dry run;
\* an actor between rounds has none.
DeliveryInv ==
  \A a \in Actors, p \in Projects :
    /\ phase[a] = "idle" => pc[a][p] = "idle"
    /\ pc[a][p] \in InFlight \cup {"query"} => src[a][p] \in Sources /\ ~dry[a]
    /\ pc[a][p] \in InFlight => webhook

\* Nothing is recorded or delivered in the future.
ClockInv ==
  /\ \A r \in alerts : r.at <= now
  /\ \A k \in Keys : delivered[k] <= now

\* One delivery of an intact key at a time.
OneInFlight ==
  \A a, b \in Actors, p \in Projects :
    (a # b /\ pc[a][p] \in InFlight /\ pc[b][p] \in InFlight /\ src[a][p] = src[b][p])
      => ~Intact(p, src[a][p])

\* A delivery past its cooldown query sees no sent row younger than a cooldown.
PastQuery ==
  \A a \in Actors, p \in Projects :
    (pc[a][p] \in InFlight /\ Intact(p, src[a][p])) =>
      \A r \in alerts : (r.key = <<p, src[a][p]>> /\ r.status = "sent") => r.at + Cooldown <= now

\* What an accepted webhook leaves behind: it is a cooldown ago, or its row is in
\* the store, or its row is about to be saved.
Remembered ==
  \A p \in Projects, s \in Sources :
    Intact(p, s) =>
      \/ Rested(<<p, s>>)
      \/ \E r \in alerts : r.key = <<p, s>> /\ r.status = "sent" /\ delivered[<<p, s>>] <= r.at
      \/ \E a \in Actors : pc[a][p] = "sent" /\ src[a][p] = s

\* Any row newer than a sent one is newer by a cooldown.  So while a row cools
\* it is the newest of its key, and LastSentAlert's row limit cannot hide it.
RowsSpaced ==
  \A p \in Projects, s \in Sources :
    Intact(p, s) =>
      \A r1, r2 \in alerts :
        (r1.key = <<p, s>> /\ r2.key = <<p, s>> /\ r1.status = "sent" /\ r1.at < r2.at)
          => r1.at + Cooldown <= r2.at

\* An accepted webhook is on the books before its row is.
SentIsDelivered ==
  \A a \in Actors, p \in Projects : pc[a][p] = "sent" => delivered[<<p, src[a][p]>>] # Never

\* Without web alarms every round of a page is a dry run, and until something
\* fails nothing is tainted.
QuietInv ==
  /\ \A a \in Pages : ~EnableWebAlarm => dry[a]
  /\ \A a \in Actors : phase[a] \in {"budget", "usage", "trend"} => Persistent
  /\ \A a \in Actors, p \in Projects : src[a][p] \in Unguarded => Persistent
  /\ (~EnableWebAlarm /\ faults = 0) => tainted = {}

\* What keeps the cooldowns.
CooldownInv ==
  /\ ClockInv
  /\ OneInFlight
  /\ PastQuery
  /\ Remembered
  /\ RowsSpaced
  /\ SentIsDelivered
  /\ FailuresNeverMute

IInv == TypeOK /\ DeliveryInv /\ CooldownInv /\ QuietInv

===============================================================================
