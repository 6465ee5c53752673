------------------------------- MODULE Dashboard -------------------------------
(***************************************************************************)
(* What the dashboard, /health and /metrics show, and the handlers that     *)
(* change it (src/internal/state, config/resolve.go, httpapi/core.go and    *)
(* project.go, app.refreshAll).                                            *)
(*                                                                         *)
(* The scheduler refreshes all projects again and again; pages refresh,     *)
(* save and delete projects at any time.  Each of them reads the            *)
(* configuration, checks the balances, writes the shared state and          *)
(* publishes the metrics in separate steps, and only the writes of the      *)
(* state are under a lock.                                                 *)
(*                                                                         *)
(* Time is kept as ages that stop counting where nothing can tell them      *)
(* apart, so that the model has no last tick.                              *)
(***************************************************************************)
EXTENDS Integers, FiniteSets, Overlay

CONSTANTS
  Names,        \* project names
  Env,          \* names discovered from {PROVIDER}_API_KEY variables
  ProviderOf,   \* the provider of a project
  Thresholds,   \* values of the field a page edits
  Table,        \* the rows of project_config at start
  Scheduler,
  Pages,
  StaleLimit,   \* three refresh intervals, in ticks
  GuardTicks,   \* guardCooldownSeconds, in ticks
  MaxEdits,     \* bound: requests the pages send
  MaxFaults     \* bound: failing database calls

ASSUME DashboardAssumption ==
  /\ Env \subseteq Names
  /\ 0 \in Thresholds
  /\ DOMAIN ProviderOf = Names
  /\ Scheduler \notin Pages
  /\ {StaleLimit, GuardTicks} \subseteq Nat \ {0}
  /\ {MaxEdits, MaxFaults} \subseteq Nat

VARIABLES
  db,          \* project_config: a row per name
  shown,       \* state.balance.Projects: a card per name
  checked,     \* state.balanceChecked
  age,         \* ticks since state.balance.LastUpdate, Never when it is nil
  jobError,    \* has the last dashboard_refresh failed?
  metrics,     \* projects with a check_status series
  busy,        \* refreshGuard.busy
  rest,        \* ticks until refreshGuard lets another refresh in
  down,        \* are all upstreams down?
  pc,          \* progress of an actor's request
  req,         \* the request
  snap,        \* the projects its round checks
  results,     \* its check results
  draft,       \* the row a save is about to write
  out,         \* the cards it is about to publish
  edits,       \* requests so far
  faults,      \* failures so far
  readAge,     \* history: ticks since a round with a successful read was applied
  emptied      \* history: has a full round found no project?

vars == <<db, shown, checked, age, jobError, metrics, busy, rest, down, pc, req, snap,
          results, draft, out, edits, faults, readAge, emptied>>

dashboard == <<shown, checked, age, jobError, metrics>>
guard == <<busy, rest>>
world == <<down, edits, faults>>
history == <<readAge, emptied>>

Never == -1
Actors == {Scheduler} \cup Pages
Projects == [threshold : Thresholds, enabled : BOOLEAN]
Nothing == [n \in {} |-> TRUE]
Maps(S) == UNION {[d -> S] : d \in SUBSET Names}

ASSUME TableAssumption == Table \in Maps(Projects)

-------------------------------------------------------------------------------
(* Configuration                                                            *)

\* An account found in the environment.
Discovered == [threshold |-> 0, enabled |-> TRUE]

\* Load: the rows of the database, and the environment's accounts of every
\* provider no row declares.
Config(table) ==
  LET declared == {ProviderOf[n] : n \in DOMAIN table}
      found == {n \in Env : ProviderOf[n] \notin declared}
  IN  Over(table, [n \in found |-> Discovered])

EnabledProjects(cfg) == {n \in DOMAIN cfg : cfg[n].enabled}

\* A read of the configuration.  When the database cannot be read only the
\* environment is left.
Load(cfg) ==
  \/ cfg = Config(db) /\ UNCHANGED faults
  \/ faults < MaxFaults /\ faults' = faults + 1 /\ cfg = Config(Nothing)

Configs == {Config(db), Config(Nothing)}

-------------------------------------------------------------------------------
(* state.Manager                                                            *)

anySucceeded(rs) == \E n \in DOMAIN rs : rs[n].ok

setBalanceLocked(rs, fresh) ==
  /\ shown' = rs
  /\ age' = IF fresh THEN 0 ELSE age

\* Mutant: a full refresh only adds.
SetBalanceAdds(rs) ==
  /\ checked' = TRUE
  /\ setBalanceLocked(Over(rs, shown), DOMAIN rs = {} \/ anySucceeded(rs))

\* A round without projects counts as fresh.
SetBalance(rs) ==
  /\ checked' = TRUE
  /\ setBalanceLocked(rs, DOMAIN rs = {} \/ anySucceeded(rs))

\* Mutant: freshness is judged on the merged cards.
MergeBalanceAllCards(rs) ==
  /\ checked' = TRUE
  /\ setBalanceLocked(Over(rs, shown), anySucceeded(Over(rs, shown)))

MergeBalance(rs) ==
  /\ checked' = TRUE
  /\ setBalanceLocked(Over(rs, shown), anySucceeded(rs))

RemoveBalanceProject(n) ==
  /\ setBalanceLocked([m \in DOMAIN shown \ {n} |-> shown[m]], FALSE)
  /\ UNCHANGED checked

\* Mutant: the comparison is the wrong way round.
isStaleSwapped == age # Never /\ age < StaleLimit

isStale == age # Never /\ age > StaleLimit

\* handleHealth answers 200.
Healthy == shown # Nothing /\ ~isStale /\ ~jobError

-------------------------------------------------------------------------------
Init ==
  /\ db = Table
  /\ shown = Nothing
  /\ checked = FALSE
  /\ age = Never
  /\ jobError = FALSE
  /\ metrics = {}
  /\ busy = FALSE
  /\ rest = 0
  /\ down \in BOOLEAN
  /\ pc = [a \in Actors |-> "idle"]
  /\ req = [a \in Actors |-> [op |-> "none"]]
  /\ snap = [a \in Actors |-> Nothing]
  /\ results = [a \in Actors |-> Nothing]
  /\ draft = [a \in Actors |-> Discovered]
  /\ out = [a \in Actors |-> {}]
  /\ edits = 0
  /\ faults = 0
  /\ readAge = Never
  /\ emptied = FALSE

\* A request by actor a: it goes on at stage `at'.
Begin(a, r, at) ==
  /\ pc[a] = "idle"
  /\ pc' = [pc EXCEPT ![a] = at]
  /\ req' = [req EXCEPT ![a] = r]
  /\ IF a = Scheduler THEN UNCHANGED edits ELSE edits < MaxEdits /\ edits' = edits + 1

\* Actor a is done; what it held is forgotten.
End(a) ==
  /\ pc' = [pc EXCEPT ![a] = "idle"]
  /\ req' = [req EXCEPT ![a] = [op |-> "none"]]
  /\ snap' = [snap EXCEPT ![a] = Nothing]
  /\ results' = [results EXCEPT ![a] = Nothing]
  /\ draft' = [draft EXCEPT ![a] = Discovered]
  /\ out' = [out EXCEPT ![a] = {}]

\* Mutant: no slot is taken, only the cooldown is checked.
acquireNoSlot == rest = 0 /\ busy' = FALSE /\ UNCHANGED rest

acquire == ~busy /\ rest = 0 /\ busy' = TRUE /\ UNCHANGED rest

\* Mutant: the guard rests a tick too long.
releaseLate(a) ==
  IF req[a].op = "refresh" THEN busy' = FALSE /\ rest' = GuardTicks + 1 ELSE UNCHANGED guard

\* The deferred release of handleRefresh.
release(a) ==
  IF req[a].op = "refresh" THEN busy' = FALSE /\ rest' = GuardTicks ELSE UNCHANGED guard

-------------------------------------------------------------------------------
(* Requests                                                                 *)

\* The scheduler's job dashboard_refresh (alert_check does the same).
StartJob ==
  /\ Begin(Scheduler, [op |-> "job", name |-> "all"], "run")
  /\ UNCHANGED <<db, dashboard, guard, down, faults, snap, results, draft, out, history>>

\* handleRefresh of all projects.
RefreshAll(a) ==
  /\ Begin(a, [op |-> "refresh", name |-> "all"], "run")
  /\ acquire
  /\ UNCHANGED <<db, dashboard, down, faults, snap, results, draft, out, history>>

\* handleRefresh of one project, which has to be there and enabled.
RefreshProject(a, n) ==
  /\ \E cfg \in Configs : Load(cfg) /\ n \in EnabledProjects(cfg)
  /\ Begin(a, [op |-> "refresh", name |-> n], "run")
  /\ acquire
  /\ UNCHANGED <<db, dashboard, down, snap, results, draft, out, history>>

\* handleSaveProject and handleUpdateThreshold up to the write: a patch of one
\* field, over the row as it was read or over a new project.
SaveProject(a, n) ==
  \E cfg \in Configs, field \in {"threshold", "enabled"} :
    /\ Load(cfg)
    /\ Begin(a, [op |-> "save", name |-> n], "upsert")
    /\ LET target == IF n \in DOMAIN cfg THEN cfg[n] ELSE Discovered
       IN  \/ /\ field = "threshold"
              /\ \E t \in Thresholds : draft' = [draft EXCEPT ![a] = [target EXCEPT !.threshold = t]]
           \/ /\ field = "enabled"
              /\ \E e \in BOOLEAN : draft' = [draft EXCEPT ![a] = [target EXCEPT !.enabled = e]]
    /\ UNCHANGED <<db, dashboard, guard, down, snap, results, out, history>>

UpsertProject(a) ==
  LET n == req[a].name IN
  /\ pc[a] = "upsert"
  /\ db' = Over(Entry(n, draft[a]), db)
  /\ draft' = [draft EXCEPT ![a] = Discovered]
  /\ pc' = [pc EXCEPT ![a] = "run"]
  /\ UNCHANGED <<dashboard, guard, world, req, snap, results, out, history>>

\* handleDeleteProject up to the write.  An environment account is refused, and
\* when the database cannot be read there are no others.
DeleteProject(a, n) ==
  /\ n \in DOMAIN db
  /\ Begin(a, [op |-> "delete", name |-> n], "drop")
  /\ UNCHANGED <<db, dashboard, guard, down, faults, snap, results, draft, out, history>>

DropProject(a) ==
  /\ pc[a] = "drop"
  /\ db' = [n \in DOMAIN db \ {req[a].name} |-> db[n]]
  /\ pc' = [pc EXCEPT ![a] = "remove"]
  /\ UNCHANGED <<dashboard, guard, world, req, snap, results, draft, out, history>>

\* The database refuses a write and the request ends.
WriteFails(a) ==
  /\ pc[a] \in {"upsert", "drop"}
  /\ faults < MaxFaults
  /\ faults' = faults + 1
  /\ End(a)
  /\ UNCHANGED <<db, dashboard, guard, down, edits, history>>

\* The card of a deleted or disabled project goes.
RemoveCard(a) ==
  /\ pc[a] = "remove"
  /\ RemoveBalanceProject(req[a].name)
  /\ pc' = [pc EXCEPT ![a] = "copy"]
  /\ UNCHANGED <<db, jobError, metrics, guard, world, req, snap, results, draft, out, history>>

-------------------------------------------------------------------------------
(* Monitor.Run, seen from the dashboard                                     *)

\* The round reads the configuration.  A name that is gone or disabled ends it;
\* refreshOne of a disabled project then removes its card.
SelectProjects(a) ==
  LET n == req[a].name IN
  /\ pc[a] = "run"
  /\ \E cfg \in Configs :
       /\ Load(cfg)
       /\ \/ /\ n = "all"
             /\ snap' = [snap EXCEPT ![a] = [m \in EnabledProjects(cfg) |-> cfg[m]]]
             /\ pc' = [pc EXCEPT ![a] = "check"]
             /\ UNCHANGED <<guard, req, results, draft, out>>
          \/ /\ n \in EnabledProjects(cfg)
             /\ snap' = [snap EXCEPT ![a] = Entry(n, cfg[n])]
             /\ pc' = [pc EXCEPT ![a] = "check"]
             /\ UNCHANGED <<guard, req, results, draft, out>>
          \/ /\ n \in DOMAIN cfg \ EnabledProjects(cfg)
             /\ req[a].op = "save"
             /\ pc' = [pc EXCEPT ![a] = "remove"]
             /\ UNCHANGED <<guard, req, snap, results, draft, out>>
          \/ /\ n \in Names \ EnabledProjects(cfg)
             /\ req[a].op = "refresh" \/ n \notin DOMAIN cfg
             /\ release(a)
             /\ End(a)
  /\ UNCHANGED <<db, dashboard, down, edits, history>>

\* Every check answers or fails; a failed result carries no threshold.
CheckAll(a) ==
  /\ pc[a] = "check"
  /\ \E good \in SUBSET DOMAIN snap[a] :
       /\ down => good = {}
       /\ results' = [results EXCEPT ![a] =
            [n \in DOMAIN snap[a] |->
               [ok |-> n \in good, threshold |-> IF n \in good THEN snap[a][n].threshold ELSE Never]]]
  /\ snap' = [snap EXCEPT ![a] = Nothing]
  /\ pc' = [pc EXCEPT ![a] = "apply"]
  /\ UNCHANGED <<db, dashboard, guard, world, req, draft, out, history>>

\* A full round replaces the cards, a named one merges its own.  The job
\* publishes its results, a page the cards it reads back.
Apply(a) ==
  /\ pc[a] = "apply"
  /\ IF req[a].name = "all" THEN SetBalance(results[a]) ELSE MergeBalance(results[a])
  /\ readAge' = IF anySucceeded(results[a]) THEN 0 ELSE readAge
  /\ emptied' = (emptied \/ results[a] = Nothing)
  /\ IF a = Scheduler
     THEN /\ pc' = [pc EXCEPT ![a] = "publish"]
          /\ out' = [out EXCEPT ![a] = DOMAIN results[a]]
          /\ UNCHANGED results
     ELSE /\ pc' = [pc EXCEPT ![a] = "copy"]
          /\ results' = [results EXCEPT ![a] = Nothing]
          /\ UNCHANGED out
  /\ UNCHANGED <<db, jobError, metrics, guard, world, req, snap, draft>>

CopyBalance(a) ==
  /\ pc[a] = "copy"
  /\ out' = [out EXCEPT ![a] = DOMAIN shown]
  /\ pc' = [pc EXCEPT ![a] = "publish"]
  /\ UNCHANGED <<db, dashboard, guard, world, req, snap, results, draft, history>>

\* metrics.UpdateBalance drops every series it is not given.
UpdateBalance(a) ==
  /\ pc[a] = "publish"
  /\ metrics' = out[a]
  /\ IF a = Scheduler
     THEN /\ pc' = [pc EXCEPT ![a] = "record"]
          /\ UNCHANGED <<guard, req, snap, results, draft, out>>
     ELSE release(a) /\ End(a)
  /\ UNCHANGED <<db, shown, checked, age, jobError, world, history>>

\* The job failed when it had projects and every one of them failed.
RecordJobRun ==
  /\ pc[Scheduler] = "record"
  /\ jobError' = (results[Scheduler] # Nothing /\ ~anySucceeded(results[Scheduler]))
  /\ End(Scheduler)
  /\ UNCHANGED <<db, shown, checked, age, metrics, guard, world, history>>

-------------------------------------------------------------------------------
(* Environment                                                              *)

Older(t) == IF t = Never \/ t > StaleLimit THEN t ELSE t + 1

Tick ==
  /\ age' = Older(age)
  /\ readAge' = Older(readAge)
  /\ rest' = IF rest > 0 THEN rest - 1 ELSE 0
  /\ <<age, readAge, rest>>' # <<age, readAge, rest>>
  /\ UNCHANGED <<db, shown, checked, jobError, metrics, busy, world, pc, req, snap, results, draft, out, emptied>>

Outage ==
  /\ down' = ~down
  /\ UNCHANGED <<db, dashboard, guard, edits, faults, pc, req, snap, results, draft, out, history>>

\* The rest of a request once it has begun.
Proceed(a) ==
  \/ UpsertProject(a) \/ DropProject(a) \/ RemoveCard(a)
  \/ SelectProjects(a) \/ CheckAll(a) \/ Apply(a) \/ CopyBalance(a) \/ UpdateBalance(a)

Next ==
  \/ StartJob
  \/ RecordJobRun
  \/ \E a \in Actors : Proceed(a) \/ WriteFails(a)
  \/ \E a \in Pages :
       \/ RefreshAll(a)
       \/ \E n \in Names : RefreshProject(a, n) \/ SaveProject(a, n) \/ DeleteProject(a, n)
  \/ Tick
  \/ Outage

Spec == Init /\ [][Next]_vars

\* The scheduler comes back after every interval, and what has begun goes on:
\* upstream calls and database calls have timeouts.
FairSpec ==
  /\ Spec
  /\ WF_vars(StartJob \/ RecordJobRun)
  /\ \A a \in Actors : WF_vars(Proceed(a))
  /\ WF_vars(Tick)

-------------------------------------------------------------------------------
(* Properties                                                               *)

Stages == {"idle", "run", "check", "apply", "copy", "publish", "record", "upsert", "drop", "remove"}
Ages == Nat \cup {Never}
Cards == [ok : BOOLEAN, threshold : Thresholds \cup {Never}]
Requests == [op : {"job", "refresh", "save", "delete"}, name : Names \cup {"all"}] \cup {[op |-> "none"]}

\* Every variable stays in its type.
TypeOK ==
  /\ db \in Maps(Projects)
  /\ shown \in Maps(Cards)
  /\ {checked, jobError, busy, down, emptied} \subseteq BOOLEAN
  /\ age \in Ages /\ readAge \in Ages
  /\ metrics \subseteq Names
  /\ rest \in 0 .. GuardTicks
  /\ pc \in [Actors -> Stages]
  /\ req \in [Actors -> Requests]
  /\ snap \in [Actors -> Maps(Projects)]
  /\ results \in [Actors -> Maps(Cards)]
  /\ draft \in [Actors -> Projects]
  /\ out \in [Actors -> SUBSET Names]
  /\ edits \in 0 .. MaxEdits /\ faults \in 0 .. MaxFaults

\* The cards and the series an undisturbed dashboard has: one per enabled
\* project, a readable one with the configured threshold.
Settled ==
  LET cfg == Config(db) IN
  /\ checked
  /\ DOMAIN shown = EnabledProjects(cfg)
  /\ \A n \in DOMAIN shown : shown[n].ok => shown[n].threshold = cfg[n].threshold
  /\ metrics = DOMAIN shown

\* Whatever the order in which saves, deletions and refreshes overlapped, once
\* the pages stop the next rounds bring dashboard and metrics in line with the
\* configuration, and they stay there.
Converges == <>[]Settled

\* A lasting outage of every upstream ages the dashboard and turns /health red for
\* good, although rounds, manual refreshes and saves keep writing to it.  An
\* empty project list is no outage.
OutageAges ==
  <>[](down /\ shown # Nothing) => <>[](~Healthy /\ (isStale \/ age = Never))

\* Until a full round finds nothing to check, the dashboard never looks fresher
\* than the last round that read a balance.
NeverFresherThanRead ==
  ~emptied => (age = Never \/ (readAge # Never /\ readAge <= age))

\* One manual refresh at a time, and none until the guard has rested.
RefreshSpacing ==
  /\ Cardinality({a \in Pages : req[a].op = "refresh"}) <= 1
  /\ rest > 0 => \A a \in Pages : req[a].op # "refresh"

===============================================================================
