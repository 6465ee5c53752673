------------------------------ MODULE MCServices ------------------------------
(***************************************************************************)
(* One instance for the components that meet only through the database or  *)
(* through their results.  A behaviour is about one of them: `part' picks  *)
(* it and the others stay as they start.                                   *)
(***************************************************************************)
EXTENDS MCSubscriptions, Push, Providers, Secrets, Sessions, McpAccess, Engines,
        Usage, History, Extract, Figures, Backups

CONSTANTS w1, w2, s1, k1

VARIABLE part   \* the component of the behaviour

(***************************************************************************)
(* Values of the constants                                                 *)
(***************************************************************************)
\* The clients of every component are the same two.
ServiceSymmetry == Permutations({w1, w2})

Agent(name, key, scopes, expires) == [name |-> name, key |-> key, scopes |-> scopes, expires |-> expires]
McpEnvironments ==
  [web : SUBSET {"k1", "k2"}, scopedOnly : BOOLEAN,
   mcp : {<<Agent("agent", "k1", {"balance"}, 45)>>,
          <<Agent("agent", "k1", {}, NoExpiry), Agent("web", "k3", {"balance"}, NoExpiry)>>,
          <<Agent("agent", "k1", {}, NoExpiry), Agent("b", "k1", {"balance"}, NoExpiry)>>}]

CaseFolding == [x \in {"Ada", "ada", "bob"} |-> IF x = "bob" THEN "bob" ELSE "ada"]

Line(cell, cost) == [cell |-> cell, cost |-> cost]
ThreeReports ==
  {[entries |-> <<Line("c1", 1), Line("c2", 2)>>], [entries |-> <<Line("c2", 20), Line("c1", 10)>>],
   [entries |-> <<Line("c1", 100), Line("c2", -5)>>]}

EventTools ==
  {[reads |-> <<"alert", "email">>, type |-> ""], [reads |-> <<"alert">>, type |-> "low"],
   [reads |-> <<"balance">>, type |-> ""]}
DayRanges ==
  {[since |-> 0, until |-> 0, days |-> 1], [since |-> 2, until |-> 0, days |-> 1],
   [since |-> 0, until |-> 3, days |-> 2]}

Account(currency, total) == Obj([currency |-> Word(currency), total |-> total])
AccountsBody(accounts, code) == Obj([accounts |-> Arr(accounts), code |-> code])
QuotaWindow(type, left, percent, reset) ==
  Obj([type |-> Word(type), usage |-> NumV(100), remaining |-> left, percentage |-> percent, nextResetTime |-> reset])
WindowsBody(windows) == Obj([data |-> Obj([limits |-> Arr(windows)]), code |-> NumV(0)])

Definition ==
  [balancePath |-> <<>>, subtractPath |-> <<>>, scale |-> 0, mode |-> "path", windowTypes |-> {"TOKENS_LIMIT"},
   resetHours |-> 6, successPath |-> <<>>, successValues |-> {}, wants |-> ""]
ThreeDefinitions ==
  {[Definition EXCEPT !.balancePath = << <<Field("accounts"), Filter("currency", Word("CNY")), Field("total")>> >>,
                      !.wants = "CNY", !.successPath = <<Field("code")>>, !.successValues = {NumV(0)}],
   [Definition EXCEPT !.balancePath = << <<Field("data"), Field("balance")>>, <<Field("accounts"), Index(0), Field("total")>> >>,
                      !.subtractPath = << <<Field("accounts"), Index(1), Field("total")>> >>],
   [Definition EXCEPT !.mode = "min_window"]}

Success(data) == [status |-> 200, json |-> TRUE, data |-> data]
SomeAnswers ==
  {[status |-> s, json |-> TRUE, data |-> Null] : s \in {404, 429, 503}}
  \cup {[status |-> 200, json |-> FALSE, data |-> Null]}
  \cup {Success(AccountsBody(accounts, code)) :
          code \in {NumV(0), NumV(1), Null},
          accounts \in {<<>>, <<Account("USD", NumV(5))>>,
                        <<Account("USD", NumV(5)), Account("CNY", NumV(7))>>,
                        <<Account("CNY", Text(9, FALSE)), Account("CNY", NumV(3))>>,
                        <<Account("USD", Word("n/a")), Account("CNY", NumV(2)), Account("USD", NumV(8))>>}}
  \cup {Success(WindowsBody(windows)) :
          windows \in {<<>>,
                       <<QuotaWindow("TOKENS_LIMIT", NumV(40), Null, NumV(3)),
                         QuotaWindow("TOKENS_LIMIT", NumV(10), Null, NumV(90))>>,
                       <<QuotaWindow("TOKENS_LIMIT", NumV(140), Null, NumV(3)),
                         QuotaWindow("TIME_LIMIT", NumV(1), Null, NumV(3)),
                         QuotaWindow("TOKENS_LIMIT", Null, NumV(30), NumV(5))>>,
                       <<QuotaWindow("TOKENS_LIMIT", Null, NumV(130), NumV(99)),
                         QuotaWindow("TOKENS_LIMIT", Null, Null, NumV(2))>>}}

(***************************************************************************)
(* Inputs of the pure functions                                            *)
(***************************************************************************)
\* A series begins at tick 2 and goes on after each of its gaps.
Snapshot(id, at, bal) ==
  [at |-> at, bal |-> bal, below |-> bal < 1, project |-> id, name |-> id, type |-> "credits"]
SeriesOf(gaps, bals) ==
  [k \in DOMAIN bals |-> Snapshot("p", 2 + SumFunction(SubSeq(gaps, 1, k - 1)), bals[k])]

SeriesShapes ==
  [step : {"shape"}, kind : {"agree"}, gaps : {<<1, 3, 4, 5>>, <<4, 4, 4, 4>>, <<1, 1, 5, 9>>, <<5, 3, 0, 6>>, <<1, 1, 1, 1>>}, with : {0, 22}]
  \cup [step : {"shape"}, kind : {"flows"}, gaps : [1..3 -> {1, 3, 9}] \cup {<<1, 3, 9, 1, 9>>, <<1, 1, 1, 1, 1>>, <<9, 1, 3, 9, 1>>}, with : {"raw", "hour", "day", "week"}]
  \cup [step : {"shape"}, kind : {"shape"}, gaps : {[k \in 1..n |-> 1] : n \in {3, 4, 5, 6}}, with : {0}]
  \cup [step : {"shape"}, kind : {"months"}, gaps : [1..3 -> {0, 3, 9}], with : {3, 6, 12}]
SeriesInputs(shape) ==
  {[step |-> "input", kind |-> shape.kind, with |-> shape.with, series |-> SeriesOf(shape.gaps, bals)] :
     bals \in [1..(Len(shape.gaps) + 1) -> 0..(IF shape.kind = "agree" THEN 3 ELSE 2)]}

\* A month of 30 days, the current one, of 31, on its sixth day, and the next.
PastMonth == [start |-> 0, days |-> 30]
ThisMonth == [start |-> 120, days |-> 31]
NextMonth == [start |-> 244, days |-> 30]
Asked(month) == [asked |-> {month}, current |-> ThisMonth, today |-> 140]

\* Reports of both months, of the project "p" too.
Cell(name, date, model, cost) ==
  [name |-> name, source |-> "ci", date |-> date, model |-> model, currency |-> "USD", cost |-> cost]
SomeCells ==
  {{}, {Cell("p", 31, "m1", 5)}, {Cell("r", 29, "m1", 2), Cell("r", 30, "m1", 4)},
   {Cell("p", 3, "m1", 5), Cell("r", 3, "m1", 2), Cell("r", 3, "m2", 1), Cell("r", 31, "m1", 4)}}

CostShapes ==
  [step : {"shape"}, kind : {"costs"}, projects : {{}, {"p"}, {"p", "q"}}, cells : SomeCells,
   when : {[Asked(PastMonth) EXCEPT !.asked = {}]} \cup {Asked(m) : m \in {PastMonth, ThisMonth, NextMonth}}]
\* The snapshots of "p" come before or after the one of "q", which is old.
CostTimes == {<<4, 14, 122>>, <<4, 130, 131>>, <<10, 119, 124>>}
CostInputs(shape) ==
  {[step |-> "input", kind |-> "costs", fx |-> [x \in {"CNY"} \cup usd |-> IF x = "USD" THEN 7 ELSE 1],
    series |-> <<Snapshot("q", 3, 9)>> \o [k \in 1..3 |-> Snapshot("p", times[k], bals[k])] \o <<Snapshot("q", 133, 5)>>,
    projects |-> {[name |-> n, currency |-> IF n = "q" THEN "USD" ELSE "CNY", budget |-> 2] : n \in shape.projects},
    cells |-> shape.cells, when |-> shape.when] :
     usd \in SUBSET {"USD"}, times \in CostTimes, bals \in [1..3 -> {0, 2, 3}]}

Fleet == <<"a", "b", "c", "d">>
WeeklyShapes == [step : {"shape"}, kind : {"weekly"}, failed : SUBSET ToSet(Fleet)]
WeeklyInputs(shape) ==
  {[step |-> "input", kind |-> "weekly", now |-> 9,
    series |-> FlattenSeq([i \in 1..4 |-> LET d == drops[i] IN
                 [k \in 1..4 |-> [Snapshot(Fleet[i], <<2, 4, 6, 9>>[k], 9 - (k * d)) EXCEPT !.type = IF d = 3 THEN "quota" ELSE @]]]),
    results |-> [i \in 1..4 |-> [id |-> Fleet[i], success |-> Fleet[i] \notin shape.failed, alarm |-> i = 1]],
    subs |-> <<[renewed |-> FALSE, days |-> 3, amount |-> 5], [renewed |-> TRUE, days |-> 1, amount |-> 2],
               [renewed |-> FALSE, days |-> 31, amount |-> 9]>>] :
     drops \in [1..4 -> 0..3]}

Cycle(cycle, day, before_) == [cycle |-> cycle, day |-> day, before |-> before_]
CycleShapes ==
  [step : {"shape"}, kind : {"renewal"}, span : {22}, days : {DayNumber(2024, 2, 20)..DayNumber(2024, 3, 5)},
   of : {Cycle("weekly", d, b) : d \in {1, 7}, b \in {0, 3, 8}}]
  \cup [step : {"shape"}, kind : {"renewal"}, span : {70}, of : {Cycle("monthly", d, b) : d \in {1, 29, 31}, b \in {0, 5, 31}},
        days : {{DayNumber(2024, 1, 30), DayNumber(2024, 1, 31), DayNumber(2024, 2, 27), DayNumber(2024, 2, 28),
                 DayNumber(2024, 2, 29), DayNumber(2024, 3, 1), DayNumber(2024, 3, 30), DayNumber(2024, 12, 31), DayNumber(2025, 2, 28)}}]
  \cup [step : {"shape"}, kind : {"renewal"}, span : {740}, of : {Cycle("yearly", d, b) : d \in {229, 101, 15}, b \in {0, 7}},
        days : {{DayNumber(2024, 1, 1), DayNumber(2024, 2, 28), DayNumber(2024, 2, 29), DayNumber(2023, 12, 28)}}]
  \cup [step : {"shape"}, kind : {"renewal"}, span : {500}, of : {Cycle("lunar_yearly", d, b) : d \in {130, 430, 615, 1230}, b \in {7, 60}},
        days : {{DayNumber(2024, m, d) : m \in {3, 7}, d \in {1, 11}}}]
CycleInputs(shape) ==
  {[step |-> "input", kind |-> "renewal", span |-> shape.span, today |-> t, marked |-> marked,
    p |-> shape.of @@ [mark |-> IF marked THEN t ELSE NoMark]] : t \in shape.days, marked \in BOOLEAN}

SomeShapes == SeriesShapes \cup CostShapes \cup WeeklyShapes \cup CycleShapes
InputsOfShape(shape) ==
  CASE shape.kind = "costs" -> CostInputs(shape)
    [] shape.kind = "weekly" -> WeeklyInputs(shape)
    [] shape.kind = "renewal" -> CycleInputs(shape)
    [] OTHER -> SeriesInputs(shape)

-------------------------------------------------------------------------------
ServiceParts == {"subscriptions", "push", "providers", "secrets", "sessions", "agents", "tables", "usage", "history", "fetch", "backups", "series"}

\* What is left open at the start is left open in behaviours of that part only.
ServicesInit ==
  /\ part \in ServiceParts
  /\ FiguresInit
  /\ SubInit /\ PushInit /\ ProvInit /\ BackupInit
  /\ SecretInit /\ (part # "secrets" => kind = "project" /\ configKey = NoKey /\ secret = Plain(s1))
  /\ SessionInit /\ (part # "sessions" => apiKeys = <<k1>>)
  /\ McpInit /\ (part # "agents" => mcpConfig.web = {} /\ ~mcpConfig.scopedOnly /\ Len(mcpConfig.mcp) = 1)
  /\ TblInit /\ (part # "tables" => focus = "app_settings")
  /\ UsageInit /\ (part # "usage" => single)
  /\ HistInit /\ (part # "history" => ask.tool.reads = <<"balance">> /\ ask.range.days = 2)
  /\ FetchInit /\ (part # "fetch" => get /\ reads.mode = "min_window")

SubscriptionsMove ==
  /\ part = "subscriptions" /\ SubNext
  /\ UNCHANGED <<part, input, PushVars, ProvVars, SecretVars, SessionVars, McpVars, tblVars, usageVars, histVars, fetchVars, backupVars>>

PushMove ==
  /\ part = "push" /\ PushNext
  /\ UNCHANGED <<part, input, SubVars, ProvVars, SecretVars, SessionVars, McpVars, tblVars, usageVars, histVars, fetchVars, backupVars>>

ProvidersMove ==
  /\ part = "providers" /\ ProvNext
  /\ UNCHANGED <<part, input, SubVars, PushVars, SecretVars, SessionVars, McpVars, tblVars, usageVars, histVars, fetchVars, backupVars>>

SecretsMove ==
  /\ part = "secrets" /\ SecretNext
  /\ UNCHANGED <<part, input, SubVars, PushVars, ProvVars, SessionVars, McpVars, tblVars, usageVars, histVars, fetchVars, backupVars>>

SessionsMove ==
  /\ part = "sessions" /\ SessionNext
  /\ UNCHANGED <<part, input, SubVars, PushVars, ProvVars, SecretVars, McpVars, tblVars, usageVars, histVars, fetchVars, backupVars>>

AgentsMove ==
  /\ part = "agents" /\ McpNext
  /\ UNCHANGED <<part, input, SubVars, PushVars, ProvVars, SecretVars, SessionVars, tblVars, usageVars, histVars, fetchVars, backupVars>>

TablesMove ==
  /\ part = "tables" /\ TblNext
  /\ UNCHANGED <<part, input, SubVars, PushVars, ProvVars, SecretVars, SessionVars, McpVars, usageVars, histVars, fetchVars, backupVars>>

UsageMove ==
  /\ part = "usage" /\ UsageNext
  /\ UNCHANGED <<part, input, SubVars, PushVars, ProvVars, SecretVars, SessionVars, McpVars, tblVars, histVars, fetchVars, backupVars>>

HistoryMove ==
  /\ part = "history" /\ HistNext
  /\ UNCHANGED <<part, input, SubVars, PushVars, ProvVars, SecretVars, SessionVars, McpVars, tblVars, usageVars, fetchVars, backupVars>>

FetchMove ==
  /\ part = "fetch" /\ FetchNext
  /\ UNCHANGED <<part, input, SubVars, PushVars, ProvVars, SecretVars, SessionVars, McpVars, tblVars, usageVars, histVars, backupVars>>

BackupsMove ==
  /\ part = "backups" /\ BackupNext
  /\ UNCHANGED <<part, input, SubVars, PushVars, ProvVars, SecretVars, SessionVars, McpVars, tblVars, usageVars, histVars, fetchVars>>

FiguresMove ==
  /\ part = "series" /\ FiguresNext
  /\ UNCHANGED <<part, SubVars, PushVars, ProvVars, SecretVars, SessionVars, McpVars, tblVars, usageVars, histVars, fetchVars, backupVars>>

ServicesNext ==
  \/ SubscriptionsMove
  \/ PushMove
  \/ ProvidersMove
  \/ SecretsMove
  \/ SessionsMove
  \/ AgentsMove
  \/ TablesMove
  \/ UsageMove
  \/ HistoryMove
  \/ FetchMove
  \/ BackupsMove
  \/ FiguresMove

ServicesVars ==
  <<part, input, SubVars, PushVars, ProvVars, SecretVars, SessionVars, McpVars, tblVars, usageVars, histVars, fetchVars, backupVars>>

ServicesSpec == ServicesInit /\ [][ServicesNext]_ServicesVars

===============================================================================
