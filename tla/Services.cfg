SPECIFICATION ServicesSpec
SYMMETRY ServiceSymmetry
CHECK_DEADLOCK FALSE
CONSTANTS
  n1 = n1  w1 = w1  w2 = w2  s1 = s1  k1 = k1
  \* AlertStore, Subscriptions
  Persistent = TRUE
  RowLimit = 5
  Day = 1
  Retention = 2
  Names = {n1, n2}
  EditNames = {n1}
  Scheduler = sched
  SubPages = {w1, w2}
  Stored <- OneRow
  Patches <- PatchBefore
  Snoozes = {1}
  Zones = {1}
  SubCooldown = 1
  WebAlarm = TRUE
  HasNotifier = TRUE
  FirstDay <- NewYear2024
  MaxSubEdits = 2
  MaxSubFaults = 2
  MaxSubTime = 1
  MaxSubEvents = 2
  MaxSubBusy = 2
  \* Push
  Browsers = {w1, w2}
  Alerter = al
  MaxRegistrations = 2
  MaxPushFaults = 2
  MaxPushRestarts = 1
  \* Providers
  Defaults = {d1}
  Extras = {e1}
  ProvPages = {w1, w2}
  ProvRound = rd
  MaxProvEdits = 2
  MaxProvFaults = 2
  MaxProvEvents = 2
  \* Secrets
  Texts = {s1, s2}
  CryptKeys = {c1, c2}
  NoKey = nokey
  AutoEncryptOnRead = TRUE
  Listers = {w1, w2}
  MaxSecretEdits = 2
  MaxKeyChanges = 2
  \* Sessions
  WebKeys = {k1, k2}
  SessionPages = {br}
  SessionTTL = 5
  SessionRenewWithin = 3
  MaxSessionTime = 14
  MaxRotations = 2
  \* McpAccess
  Tokens = {"k1", "k2", "k3"}
  Scopes = {"balance", "alerts"}
  McpConfigs <- McpEnvironments
  PerMinute = 2
  Pauses = {59, 60}
  MaxMcpTime = 125
  MaxCalls = 4
  \* Tables, Engines
  Spellings = {"Ada", "ada", "bob"}
  Folded <- CaseFolding
  TableNames = {"subscription_config", "email_config", "project_config", "custom_provider_config", "push_subscriptions", "app_settings", "email_suppressions"}
  MaxStatements = 4
  \* Usage
  Reports <- ThreeReports
  MaxPosts = 2
  MaxUsageFaults = 1
  \* History
  HistDay = 1
  ReadLimit = 2
  PageLimit = 1
  MaxDays = 2
  Tools <- EventTools
  Ranges <- DayRanges
  MaxHistTime = 3
  MaxRows = 3
  \* Extract
  MaxRetries = 3
  Definitions <- ThreeDefinitions
  Answers <- SomeAnswers
  \* Spend
  TrendPointCap = 4
  \* Figures
  Shapes <- SomeShapes
  InputsOf <- InputsOfShape
  \* Backups
  BackupKeep = 1
  MaxBackupTime = 4
  MaxBackupFaults = 3
INVARIANTS
  EditsCompose
  PushKeepsWorking
  DefinitionsLast
  SecretsKept
  AgentsStayInScope
  BudgetHolds
  EnginesAgree
  SpendIsOneReport
  HistoryExact
  FetchSound
  LastBackupStays
  SpendingAgrees
  ChartKeepsShape
  CostsExact
  RenewalsRight
PROPERTIES
  RemindersThrottled
  CleanCheckReminds
  SessionsEndRight
