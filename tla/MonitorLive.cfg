SPECIFICATION FairSpec
CONSTANTS
  p1 = p1
  p2 = p2
  c1 = c1
  page = page
  sched = sched
  Scheduler = sched
  Creds = {c1}
  Readings <- LowOrOk
  Projects = {p1}
  Pages = {page}
  CredOf <- OwnCred
  Threshold <- OneThreshold
  Workers = 1
  Cooldown = 2
  TTL = 0
  EnableWebAlarm = FALSE
  Webhooks = {TRUE}
  HasPush = TRUE
  Budgeted = {}
  UsageReported = {}
  TrendAlerts = FALSE
  MaxFaults = 1
  MaxTime = 3
  Persistent = TRUE
  RowLimit = 1
  Day = 2
  Retention = 2
PROPERTY LowBalanceReported
INVARIANT QuietPagesKeepCooldown
PROPERTY PushesFollowCooldown
