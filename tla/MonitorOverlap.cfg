SPECIFICATION Spec
CONSTANTS
  p1 = p1
  p2 = p2
  c1 = c1
  page = page
  sched = sched
  Scheduler = sched
  Creds = {c1}
  Readings <- LowOrOk
  Projects = {p1}
  Pages = {page}
  CredOf <- OwnCred
  Threshold <- OneThreshold
  Workers = 1
  Cooldown = 2
  TTL = 0
  EnableWebAlarm = TRUE
  Webhooks = {TRUE}
  HasPush = FALSE
  Budgeted = {}
  UsageReported = {}
  TrendAlerts = FALSE
  MaxFaults = 2
  MaxTime = 3
  Persistent = TRUE
  RowLimit = 1
  Day = 2
  Retention = 2
INVARIANT TypeOK
INVARIANT NoRepeatWithinCooldown
INVARIANT FailuresNeverMute
