SPECIFICATION Spec
CONSTANTS
  p1 = p1
  p2 = p2
  c1 = c1
  page = page
  sched = sched
  Scheduler = sched
  Creds = {c1}
  Readings <- OkOrError
  Projects = {p1}
  Pages = {}
  CredOf <- OwnCred
  Threshold <- OneThreshold
  Workers = 1
  Cooldown = 2
  TTL = 0
  EnableWebAlarm = TRUE
  Webhooks = {TRUE}
  HasPush = FALSE
  Budgeted = {p1}
  UsageReported = {p1}
  TrendAlerts = FALSE
  MaxFaults = 0
  MaxTime = 3
  Persistent = TRUE
  RowLimit = 1
  Day = 2
  Retention = 2
INVARIANT OneBudgetAlert
