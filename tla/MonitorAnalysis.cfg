SPECIFICATION Spec
CONSTANTS
  p1 = p1
  p2 = p2
  c1 = c1
  page = page
  sched = sched
  Scheduler = sched
  Creds = {c1}
  Readings <- Steady
  Projects = {p1}
  Pages = {}
  CredOf <- OwnCred
  Threshold <- OneThreshold
  Workers = 1
  Cooldown = 1
  TTL = 0
  EnableWebAlarm = FALSE
  Webhooks = {TRUE, FALSE}
  HasPush = TRUE
  Budgeted = {p1}
  UsageReported = {p1}
  TrendAlerts = TRUE
  MaxFaults = 1
  MaxTime = 2
  Persistent = TRUE
  RowLimit = 1
  Day = 1
  Retention = 1
INVARIANT NoRepeatWithinCooldown
