SPECIFICATION FairSpec
CONSTANTS
  n1 = n1
  n2 = n2
  v1 = v1
  v2 = v2
  sched = sched
  w1 = w1
  w2 = w2
  Names = {n1, n2}
  Env = {n2}
  ProviderOf <- TwoProviders
  Thresholds = {0}
  Table <- OneRow
  Scheduler = sched
  Pages = {w1}
  StaleLimit = 1
  GuardTicks = 1
  MaxEdits = 2
  MaxFaults = 0
PROPERTY Converges
PROPERTY OutageAges
INVARIANT NeverFresherThanRead
