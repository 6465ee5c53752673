SPECIFICATION Spec
CONSTANTS
  n1 = n1
  n2 = n2
  v1 = v1
  v2 = v2
  sched = sched
  w1 = w1
  w2 = w2
  Names = {n1}
  Env = {}
  ProviderOf <- JustOne
  Thresholds = {0}
  Table <- OneRow
  Scheduler = sched
  Pages = {w1, w2}
  StaleLimit = 1
  GuardTicks = 1
  MaxEdits = 2
  MaxFaults = 1
INVARIANT TypeOK
INVARIANT RefreshSpacing
SYMMETRY PageSymmetry
