SPECIFICATION FairSpec
CONSTANTS
  TaskList <- AllTasks
  Interval <- AllIntervals
  Slots <- AllSlots
  Period = 3
  RunAtStart = {"dashboard_refresh"}
  Breakable = {"dashboard_refresh", "alert_check"}
  NeedsDatabase = {"history_retention"}
  EnableDatabase = TRUE
  Threshold = 2
  HasWebhook = TRUE
  MaxLost = 1
INVARIANT TypeOK
INVARIANT OneReportPerStreak
INVARIANT SlotsFireOnce
PROPERTY NobodyStarves
PROPERTY StreakReported
PROPERTY StopEnds
