SPECIFICATION Spec
CONSTANTS
  TaskList <- AllTasks
  Interval <- AllIntervals
  Slots <- AllSlots
  Period = 3
  RunAtStart = {"dashboard_refresh"}
  Breakable = {}
  NeedsDatabase = {"history_retention"}
  EnableDatabase = FALSE
  Threshold = 2
  HasWebhook = TRUE
  MaxLost = 0
INVARIANT HealthyUnlessBroken
