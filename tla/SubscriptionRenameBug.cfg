SPECIFICATION SubSpec
CONSTANTS
  n1 = n1
  Persistent = TRUE
  RowLimit = 5
  Day = 1
  Retention = 2
  Names = {n1, n2}
  EditNames = {n1}
  Scheduler = sched
  SubPages = {w1}
  Stored <- OneRow
  Patches <- PatchBefore
  Snoozes = {1}
  Zones = {1}
  SubCooldown = 1
  WebAlarm = FALSE
  HasNotifier = TRUE
  FirstDay <- NewYear2024
  MaxSubEdits = 2
  MaxSubFaults = 0
  MaxSubTime = 1
  MaxSubEvents = 2
  MaxSubBusy = 1
INVARIANT SettingsSurvive
CHECK_DEADLOCK FALSE
