SPECIFICATION Spec
CONSTANTS
  e1 = e1
  b1 = b1
  b2 = b2
  sched = sched
  page = page
  Mails = {e1}
  Mailboxes = {b1, b2}
  InboxesOf <- Copied
  Matching = {e1}
  Mutable <- OneMute
  Scheduler = sched
  Page = page
  ScanDays <- OneDay
  Day = 2
  Limit = 1
  Workers = 2
  Retention = 2
  Persistent = TRUE
  EnableWebAlarm = TRUE
  MaxFaults = 1
  MaxArrival = 0
  MaxTime = 2
INVARIANT TypeOK
INVARIANT OneEntryPerMail
INVARIANT NoRepeatWithinWindow
PROPERTY CleanScanReports
SYMMETRY ScanSymmetry
