CONSTANTS
  MaxSends = 1
  MaxAttempts = 1
  MaxLog = 3
  MaxTime = 2
  Day = 1
  Fresh = 0
  MaxPosts = 2
  MaxNotices = 1
SPECIFICATION MonitorSpec
CHECK_DEADLOCK FALSE
INVARIANTS ReportsAreComplete AttestationIsEarned
CONSTANT MaxOutages = 1
