CONSTANTS
  a = a
  b = b
  None = None
  Providers <- BothProviders
  First = a
  Transfers = {1, 2}
  Mail = {1}
  Faults = {"own", "lapse", "purge", "late", "approval"}
  MaxFaults = 1
  MaxRevisions = 2
SPECIFICATION MoveSpec
CHECK_DEADLOCK FALSE
INVARIANTS SingleServer NothingLost CancellationIsFinal OneSignerPerRevision SuccessorFits
PROPERTIES StaleJobNeverWrites Settles
