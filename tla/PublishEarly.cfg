SPECIFICATION Spec
CONSTANTS
  Users = {u1}
  Requests = {r1}
  Creator = r1
  RetryTimes = 1
  MaxTime = 1
  MaxFaults = 0
  None = None
INVARIANT SavedForEachRecipient
CHECK_DEADLOCK FALSE
