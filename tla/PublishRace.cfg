SPECIFICATION Spec
CONSTANTS
  Users = {u1}
  Requests = {r1, r2}
  Creator = r1
  RetryTimes = 1
  MaxTime = 1
  MaxFaults = 0
  None = None
PROPERTY PublishedNotUpdated
CHECK_DEADLOCK FALSE
