SPECIFICATION Spec
CONSTANTS
  Messages = {m1}
  Requests = {}
  HoursPerDay = 3
  LastDay = 2
  MaxFaults = 1
  None = None
PROPERTY NotTakenInPeriod
CHECK_DEADLOCK FALSE
