SPECIFICATION Spec
CONSTANTS
  Messages = {m1}
  Requests = {r1, r2}
  HoursPerDay = 3
  LastDay = 2
  MaxFaults = 1
  None = None
SYMMETRY Symmetry
INVARIANTS TypeOK RescheduleToNextEnd HeldUntilPeriodEnds HeldLessThanADay
PROPERTIES DueStaysDue
CHECK_DEADLOCK FALSE
