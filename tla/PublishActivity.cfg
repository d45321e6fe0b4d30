SPECIFICATION FairSpec
CONSTANTS
  Users = {u1, u2}
  Requests = {r1, r2}
  Creator = r1
  RetryTimes = 1
  MaxTime = 1
  MaxFaults = 2
  None = None
INVARIANTS TypeOK RetryInv PublishedAsSaved OneMessageEach PastWhenSent
PROPERTIES EventuallyPublished
CHECK_DEADLOCK FALSE
