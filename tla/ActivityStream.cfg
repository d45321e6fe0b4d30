SPECIFICATION FairSpec
CONSTANTS
  Items = {1, 2, 3}
  DateOf <- MCDateOf
  Fetches = {1, 2}
  PageSize = 1
  MaxFaults = 1
  None = None
INVARIANTS TypeOK MissedOnlyIfPassed StuckOnlyAfterFailure
PROPERTIES ImplementsCopy FetchCatchesUp
