SPECIFICATION Spec
CONSTANTS
  NewsLimit = 1
  NewsItems = {n1, n2, n3, n4}
  InitialItems = 3
  MaxWithdrawn = 2
  MaxRequests = 2
  Items = {1, 2, 3, 4, 5}
  DateOf <- MCDateOf
  MonthOf <- MCMonthOf
SYMMETRY NewsSymmetry
INVARIANTS TypeOK SkipsOnlyAfterChanges MergesAreSortedUnions StreamsAreReadInOrder ListsAreGrouped
