CONSTANTS
  Users = {u1, u2}
  NoUser = NoUser
  TileIds = {t1}
  Fetches = {1, 2}
  FirstFetch = 1
  MaxPuts = 1
  MaxPages = 1
  MaxFaults = 1
SYMMETRY UserSymmetry
SPECIFICATION Spec
INVARIANTS TypeOK RemovedOnlyIfHidden OwnTiles SettledTilesAgree FetchUnderWay
CHECK_DEADLOCK FALSE
