SPECIFICATION FairSpec
CONSTANTS
  a1 = a1
  u1 = u1
  u2 = u2
  w1 = w1
  w2 = w2
  Activities = {a1}
  Users = {u1}
  Messages <- MCFewMessages
  Workers = {w1, w2}
  NoMessage = NoMessage
  LockBatch = 1
  MaxFaults = 1
PROPERTY EventuallyDone
