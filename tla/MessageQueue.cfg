SPECIFICATION Spec
CONSTANTS
  a1 = a1
  u1 = u1
  u2 = u2
  w1 = w1
  w2 = w2
  Activities = {a1}
  Users = {u1, u2}
  Messages <- MCMessages
  Workers = {w1, w2}
  NoMessage = NoMessage
  LockBatch = 2
  MaxFaults = 1
SYMMETRY WorkerSymmetry
INVARIANTS TypeOK AtMostOnce OneToken SentCountExact IInv
PROPERTIES HeldNotTaken ImplementsDelivery
