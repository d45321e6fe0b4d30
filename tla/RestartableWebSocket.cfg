\* Delays in units of 500 ms: 500 ms and 30 s, as in the code.
CONSTANTS
  MinDelay = 1
  MaxDelay = 60
  MaxCloses = 12
SPECIFICATION FairSpec
INVARIANTS TypeOK OneConnection
PROPERTIES ImplementsConnection Recovers
CHECK_DEADLOCK FALSE
