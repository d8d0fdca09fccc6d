\* A quantity is recorded, the package handed over, the quantity sent again.
CONSTANTS
  a1 = a1  a2 = a2  k1 = k1  t1 = t1  t2 = t2  t3 = t3
  Actors <- OneActor
  Keys <- OneKey
  NoKey = NoKey
  Inputs <- OneVersion
  Operations <- AllOperations
  Attempts <- TwoAttempts
  MaxRequests = 3
SPECIFICATION FairSpec
PROPERTIES
  RetriesAreReplayed
CHECK_DEADLOCK FALSE
