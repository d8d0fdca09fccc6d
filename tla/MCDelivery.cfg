SPECIFICATION MCSpec
CONSTANTS
  w1 = w1
  w2 = w2
  i1 = i1
  i2 = i2
  None = None
  NoKey = NoKey
  Actors = {a1, a2}
  Scopes = {s1}
  Keys = {k1}
  Expected = {0, 1}
  Attempts = {t1, t2}
  MaxRequests = 3
  Workers = {w1, w2}
  Intents = {i1, i2}
  Healthy = {i2}
INVARIANT NoLostUpdate
PROPERTIES
  EffectsAreAuthorized KeepsThePromise RequestsEnd
  DeliveryIsExplained HealthyIsSettledAlone UploadsEnd
CHECK_DEADLOCK FALSE
