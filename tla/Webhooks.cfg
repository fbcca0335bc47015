\* Overlapping invocations, a crash or a lost settlement, a manual retry, a paused endpoint.
SPECIFICATION FairSpec
CONSTANTS
  n1 = n1  f1 = f1  f2 = f2  f3 = f3  x1 = x1  x2 = x2  w1 = w1  w2 = w2
  NoJob = NoJob
  Platform = {n1}
  Echoes = {f1, f2}
  Endpoints = {x1, x2}
  Listens <- ListensToPlatform
  Workers = {w1, w2}
  MaxAttempts = 2
  BatchLimit = 2
  MaxRetries = 1
  MaxCrashes = 1
  MaxToggles = 1
INVARIANTS OneWorkerPerDelivery ProcessedReachedAll
PROPERTIES ImplementsAtLeastOnce Drains
