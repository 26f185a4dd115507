\* Liveness and refinement.
SPECIFICATION FairSpec
CONSTANTS
  None = None
  c1 = c1
  c2 = c2
  plain = plain
  cached = cached
  i1 = i1
  i2 = i2
  v = v
  Calls = {c1, c2}
  Keys = {plain, cached}
  Instances = {i1, i2}
  Payloads = {v}
  Falsy = {}
  Malformed = {}
  CachedKeys = {cached}
  CheckedKeys = {cached}
  RaceKeys = {}
  InvalidRequests = {}
  Expiries = {0}
  CacheTimeout = 1
  DefaultTimeout = 1
  OwnTimeoutKeys = {}
  OwnTimeout <- MCOwnTimeout
PROPERTY
  PromiseSpec
