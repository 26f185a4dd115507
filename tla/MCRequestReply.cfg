\* Two calls, perhaps one inside the handler of the other, and two replicas that
\* crash: a cached and checked method with a timeout of its own, a method in race
\* mode, and a request that is refused.
SPECIFICATION Spec
CONSTANTS
  None = None
  c1 = c1
  c2 = c2
  racing = racing
  cached = cached
  invalid = invalid
  i1 = i1
  i2 = i2
  v = v
  nil = nil
  Calls = {c1, c2}
  Keys = {racing, cached, invalid}
  Instances = {i1, i2}
  Payloads = {v, nil}
  Falsy = {nil}
  Malformed = {nil}
  CachedKeys = {cached}
  CheckedKeys = {cached}
  RaceKeys = {racing}
  InvalidRequests = {invalid}
  Expiries = {0, 2}
  CacheTimeout = 1
  DefaultTimeout = 2
  OwnTimeoutKeys = {cached}
  OwnTimeout <- MCOwnTimeout
SYMMETRY Symmetry
INVARIANTS
  TypeOK
  HonestResults
  CacheHoldsReturned
  HonestErrors
  SingleHandling
  ChildDeadlineInherited
  DeadlineSlack
  RaceAnswer
