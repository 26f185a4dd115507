\* Two replicas of a version with the action >, one of another that keeps its
\* stream in memory, one of a version with *, and one with a stream for each
\* event; two listeners.
SPECIFICATION Spec
CONSTANTS
  None = None
  w1 = w1
  w2 = w2
  m1 = m1
  n1 = n1
  wide = wide
  moved = moved
  narrow = narrow
  star = star
  l1 = l1
  l2 = l2
  few = few
  many = many
  Version <- MCVersion
  Actions <- MCActions
  Fixed <- MCFixed
  Events = {"Elapsed", "Notify"}
  EventOf <- MCEventOf
  Setting <- MCSetting
  Replicas = {w1, w2, m1, n1, star}
  Listeners = {l1, l2}
SYMMETRY Symmetry
INVARIANTS
  TypeOK
  StartedHasStreams
  NothingLost
  ClashOnlyAtBirth
  ReadyHasConsumer
CHECK_DEADLOCK FALSE
