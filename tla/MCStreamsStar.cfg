\* A version with the action *.
SPECIFICATION Spec
CONSTANTS
  None = None
  w1 = w1
  w2 = w2
  m1 = m1
  n1 = n1
  wide = wide
  moved = moved
  narrow = narrow
  star = star
  l1 = l1
  l2 = l2
  few = few
  many = many
  Version <- MCVersion
  Actions <- MCActions
  Fixed <- MCFixed
  Events = {"Elapsed", "Notify"}
  EventOf <- MCEventOf
  Setting <- MCSetting
  Replicas = {star}
  Listeners = {}
INVARIANT
  StarIsForAll
CHECK_DEADLOCK FALSE
