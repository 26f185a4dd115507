\* Two calls, two services of which one also serves what the other does, and a
\* listener to two events.
SPECIFICATION FairSpec
CONSTANTS
  None = None
  c1 = c1
  c2 = c2
  plain = plain
  racing = racing
  v = v
  nil = nil
  whole = whole
  part = part
  o1 = o1
  Calls = {c1, c2}
  Keys = {plain, racing}
  Payloads = {v, nil}
  Falsy = {nil}
  RaceKeys = {racing}
  Servers = {whole, part}
  Serves <- MCServes
  Ons = {o1}
  MaxEvents = 2
INVARIANTS
  AnswerListeners
  EventsInOrder
PROPERTIES
  PromiseSpec
  EventsHandled
CHECK_DEADLOCK FALSE
