\* An event in core NATS and one in a stream, single and batch listeners.
SPECIFICATION FairSpec
CONSTANTS
  None = None
  a1 = a1
  b1 = b1
  clientA = clientA
  clientB = clientB
  core = core
  stream = stream
  s1 = s1
  s2 = s2
  s3 = s3
  m1 = m1
  m2 = m2
  Clients = {clientA, clientB}
  Listeners = {a1, b1}
  ClientOf <- MCClientOf
  QueueListeners = {a1, b1}
  BatchListeners = {b1}
  Options <- MCOptions
  Events = {core, stream}
  StreamEvents = {stream}
  Subs = {s1, s2}
  Messages = {m1, m2}
INVARIANTS
  TakingTurnsIsTidy
  OnceIfTidy
PROPERTIES
  HandledBeforeGone
  StreamEventsHandled
CHECK_DEADLOCK FALSE
