\* Two services of one process over NATS, two stops.
SPECIFICATION FairSpec
CONSTANTS
  None = None
  gateway = gateway
  other = other
  database = database
  metrics = metrics
  queue = queue
  Services = {gateway, other}
  Closeables = {database, metrics, queue}
  Additional <- MCAdditional
  MethodServices = {other}
  HttpServices = {gateway}
  StreamServices = {other}
  Union = FALSE
  Timeout = 1
  MaxStops = 2
INVARIANTS
  TypeOK
  ExitBound
  ClosedIfAlone
PROPERTY
  CleanupEnds
CHECK_DEADLOCK FALSE
