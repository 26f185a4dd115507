\* Four classes of methods, two requests, one event, four spans.
SPECIFICATION Spec
CONSTANTS
  None = None
  r1 = r1
  r2 = r2
  e1 = e1
  base = base
  left = left
  lone = lone
  twin = twin
  Users = Users
  Mail = Mail
  Clock = Clock
  Disk = Disk
  Limit = Limit
  Methods = {base, left, lone, twin}
  Super <- MCSuper
  Action <- MCAction
  Related = {left, lone, twin}
  Decorated <- MCDecorated
  CtorNames = {"p0"}
  TypeOf <- MCTypeOf
  Requests = {r1, r2}
  Events = {e1}
  Headers <- MCHeaders
  MaxSpans = 4
SYMMETRY Symmetry
INVARIANTS
  TypeOK
  OwnDependencies
  SpansEnd
  OneTree
CHECK_DEADLOCK FALSE
