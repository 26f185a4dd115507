\* Two calls of initDependencies and two of unbind.
SPECIFICATION Spec
CONSTANTS
  None = None
  outerKey = outerKey
  innerKey = innerKey
  Outer = Outer
  Inner = Inner
  p1 = p1
  p2 = p2
  u1 = u1
  u2 = u2
  Keys = {outerKey, innerKey}
  Impls = {Outer, Inner}
  Needs <- MCNeeds
  ByProperty <- MCByProperty
  Bindable <- AllBindable
  Initers = {p1, p2}
  Unbinders = {u1, u2}
  MaxBinds = 2
SYMMETRY Symmetry
INVARIANTS
  TypeOK
  InitOnce
  InitCovers
  CloseOnce
  InjectedIsShared
PROPERTY
  ClosedWhenDropped
CHECK_DEADLOCK FALSE
