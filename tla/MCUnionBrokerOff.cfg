\* off.
SPECIFICATION Spec
CONSTANTS
  None = None
  plain = plain
  racing = racing
  v = v
  whole = whole
  part = part
  o1 = o1
  Calls = {}
  Keys = {plain, racing}
  Payloads = {v}
  Falsy = {}
  RaceKeys = {racing}
  Servers = {}
  Serves <- MCServes
  Ons = {o1}
  MaxEvents = 1
PROPERTY
  NothingAfterOff
CHECK_DEADLOCK FALSE
