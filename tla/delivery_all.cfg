SPECIFICATION FairSpec
CONSTANTS
  b = b
  c = c
  p = p
  Device = {b, c}
  Payload = {p}
  Capacity = 2
  MaxCuts = 1
  MaxFaults = 2
  MaxResets = 1
  Away = {c}
  Late = FALSE
INVARIANTS DeliveredIsKept PayloadWhileNeeded SavedOnce
PROPERTY Arrives
CHECK_DEADLOCK FALSE
