SPECIFICATION Spec
CONSTANTS
  b = b
  c = c
  p = p
  Device = {b, c}
  Payload = {p}
  Capacity = 2
  MaxCuts = 1
  MaxFaults = 0
  MaxResets = 0
  Away = {c}
  Late = TRUE
INVARIANT PushesReach
CHECK_DEADLOCK FALSE
