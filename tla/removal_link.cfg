SPECIFICATION RemovalSpec
CONSTANTS
  file = file
  top = top
  past = past
  dir = dir
  a = a
  sub = sub
  b = b
  link = link
  beyond = beyond
  Root = Root
  Node <- MC_LinkNode
  Parent <- MC_LinkParent
  Folder = {}
  Link = {top}
  Hows = {"local"}
  Follows <- MC_No
  Recursive <- MC_No
  MaxFailures = 0
INVARIANT OnlySelected
CHECK_DEADLOCK FALSE
