SPECIFICATION RemovalSpec
CONSTANTS
  file = file
  top = top
  past = past
  dir = dir
  a = a
  sub = sub
  b = b
  link = link
  beyond = beyond
  Root = Root
  Node <- MC_Node
  Parent <- MC_Parent
  Folder = {dir, sub}
  Link = {link, top}
  Hows = {"local", "trash", "provider"}
  Follows <- MC_Both
  Recursive <- MC_Both
  MaxFailures = 2
INVARIANTS
  OnlyThroughLinks
  TrueMeansGone
CHECK_DEADLOCK FALSE
