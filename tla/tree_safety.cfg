SPECIFICATION Spec
CONSTANTS
  Count = 2
  Directory = {2}
  Piece = {main, other, link}
  Main = main
  Link = {link}
  Situations = {"apart"}
  Operations = {"copy", "move"}
  RecursiveRemove = FALSE
  MaxFailures = 2
INVARIANTS NothingDestroyed ReportedIsThere
CHECK_DEADLOCK FALSE
