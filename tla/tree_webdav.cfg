SPECIFICATION Spec
CONSTANTS
  Count = 1
  Directory = {1}
  Piece = {main, other}
  Main = main
  Link = {}
  Situations = {"apart"}
  Operations = {"move"}
  RecursiveRemove = TRUE
  MaxFailures = 0
INVARIANT NothingDestroyed
CHECK_DEADLOCK FALSE
