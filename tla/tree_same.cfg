SPECIFICATION Spec
CONSTANTS
  Count = 1
  Directory = {}
  Piece = {main}
  Main = main
  Link = {}
  Situations = {"same"}
  Operations = {"copy", "move"}
  RecursiveRemove = FALSE
  MaxFailures = 0
INVARIANT NothingDestroyed
CHECK_DEADLOCK FALSE
