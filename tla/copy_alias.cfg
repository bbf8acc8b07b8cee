SPECIFICATION Spec
CONSTANTS
  Count = 1
  Directory = {}
  Piece = {main, other}
  Main = main
  Unlisted = {}
  Situations = {"alias"}
  Operations = {"move"}
  Helpers = {TRUE, FALSE}
  MaxFailures = 0
INVARIANT NothingDestroyed
CHECK_DEADLOCK FALSE
