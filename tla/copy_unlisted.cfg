SPECIFICATION Spec
CONSTANTS
  Count = 1
  Directory = {1}
  Piece = {main, other}
  Main = main
  Unlisted = {other}
  Situations = {"apart"}
  Operations = {"move"}
  Helpers = {TRUE, FALSE}
  MaxFailures = 0
INVARIANT NothingDestroyed
CHECK_DEADLOCK FALSE
