SPECIFICATION Spec
CONSTANTS
  Count = 2
  Directory = {2}
  Piece = {main, other}
  Main = main
  Unlisted = {}
  Situations = {"apart", "dangling", "same", "inside"}
  Operations = {"copy", "move"}
  Helpers = {TRUE, FALSE}
  MaxFailures = 2
INVARIANTS SourceKept OccupantKept NoTruncatedFile
CHECK_DEADLOCK FALSE
