\* Three objects and three versions: a change set of two transactions that create,
\* change and delete any of them.
SPECIFICATION Spec
CONSTANTS
  Objects = {1, 2, 3}
  Watched = {2}
  Values = {1, 2}
  Match = {2}
  Unborn = Unborn
  Gone = Gone
  MaxVersions = 3
INVARIANTS TypeOK MirrorExact CopyExact
PROPERTIES ToldInTheEnd
\* The program need do nothing more.
CHECK_DEADLOCK FALSE
