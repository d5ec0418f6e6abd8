SPECIFICATION Spec
CONSTANTS
  Nil = Nil
  Root = {r1}
  Id = {1, 2}
  Address = {1, 2, 3, 4}
  LastField = 1
  Written = {1}
  Overwriting = TRUE
  Ephemerons = {FALSE}
  Switching = TRUE
  MaxCollections = 1
CHECK_DEADLOCK FALSE
INVARIANT SuspendedFramesValid
