SPECIFICATION Spec
CONSTANTS
  Nil = Nil
  Root = {r1}
  Id = {1, 2}
  Address = {1, 2, 3, 4}
  LastField = 2
  Written = {1, 2}
  Overwriting = FALSE
  Ephemerons = {TRUE, FALSE}
  Switching = FALSE
  MaxCollections = 2
CHECK_DEADLOCK FALSE
INVARIANTS TypeOK TraceComplete OnlyReachableSeen
PROPERTY CollectionIsInvisible
