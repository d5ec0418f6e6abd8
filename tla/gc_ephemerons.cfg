SPECIFICATION FairSpec
CONSTANTS
  Nil = Nil
  Root = {r1}
  Id = {1, 2, 3}
  Address = {1, 2, 3}
  LastField = 2
  Written = {1, 2}
  Overwriting = FALSE
  Ephemerons = {TRUE, FALSE}
  Switching = TRUE
  MaxCollections = 1
CHECK_DEADLOCK FALSE
INVARIANT TraceComplete
PROPERTY CollectionEnds
