SPECIFICATION Spec
CONSTANTS
  SPACE_SIZE = 6
  PAGE_SIZE = 2
  REGIONS = 4
  LargeThreshold = 2
  HeaderSize = 1
  Bodies = {0, 1}
  MaxObjects = 2
  MaxGuards = 0
INVARIANT ReadySpacesAreUnused
CHECK_DEADLOCK FALSE
