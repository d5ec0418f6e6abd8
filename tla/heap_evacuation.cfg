SPECIFICATION FairSpec
CONSTANTS
  SPACE_SIZE = 4
  PAGE_SIZE = 2
  REGIONS = 5
  LargeThreshold = 2
  HeaderSize = 1
  Bodies = {1,3}
  MaxObjects = 3
  MaxGuards = 2
INVARIANTS TypeOK SpacesDistinct ReserveIsReady ObjectsIntact ResolvedOutsideEvacuated ReadySpacesAreUnused NoCollectionAtUnsafepoint
PROPERTIES CollectionConserves CollectionEnds
CHECK_DEADLOCK FALSE
