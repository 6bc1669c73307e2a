SPECIFICATION BothSpec
CONSTANTS
  ObjSize = 3
  SlabObjs = 0
  SlabAuto = 8
  PoolHdr = 1
  MaxSlabs = 2
  MaxStray = 2
  SlabBytes = 6
  SlabHdr = 1
  Sizes = {0, 1, 2, 4, 5, 6}
  MaxGangSlabs = 2
INVARIANTS BothTypeOK InsideSlab GangInsideSlab
PROPERTIES ImplementsAllocator GrowsWhenFull GangImplementsAllocator
