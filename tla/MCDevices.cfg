SPECIFICATION Spec
CONSTANTS
  PipeCapacity = 6
  PipeCounts = {1, 2, 3}
  MaxGot = 8
  Sectors = 5
  Tables <- MCTables
  SectorCounts = {1, 2, 3}
  SectorsPerPrd = 2
  MaxWrites = 1
  Slots = {0, 1}
  Buffers = {3}
  DmaSpace = 4
  Readers = {"r1", "r2"}
  LineCounts = {1, 2}
  MaxKeys = 3
  MaxBytes = 7
  MaxPackets = 3
  block_size = 3
  Blocks = 4
INVARIANTS
  DiskExact
  InputInOrder
  RangesExact
PROPERTIES
  PipeIsChannel
  PipeDelivers
  DiskReturns
CHECK_DEADLOCK FALSE
