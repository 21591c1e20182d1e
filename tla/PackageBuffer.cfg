CONSTANTS
  Base = 3
  Id = 1
  Sizes <- SmallSizes
  Capacity = 6
  Chunks <- SmallChunks
  MaxStream = 9
SPECIFICATION Spec
INVARIANTS TypeOK BufferIsNewest PackageCameIn PlainPackageFound
