SPECIFICATION MCSpec
CONSTANTS
  s1 = s1
  s2 = s2
  s3 = s3
  Slabs <- MCSlabs
  objects_per_slab = 3
  SlabSizes <- MCSlabSizes
  MaxSlabSize = 262144
  Header = 64
  IndexSize = 4
  PointerSize = 8
  Sizes <- MCSizes
  Aligns <- MCAligns
SYMMETRY SlabSymmetry
INVARIANTS
  MemoryExact
  FreelistExact
  ListsByUse
  LayoutFits
CHECK_DEADLOCK FALSE
