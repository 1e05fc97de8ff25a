SPECIFICATION FairHeldScanSpec
CONSTANTS
  pmm_region_count = 2
  base <- MCBase
  size <- MCSize
  PMM_PAGE_SIZE = 2
  ADDR_SPACE = 16
  MaxCount = 3
  MaxPageTables = 1
  MaxForeignFrees = 0
INVARIANTS
  CountersMatchBitmap
  FailOnlyWhenFull
PROPERTIES
  StoreSpec
  PmmAnySpec
  Returns
