SPECIFICATION MCSpec
CONSTANTS
  MemorySizes = {5, 8, 10, 11}
  initial_buckets = 8
  UserClasses = {"user"}
  LookupClass = "lookup"
  BucketClass <- MCBucketClass
  Entries = "entry"
  object_size <- MCObjectSize
  objects_per_slab <- MCObjectsPerSlab
  slab_pages <- MCSlabPages
  entries_per_page = 4
  LargePages <- MCBlock
  large_size = 100
  MaxHeld = 4
  FirstPage = 4
  LastPage = 17
  MAX_ORDER = 3
  MEDIUM_ORDER = 1
  LARGE_ORDER = 2
  MIN_CHUNK = 4
  MEDIUM_CHUNK = 8
  MIN_CHUNKS_TO_KEEP = 1
  num_blocks = 3
  MaxTotal = 6
INVARIANTS
  TableExact
  TableComplete
  StatsExact
  BuddyBlocks
  FreeListsExact
  Coalesced
  PagesConserved
\* Callers may stop calling.
CHECK_DEADLOCK FALSE
