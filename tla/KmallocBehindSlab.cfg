SPECIFICATION Spec
CONSTANTS
  MemorySizes = {14}
  initial_buckets = 8
  UserClasses = {"user"}
  LookupClass = "lookup"
  BucketClass <- MCBucketClass
  Entries = "entry"
  object_size <- MCObjectSize
  objects_per_slab <- MCObjectsPerSlab
  slab_pages <- MCSlabPages
  entries_per_page = 4
  LargePages <- MCLarge
  large_size = 100
  MaxHeld = 4
INVARIANT
  LargeSizeHolds
\* Callers may stop calling.
CHECK_DEADLOCK FALSE
