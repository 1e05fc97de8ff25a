SPECIFICATION Spec
CONSTANTS
  PMM_PAGE_SIZE = 2
  PMM_MAX_REGIONS = 2
  WORD = 1
  WORD_PAGES = 2
  MAX_MEMORY_REGIONS = 2
  MIN_REGION = 4
  BOOT_PAGE_TABLE_PADDING = 2
  BOOT_PAGE_TABLE_SIZE = 4
  COPY_OFFSET = 8
  FDT_WINDOW = 8
  BOOTSTRAP_EXTRA = 4
  BOOTSTRAP_LIMIT = 34
  MAP_ALIGN = 16
  MAPPED_SIZE = 64
  MAX_TOTALSIZE = 8
  POOL_PAGES = 3
  UART_BASE = 46
  kernel_phys_base = 18
  kernel_end = 22
  Banks <- MCBanks
  KernelBankFirst = TRUE
  Places <- MCPlaces
  TotalSizes = {3, 9}
  MaxTokens = 9
  MaxDepth = 3
  MaxTables = 2
INVARIANT BlobPassed
\* The boot ends, in a running kernel or a panic.
CHECK_DEADLOCK FALSE
