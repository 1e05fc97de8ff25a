SPECIFICATION Spec
CONSTANTS
  FANOUT = 4
  PAGE_SIZE = 2
  KERNEL_VIRT_BASE = 48
  DMAP_BASE = 16
  BOOT_PAGES = 1
  EXTENDED_PAGES = 4
  kernel_phys_base = 4
  DEVMAP_VA_START = 32
  DEVMAP_VA_END = 39
  DEVMAP_MAX_ENTRIES = 4
  WindowStart = 40
  WindowPages = 4
  WindowPhys = 12
  MemInfo <- MCMemInfo
  Resources <- MCResources
INVARIANTS TablesReached DevicesMapped TlbFresh
PROPERTY SpaceSpec
