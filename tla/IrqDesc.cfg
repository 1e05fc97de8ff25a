SPECIFICATION MCSpec
CONSTANTS
  d1 = d1
  d2 = d2
  Dev <- MCDev
  Arch = "riscv"
  MaxDepth = 3
  MaxChain = 3
  GIC_SPI_BASE = 1
  GIC_MAX_INTERRUPTS = 5
  ENABLER_LINES = 6
  MAX_NUM_SPI = 4
  NrIrqs = {4, 6}
  SpiRanges <- MCSpiRanges
  MAP_SHIFT = 1
  MAX_HEIGHT = 3
  MAX_FREE_NODES = 1
  NULL = NULL
  Item = {item, other}
  Keys = {0, 1, 2, 6}
  ReplaceAbsent = FALSE
INVARIANTS DepthStatusMask AllAgreedToShare ClaimsCompleted HandlersEnabledOnly LinesExact IterationExact
PROPERTIES ServedByEither MapSpec
\* A handler that spins on a lock of the task it preempted stops the CPU.
CHECK_DEADLOCK FALSE
