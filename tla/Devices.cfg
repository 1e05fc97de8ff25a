SPECIFICATION Spec
CONSTANTS
  Boards <- MCBoards
  CELL = 4
  SPI_BASE = 32
  PPI_BASE = 16
  POOL_ALIGN = 2
  PAGE_SIZE = 8
  PoolHeader = 2
  Pools <- MCPools
  DeviceSize = 5
  ResourceSize = 2
  NameSize = 1
  DEVICE_MAX_RESOURCES = 3
  sc1 = sc1
  sc2 = sc2
  Softcs <- MCSoftcs
  LinkOrders <- MCLinkOrders
  Names = {"extra"}
  Removable = {"ns16550_uart"}
  MaxMoves = 1
SYMMETRY SoftcSymmetry
INVARIANTS EnumerationExact BindingsExact
PROPERTIES BestBound ConsoleServes
