SPECIFICATION MCSpec
CONSTANTS
  nr_domains = 6
  type <- MCType
  size <- MCSize
  parent <- MCParent
  child_to_parent_hwirq <- MCChildToParent
  MAX_VIRQ = 5
  MaxHwIrq = 3
  Lines <- MCLines
  Removable <- Linear
  MaxRange = 0
  dev1 = dev1
  dev2 = dev2
  MsiDev <- MCMsiDev
  msi_domain = 6
  MSI_MAX_VECTORS = 3
  Settings <- MsiOnly
INVARIANTS
  VectorsMapped
CHECK_DEADLOCK FALSE
