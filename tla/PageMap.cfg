SPECIFICATION PageMapSpec
CONSTANTS
  TableBits = 1
  Addr0Shift = 2
  IntBits = 6
  AddrBits = 12
  Avail0Bits = 1
  Avail1Bits = 2
  Pages = 8
  Base = 32
  FirstPage = 1
  LastPage = 2
  Virt <- MCVirt
  Phys <- MCPhys
  Flags <- MCFlags
  Avail = {13}
INVARIANTS
  GetTellsTheTruth
  BootMapping
PROPERTY MapsAsRequested
