SPECIFICATION AhciSpec
CONSTANTS
  PtrBits = 2
  StampBits = 3
  Config <- MCConfig
  MaxDrives = 2
  MaxAdds = 4
INVARIANTS
  ScanIsExact
  DrivesAreKept
  DevicesEnumerated
