SPECIFICATION DriverSpec
CONSTANTS
  PtrBits = 2
  StampBits = 3
  Drivers = {1, 2, 3}
  TypeOf <- MCTypeOf
  Client = {c1}
  MaxAdds = 5
INVARIANTS ListIsLinked EnumerationComplete
