SPECIFICATION Spec
CONSTANTS
  a = a
  b = b
  v0 = v0
  v1 = v1
  None = None
  Blank = Blank
  Torn = Torn
  Id <- MCId
  Val <- MCVal
  UnitsOf <- MCUnitsOf
  ObjectCount = 3
  DataUnits = 4
  MaxEpoch = 2
  Faults = {"program", "erase"}
SYMMETRY Symmetry
VIEW LiveState
INVARIANT ActiveIsNewest
PROPERTIES
  NeverUnformatted
  StoreRefined
