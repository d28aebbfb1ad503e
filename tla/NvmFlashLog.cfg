SPECIFICATION Spec
CONSTANTS
  a = a
  b = b
  c = c
  v0 = v0
  v1 = v1
  None = None
  Blank = Blank
  Torn = Torn
  Id <- MCId
  Val <- MCVal
  UnitsOf <- MCUnitsOf
  ObjectCount = 2
  Capacity = 3
  MaxEpoch = 4
  Faults = {"program", "erase", "reread"}
  BeyondSpoil = FALSE
SYMMETRY Symmetry
PROPERTY StoreRefined
