SPECIFICATION Spec
CONSTANTS
  s1 = s1
  s2 = s2
  c1 = c1
  Global = Global
  None = None
  KeyId = {1}
  Server = {s1, s2}
  Client = {c1}
  Owner <- OneClient
  SmallSlots = 1
  BigSlots = 1
  NvmSize = 2
  ClientKinds = {"small"}
  FlagSets <- MCFlagSets
  TrustedIds = {}
  MaxMaterial = 1
  MaxIndex = 2
  MaxMoves = 2
INVARIANT NeverReused
