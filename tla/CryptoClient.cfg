SPECIFICATION Spec
CONSTANTS
  o1 = o1  o2 = o2  b1 = b1  b2 = b2  b3 = b3
  Obj = {o1, o2}
  Buf = {b1, b2, b3}
  Listed = {b1, b2}
  Block = 2
  Inline = 2
  MaxLen = 4
  Noise = noise
  None = none
SYMMETRY Perms
INVARIANTS
  InputAccounted
  DigestsRight
  RequestsAccepted
  MappingsReturned
