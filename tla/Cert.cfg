SPECIFICATION Spec
CONSTANTS
  Server = {s1, s2}
  Id = {id1, id2, id3}
  r1 = r1
  r2 = r2
  i1 = i1
  leaf = leaf
  Cert = {r1, r2, i1, leaf}
  CA = {r1, r2, i1}
  Issuer <- MCIssuer
  Below <- MCBelow
  Count = 2
  Global = TRUE
  None = None
SYMMETRY Perms
INVARIANTS
  CacheIsRooted
  ChainIsRooted
  LeafHasIssuer
