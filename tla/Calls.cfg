SPECIFICATION Spec
CONSTANTS
  k1 = k1  k2 = k2  k3 = k3
  Key = {k1, k2, k3}
  Deniable = {"never", "parsed", "assigned"}
  None = none
SYMMETRY Perms
INVARIANTS
  KnownStay
  NoneLeftBehind
  OwnIsFresh
