SPECIFICATION Spec
CONSTANTS
  s1 = s1  s2 = s2  app = app  k1 = k1
  Server = {s1, s2}
  App = {app}
  Key = {k1}
  Zero = zero
  MaxCount = 1
  ImageSize = 1
  MaxSize = 1
  MaxSeed = 3
  Provision <- mc_Provision
  Targets = {app}
  Primes = {app}
SYMMETRY Perms
INVARIANTS BootOnTrack
PROPERTIES BootMeasured SlotsGuarded SeedFresh
