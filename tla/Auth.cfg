SPECIFICATION Spec
CONSTANTS
  c1 = c1  c2 = c2  ann = ann  bob = bob  k1 = k1  k2 = k2  none = none
  Ctx <- MCCtx  Slots = 2  Name <- MCName  Secret <- MCSecret
  Perms <- MCPerms  Founder = ann  None = none
INVARIANTS
  OwnCredential
  IndexInSync
  SessionIsCurrent
  NoLockout
PROPERTY
  DelegateDown
