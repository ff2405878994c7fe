SPECIFICATION PoolSpec
CONSTANTS
  Uploads = {"u1", "u2"}
  Files = {"f1"}
  OwnerOf <- OneLead
  KeyOf <- Apart
  BrowserOf <- Known
  NoBrowser = "nobody"
  PayloadOf <- Apart
  LockId <- CrosswiseLocks
  Removals = {"r1"}
  Downloads = {"d1"}
  Cleanups = {"c1"}
  Faults = {}
  PoolSize = 2
INVARIANTS
  TypeOK
  NoLeftovers
  NoGridlock
PROPERTIES
  CleanupSparesActiveWrites
  Answered
