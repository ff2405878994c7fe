SPECIFICATION Spec
CONSTANTS
  Uploads = {"u1", "u2"}
  Files = {"f1", "f2"}
  OwnerOf <- TwoLeads
  KeyOf <- Apart
  BrowserOf <- Anonymous
  NoBrowser = "nobody"
  PayloadOf <- Apart
  LockId <- ApartLocks
  Removals = {}
  Downloads = {}
  Cleanups = {"c1"}
  Faults = {}
INVARIANTS
  CleanupNeverRaces
