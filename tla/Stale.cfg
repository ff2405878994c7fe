SPECIFICATION Spec
CONSTANTS
  Uploads = {"u1"}
  Files = {"f1", "f2"}
  OwnerOf <- OneLead
  KeyOf <- OneApart
  BrowserOf <- OneAnonymous
  NoBrowser = "nobody"
  PayloadOf <- OneApart
  LockId <- OneLock
  Removals = {"r1", "r2"}
  Downloads = {}
  Cleanups = {}
  Faults = {"drop"}
INVARIANTS
  DeletedMeansPurged
