SPECIFICATION Spec
CONSTANTS
  Uploads = {"u1", "u2", "u3", "u4"}
  Files = {"f1", "f2"}
  OwnerOf <- IntakeOwner
  KeyOf <- IntakeKey
  BrowserOf <- IntakeBrowser
  NoBrowser = "nobody"
  PayloadOf <- IntakePayload
  LockId <- IntakeLocks
  Removals = {}
  Downloads = {}
  Cleanups = {}
  Faults = {"ambiguous", "drop"}
INVARIANTS
  OneLeadPerKeyAndBrowser
  NoLockCycle
PROPERTIES
  ImplementsRegister
