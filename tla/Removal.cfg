SPECIFICATION Spec
CONSTANTS
  Uploads = {"u1"}
  Files = {f1, f2}
  OwnerOf <- OneLead
  KeyOf <- OneApart
  BrowserOf <- OneAnonymous
  NoBrowser = "nobody"
  PayloadOf <- OneApart
  LockId <- OneLock
  Removals = {r1, r2}
  Downloads = {"d1"}
  Cleanups = {"c1"}
  Faults = {"crash", "io", "ambiguous"}
  f1 = f1  f2 = f2  r1 = r1  r2 = r2
SYMMETRY Alike
INVARIANTS
  AcceptedBytesKept
  DeletedMeansPurged
  StreamedFileInPlace
  RecoveryIsComplete
