SPECIFICATION SystemSpec
CONSTANTS
  Uploads = {1, 2}
  Files = {"f1"}
  OwnerOf <- OneFile
  KeyOf <- OneKey
  BrowserOf <- CookieLater
  NoBrowser = "nobody"
  PayloadOf <- OneKey
  Carries <- Sends
  LockId <- SomeIds
  Removals = {}
  Downloads = {}
  Cleanups = {}
  Faults = {}
  Tabs = {"t1"}
  MaxPosts = 2
  MaxChecks = 2
  MaxDrafts = 1
  MaxExpiries = 0
  MaxDeletions = 0
INVARIANTS
  RetryIsSafe
CHECK_DEADLOCK FALSE
