SPECIFICATION LiveSpec
CONSTANTS
  Tabs = {"t1"}
  MaxPosts = 2
  MaxChecks = 2
  MaxDrafts = 2
  MaxExpiries = 1
  MaxDeletions = 1
INVARIANTS
  TypeOK
  ShownMeansSaved
  OneLeadPerDraft
  AnnouncedOnce
  ConflictOnlyByCookie
PROPERTIES
  FormComesBack
