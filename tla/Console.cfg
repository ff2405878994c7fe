SPECIFICATION LiveSpec
CONSTANTS
  Leads = {"l1", "l2", "l3", "l4"}
  Inbox <- FirstLeads
  CreatedAt <- Creation
  Lead = "l1"
  Filters = {"all", "some"}
  Home = "all"
  Matches <- Selection
  HasFiles <- Asked
  Descending = {"all"}
  PageSize = 1
  Files = {"f1", "f2", "f4"}
  OwnerOf <- Owner
  Texts = {"", "a"}
  MaxChanges = 2
  Reloads = {"again"}
  None = None
INVARIANTS
  ListFitsAddress
  WalkMissesNothing
  SavedIsStored
PROPERTIES
  LoadingEnds
  OverwritesOnlyKnown
