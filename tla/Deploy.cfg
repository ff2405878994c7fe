SPECIFICATION RenewalSpec
CONSTANTS
  Deploys = {old, d1, d2}
  Projects = {"refraction", "other"}
  SchemaOf <- Schemas
  None = None
  HookProject = "refraction"
  MaxRenewals = 2
  old = old  d1 = d1  d2 = d2
SYMMETRY Alike
CONSTRAINT ThirdAlone
CHECK_DEADLOCK FALSE
INVARIANTS
  TypeOK
  SecretsFitTheVolume
  OneDatabase
  SchemaIsReady
  LinksFollowHistory
  ReadyIsTrue
  ProxyIsBack
