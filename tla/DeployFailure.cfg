SPECIFICATION Spec
CONSTANTS
  Deploys = {"d1", "d2", "d3"}
  Projects = {"lab", "other"}
  SchemaOf <- Schemas
  None = None
CHECK_DEADLOCK FALSE
PROPERTIES
  FailureKeepsLinks
