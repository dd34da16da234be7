SPECIFICATION Spec
CONSTANTS
  EnvName <- MCEnvName
  Groups <- MCGroups
  Settings <- MCSettings
  None = None
  MaxFailures = 0
  MaxDcraPolls = 2
  MaxGroupPolls = 2
PROPERTIES
  ForeignGroupSkipsGroups
