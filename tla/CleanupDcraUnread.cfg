SPECIFICATION Spec
CONSTANTS
  EnvName <- MCEnvName
  Groups <- MCGroups
  Settings <- MCOwnSettings
  None = None
  MaxFailures = 1
  MaxDcraPolls = 2
  MaxGroupPolls = 2
PROPERTIES
  DcraGoesFirst
