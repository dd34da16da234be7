SPECIFICATION FairSpec
CONSTANTS
  EnvName <- MCEnvName
  Groups <- MCGroups
  Settings <- MCSettings
  None = None
  MaxFailures = 2
  MaxDcraPolls = 2
  MaxGroupPolls = 2
INVARIANTS
  TypeOK
  GroupsDieEmpty
  BaseRecordGoesLast
  SuccessMeansClean
PROPERTIES
  OnlyOwnedIsDeleted
  DcraGoesFirstIfRead
  TeardownCompletes
