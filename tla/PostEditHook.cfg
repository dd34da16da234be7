SPECIFICATION Spec
CONSTANTS
  Kinds = {"py", "bicep"}
  CommandTimeout = 2
  HookTimeout = 3
  MaxRevisions = 2
  Absent = Absent
PROPERTIES
  AgentIsCurrent
  LineEndsKept
