CONSTANTS
  Projects = {"p1", "p2"}
  AllowedProjects = {"p1"}
  AllowUnscoped = FALSE
  PrefixConfigured = TRUE
  Names <- MCNames
  ProtectedNames <- MCProtected
  ProtectedIds = {}
  MaxEnvironments = 1
  DisabledTools = {}
  HardCeiling = {}
  BlankEnv = BlankEnv
  MaxAttempts = 2
  PerPage = 1
  Calls <- MCCalls
  Ids = {1, 2}
  StartingClusters <- MCStartingClusters
  Descriptions <- MCDescriptions
  Caps = {0, 1, 9}
  Absent = Absent
  MaxFaults = 2
  MaxEdits = 1
SPECIFICATION Spec
INVARIANTS SandboxInv ClientInv
PROPERTIES NeverLaundered
