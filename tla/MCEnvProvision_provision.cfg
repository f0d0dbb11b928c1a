SPECIFICATION Spec
CONSTANTS
    p1 = p1
    p2 = p2
    s1 = s1
    s2 = s2
    w1 = w1
    w2 = w2
    BlankEnv = BlankEnv
    NoId = NoId
    NoProject = NoProject
    Projects = {p1, p2}
    AllowedProjects = {p1, p2}
    AllowUnscoped = FALSE
    PrefixConfigured = TRUE
    Names <- MCNames
    ProtectedNames <- MCNothing
    ProtectedIds = {c3}
    MaxEnvironments = 1
    DisabledTools = {}
    HardCeiling = {}
    c1 = c1
    c2 = c2
    c3 = c3
    ClusterIds = {c1, c2, c3}
    StartingClusters <- MCOrg
    MaxEdits = 1
    MaxFaults = 0
    Workers = {w1, w2}
    Ops = {"ensure", "primitive"}
    EnvArgs <- MCPrefixedEnv
    Wishes <- MCPlain
    CallerMarkers <- MCNothing
SYMMETRY MCAlike
INVARIANTS ProvisionInv
PROPERTIES SpendBound
