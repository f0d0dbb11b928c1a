SPECIFICATION FairSpec
CONSTANTS
    p1 = p1
    p2 = p2
    s1 = s1
    s2 = s2
    w1 = w1
    w2 = w2
    BlankEnv = BlankEnv
    NoId = NoId
    NoProject = NoProject
    Projects = {p1, p2}
    AllowedProjects = {}
    AllowUnscoped = TRUE
    PrefixConfigured = TRUE
    Names <- MCNames
    ProtectedNames <- MCNothing
    ProtectedIds = {}
    MaxEnvironments = 2
    DisabledTools = {}
    HardCeiling = {}
    c1 = c1
    c2 = c2
    c3 = c3
    ClusterIds = {c1, c2, c3}
    StartingClusters <- MCOther
    MaxEdits = 0
    MaxFaults = 1
    Workers = {w1}
    Ops = {"ensure"}
    EnvArgs <- MCOneEnv
    Wishes <- MCAll
    CallerMarkers <- MCNothing
INVARIANTS AnswerInv
PROPERTIES NeverDuplicated Converges
