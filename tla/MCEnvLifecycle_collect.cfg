SPECIFICATION FairSpec
CONSTANTS
    p1 = p1
    s1 = s1
    s2 = s2
    BlankEnv = BlankEnv
    NoId = NoId
    NoProject = NoProject
    Projects <- MCProjects
    AllowedProjects <- MCProjects
    AllowUnscoped = FALSE
    PrefixConfigured = TRUE
    Names <- MCNames
    ProtectedNames <- MCNothing
    ProtectedIds = {}
    MaxEnvironments = 2
    DisabledTools = {}
    HardCeiling = {}
    ClusterIds = {"c1", "c2"}
    StartingClusters <- MCCollectStart
    MaxEdits = 0
    MaxFaults = 1
    w1 = w1
    w2 = w2
    Workers = {w1}
    Ops <- MCReap
    EnvArgs <- MCEnvArgs
    Presence = {FALSE}
INVARIANTS
    SweepAccounts
    ReapOnlyExpired
    ReapedMeansDeleted
PROPERTY ExpiredCollected
