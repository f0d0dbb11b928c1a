SPECIFICATION Spec
CONSTANTS
    p1 = p1
    s1 = s1
    s2 = s2
    BlankEnv = BlankEnv
    NoId = NoId
    NoProject = NoProject
    Projects <- MCProjects
    AllowedProjects <- MCProjects
    AllowUnscoped = FALSE
    PrefixConfigured = TRUE
    Names <- MCNames
    ProtectedNames <- MCProtectedNames
    ProtectedIds = {}
    MaxEnvironments = 2
    DisabledTools = {}
    HardCeiling = {"capella_cluster_delete"}
    ClusterIds = {"c1"}
    StartingClusters <- MCCallsStart
    MaxEdits = 1
    MaxFaults = 1
    w1 = w1
    w2 = w2
    Workers = {w1}
    Ops <- MCAllOps
    EnvArgs <- MCEnvArgs
    Presence = {TRUE, FALSE}
INVARIANTS
    LifecycleInv
    OnlyDeletableDestroyed
    CeilingHolds
PROPERTY AlreadyOffIsTrue
