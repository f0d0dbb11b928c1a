------------------------- MODULE CapellaGuardrails -------------------------
(***************************************************************************)
(* The guardrail policy of handlers/capella/guardrails.py and the naming   *)
(* and permission rules of handlers/capella/environment.py, as operators   *)
(* on a cluster object.  Nothing here has a state: the policy is read from *)
(* the process environment and does not change while the server runs.      *)
(*                                                                         *)
(* A name is abstracted to a stem and whether it starts with               *)
(* CAPELLA_ENV_NAME_PREFIX; a marker to the environment it names and to    *)
(* where it stands in its time to live.  Letter case is abstracted away.   *)
(***************************************************************************)
EXTENDS Naturals, FiniteSets

CONSTANTS
    Projects,         \* the projects of the pinned organization
    AllowedProjects,  \* CAPELLA_ALLOWED_PROJECTS; {} when it is not set
    AllowUnscoped,    \* CAPELLA_ALLOW_UNSCOPED_DESTRUCTIVE
    PrefixConfigured, \* is CAPELLA_ENV_NAME_PREFIX set?
    Names,            \* the names clusters and environments may have
    ProtectedNames,   \* CAPELLA_PROTECTED_CLUSTERS, entries that are names
    ProtectedIds,     \* CAPELLA_PROTECTED_CLUSTERS, entries that are ids
    MaxEnvironments,  \* CAPELLA_MAX_ENVIRONMENTS
    DisabledTools,    \* CB_ADMIN_DISABLED_TOOLS
    HardCeiling,      \* CB_ADMIN_ALWAYS_CONFIRM
    BlankEnv          \* the "env" of a marker that carries none

(* The name a cluster gets for an environment: the prefix is put in front   *)
(* unless it is there already.                                              *)
ClusterName(env) ==
    IF PrefixConfigured THEN [env EXCEPT !.prefixed = TRUE] ELSE env

ASSUME PolicyAssumption ==
    /\ \A n \in Names : n.prefixed \in BOOLEAN /\ ClusterName(n) \in Names
    /\ BlankEnv \notin Names
    /\ AllowedProjects \subseteq Projects
    /\ AllowUnscoped \in BOOLEAN
    /\ PrefixConfigured \in BOOLEAN
    /\ MaxEnvironments \in Nat

-----------------------------------------------------------------------------
(* What the server can read in a cluster's description.  A ttl_h that is    *)
(* zero, negative or unreadable makes the environment pinned; a description *)
(* the parser cannot read is NoMarker.                                      *)
NoMarker == [env |-> BlankEnv, life |-> "none"]
Markers ==
    {NoMarker} \union
    [env : Names \union {BlankEnv}, life : {"pinned", "live", "expired"}]

HasMarker(marker) == marker.life # "none"
IsExpired(marker) == marker.life = "expired"

-----------------------------------------------------------------------------
ProjectAllowed(project) ==
    /\ AllowedProjects # {} \/ AllowUnscoped
    /\ AllowedProjects # {} => project \in AllowedProjects

NameAllowed(name) == PrefixConfigured => name.prefixed

IsProtected(id, name) == id \in ProtectedIds \/ name \in ProtectedNames

IsManaged(id, object, project) ==
    /\ ProjectAllowed(project)
    /\ ~ IsProtected(id, object.name)
    /\ NameAllowed(object.name)

IsDeletable(id, object, project) ==
    /\ IsManaged(id, object, project)
    /\ ~ object.deletionProtection

(* What the spend ceiling counts: a readable marker, or the prefix when one *)
(* is configured.                                                           *)
CountsTowardCeiling(object) ==
    HasMarker(object.marker) \/ (PrefixConfigured /\ object.name.prefixed)

(* Where a ceiling decision applies: to every allowlisted project at once,  *)
(* or, with no allowlist, to the one project of the call.                   *)
CeilingScope(project) ==
    IF AllowedProjects # {} THEN AllowedProjects ELSE {project}

(* May a composite tool use this v4 operation?                              *)
Permitted(primitive, human) ==
    /\ primitive \notin DisabledTools
    /\ primitive \in HardCeiling => human
=============================================================================
