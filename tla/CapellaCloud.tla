---------------------------- MODULE CapellaCloud ----------------------------
(***************************************************************************)
(* The Capella control plane as handlers/capella/environment.py meets it:  *)
(* clusters and the App Service attached to each, the answers the v4 API   *)
(* gives, the asynchronous progress of what it accepted, and what people   *)
(* do to the same clusters in the Capella UI.  External to the repository. *)
(***************************************************************************)
EXTENDS CapellaGuardrails

CONSTANTS
    ClusterIds,        \* every id the control plane may ever give out
    StartingClusters,  \* the objects that may exist when the server starts
    MaxEdits,          \* bound: edits made by people in the Capella UI
    MaxFaults,         \* bound: API calls that fail
    NoId

ASSUME CloudAssumption ==
    /\ MaxEdits \in Nat
    /\ MaxFaults \in Nat
    /\ NoId \notin ClusterIds

VARIABLES
    cluster,      \* id -> the cluster object
    appService,   \* id -> the state of the App Service attached to it
    edits,        \* edits people may still make
    faults,       \* API calls that may still fail
    everManaged,  \* ids that were inside the sandbox at some time  (history)
    everDeletable,\* ids that were deletable at some time           (history)
    everExpired   \* ids that carried an elapsed TTL at some time   (history)

cloudVars == <<cluster, appService, edits, faults,
               everManaged, everDeletable, everExpired>>
historyVars == <<everManaged, everDeletable, everExpired>>

ClusterStates == {"unborn", "deploying", "healthy", "deploymentFailed",
                  "turningOff", "turnedOff", "turningOn", "destroying", "gone"}
AppServiceStates == {"none", "deploying", "healthy", "turnedOff",
                     "deploymentFailed", "destroying"}

Clusters == [project : Projects, name : Names, marker : Markers,
             state : ClusterStates, deletionProtection : BOOLEAN]

ASSUME StartAssumption == StartingClusters \subseteq Clusters

CloudTypeOK ==
    /\ cluster \in [ClusterIds -> Clusters]
    /\ appService \in [ClusterIds -> AppServiceStates]
    /\ edits \in 0..MaxEdits
    /\ faults \in 0..MaxFaults
    /\ everManaged \subseteq ClusterIds
    /\ everDeletable \subseteq ClusterIds
    /\ everExpired \subseteq ClusterIds

Alive(object) == object.state \notin {"unborn", "gone"}

ManagedNow(objects) ==
    {id \in ClusterIds : /\ Alive(objects[id])
                         /\ IsManaged(id, objects[id], objects[id].project)}
DeletableNow(objects) ==
    {id \in ClusterIds : /\ Alive(objects[id])
                         /\ IsDeletable(id, objects[id], objects[id].project)}
ExpiredNow(objects) ==
    {id \in ClusterIds : Alive(objects[id]) /\ IsExpired(objects[id].marker)}

(* The history variables follow every change of the objects.                *)
Remember ==
    /\ everManaged' = everManaged \union ManagedNow(cluster')
    /\ everDeletable' = everDeletable \union DeletableNow(cluster')
    /\ everExpired' = everExpired \union ExpiredNow(cluster')

CloudInit ==
    /\ cluster \in [ClusterIds -> StartingClusters]
    /\ appService \in [ClusterIds -> {"none", "healthy"}]
    /\ \A id \in ClusterIds :
          cluster[id].state # "healthy" => appService[id] = "none"
    /\ edits = MaxEdits
    /\ faults = MaxFaults
    /\ everManaged = ManagedNow(cluster)
    /\ everDeletable = DeletableNow(cluster)
    /\ everExpired = ExpiredNow(cluster)

-----------------------------------------------------------------------------
(* What the API answers.  The list of a project holds every cluster of it   *)
(* that exists, in an order nothing is known of.                            *)
Exists(id) == Alive(cluster[id])
Listed(project) == {id \in ClusterIds : Exists(id) /\ cluster[id].project = project}
Found(project, id) == id \in Listed(project)

ApiFault == faults > 0 /\ faults' = faults - 1

ClusterDeleteAccepted(id) ==
    Exists(id) /\ cluster[id].state # "destroying" /\ appService[id] = "none"
AppServiceDeleteAccepted(id) == appService[id] \notin {"none", "destroying"}

SetState(id, state) == cluster' = [cluster EXCEPT ![id].state = state]

-----------------------------------------------------------------------------
(* The control plane finishes what it accepted.                             *)
Progress(id) ==
    /\ \/ /\ cluster[id].state = "deploying"
          /\ \E s \in {"healthy", "deploymentFailed"} : SetState(id, s)
          /\ UNCHANGED appService
       \/ /\ cluster[id].state = "turningOff"
          /\ SetState(id, "turnedOff")
          /\ appService' = [appService EXCEPT
                              ![id] = IF @ = "healthy" THEN "turnedOff" ELSE @]
       \/ /\ cluster[id].state = "turningOn"
          /\ SetState(id, "healthy")
          /\ appService' = [appService EXCEPT
                              ![id] = IF @ = "turnedOff" THEN "healthy" ELSE @]
       \/ /\ cluster[id].state = "destroying"
          /\ SetState(id, "gone")
          /\ UNCHANGED appService
       \/ /\ appService[id] = "deploying"
          /\ \E s \in {"healthy", "deploymentFailed"} :
                appService' = [appService EXCEPT ![id] = s]
          /\ UNCHANGED cluster
       \/ /\ appService[id] = "destroying"
          /\ appService' = [appService EXCEPT ![id] = "none"]
          /\ UNCHANGED cluster
    /\ Remember
    /\ UNCHANGED <<edits, faults>>

(* The time to live written in a marker runs out.                           *)
TtlElapses ==
    /\ \E id \in ClusterIds :
          /\ Exists(id)
          /\ cluster[id].marker.life = "live"
          /\ cluster' = [cluster EXCEPT ![id].marker.life = "expired"]
    /\ Remember
    /\ UNCHANGED <<appService, edits, faults>>

(* capella_env_ensure, in another session, creates an environment: a        *)
(* prefixed name and a marker that is pinned or still has time to live.     *)
EnvironmentCreated ==
    /\ \E id \in ClusterIds, p \in Projects, env \in Names, l \in {"pinned", "live"} :
          /\ cluster[id].state = "unborn"
          /\ ProjectAllowed(p)
          /\ cluster' = [cluster EXCEPT ![id] =
                [project |-> p, name |-> ClusterName(env),
                 marker |-> [env |-> env, life |-> l],
                 state |-> "deploying", deletionProtection |-> FALSE]]
    /\ Remember
    /\ UNCHANGED <<appService, edits, faults>>

(* Somebody renames a cluster, rewrites its description or switches its     *)
(* deletion protection in the Capella UI.                                   *)
HumanEdit ==
    /\ edits > 0
    /\ edits' = edits - 1
    /\ \E id \in ClusterIds :
          /\ Exists(id)
          /\ \/ \E n \in Names : cluster' = [cluster EXCEPT ![id].name = n]
             \/ \E m \in Markers : cluster' = [cluster EXCEPT ![id].marker = m]
             \/ \E b \in BOOLEAN :
                   cluster' = [cluster EXCEPT ![id].deletionProtection = b]
    /\ Remember
    /\ UNCHANGED <<appService, faults>>
=============================================================================
