---------------------------- MODULE EnvLifecycle ----------------------------
(***************************************************************************)
(* capella_env_teardown, capella_env_reap, capella_env_park and            *)
(* capella_env_resume of handlers/capella/environment.py.                  *)
(*                                                                         *)
(* Every tool call runs on a worker thread of its own and is a sequence of *)
(* blocking v4 requests; between two of them any other thread, the control *)
(* plane and the people at the Capella UI may act.  An action below is one *)
(* request together with what the code computes from the answer up to the  *)
(* next request.                                                           *)
(*                                                                         *)
(* A definition marked (mutant) is the definition below it with a mistake  *)
(* in it; the mutation checks put it in the other's place.                 *)
(***************************************************************************)
EXTENDS CapellaCloud

CONSTANTS
    Workers,    \* threads of the executor that serves tool calls
    Ops,        \* the tools called: a subset of LifecycleOps
    EnvArgs,    \* the env_name a caller may pass
    Presence,   \* whether a human is present at the client: subset of BOOLEAN
    NoProject

LifecycleOps == {"teardown", "reap", "park", "resume"}

ASSUME LifecycleAssumption ==
    /\ Ops \subseteq LifecycleOps
    /\ EnvArgs \subseteq Names
    /\ Presence \subseteq BOOLEAN

VARIABLES
    pc,      \* per worker: the request it makes next
    call,    \* per worker: the arguments of _teardown, _park or _resume
    target,  \* per worker: the id of the cluster the call has settled on
    sweep,   \* per worker: the local lists of _reap
    result,  \* per worker: what the call answered, or that it raised
    acts     \* every state-changing request Capella accepted      (history)

workerVars == <<pc, call, target, sweep, result>>
vars == <<cloudVars, workerVars, acts>>

-----------------------------------------------------------------------------
PCs == {"idle", "list", "sweep", "lookup", "fetch", "refetch", "appService",
        "deleteAppService", "deleteCluster", "power", "done"}

Calls == [op : Ops \union {"none"}, env : Names \union {BlankEnv},
          project : Projects \union {NoProject},
          pin : ClusterIds \union {NoId}, human : BOOLEAN]
NoCall == [op |-> "none", env |-> BlankEnv, project |-> NoProject,
           pin |-> NoId, human |-> FALSE]

Entries == [id : ClusterIds, project : Projects, env : Names \union {BlankEnv}]
Sweeps == [todo : SUBSET Projects, expired : SUBSET ClusterIds,
           reapable : SUBSET Entries, reaped : SUBSET ClusterIds,
           refused : SUBSET ClusterIds]
NoSweep == [todo |-> {}, expired |-> {}, reapable |-> {}, reaped |-> {},
            refused |-> {}]

(* What _teardown, _park and _resume return, and the three ways they raise. *)
Answers == {"nothing_to_do", "not_found", "waiting", "app_service_deleting",
            "cluster_deleting", "turning_off", "already_off", "turning_on",
            "already_on"}
Errors == {"guardrail", "capella_error", "composite_refused"}
Results == Answers \union Errors \union {"none", "swept"}

Requests == {"capella_app_service_delete", "capella_cluster_delete",
             "capella_cluster_turn_off", "capella_cluster_turn_on"}
Acts == [what : Requests, id : ClusterIds, op : Ops, human : BOOLEAN]

WorkerTypeOK ==
    /\ pc \in [Workers -> PCs]
    /\ call \in [Workers -> Calls]
    /\ target \in [Workers -> ClusterIds \union {NoId}]
    /\ sweep \in [Workers -> Sweeps]
    /\ result \in [Workers -> Results]

TypeOK == CloudTypeOK /\ WorkerTypeOK /\ acts \subseteq Acts

Init ==
    /\ CloudInit
    /\ pc = [w \in Workers |-> "idle"]
    /\ call = [w \in Workers |-> NoCall]
    /\ target = [w \in Workers |-> NoId]
    /\ sweep = [w \in Workers |-> NoSweep]
    /\ result = [w \in Workers |-> "none"]
    /\ acts = {}

-----------------------------------------------------------------------------
Goto(w, label) == pc' = [pc EXCEPT ![w] = label]

(* _teardown, _park or _resume returns or raises.  Under _reap a guardrail  *)
(* refusal and a Capella error are caught and the sweep goes on; a refused  *)
(* primitive is neither and leaves the sweep through the loop.              *)
RefusalsCounted == {"nothing_to_do", "not_found", "capella_error"}  \* (mutant)
NothingDeleted == {"nothing_to_do", "not_found", "guardrail", "capella_error"}

Record(s, id, outcome) ==
    IF outcome \in NothingDeleted THEN [s EXCEPT !.refused = @ \union {id}]
                                  ELSE [s EXCEPT !.reaped = @ \union {id}]

Conclude(w, outcome) ==
    IF call[w].op = "reap" /\ outcome # "composite_refused"
    THEN /\ Goto(w, "sweep")
         /\ sweep' = [sweep EXCEPT ![w] = Record(@, call[w].pin, outcome)]
         /\ target' = [target EXCEPT ![w] = NoId]
         /\ UNCHANGED <<call, result>>
    ELSE /\ Goto(w, "done")
         /\ result' = [result EXCEPT ![w] = outcome]
         /\ UNCHANGED <<call, target, sweep>>

Continue(w, label) == Goto(w, label) /\ UNCHANGED <<call, target, sweep, result>>

(* _invoke: the request is refused, fails without an effect, or is made.    *)
Refused(w, primitive) ==
    /\ ~ Permitted(primitive, call[w].human)
    /\ Conclude(w, "composite_refused")
    /\ UNCHANGED <<cloudVars, acts>>
Fails(w, primitive) ==
    /\ Permitted(primitive, call[w].human)
    /\ ApiFault
    /\ Conclude(w, "capella_error")
    /\ UNCHANGED <<cluster, appService, edits, historyVars, acts>>
Reads(w, primitive) ==
    /\ Permitted(primitive, call[w].human)
    /\ UNCHANGED <<cloudVars, acts>>

(* An accepted write: the answer comes back, or is lost on the way.         *)
Writes(w, primitive, outcome) ==
    /\ Permitted(primitive, call[w].human)
    /\ acts' = acts \union {[what |-> primitive, id |-> target[w],
                             op |-> call[w].op, human |-> call[w].human]}
    /\ UNCHANGED <<edits, historyVars>>
    /\ \/ UNCHANGED faults /\ Conclude(w, outcome)
       \/ ApiFault /\ Conclude(w, "capella_error")

-----------------------------------------------------------------------------
(* A caller calls capella_env_teardown, capella_env_park or                 *)
(* capella_env_resume; it cannot pin a cluster.                             *)
StartCall(w) ==
    /\ pc[w] = "idle"
    /\ \E op \in Ops \ {"reap"}, env \in EnvArgs, p \in Projects, h \in Presence :
          call' = [call EXCEPT ![w] = [op |-> op, env |-> env, project |-> p,
                                       pin |-> NoId, human |-> h]]
    /\ Goto(w, "lookup")
    /\ UNCHANGED <<cloudVars, target, sweep, result, acts>>

(* capella_env_reap with dry_run false, over one project or all allowed.    *)
StartReap(w, projects) ==
    /\ pc[w] = "idle"
    /\ "reap" \in Ops
    /\ projects # {}
    /\ sweep' = [sweep EXCEPT ![w] = [NoSweep EXCEPT !.todo = projects]]
    /\ \E h \in Presence :
          call' = [call EXCEPT ![w] = [NoCall EXCEPT !.op = "reap", !.human = h]]
    /\ Goto(w, "list")
    /\ UNCHANGED <<cloudVars, target, result, acts>>

(* _list_envs reads one project; after the last one _classify_expired sets  *)
(* aside what cannot be identified.  An error here ends the whole sweep.    *)
BlanksDropped(s) == [s EXCEPT !.reapable = {e \in @ : e.env # BlankEnv}]  \* (mutant)
IdsLost(s) ==  \* (mutant)
    [s EXCEPT !.reapable = {e \in @ : e.env # BlankEnv},
              !.refused = {NoId : e \in {f \in s.reapable : f.env = BlankEnv}}]
Classified(s) ==
    [s EXCEPT !.reapable = {e \in @ : e.env # BlankEnv},
              !.refused = {e.id : e \in {f \in s.reapable : f.env = BlankEnv}}]

ExpiredIn(p) == {id \in Listed(p) : IsExpired(cluster[id].marker)}
ReadInto(s, p) ==
    [s EXCEPT !.todo = @ \ {p},
              !.expired = @ \union ExpiredIn(p),
              !.reapable = @ \union
                 {[id |-> id, project |-> p, env |-> cluster[id].marker.env]
                    : id \in ExpiredIn(p)}]

ProjectRead(w, p) ==
    LET read == ReadInto(sweep[w], p)
    IN IF read.todo = {}
       THEN /\ sweep' = [sweep EXCEPT ![w] = Classified(read)]
            /\ Goto(w, "sweep")
       ELSE /\ sweep' = [sweep EXCEPT ![w] = read]
            /\ Goto(w, "list")

ListProject(w) ==
    /\ pc[w] = "list"
    /\ \/ \E outcome \in {"composite_refused", "capella_error"} :
             /\ IF outcome = "capella_error"
                THEN Permitted("capella_clusters_list", call[w].human) /\ ApiFault
                ELSE ~ Permitted("capella_clusters_list", call[w].human)
                     /\ UNCHANGED faults
             /\ Goto(w, "done")
             /\ result' = [result EXCEPT ![w] = outcome]
             /\ sweep' = [sweep EXCEPT ![w] = NoSweep]
             /\ UNCHANGED <<cluster, appService, edits, historyVars,
                            call, target, acts>>
       \/ /\ Reads(w, "capella_clusters_list")
          /\ \E p \in sweep[w].todo : ProjectRead(w, p)
          /\ UNCHANGED <<call, target, result>>

(* The loop of _reap: tear down the next environment, by name and pinned to *)
(* the id the listing gave, or return.                                      *)
Without(s, e) == [s EXCEPT !.reapable = @ \ {e}]
TeardownOf(w, e) == [op |-> "reap", env |-> e.env, project |-> e.project,
                     pin |-> e.id, human |-> call[w].human]

NextEntry(w) ==
    /\ pc[w] = "sweep"
    /\ UNCHANGED <<cloudVars, target, acts>>
    /\ \/ \E e \in sweep[w].reapable :
             /\ sweep' = [sweep EXCEPT ![w] = Without(@, e)]
             /\ call' = [call EXCEPT ![w] = TeardownOf(w, e)]
             /\ Goto(w, "lookup")
             /\ UNCHANGED result
       \/ /\ sweep[w].reapable = {}
          /\ Goto(w, "done")
          /\ result' = [result EXCEPT ![w] = "swept"]
          /\ UNCHANGED <<sweep, call>>

-----------------------------------------------------------------------------
(* _get_cluster_for_destructive: the prefixed name, else the literal one.   *)
Named(project, name) == {id \in Listed(project) : cluster[id].name = name}
Candidates(project, env) ==
    IF Named(project, ClusterName(env)) # {} THEN Named(project, ClusterName(env))
                                             ELSE Named(project, env)

PinIgnored(w, id) == TRUE  \* (mutant)
PinAgrees(w, id) == call[w].pin \in {NoId, id}

SettleOn(w, id) ==
    /\ target' = [target EXCEPT ![w] = id]
    /\ Goto(w, "refetch")
    /\ UNCHANGED <<call, sweep, result>>

Lookup(w) ==
    /\ pc[w] = "lookup"
    /\ \/ Refused(w, "capella_clusters_list")
       \/ Fails(w, "capella_clusters_list")
       \/ /\ Reads(w, "capella_clusters_list")
          /\ \/ \E id \in Candidates(call[w].project, call[w].env) :
                   IF PinAgrees(w, id) THEN SettleOn(w, id)
                                       ELSE Conclude(w, "guardrail")
             \/ /\ Candidates(call[w].project, call[w].env) = {}
                /\ IF call[w].op \in {"park", "resume"} THEN Conclude(w, "guardrail")
                   ELSE IF call[w].pin # NoId THEN Continue(w, "fetch")
                   ELSE Conclude(w, "nothing_to_do")

(* _fetch_cluster_by_id, when the name leads nowhere but an id is pinned.   *)
FetchById(w) ==
    /\ pc[w] = "fetch"
    /\ \/ Refused(w, "capella_cluster_get")
       \/ Fails(w, "capella_cluster_get")
       \/ /\ Reads(w, "capella_cluster_get")
          /\ IF Found(call[w].project, call[w].pin) THEN SettleOn(w, call[w].pin)
                                                    ELSE Conclude(w, "not_found")

(* _refetch_cluster, then the guardrail on the object it returned, then for *)
(* a teardown the pre-flight of the cluster delete.                         *)
ProjectOnly(w, id) == ProjectAllowed(call[w].project)  \* (mutant)
ManagedOnly(w, id) == IsManaged(id, cluster[id], call[w].project)  \* (mutant)
GuardPasses(w, id) ==
    IF call[w].op \in {"park", "resume"}
    THEN IsManaged(id, cluster[id], call[w].project)
    ELSE IsDeletable(id, cluster[id], call[w].project)

NoPreflight(w) == TRUE  \* (mutant)
Preflight(w) == Permitted("capella_cluster_delete", call[w].human)

Refetch(w) ==
    /\ pc[w] = "refetch"
    /\ \/ Refused(w, "capella_cluster_get")
       \/ Fails(w, "capella_cluster_get")
       \/ /\ Reads(w, "capella_cluster_get")
          /\ IF ~ Found(call[w].project, target[w]) THEN Conclude(w, "capella_error")
             ELSE IF ~ GuardPasses(w, target[w]) THEN Conclude(w, "guardrail")
             ELSE IF call[w].op \in {"park", "resume"} THEN Continue(w, "power")
             ELSE IF Preflight(w) THEN Continue(w, "appService")
             ELSE Conclude(w, "composite_refused")

(* _get_app_service, any Capella error read as "there is none".             *)
NoneFound(id) == "none"  \* (mutant)
AttachedAppService(id) == appService[id]

FindAppService(w) ==
    /\ pc[w] = "appService"
    /\ \/ Refused(w, "capella_app_services_list")
       \/ /\ Permitted("capella_app_services_list", call[w].human)
          /\ ApiFault
          /\ Continue(w, "deleteCluster")
          /\ UNCHANGED <<cluster, appService, edits, historyVars, acts>>
       \/ /\ Reads(w, "capella_app_services_list")
          /\ CASE AttachedAppService(target[w]) = "none" -> Continue(w, "deleteCluster")
               [] AttachedAppService(target[w]) = "destroying" -> Conclude(w, "waiting")
               [] OTHER -> Continue(w, "deleteAppService")

DeleteAppService(w) ==
    /\ pc[w] = "deleteAppService"
    /\ \/ Refused(w, "capella_app_service_delete")
       \/ Fails(w, "capella_app_service_delete")
       \/ /\ AppServiceDeleteAccepted(target[w])
          /\ appService' = [appService EXCEPT ![target[w]] = "destroying"]
          /\ Writes(w, "capella_app_service_delete", "app_service_deleting")
          /\ UNCHANGED cluster
       \/ /\ ~ AppServiceDeleteAccepted(target[w])
          /\ Reads(w, "capella_app_service_delete")
          /\ Conclude(w, "capella_error")

DeleteCluster(w) ==
    /\ pc[w] = "deleteCluster"
    /\ \/ Refused(w, "capella_cluster_delete")
       \/ Fails(w, "capella_cluster_delete")
       \/ /\ ClusterDeleteAccepted(target[w])
          /\ SetState(target[w], "destroying")
          /\ Writes(w, "capella_cluster_delete", "cluster_deleting")
          /\ UNCHANGED appService
       \/ /\ ~ ClusterDeleteAccepted(target[w])
          /\ Reads(w, "capella_cluster_delete")
          /\ Conclude(w, "capella_error")

(* _park and _resume: the code Capella gives for "already so" is a success, *)
(* every other error is raised.                                             *)
AnyErrorMeansSo(state, already) == TRUE  \* (mutant)
AlreadySo(state, already) == state = already

SwitchPower(w, primitive, from, to, already, done, same) ==
    \/ Refused(w, primitive)
    \/ Fails(w, primitive)
    \/ /\ cluster[target[w]].state = from
       /\ SetState(target[w], to)
       /\ Writes(w, primitive, done)
       /\ UNCHANGED appService
    \/ /\ cluster[target[w]].state # from
       /\ Reads(w, primitive)
       /\ Conclude(w, IF AlreadySo(cluster[target[w]].state, already)
                     THEN same ELSE "capella_error")

Park(w) ==
    /\ pc[w] = "power"
    /\ call[w].op = "park"
    /\ SwitchPower(w, "capella_cluster_turn_off",
                   "healthy", "turningOff", "turnedOff", "turning_off", "already_off")

Resume(w) ==
    /\ pc[w] = "power"
    /\ call[w].op = "resume"
    /\ SwitchPower(w, "capella_cluster_turn_on",
                   "turnedOff", "turningOn", "healthy", "turning_on", "already_on")

(* The answer has gone back to the client and the thread is free.           *)
Return(w) ==
    /\ pc[w] = "done"
    /\ Goto(w, "idle")
    /\ call' = [call EXCEPT ![w] = NoCall]
    /\ target' = [target EXCEPT ![w] = NoId]
    /\ sweep' = [sweep EXCEPT ![w] = NoSweep]
    /\ result' = [result EXCEPT ![w] = "none"]
    /\ UNCHANGED <<cloudVars, acts>>

-----------------------------------------------------------------------------
Runs(w) ==
    \/ ListProject(w) \/ NextEntry(w)
    \/ Lookup(w) \/ FetchById(w) \/ Refetch(w) \/ FindAppService(w)
    \/ DeleteAppService(w) \/ DeleteCluster(w) \/ Park(w) \/ Resume(w)
    \/ Return(w)

World ==
    \/ \E id \in ClusterIds : Progress(id)
    \/ TtlElapses
    \/ EnvironmentCreated
    \/ HumanEdit

Next ==
    \/ \E w \in Workers :
          \/ StartCall(w)
          \/ StartReap(w, AllowedProjects)
          \/ \E p \in Projects : StartReap(w, {p})
          \/ Runs(w)
    \/ World /\ UNCHANGED <<workerVars, acts>>

Spec == Init /\ [][Next]_vars

(* A thread that has started a call finishes it: every v4 request has a     *)
(* timeout.  The control plane finishes what it accepted.                   *)
Fairness ==
    /\ \A w \in Workers : WF_vars(Runs(w))
    /\ \A id \in ClusterIds : WF_vars(Progress(id) /\ UNCHANGED <<workerVars, acts>>)

(* capella_env_reap is called again and again, as its description says it   *)
(* must be, by a scheduler outside the server.                              *)
SweepsRecur == \A w \in Workers : WF_vars(StartReap(w, AllowedProjects))

FairSpec == Spec /\ Fairness /\ SweepsRecur

-----------------------------------------------------------------------------
(* SAFETY                                                                   *)

(* The server never changes a cluster that was at no time inside its        *)
(* sandbox: in an allowed project, not on the protected list, with the      *)
(* configured prefix.                                                       *)
OnlyManagedTouched == \A a \in acts : a.id \in everManaged

(* What the lifecycle tools keep at every request: the types and the        *)
(* sandbox.                                                                 *)
LifecycleInv == TypeOK /\ OnlyManagedTouched

(* Nothing is destroyed that was at no time deletable.  The list a lookup   *)
(* reads is not enough to decide this, and other actors change the object   *)
(* while the call runs.                                                     *)
Deletions == {a \in acts : a.what \in {"capella_app_service_delete",
                                       "capella_cluster_delete"}}
OnlyDeletableDestroyed == \A d \in Deletions : d.id \in everDeletable

(* A sweep destroys only environments whose time to live had run out, even  *)
(* when a marker names another environment or a new cluster took the name   *)
(* after the listing.                                                       *)
ReapOnlyExpired == \A d \in Deletions : d.op = "reap" => d.id \in everExpired

(* A tool restricted to a human is not reached through a composite, and an  *)
(* unattended call that may not delete the cluster does not destroy its App *)
(* Service on the way to finding that out.                                  *)
CeilingHolds ==
    \A a \in acts :
        /\ Permitted(a.what, a.human)
        /\ a \in Deletions => Permitted("capella_cluster_delete", a.human)

(* An environment reported as reaped is one on which Capella accepted a     *)
(* delete, now or in an earlier pass.                                       *)
ReapedMeansDeleted ==
    \A w \in Workers : sweep[w].reaped \subseteq {d.id : d \in Deletions}

(* A sweep that got past its listing reports every expired environment it   *)
(* listed, as reaped or as refused, and none as both: "One environment      *)
(* refusing must not abort the whole sweep."  Only a primitive the policy   *)
(* withholds from the composites does abort it.                             *)
SweepAccounts ==
    \A w \in Workers :
        pc[w] = "done" /\ call[w].op = "reap" /\ result[w] # "composite_refused" =>
            /\ sweep[w].expired = sweep[w].reaped \union sweep[w].refused
            /\ sweep[w].reaped \intersect sweep[w].refused = {}

(* "Billing stopped" is answered only for a cluster that is off at that     *)
(* moment.                                                                  *)
AlreadyOffIsTrue ==
    [][\A w \in Workers :
          result'[w] = "already_off" /\ result[w] # "already_off"
              => cluster[target[w]].state = "turnedOff"]_vars

(* LIVENESS                                                                 *)

(* An environment whose time to live has run out, that the guardrails let   *)
(* go and whose name leads to it alone, does not exist for ever: the sweeps *)
(* collect it, App Service first.                                           *)
Collectable(id) ==
    /\ Exists(id)
    /\ IsExpired(cluster[id].marker)
    /\ cluster[id].marker.env # BlankEnv
    /\ IsDeletable(id, cluster[id], cluster[id].project)
    /\ Candidates(cluster[id].project, cluster[id].marker.env) = {id}

ExpiredCollected == \A id \in ClusterIds : []<>~Collectable(id)
=============================================================================
