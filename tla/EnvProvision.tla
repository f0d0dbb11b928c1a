---------------------------- MODULE EnvProvision ----------------------------
(***************************************************************************)
(* capella_env_ensure of handlers/capella/environment.py, and the raw      *)
(* create primitive capella_cluster_create of handlers/capella/__init__.py *)
(* with the spend ceiling both share.                                      *)
(*                                                                         *)
(* The reconciler keeps no state of its own: a call looks at what Capella  *)
(* has, does the next thing and answers with a phase.  Every action of a   *)
(* thread is one v4 request and what is computed from its answer; calls on *)
(* several threads interleave between requests.                            *)
(***************************************************************************)
EXTENDS CapellaCloud

CONSTANTS
    Workers,   \* threads of the executor that serves tool calls
    Ops,       \* the tools called: a subset of {"ensure", "primitive"}
    EnvArgs,   \* the env_name (or, for the primitive, body.name) of a call
    Wishes,    \* what a call may ask for: each a subset of Optional
    CallerMarkers, \* markers a caller of the primitive may write himself
    NoProject

(* What capella_env_ensure sets up on a healthy cluster, in this order.     *)
Pieces == {"cidr", "bucket", "scope", "collection", "credential",
           "appServiceCidr", "endpoint"}
Optional == {"cidr", "scope", "collection", "sample",
             "appService", "appServiceCidr"}

ASSUME ProvisionAssumption ==
    /\ Ops \subseteq {"ensure", "primitive"}
    /\ EnvArgs \subseteq Names
    /\ Wishes \subseteq SUBSET Optional
    /\ CallerMarkers \subseteq Markers \ {NoMarker}
    /\ IsFiniteSet(ClusterIds) /\ IsFiniteSet(Workers)

VARIABLES
    pieces,    \* per cluster: the children that exist on it
    importing, \* clusters whose sample bucket is being loaded
    online,    \* clusters whose App Endpoint is online
    conflicts, \* workers whose switch-on was answered by a 409    (history)
    memo,      \* _ceiling_refusals: scopes refused moments ago
    pc, call, target, step, todo, tally, result, \* per worker
    everFull,  \* scopes that held as many environments as allowed (history)
    owners     \* clusters configured by this server               (history)

childVars == <<pieces, importing, online, conflicts>>
workerVars == <<pc, call, target, step, todo, tally, result>>
vars == <<cloudVars, childVars, memo, workerVars, everFull, owners>>

-----------------------------------------------------------------------------
PCs == {"idle", "lookup", "count", "create", "see", "make", "relist",
        "appService", "makeAppService", "bringOnline", "done"}
Calls == [op : Ops \union {"none"}, env : Names \union {BlankEnv},
          project : Projects \union {NoProject}, wants : SUBSET Optional]
NoCall == [op |-> "none", env |-> BlankEnv, project |-> NoProject, wants |-> {}]

Phases == {"creating_cluster", "waiting_for_cluster", "cluster_not_healthy",
           "configuring", "creating_app_service", "waiting_for_app_service",
           "app_service_not_healthy", "ready"}
Refusals == {"guardrail", "ceiling", "ceiling_memo", "capella_error"}

TypeOK ==
    /\ CloudTypeOK
    /\ pieces \in [ClusterIds -> SUBSET Pieces]
    /\ importing \subseteq ClusterIds
    /\ online \subseteq ClusterIds
    /\ conflicts \subseteq Workers
    /\ memo \subseteq SUBSET Projects
    /\ pc \in [Workers -> PCs]
    /\ call \in [Workers -> Calls]
    /\ target \in [Workers -> ClusterIds \union {NoId}]
    /\ step \in [Workers -> Pieces]
    /\ todo \in [Workers -> SUBSET Projects]
    /\ tally \in [Workers -> Nat]
    /\ result \in [Workers -> Phases \union Refusals \union {"none"}]
    /\ everFull \subseteq SUBSET Projects
    /\ owners \subseteq ClusterIds

(* The environments the ceiling counts, in a set of projects.               *)
Counted(projects) ==
    {id \in ClusterIds : /\ Exists(id)
                         /\ cluster[id].project \in projects
                         /\ CountsTowardCeiling(cluster[id])}
Scopes == {CeilingScope(p) : p \in Projects}
Full(projects) == Cardinality(Counted(projects)) >= MaxEnvironments

Init ==
    /\ CloudInit
    /\ pieces = [id \in ClusterIds |-> {}]
    /\ importing = {}
    /\ online = {}
    /\ conflicts = {}
    /\ memo = {}
    /\ pc = [w \in Workers |-> "idle"]
    /\ call = [w \in Workers |-> NoCall]
    /\ target = [w \in Workers |-> NoId]
    /\ step = [w \in Workers |-> "cidr"]
    /\ todo = [w \in Workers |-> {}]
    /\ tally = [w \in Workers |-> 0]
    /\ result = [w \in Workers |-> "none"]
    /\ everFull = {s \in Scopes : Full(s)}
    /\ owners = {}

-----------------------------------------------------------------------------
Goto(w, label) == pc' = [pc EXCEPT ![w] = label]
Answer(w, r) ==
    /\ Goto(w, "done")
    /\ result' = [result EXCEPT ![w] = r]
    /\ UNCHANGED <<call, target, step, todo, tally>>
Continue(w, label) ==
    Goto(w, label) /\ UNCHANGED <<call, target, step, todo, tally, result>>

Reads == UNCHANGED <<cloudVars, childVars, owners>>
Fails(w) ==
    /\ ApiFault
    /\ Answer(w, "capella_error")
    /\ UNCHANGED <<cluster, appService, edits, historyVars, childVars, memo,
                   everFull, owners>>
NotAccepted(w) ==
    Reads /\ Answer(w, "capella_error") /\ UNCHANGED <<memo, everFull>>

-----------------------------------------------------------------------------
(* The memo of ceiling refusals is consulted before anything is counted.    *)
MemoServed(scope) == scope \in memo

CountNext(w, c) ==
    IF MemoServed(CeilingScope(c.project))
    THEN /\ Goto(w, "done")
         /\ result' = [result EXCEPT ![w] = "ceiling_memo"]
         /\ UNCHANGED <<target, step, todo, tally>>
    ELSE /\ Goto(w, "count")
         /\ todo' = [todo EXCEPT ![w] = CeilingScope(c.project)]
         /\ tally' = [tally EXCEPT ![w] = 0]
         /\ UNCHANGED <<target, step, result>>

(* capella_env_ensure: _resolve_context and the two local guardrails come   *)
(* first; a refusal by them sends nothing and is not modelled further.      *)
StartEnsure(w) ==
    /\ pc[w] = "idle"
    /\ "ensure" \in Ops
    /\ \E env \in EnvArgs, p \in Projects, wants \in Wishes :
          /\ ProjectAllowed(p)
          /\ NameAllowed(ClusterName(env))
          /\ call' = [call EXCEPT ![w] = [op |-> "ensure", env |-> env,
                                          project |-> p, wants |-> wants]]
    /\ Goto(w, "lookup")
    /\ UNCHANGED <<cloudVars, childVars, memo, target, step, todo, tally,
                   result, everFull, owners>>

(* capella_cluster_create: allowlist, name check and marker, then the same  *)
(* ceiling.  No lookup: the primitive creates what it is told to.           *)
StartPrimitive(w) ==
    /\ pc[w] = "idle"
    /\ "primitive" \in Ops
    /\ \E name \in EnvArgs, p \in Projects :
          LET c == [op |-> "primitive", env |-> name, project |-> p, wants |-> {}]
          IN /\ ProjectAllowed(p)
             /\ NameAllowed(name)
             /\ call' = [call EXCEPT ![w] = c]
             /\ CountNext(w, c)
    /\ UNCHANGED <<cloudVars, childVars, memo, everFull, owners>>

(* _get_cluster, then: create one, or adopt the one that is there.          *)
NamedHealthy(project, name) ==  \* (mutant)
    {id \in Listed(project) : cluster[id].name = name /\ cluster[id].state = "healthy"}
Named(project, name) == {id \in Listed(project) : cluster[id].name = name}

InFlight == {"deploying", "destroying", "turningOn", "turningOff"}

AdoptUnchecked(w, id) == TRUE  \* (mutant)
Adoptable(w, id) == IsManaged(id, cluster[id], call[w].project)

FirstPiece(wants) == IF "cidr" \in wants THEN "cidr" ELSE "bucket"

AnswerState(w, id) == Answer(w, cluster[id].state)  \* (mutant)
AnswerUnhealthy(w, id) == Answer(w, "cluster_not_healthy")

Adopt(w, id) ==
    IF ~ Adoptable(w, id) THEN Answer(w, "guardrail")
    ELSE IF cluster[id].state \in InFlight THEN Answer(w, "waiting_for_cluster")
    ELSE IF cluster[id].state # "healthy" THEN AnswerUnhealthy(w, id)
    ELSE /\ target' = [target EXCEPT ![w] = id]
         /\ step' = [step EXCEPT ![w] = FirstPiece(call[w].wants)]
         /\ Goto(w, "see")
         /\ UNCHANGED <<call, todo, tally, result>>

Lookup(w) ==
    /\ pc[w] = "lookup"
    /\ \/ Fails(w)
       \/ /\ Reads
          /\ UNCHANGED <<memo, everFull>>
          /\ LET found == Named(call[w].project, ClusterName(call[w].env))
             IN \/ found = {} /\ CountNext(w, call[w]) /\ UNCHANGED call
                \/ \E id \in found : Adopt(w, id)

(* count_managed_environments lists the projects of the scope one after the *)
(* other; assert_capacity decides on the sum and remembers a refusal.       *)
AtCapacityLate(count) == count > MaxEnvironments  \* (mutant)
AtCapacity(count) == count >= MaxEnvironments

RemembersForAll(scope) == memo' = memo \union Scopes  \* (mutant)
Remembers(scope) == memo' = memo \union {scope}

Count(w) ==
    /\ pc[w] = "count"
    /\ \/ Fails(w)
       \/ /\ Reads
          /\ UNCHANGED everFull
          /\ \E p \in todo[w] :
                LET sum == tally[w] + Cardinality(Counted({p}))
                    last == todo[w] = {p}
                IN /\ todo' = [todo EXCEPT ![w] = @ \ {p}]
                   /\ tally' = [tally EXCEPT ![w] = sum]
                   /\ UNCHANGED <<call, target, step>>
                   /\ \/ /\ ~ last
                         /\ UNCHANGED <<pc, result, memo>>
                      \/ /\ last /\ AtCapacity(sum)
                         /\ Remembers(CeilingScope(call[w].project))
                         /\ Goto(w, "done")
                         /\ result' = [result EXCEPT ![w] = "ceiling"]
                      \/ /\ last /\ ~ AtCapacity(sum)
                         /\ Goto(w, "create")
                         /\ UNCHANGED <<result, memo>>

(* The create POST.  It is never repeated, so when its answer is lost the   *)
(* call fails although a cluster is being deployed.  The primitive keeps a  *)
(* marker the caller wrote and otherwise stamps one that never expires.     *)
Stamps(c) ==
    IF c.op = "ensure"
    THEN {[env |-> c.env, life |-> l] : l \in {"pinned", "live"}}
    ELSE {[env |-> c.env, life |-> "pinned"]} \union CallerMarkers

NewCluster(c, marker) ==
    [project |-> c.project,
     name |-> IF c.op = "ensure" THEN ClusterName(c.env) ELSE c.env,
     marker |-> marker, state |-> "deploying", deletionProtection |-> FALSE]

Unborn == {id \in ClusterIds : cluster[id].state = "unborn"}

Create(w) ==
    /\ pc[w] = "create"
    /\ \/ Fails(w)
       \/ /\ Unborn = {}
          /\ NotAccepted(w)
       \/ /\ Unborn # {}
          /\ \E marker \in Stamps(call[w]) :
                cluster' = [cluster EXCEPT ![CHOOSE id \in Unborn : TRUE] =
                               NewCluster(call[w], marker)]
          /\ Remember
          /\ everFull' = everFull \union {s \in Scopes : Full(s)'}
          /\ UNCHANGED <<appService, edits, childVars, memo, owners>>
          /\ \/ UNCHANGED faults /\ Answer(w, "creating_cluster")
             \/ ApiFault /\ Answer(w, "capella_error")

-----------------------------------------------------------------------------
(* Configuration of a healthy cluster: see whether a piece is there, make   *)
(* it if not, go on to the next one that is wanted.                         *)
Order == <<"cidr", "bucket", "scope", "collection", "credential">>
Position(piece) == CHOOSE i \in 1..5 : Order[i] = piece

Wanted(wants, piece) ==
    CASE piece \in {"bucket", "credential"} -> TRUE
      [] piece = "collection" -> {"scope", "collection"} \subseteq wants
      [] OTHER -> piece \in wants

Later(wants, piece) ==
    {i \in (Position(piece) + 1)..5 : Wanted(wants, Order[i])}
NextPiece(wants, piece) ==
    Order[CHOOSE i \in Later(wants, piece) : \A j \in Later(wants, piece) : i <= j]

Advance(w) ==
    CASE step[w] = "endpoint" -> Continue(w, "bringOnline")
      [] step[w] = "appServiceCidr" ->
            /\ step' = [step EXCEPT ![w] = "endpoint"]
            /\ Goto(w, "see")
            /\ UNCHANGED <<call, target, todo, tally, result>>
      [] step[w] = "credential" /\ "appService" \in call[w].wants ->
            Continue(w, "appService")
      [] step[w] = "credential" /\ "appService" \notin call[w].wants ->
            Answer(w, "ready")
      [] OTHER ->
            /\ step' = [step EXCEPT ![w] = NextPiece(call[w].wants, @)]
            /\ Goto(w, "see")
            /\ UNCHANGED <<call, target, todo, tally, result>>

(* The list endpoints answer for any cluster that exists; scopes come in an *)
(* envelope of their own.                                                   *)
ScopesUnread(w) == step[w] \in pieces[target[w]] \ {"scope"}  \* (mutant)
Present(w) == step[w] \in pieces[target[w]]

See(w) ==
    /\ pc[w] = "see"
    /\ \/ Fails(w)
       \/ ~ Exists(target[w]) /\ NotAccepted(w)
       \/ /\ Exists(target[w])
          /\ Reads
          /\ UNCHANGED <<memo, everFull>>
          /\ IF Present(w) THEN Advance(w) ELSE Continue(w, "make")

(* A create POST for a child.  A sample bucket appears only when its import *)
(* has finished, and asking for it meanwhile may be refused; Capella refuses*)
(* what exists already.                                                     *)
Acceptable(w) ==
    /\ cluster[target[w]].state = "healthy"
    /\ step[w] \notin pieces[target[w]]
AskedAgain(w) == step[w] = "bucket" /\ target[w] \in importing

Made(w) ==
    IF step[w] = "bucket" /\ "sample" \in call[w].wants
    THEN /\ importing' = importing \union {target[w]}
         /\ UNCHANGED pieces
    ELSE /\ pieces' = [pieces EXCEPT ![target[w]] = @ \union {step[w]}]
         /\ UNCHANGED importing

Make(w) ==
    /\ pc[w] = "make"
    /\ \/ Fails(w)
       \/ ~ Acceptable(w) /\ NotAccepted(w)
       \/ AskedAgain(w) /\ NotAccepted(w)
       \/ /\ Acceptable(w)
          /\ Made(w)
          /\ owners' = owners \union {target[w]}
          /\ UNCHANGED <<cluster, appService, edits, historyVars, online, conflicts, memo,
                         everFull>>
          /\ \/ /\ UNCHANGED faults
                /\ IF step[w] = "bucket" THEN Continue(w, "relist") ELSE Advance(w)
             \/ ApiFault /\ Answer(w, "capella_error")

(* The bucket is listed again for its id; without one a scope that was      *)
(* asked for cannot be created and the call says so.                        *)
ScopeSkipped(w) == FALSE  \* (mutant)
ScopeBlocked(w) ==
    "bucket" \notin pieces[target[w]] /\ "scope" \in call[w].wants

NoBucketPiece(w) ==
    IF "bucket" \in pieces[target[w]] THEN Advance(w)
    ELSE /\ step' = [step EXCEPT ![w] = "credential"]
         /\ Goto(w, "see")
         /\ UNCHANGED <<call, target, todo, tally, result>>

Relist(w) ==
    /\ pc[w] = "relist"
    /\ \/ Fails(w)
       \/ ~ Exists(target[w]) /\ NotAccepted(w)
       \/ /\ Exists(target[w])
          /\ Reads
          /\ UNCHANGED <<memo, everFull>>
          /\ IF ScopeBlocked(w) THEN Answer(w, "configuring") ELSE NoBucketPiece(w)

-----------------------------------------------------------------------------
(* The App Service of the cluster, when one is wanted.                      *)
Settling == {"deploying", "destroying"}

SeeAppService(w) ==
    /\ pc[w] = "appService"
    /\ \/ Fails(w)
       \/ /\ Reads
          /\ UNCHANGED <<memo, everFull>>
          /\ LET state == appService[target[w]]
             IN CASE state = "none" -> Continue(w, "makeAppService")
                  [] state \in Settling -> Answer(w, "waiting_for_app_service")
                  [] state = "healthy" ->
                        /\ step' = [step EXCEPT ![w] =
                              IF "appServiceCidr" \in call[w].wants
                              THEN "appServiceCidr" ELSE "endpoint"]
                        /\ Goto(w, "see")
                        /\ UNCHANGED <<call, target, todo, tally, result>>
                  [] OTHER -> Answer(w, "app_service_not_healthy")

MakeAppService(w) ==
    LET accepted == cluster[target[w]].state = "healthy" /\ appService[target[w]] = "none"
    IN /\ pc[w] = "makeAppService"
       /\ \/ Fails(w)
          \/ ~ accepted /\ NotAccepted(w)
          \/ /\ accepted
             /\ appService' = [appService EXCEPT ![target[w]] = "deploying"]
             /\ owners' = owners \union {target[w]}
             /\ UNCHANGED <<cluster, edits, historyVars, childVars, memo, everFull>>
             /\ \/ UNCHANGED faults /\ Answer(w, "creating_app_service")
                \/ ApiFault /\ Answer(w, "capella_error")

(* The endpoint is switched on.  A refusal that says it is online already  *)
(* is a success, and so is every 409, which Capella answers also while it   *)
(* is at work on the cluster (scaling, rebalancing, switching on or off):   *)
(* that work is not followed, so a 409 may come at any time.  Every other   *)
(* refusal is an error; that of an endpoint not yet in a state that can be  *)
(* resumed is bounded like a failure.                                       *)
Resumable(w) ==
    /\ appService[target[w]] = "healthy"
    /\ "endpoint" \in pieces[target[w]]
    /\ target[w] \notin online

SwitchOnRefused(w, refusal) ==
    \/ refusal = "conflict" /\ Exists(target[w]) /\ UNCHANGED faults
    \/ /\ refusal = "alreadyOnline"
       /\ Exists(target[w]) /\ target[w] \in online /\ UNCHANGED faults
    \/ /\ refusal = "notResumable"
       /\ Exists(target[w]) => target[w] \notin online
       /\ IF Resumable(w) THEN ApiFault ELSE UNCHANGED faults

AnyRefusalCounts(refusal) == TRUE  \* (mutant)
CountsAsOnline(refusal) == refusal \in {"conflict", "alreadyOnline"}

BringOnline(w) ==
    /\ pc[w] = "bringOnline"
    /\ \/ Fails(w)
       \/ \E refusal \in {"conflict", "alreadyOnline", "notResumable"} :
             /\ SwitchOnRefused(w, refusal)
             /\ conflicts' = IF refusal = "conflict" THEN conflicts \union {w} ELSE conflicts
             /\ UNCHANGED <<cluster, appService, edits, historyVars, pieces, importing,
                            online, memo, everFull, owners>>
             /\ Answer(w, IF CountsAsOnline(refusal) THEN "ready" ELSE "capella_error")
       \/ /\ Resumable(w)
          /\ online' = online \union {target[w]}
          /\ UNCHANGED <<cluster, appService, edits, historyVars, pieces, importing,
                         conflicts, memo, everFull, owners>>
          /\ \/ UNCHANGED faults /\ Answer(w, "ready")
             \/ ApiFault /\ Answer(w, "capella_error")

Return(w) ==
    /\ pc[w] = "done"
    /\ Goto(w, "idle")
    /\ call' = [call EXCEPT ![w] = NoCall]
    /\ target' = [target EXCEPT ![w] = NoId]
    /\ step' = [step EXCEPT ![w] = "cidr"]
    /\ todo' = [todo EXCEPT ![w] = {}]
    /\ tally' = [tally EXCEPT ![w] = 0]
    /\ result' = [result EXCEPT ![w] = "none"]
    /\ conflicts' = conflicts \ {w}
    /\ UNCHANGED <<cloudVars, pieces, importing, online, memo, everFull, owners>>

-----------------------------------------------------------------------------
(* A refusal is forgotten after _CEILING_MEMO_SECONDS.                      *)
MemoExpires ==
    /\ \E s \in memo : memo' = memo \ {s}
    /\ UNCHANGED <<cloudVars, childVars, workerVars, everFull, owners>>

(* A sample import ends: the bucket is there.                               *)
ImportEnds(id) ==
    /\ id \in importing
    /\ importing' = importing \ {id}
    /\ pieces' = [pieces EXCEPT ![id] = @ \union {"bucket"}]
    /\ UNCHANGED <<cloudVars, online, conflicts, memo, workerVars, everFull, owners>>

(* Another session tears an environment down.                               *)
EnvironmentDestroyed ==
    /\ edits > 0
    /\ edits' = edits - 1
    /\ \E id \in ClusterIds :
          /\ ClusterDeleteAccepted(id)
          /\ SetState(id, "destroying")
    /\ Remember
    /\ UNCHANGED <<appService, faults, childVars, memo, workerVars, everFull, owners>>

CloudProgress(id) ==
    Progress(id) /\ UNCHANGED <<childVars, memo, workerVars, everFull, owners>>

Runs(w) ==
    \/ Lookup(w) \/ Count(w) \/ Create(w) \/ See(w) \/ Make(w) \/ Relist(w)
    \/ SeeAppService(w) \/ MakeAppService(w) \/ BringOnline(w) \/ Return(w)

Next ==
    \/ \E w \in Workers : StartEnsure(w) \/ StartPrimitive(w) \/ Runs(w)
    \/ \E id \in ClusterIds : CloudProgress(id) \/ ImportEnds(id)
    \/ MemoExpires
    \/ EnvironmentDestroyed

Spec == Init /\ [][Next]_vars

(* A started call runs to its end, Capella finishes what it accepted, the   *)
(* memo's seconds pass, and the caller polls as it is told to.              *)
FairSpec ==
    /\ Spec
    /\ \A w \in Workers : WF_vars(Runs(w)) /\ WF_vars(StartEnsure(w))
    /\ \A id \in ClusterIds : WF_vars(CloudProgress(id)) /\ WF_vars(ImportEnds(id))
    /\ WF_vars(MemoExpires)

-----------------------------------------------------------------------------
(* SAFETY                                                                   *)

(* The spend ceiling under concurrency: the count is taken before the       *)
(* create and not locked, so threads that counted together may all pass,    *)
(* but no step raises the count by more than one cluster for each thread    *)
(* beyond the first above the ceiling.                                      *)
SpendBound ==
    [][\A s \in Scopes :
          Cardinality(Counted(s)') > Cardinality(Counted(s))
              => Cardinality(Counted(s)') <= MaxEnvironments - 1 + Cardinality(Workers)]_vars

(* "Existing resources are reused, never duplicated": no step gives the     *)
(* name of one environment to a second cluster of its project.              *)
Twins(i, j) ==
    /\ i # j /\ Exists(i) /\ Exists(j)
    /\ cluster[i].name = cluster[j].name
    /\ cluster[i].project = cluster[j].project
NeverDuplicated == [][\A i, j \in ClusterIds : Twins(i, j)' => Twins(i, j)]_vars

(* A ceiling refusal, counted or remembered, is served only to a scope that *)
(* really held as many environments as it may.                              *)
RefusalIsOwed ==
    \A w \in Workers :
        result[w] \in {"ceiling", "ceiling_memo"} => CeilingScope(call[w].project) \in everFull

(* The server configures only clusters inside its sandbox.                  *)
OnlyManagedConfigured == owners \subseteq everManaged

(* "ready" means that what was asked for is there: the scope and collection,*)
(* the credential, the App Service's allowlist and the App Endpoint, and    *)
(* that the endpoint is online, unless its switch-on was answered by a 409. *)
ReadyMeansReady ==
    \A w \in Workers :
        result[w] = "ready" =>
            /\ (call[w].wants \intersect {"cidr", "scope"}) \union {"credential"}
                  \subseteq pieces[target[w]]
            /\ {"scope", "collection"} \subseteq call[w].wants =>
                  "collection" \in pieces[target[w]]
            /\ "appService" \in call[w].wants =>
                  /\ (call[w].wants \intersect {"appServiceCidr"}) \union {"endpoint"}
                        \subseteq pieces[target[w]]
                  /\ target[w] \in online \/ w \in conflicts

(* LIVENESS                                                                 *)

(* A caller that polls with the same arguments reaches "ready", unless the  *)
(* ceiling refuses it, the deployment of the cluster or of the App Service  *)
(* fails, or somebody tears the environment down.                           *)
Spoiled ==
    \E id \in ClusterIds :
        \/ cluster[id].state \in {"deploymentFailed", "destroying", "gone"}
        \/ appService[id] = "deploymentFailed"
Refused(w) == result[w] \in {"ceiling", "ceiling_memo"}

(* Bound: the model has no more cluster ids.                                *)
OutOfIds == Unborn = {} /\ \E w \in Workers : pc[w] = "create"

Converges ==
    <>(Spoiled \/ OutOfIds \/ \E w \in Workers : Refused(w) \/ result[w] = "ready")

(* What holds of every state that the guardrails of ensure and of the       *)
(* primitive create bring about: types, and no cluster outside the sandbox  *)
(* is configured.                                                           *)
ProvisionInv == TypeOK /\ OnlyManagedConfigured

(* What an ensure answers is true: "ready" has every piece asked for, online*)
(* or refused by a 409, and a ceiling refusal was owed.                     *)
AnswerInv == ReadyMeansReady /\ RefusalIsOwed
=============================================================================
