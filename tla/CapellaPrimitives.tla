--------------------------- MODULE CapellaPrimitives ---------------------------
(* One call of a primitive Capella tool (handlers/capella/__init__.py): the      *)
(* guardrails on the cluster it will write to, each with its own requests, then  *)
(* the request itself, all through the client; and what people do meanwhile in   *)
(* the Capella UI.  The cluster create is EnvProvision's.  Other workers' calls   *)
(* change the same clusters no differently than people do.                       *)
EXTENDS CapellaGuardrails, CapellaOps, CapellaClient, Sequences

CONSTANTS
  Calls,             \* the tools called, of OpNames
  Ids,               \* cluster ids, in the order a listing has them
  StartingClusters,  \* the clusters there may be at the start
  Descriptions,      \* the markers a caller may write into a description
  Caps,              \* the values callers give for max_items
  Absent,            \* a field, an argument or a cluster that is not there
  MaxFaults,         \* bound: requests that fail
  MaxEdits           \* bound: edits made by people

ASSUME PrimitivesAssumption ==
  /\ Calls \subseteq OpNames \ {"cluster_create"}
  /\ IsFiniteSet(Ids) /\ Ids = 1..Cardinality(Ids)
  /\ StartingClusters \subseteq
       [name : Names, marker : Markers, deletionProtection : BOOLEAN, project : Projects]
  /\ Descriptions \subseteq Markers /\ Caps \subseteq Int
  /\ Absent \notin StartingClusters /\ Absent \notin Ids /\ Absent \notin Projects
  /\ Absent \notin Names /\ Absent \notin Markers
  /\ MaxFaults \in Nat /\ MaxEdits \in Nat

VARIABLES
  cluster,       \* id -> the cluster object, or Absent
  call,          \* the call in progress
  faults, edits, \* those still to come
  inside,        \* (history) ids the guardrails let this call touch at some time
  outside,       \* (history) ids they kept it from at some time
  steady,        \* (history) ids people have not touched or moved in a listing
  harmed         \* (history) ids an accepted write reached, never inside

vars == <<cluster, call, faults, edits, inside, outside, steady, harmed>>
worldVars == <<cluster, faults, edits, inside, outside, steady, harmed>>

\* _WRITES_ELSEWHERE: the path names the source, the body the cluster written to.
\* Defect: the replication is not in the table.
OnlyRestoresElsewhere == {"backup_restore"}
WritesElsewhere == {"backup_restore", "replication_create"}
\* What Capella does: these two write to the cluster their body names.
WrittenByBody == {"backup_restore", "replication_create"}
NameChecked == {"project_create", "cluster_update"}
MarkerPreserving == {"cluster_update"}

\* Two writes that no guardrail precedes: they start a job and change nothing.
Additive == {"backup_create", "cluster_audit_log_export_create"}

Guarded(op) == Has(op, "guarded")
Place(op) == OpsByName[op].place
Method(op) == OpsByName[op].method

NoBody == [name |-> Absent, description |-> Absent]
Idle == [pc |-> "idle", op |-> Absent, project |-> Absent, id |-> Absent,
         other |-> Absent, body |-> NoBody, cap |-> Absent, cursor |-> {}, attempt |-> 1,
         list |-> NoPages, foreign |-> FALSE, applied |-> 0]

There(objects, id) == objects[id] # Absent
In(project) == {id \in Ids : There(cluster, id) /\ cluster[id].project = project}

\* The clusters the guardrails let an operation touch, and keep it from.
Permits(op, id, object) ==
  IF op = "cluster_delete" THEN IsDeletable(id, object, object.project)
                           ELSE IsManaged(id, object, object.project)
Inside(op, objects) == {id \in Ids : There(objects, id) /\ Permits(op, id, objects[id])}
Outside(op, objects) == {id \in Ids : There(objects, id) /\ ~Permits(op, id, objects[id])}

Init ==
  /\ cluster \in [Ids -> StartingClusters \union {Absent}]
  /\ call = Idle /\ faults = MaxFaults /\ edits = MaxEdits
  /\ inside = {} /\ outside = {} /\ steady = {} /\ harmed = {}

--------------------------------------------------------------------------------
\* The steps a call goes through, in this order, and which of them it needs.
Steps == <<"own", "target", "contents", "name", "marker", "send">>

\* Defect: the cluster in the path is taken for the one written to.
AppliesToPath(step, c) ==
  \/ step = "own" /\ Guarded(c.op) /\ Place(c.op) = "cluster"
  \/ step = "target" /\ c.op \in WritesElsewhere
  \/ step = "contents" /\ c.op = "project_delete"
  \/ step = "name" /\ c.op \in NameChecked /\ c.body.name # Absent
  \/ step = "marker" /\ c.op \in MarkerPreserving /\ c.body.description = NoMarker
  \/ step = "send"

Applies(step, c) ==
  \/ step = "own" /\ Guarded(c.op) /\ Place(c.op) = "cluster" /\ c.op \notin WritesElsewhere
  \/ step = "target" /\ c.op \in WritesElsewhere
  \/ step = "contents" /\ c.op = "project_delete"
  \/ step = "name" /\ c.op \in NameChecked /\ c.body.name # Absent
  \/ step = "marker" /\ c.op \in MarkerPreserving /\ c.body.description = NoMarker
  \/ step = "send"

After(n, c) ==
  LET next == CHOOSE i \in n..Len(Steps) :
                /\ Applies(Steps[i], c) /\ \A j \in n..(i - 1) : ~Applies(Steps[j], c)
  IN  IF Steps[next] = "send" /\ Has(c.op, "paginated") THEN "pages" ELSE Steps[next]

Following(step, c) == After(1 + CHOOSE i \in DOMAIN Steps : Steps[i] = step, c)

Goto(pc) == call' = [call EXCEPT !.pc = pc, !.attempt = 1]
PassIf(allowed) == Goto(IF allowed THEN Following(call.pc, call) ELSE "refused")

CallWith(op, p, i, o, b, m, l) ==
  [Idle EXCEPT !.op = op, !.project = p, !.id = i, !.other = o, !.body = b, !.cap = m,
               !.cursor = l]

\* The calls a client can make of a tool, and what the cursor of the endpoint it
\* lists names.  What build_path would find missing is not
\* missing here, and there is one organization (resolve_org refuses another).
Made(op) ==
  LET bodies == CASE op = "cluster_update" -> [name : Names \union {Absent},
                                               description : Descriptions \union {Absent}]
                  [] op = "project_create" -> [name : Names, description : {Absent}]
                  [] OTHER                 -> {NoBody}
  IN  {CallWith(op, p, i, o, b, m, l) :
         p \in IF Place(op) \in {"project", "cluster"} THEN Projects ELSE {Absent},
         i \in IF Place(op) = "cluster" THEN Ids ELSE {Absent},
         o \in IF op \in WrittenByBody THEN Ids \union {Absent} ELSE {Absent},
         b \in bodies,
         m \in IF Has(op, "paginated") THEN Caps ELSE {Absent},
         l \in IF Has(op, "paginated") \/ op = "project_delete" THEN SUBSET CursorFields
             ELSE {{}}}

\* _handle_primitive up to its first request: the project allowlist, and the cap of
\* a listing.
Begin(op) ==
  /\ call.pc = "idle"
  /\ \E c \in Made(op) :
       call' = [c EXCEPT !.pc =
         IF Guarded(op) /\ c.project # Absent /\ ~ProjectAllowed(c.project) THEN "refused"
         ELSE IF Has(op, "paginated") /\ c.cap <= 0 THEN "failed" ELSE After(1, c)]
  /\ inside' = Inside(op, cluster) /\ outside' = Outside(op, cluster) /\ steady' = Ids
  /\ UNCHANGED <<cluster, faults, edits, harmed>>

\* Ownership of the live cluster in the path; of the one the body names.
CheckOwn ==
  /\ call.pc = "own"
  /\ IF call.id \in In(call.project)
     THEN PassIf(Permits(call.op, call.id, cluster[call.id])) ELSE Goto("failed")
  /\ UNCHANGED worldVars

CheckTarget ==
  /\ call.pc = "target"
  /\ \/ call.other = Absent /\ Goto("refused")
     \/ call.other \in In(call.project)
        /\ PassIf(Permits(call.op, call.other, cluster[call.other]))
     \/ call.other \in Ids \ In(call.project) /\ Goto("failed")
  /\ UNCHANGED worldVars

CheckName ==
  /\ call.pc = "name" /\ PassIf(NameAllowed(call.body.name))
  /\ UNCHANGED worldVars

\* Defect: the caller's description goes out as it is.
DropMarker == call.pc = "marker" /\ PassIf(TRUE) /\ UNCHANGED worldVars

\* _preserve_ownership_marker, when the caller's description has none of its own.
PreserveMarker ==
  /\ call.pc = "marker"
  /\ IF call.id \in In(call.project)
     THEN call' = [call EXCEPT !.pc = "send", !.attempt = 1,
                               !.body.description = cluster[call.id].marker]
     ELSE Goto("failed")
  /\ UNCHANGED worldVars

\* One page of a listing.  For the guard of the project delete it is of the
\* project's clusters; for a listing tool these stand for whatever it lists.
Listed == {i \in Ids : There(cluster, i) /\ call.project \in {Absent, cluster[i].project}}
Foreign(id) == ~NameAllowed(cluster[id].name) \/ IsProtected(id, cluster[id].name)

ListPage ==
  LET all == Listed
      list == Read(call.list, all, call.cursor)
      page == Chunk(all, call.list.page)
      foreign == call.foreign \/ \E i \in page : Foreign(i)
      guard == call.pc = "contents"
      full == ~guard /\ Full(list, call.cap)
      more == ~full /\ GoesOn(list, all, call.cursor)
  IN
  /\ call.pc \in {"contents", "pages"}
  /\ call' = [call EXCEPT !.list = [list EXCEPT !.page = IF more THEN NextPage(@, Ids) ELSE @,
                                               !.items = IF full THEN FirstOf(call.list, all, call.cap)
                                                                 ELSE @],
                          !.foreign = guard /\ foreign, !.attempt = 1,
                          !.pc = CASE more                      -> @
                                   [] ~more /\ ~guard            -> "answered"
                                   [] ~more /\ guard /\ foreign -> "refused"
                                   [] OTHER                     -> "send"]
  /\ UNCHANGED worldVars

--------------------------------------------------------------------------------
\* What the request does to the clusters, and which of them it reaches.
Reached ==
  IF call.op \in WrittenByBody THEN {call.other}
  ELSE IF call.op = "project_delete" THEN In(call.project)
  ELSE IF Place(call.op) = "cluster" THEN {call.id} ELSE {}

Updated(object, body) ==
  [object EXCEPT !.name = IF body.name = Absent THEN @ ELSE body.name,
                 !.marker = IF body.description = Absent THEN @ ELSE body.description]

Effect ==
  CASE call.op \in {"cluster_delete", "project_delete"} ->
         [id \in Ids |-> IF id \in Reached THEN Absent ELSE cluster[id]]
    [] call.op = "cluster_update" -> [cluster EXCEPT ![call.id] = Updated(@, call.body)]
    [] OTHER -> cluster

\* Nobody promises a project delete the clusters people put there meanwhile, nor those
\* beyond the first page of a listing whose cursor names neither last page nor total.
Harm == IF call.op = "project_delete"
        THEN {id \in Reached \intersect steady : call.cursor # {} /\ Foreign(id)}
        ELSE IF ReadOnly(call.op) \/ call.op \in Additive THEN {} ELSE Reached \ inside

Accepted == call.id = Absent \/ (call.id \in In(call.project) /\ Reached \subseteq Ids
                                  /\ \A id \in Reached : There(cluster, id))
Apply ==
  /\ cluster' = Effect /\ harmed' = harmed \union Harm
  /\ inside' = inside \union Inside(call.op, cluster')
  /\ outside' = outside \union Outside(call.op, cluster')
  /\ UNCHANGED <<edits, steady>>

Send ==
  /\ call.pc = "send"
  /\ \/ Accepted /\ Apply
        /\ call' = [call EXCEPT !.pc = "answered", !.applied = @ + 1] /\ UNCHANGED faults
     \/ ~Accepted /\ Goto("failed") /\ UNCHANGED worldVars

\* An attempt of the step's request fails, and perhaps took effect all the same.
Fails(fault) ==
  /\ faults > 0 /\ faults' = faults - 1
  /\ call.pc \in {"own", "target", "contents", "marker", "pages", "send"}
  /\ call.pc = "target" => call.other # Absent
  /\ LET method == IF call.pc = "send" THEN Method(call.op) ELSE "GET"
         again == Repeats(fault, method, call.attempt)
         ended == IF again THEN [call EXCEPT !.attempt = @ + 1] ELSE [call EXCEPT !.pc = "failed"]
     IN  \/ call' = ended /\ UNCHANGED <<cluster, edits, inside, outside, steady, harmed>>
         \/ /\ call.pc = "send" /\ MayHaveApplied(fault) /\ Accepted /\ Apply
            /\ call' = [ended EXCEPT !.applied = @ + 1]

Return ==
  /\ call.pc \in {"answered", "refused", "failed"} /\ call' = Idle
  /\ inside' = {} /\ outside' = {} /\ steady' = {}
  /\ UNCHANGED <<cluster, faults, edits, harmed>>

\* People rename or protect a cluster, edit its description, make or delete one.
\* Making or deleting moves the later ones in every listing; a cluster stays in its
\* project.  Between two calls an edit would only make another starting state.
HumanEdit(id) ==
  /\ edits > 0 /\ edits' = edits - 1 /\ call.op # Absent
  /\ \E object \in StartingClusters \union {Absent} :
       /\ object # cluster[id]
       /\ Absent \notin {object, cluster[id]} => object.project = cluster[id].project
       /\ cluster' = [cluster EXCEPT ![id] = object]
       /\ steady' = IF Absent \in {object, cluster[id]} THEN {i \in steady : i < id}
                                                       ELSE steady \ {id}
  /\ inside' = inside \union Inside(call.op, cluster')
  /\ outside' = outside \union Outside(call.op, cluster')
  /\ UNCHANGED <<call, faults, harmed>>

Step ==
  \/ CheckOwn \/ CheckTarget \/ CheckName \/ PreserveMarker \/ ListPage \/ Send

Next ==
  \/ \E op \in Calls : Begin(op)
  \/ Step \/ Return
  \/ \E fault \in Faults : Fails(fault)
  \/ \E id \in Ids : HumanEdit(id)

\* A request ends by its answer or its timeout.
Spec == Init /\ [][Next]_vars
--------------------------------------------------------------------------------
TypeOK ==
  /\ \A id \in Ids : There(cluster, id) =>
       cluster[id].project \in Projects /\ cluster[id].name \in Names /\ cluster[id].marker \in Markers
  /\ call.attempt \in 1..MaxAttempts /\ call.applied \in 0..MaxAttempts
  /\ call.pc \in {"idle", "pages", "answered", "refused", "failed"} \union {Steps[i] : i \in DOMAIN Steps}
  /\ faults \in 0..MaxFaults /\ edits \in 0..MaxEdits
  /\ inside \union outside \union steady \union harmed \subseteq Ids

\* Whatever tool of the registry is called with whatever ids, an accepted write
\* reaches a cluster only if the guardrails let the call touch it at some time while
\* it ran; a project is deleted only if it had no cluster that was foreign all along,
\* where the listing's cursor says how far to read.
OnlySandboxWritten == harmed = {}

\* A guardrail refuses only for a cluster that was outside the sandbox at some time
\* of the call, a project outside it, a name without the prefix or a body without a
\* target: reading from a protected cluster is no reason.
RefusalsAreOwed ==
  call.pc = "refused" =>
    \/ call.project # Absent /\ ~ProjectAllowed(call.project)
    \/ IF call.op = "project_delete" THEN call.foreign
       ELSE \/ call.op \in WritesElsewhere /\ (call.other = Absent \/ call.other \in outside)
            \/ call.op \notin WritesElsewhere /\ call.id \in outside
            \/ call.op \in NameChecked /\ ~NameAllowed(call.body.name)

\* A create is never done twice by one call, however its answers are lost.
CreatedOnce == call.op # Absent /\ Method(call.op) = "POST" => call.applied <= 1

\* A listing that is not marked truncated holds everything that was there all along
\* and that nobody's deletes or creates moved between two pages, if its cursor names
\* the last page or the total; without either it ends, unmarked, after one page.
ListsAreComplete ==
  call.pc = "answered" /\ Has(call.op, "paginated") /\ call.cursor # {}
    /\ ~Truncated(call.list, call.cap) =>
      Listed \intersect steady \subseteq call.list.items

\* No tool takes a cluster's name out of the prefix, or its marker off it: only a
\* person's edit during the same call can.
NeverLaundered ==
  [][\A id \in Ids :
       There(cluster, id) /\ There(cluster', id) /\ edits' = edits /\ id \in steady =>
         /\ HasMarker(cluster[id].marker) => HasMarker(cluster'[id].marker)
         /\ NameAllowed(cluster[id].name) => NameAllowed(cluster'[id].name)]_vars

\* What the guardrails promise of every primitive: they let nothing outside the
\* sandbox be written and refuse nothing inside it.
SandboxInv == TypeOK /\ OnlySandboxWritten /\ RefusalsAreOwed

\* What the client promises of every request: a create is sent at most once, a
\* listing that is not marked truncated is whole.
ClientInv == CreatedOnce /\ ListsAreComplete
================================================================================
