------------------------------ MODULE Dispatch ------------------------------
(***************************************************************************)
(* How server.py decides and runs a tool call: the edge check of the HTTP  *)
(* transport, the caller resolved on a worker thread, the gates on the     *)
(* event loop, the handler back on a worker thread, and one audit record   *)
(* for the decision.  The executor, the token-claims cache and the key set *)
(* of the identity provider are shared by every call in flight.            *)
(***************************************************************************)
EXTENDS Naturals, Sequences, FiniteSets

CONSTANTS
  Requests,      \* the tool calls a client can send
  Workers,       \* the threads of the event loop's default executor
  Tools,         \* tool names
  Registered,    \* tools with an entry in _HANDLERS
  Deployable,    \* tools the deployment mode admits
  Loaded,        \* tools in _TOOLS
  ReadSide,      \* tools scope_gate.is_read_side accepts
  ConfirmSet,    \* _CONFIRMATION_REQUIRED
  HardCeiling,   \* CB_ADMIN_ALWAYS_CONFIRM
  OwnsDryRun,    \* tools whose handler implements dry_run itself
  Tokens,        \* bearer tokens
  NoToken,       \* no Authorization header, or stdio
  Grants,        \* what each token grants
  CacheMax,      \* _CACHE_MAX_ENTRIES
  Http,          \* the transport is HTTP; otherwise stdio
  AuthRequired,  \* CB_ADMIN_HTTP_REQUIRE_AUTH
  HumanAtClient, \* workstation profile on stdio
  PreviewMode,   \* CB_ADMIN_DRY_RUN
  Cancels,       \* clients may cancel a call
  Nobody         \* no holder of the loop, no job, no outcome

Scopes == {"read", "write", "automation"}

ASSUME ToolSets ==
  /\ Tools # {}
  /\ Loaded \subseteq Registered /\ Loaded \subseteq Deployable
  /\ UNION {Registered, Deployable, ReadSide, ConfirmSet, HardCeiling, OwnsDryRun} \subseteq Tools
ASSUME TokenGrants == NoToken \notin Tokens /\ Grants \in [Tokens -> SUBSET Scopes]
ASSUME CacheBound == CacheMax \in Nat \ {0}
ASSUME Switches == {Http, AuthRequired, HumanAtClient, PreviewMode, Cancels} \subseteq BOOLEAN
ASSUME Stdio == HumanAtClient => ~Http
Callers == Tokens \cup {NoToken}
Calls == [tool : Tools, token : Callers, confirm : BOOLEAN, dry : BOOLEAN]
NoCall == [tool |-> CHOOSE t \in Tools : TRUE, token |-> NoToken, confirm |-> FALSE, dry |-> FALSE]

Stages == {"idle", "edge", "admitted", "caller", "resolved", "scope", "ceiling",
           "handler", "returned", "done", "cancelled"}
Outcomes == {"allowed", "denied_handler", "error"}
Decisions == Outcomes \cup
  {"denied_authentication", "denied_unknown_tool", "denied_deployment", "denied_read_only",
   "denied_scope", "denied_hard_ceiling", "denied_confirmation", "dry_run"}

Jobs == [kind : {"edge", "caller", "handler"}, of : Requests]

ASSUME NobodyElse == Nobody \notin Requests /\ Nobody \notin Outcomes /\ Nobody \notin Jobs

VARIABLES
  call,     \* what each request asks
  pc,       \* where each request stands
  records,  \* the audit records it has caused
  loop,     \* the request whose synchronous stretch the event loop is running
  queue,    \* jobs waiting for an executor thread, first in first out
  job,      \* the job of each executor thread
  outcome,  \* how the handler of a request ended; Nobody before it has
  phase,    \* where each token is in its life: live, in the leeway, dead
  cached,   \* tokens with an entry in request_auth._validated
  keysHeld  \* PyJWT holds an unexpired key set

dispatchVars == <<call, pc, records, loop>>
poolVars == <<queue, job, outcome>>
tokenVars == <<phase, cached, keysHeld>>
vars == <<call, pc, records, loop, queue, job, outcome, phase, cached, keysHeld>>

TypeOK ==
  /\ call \in [Requests -> Calls]
  /\ pc \in [Requests -> Stages]
  /\ records \in [Requests -> Seq(Decisions)]
  /\ loop \in Requests \cup {Nobody}
  /\ queue \in Seq(Jobs)
  /\ job \in [Workers -> Jobs \cup {Nobody}]
  /\ outcome \in [Requests -> Outcomes \cup {Nobody}]
  /\ phase \in [Tokens -> {"live", "leeway", "dead"}]
  /\ cached \subseteq Tokens
  /\ keysHeld \in BOOLEAN

Init ==
  /\ call = [r \in Requests |-> NoCall]
  /\ pc = [r \in Requests |-> "idle"]
  /\ records = [r \in Requests |-> <<>>]
  /\ loop = Nobody
  /\ queue = <<>>
  /\ job = [w \in Workers |-> Nobody]
  /\ outcome = [r \in Requests |-> Nobody]
  /\ phase = [t \in Tokens |-> "live"]
  /\ cached = {}
  /\ keysHeld = FALSE

----------------------------------------------------------------------------
(* Resolving the caller.                                                   *)

(* oidc.validate_token, as far as the dispatch can tell: it verifies with  *)
(* the key set it holds, and fetches that set when it holds none.  A token *)
(* is accepted for ten seconds past its expiry.  The fetch can fail.       *)
Validate(t, ok) ==
  \/ keysHeld /\ ok = (phase[t] # "dead") /\ UNCHANGED keysHeld
  \/ /\ ~keysHeld
     /\ \/ keysHeld' = TRUE /\ ok = (phase[t] # "dead")
        \/ keysHeld' = FALSE /\ ok = FALSE

(* The cache never holds a token past its own expiry, and is emptied when  *)
(* it is full.                                                             *)
CachePut(t) ==
  IF phase[t] # "live" THEN cached
  ELSE IF Cardinality(cached) >= CacheMax THEN {t}
  ELSE cached \cup {t}

(* current_claims: the cache, else a validation whose failure yields none. *)
(* Claims are named by the token that carries them; NoToken is no claims.  *)
Resolve(t, claims) ==
  \/ t = NoToken /\ claims = NoToken /\ UNCHANGED <<cached, keysHeld>>
  \/ t \in cached /\ claims = t /\ UNCHANGED <<cached, keysHeld>>
  \/ /\ t \in Tokens \ cached
     /\ \E ok \in BOOLEAN :
          /\ Validate(t, ok)
          /\ claims = IF ok THEN t ELSE NoToken
          /\ cached' = IF ok THEN CachePut(t) ELSE cached

----------------------------------------------------------------------------
(* The decision.                                                           *)

Move(r, stage) == pc' = [pc EXCEPT ![r] = stage]
Enqueue(kind, r) == queue' = Append(queue, [kind |-> kind, of |-> r])

(* Defect: a refusal recorded under a label outside the vocabulary.        *)
UnlistedLabel(r, decision) ==
  /\ records' = [records EXCEPT ![r] = Append(@, IF decision = "denied_scope" THEN "denied" ELSE decision)]
  /\ Move(r, "done")
  /\ loop' = Nobody

(* One audit record, and the reply: the synchronous stretch ends.          *)
Conclude(r, decision) ==
  /\ records' = [records EXCEPT ![r] = Append(@, decision)]
  /\ Move(r, "done")
  /\ loop' = Nobody

(* A client sends a call.  On HTTP the edge middleware sees it first.      *)
Arrive(r) ==
  /\ pc[r] = "idle"
  /\ \E c \in Calls :
       /\ ~Http => c.token = NoToken
       /\ call' = [call EXCEPT ![r] = c]
       /\ IF Http /\ c.token # NoToken
          THEN Move(r, "edge") /\ Enqueue("edge", r) /\ UNCHANGED records
          ELSE IF Http /\ AuthRequired
          THEN /\ Move(r, "done")
               /\ records' = [records EXCEPT ![r] = Append(@, "denied_authentication")]
               /\ UNCHANGED queue
          ELSE Move(r, "admitted") /\ UNCHANGED <<records, queue>>
  /\ UNCHANGED <<loop, job, outcome, tokenVars>>

(* call_tool begins: it hands the resolution of the caller to a thread.    *)
BeginCall(r) ==
  /\ loop = Nobody /\ pc[r] = "admitted"
  /\ Move(r, "caller") /\ Enqueue("caller", r)
  /\ UNCHANGED <<call, records, loop, job, outcome, tokenVars>>

(* The loop resumes with the caller resolved: unknown and unloaded tools   *)
(* are refused, any other call goes on to the scope gate.                  *)
LoadGate(r) ==
  /\ loop = Nobody /\ pc[r] = "resolved"
  /\ LET tool == call[r].tool IN
     IF tool \notin Registered THEN Conclude(r, "denied_unknown_tool")
     ELSE IF tool \notin Loaded
     THEN Conclude(r, IF tool \in Deployable THEN "denied_read_only" ELSE "denied_deployment")
     ELSE Move(r, "scope") /\ loop' = r /\ UNCHANGED records
  /\ UNCHANGED <<call, poolVars, tokenVars>>

Granted(claims) == IF claims = NoToken THEN {} ELSE Grants[claims]

RequiredScope(tool) == IF tool \in ReadSide THEN "read" ELSE "write"

(* Defect: no claims taken for a call that has nothing to enforce.         *)
ClaimsOptional(tool, claims) ==
  claims # NoToken /\ RequiredScope(tool) \notin Granted(claims)

ScopeDenies(tool, claims) ==
  IF claims = NoToken THEN AuthRequired ELSE RequiredScope(tool) \notin Granted(claims)

(* check_scope resolves the claims a second time, on the loop.             *)
ScopeGate(r) ==
  /\ loop = r /\ pc[r] = "scope"
  /\ \E claims \in Callers :
       /\ Resolve(call[r].token, claims)
       /\ IF ScopeDenies(call[r].tool, claims)
          THEN Conclude(r, "denied_scope")
          ELSE Move(r, "ceiling") /\ UNCHANGED <<records, loop>>
  /\ UNCHANGED <<call, poolVars, phase>>

CeilingRefuses(tool) == tool \in HardCeiling /\ ~HumanAtClient

(* authz.evaluate: the ceiling raises the confirmation, automation clears  *)
(* it for an ordinary gated write.                                         *)
MustConfirm(tool, automation) ==
  \/ tool \in HardCeiling
  \/ tool \in ConfirmSet /\ ~automation

DryRunInEffect(c) == c.tool \notin OwnsDryRun /\ (PreviewMode \/ c.dry)

(* The rest of the decision.  session_has_automation_scope resolves the    *)
(* claims a third time.                                                    *)
CeilingGate(r) ==
  /\ loop = r /\ pc[r] = "ceiling"
  /\ \E claims \in Callers :
       LET c == call[r]
           automation == "automation" \in Granted(claims)
       IN /\ Resolve(c.token, claims)
          /\ IF CeilingRefuses(c.tool)
             THEN Conclude(r, "denied_hard_ceiling") /\ UNCHANGED queue
             ELSE IF MustConfirm(c.tool, automation) /\ ~c.confirm
             THEN Conclude(r, "denied_confirmation") /\ UNCHANGED queue
             ELSE IF DryRunInEffect(c) /\ c.tool \notin ReadSide
             THEN Conclude(r, "dry_run") /\ UNCHANGED queue
             ELSE Move(r, "handler") /\ Enqueue("handler", r) /\ loop' = Nobody /\ UNCHANGED records
  /\ UNCHANGED <<call, job, outcome, phase>>

(* Defect: a handler that returns is taken for a call that was allowed.    *)
ReturnedIsAllowed(r) ==
  /\ loop = Nobody /\ pc[r] = "returned"
  /\ Conclude(r, IF outcome[r] = "error" THEN "error" ELSE "allowed")
  /\ UNCHANGED <<call, poolVars, tokenVars>>

(* The loop resumes with the handler's result, or its exception.           *)
Reply(r) ==
  /\ loop = Nobody /\ pc[r] = "returned"
  /\ Conclude(r, outcome[r])
  /\ UNCHANGED <<call, poolVars, tokenVars>>

----------------------------------------------------------------------------
(* The executor.                                                           *)

(* A thread takes the oldest job, and drops it when its future has been    *)
(* cancelled in the meantime.                                              *)
PickUp(w) ==
  /\ job[w] = Nobody /\ queue # <<>>
  /\ job' = IF pc[Head(queue).of] = "cancelled" THEN job ELSE [job EXCEPT ![w] = Head(queue)]
  /\ queue' = Tail(queue)
  /\ UNCHANGED <<dispatchVars, outcome, tokenVars>>

Working(w, kind) == job[w] # Nobody /\ job[w].kind = kind
Free(w) == job' = [job EXCEPT ![w] = Nobody]

(* The edge check validates the token and discards the claims.             *)
FinishEdge(w) ==
  /\ Working(w, "edge")
  /\ LET r == job[w].of IN
     /\ \E ok \in BOOLEAN :
          /\ Validate(call[r].token, ok)
          /\ Move(r, IF ok THEN "admitted" ELSE "done")
          /\ records' = IF ok THEN records
                        ELSE [records EXCEPT ![r] = Append(@, "denied_authentication")]
  /\ Free(w)
  /\ UNCHANGED <<call, loop, queue, outcome, phase, cached>>

(* Defect: a validation that fails is tried again until it succeeds.       *)
CallerRetried(w) ==
  /\ Working(w, "caller")
  /\ LET r == job[w].of IN
     \E claims \in Callers :
       /\ Resolve(call[r].token, claims)
       /\ IF claims = NoToken /\ pc[r] = "caller"
          THEN Enqueue("caller", r) /\ UNCHANGED pc
          ELSE IF pc[r] = "caller"
          THEN Move(r, "resolved") /\ UNCHANGED queue
          ELSE UNCHANGED <<pc, queue>>
  /\ Free(w)
  /\ UNCHANGED <<call, records, loop, outcome, phase>>

(* The caller is resolved; a validation that fails resolves it to nobody.  *)
FinishCaller(w) ==
  /\ Working(w, "caller")
  /\ LET r == job[w].of IN
     \E claims \in Callers :
       /\ Resolve(call[r].token, claims)
       /\ IF pc[r] = "caller"
          THEN Move(r, "resolved")
          ELSE UNCHANGED pc
  /\ Free(w)
  /\ UNCHANGED <<call, records, loop, queue, outcome, phase>>

(* The handler returns a result, returns a refusal, or raises.             *)
FinishHandler(w) ==
  /\ Working(w, "handler")
  /\ LET r == job[w].of IN
     /\ \E o \in Outcomes : outcome' = [outcome EXCEPT ![r] = o]
     /\ pc' = IF pc[r] = "handler" THEN [pc EXCEPT ![r] = "returned"] ELSE pc
  /\ Free(w)
  /\ UNCHANGED <<call, records, loop, queue, tokenVars>>

(* The client withdraws the call: the awaited future is cancelled, so a    *)
(* job no thread has started will not run and a started one runs on alone. *)
(* CancelledError is not an Exception: no clause of call_tool handles it.  *)
Cancel(r) ==
  /\ Cancels /\ loop = Nobody
  /\ pc[r] \in {"caller", "resolved", "handler", "returned"}
  /\ Move(r, "cancelled")
  /\ UNCHANGED <<call, records, loop, poolVars, tokenVars>>

----------------------------------------------------------------------------
(* Time.                                                                   *)

(* Defect: a cache entry that outlives the token's expiry.                 *)
EntryOutlivesToken(t) ==
  /\ phase[t] # "dead"
  /\ phase' = [phase EXCEPT ![t] = IF @ = "live" THEN "leeway" ELSE "dead"]
  /\ UNCHANGED <<dispatchVars, poolVars, cached, keysHeld>>

(* A token passes its expiry, then the leeway of the validation.           *)
TokenAges(t) ==
  /\ phase[t] # "dead"
  /\ phase' = [phase EXCEPT ![t] = IF @ = "live" THEN "leeway" ELSE "dead"]
  /\ cached' = cached \ {t}
  /\ UNCHANGED <<dispatchVars, poolVars, keysHeld>>

(* The cache entry reaches its sixty seconds.                              *)
CacheEntryLapses(t) ==
  /\ t \in cached
  /\ cached' = cached \ {t}
  /\ UNCHANGED <<dispatchVars, poolVars, phase, keysHeld>>

(* The key set reaches its lifespan.                                       *)
KeysLapse ==
  /\ keysHeld
  /\ keysHeld' = FALSE
  /\ UNCHANGED <<dispatchVars, poolVars, phase, cached>>

----------------------------------------------------------------------------
Finished == \A r \in Requests : pc[r] \in {"done", "cancelled"}
Rest == Finished /\ (\A w \in Workers : job[w] = Nobody) /\ UNCHANGED vars

LoopStep(r) == BeginCall(r) \/ LoadGate(r) \/ ScopeGate(r) \/ CeilingGate(r) \/ Reply(r)
WorkerStep(w) == PickUp(w) \/ FinishEdge(w) \/ FinishCaller(w) \/ FinishHandler(w)
Clock == KeysLapse \/ \E t \in Tokens : TokenAges(t) \/ CacheEntryLapses(t)

Next ==
  \/ \E r \in Requests : Arrive(r) \/ LoopStep(r) \/ Cancel(r)
  \/ \E w \in Workers : WorkerStep(w)
  \/ Clock
  \/ Rest

Spec == Init /\ [][Next]_vars

(* The loop runs every ready task, a thread takes the next job and ends it *)
(* (handlers and fetches carry timeouts).                                  *)
FairSpec ==
  /\ Spec
  /\ \A r \in Requests : SF_vars(LoopStep(r))
  /\ \A w \in Workers : WF_vars(WorkerStep(w))

----------------------------------------------------------------------------
(* Properties.                                                             *)

(* The handler of r has run, or is running.                                *)
Reached(r) == pc[r] \in {"handler", "returned"} \/ outcome[r] # Nobody

(* What the gates together demand of a call before its handler runs.       *)
Authorised(c) ==
  LET granted == Granted(c.token) IN
  /\ c.tool \in Loaded
  /\ AuthRequired => RequiredScope(c.tool) \in granted
  /\ c.tool \in HardCeiling => HumanAtClient /\ c.confirm
  /\ c.tool \in ConfirmSet => c.confirm \/ "automation" \in granted
  /\ DryRunInEffect(c) => c.tool \in ReadSide

(* Whatever the order in which calls, threads, expiries and cache lapses   *)
(* fall between the three reads of the claims, a handler is reached only   *)
(* by a call every gate admits: the tool is loaded; where authentication   *)
(* is required its token grants the scope; a tool under the hard ceiling   *)
(* only with a human at the client and only confirmed; a gated write only  *)
(* confirmed or under a token that grants automation; and no preview.      *)
RunsAreAuthorised == \A r \in Requests : Reached(r) => Authorised(call[r])

(* What call_tool keeps at every await: the types, and no handler run that *)
(* a gate would refuse.                                                    *)
DispatchInv == TypeOK /\ RunsAreAuthorised

(* No step takes a call with a dead token through the scope gate where     *)
(* authentication is required, though the claims may come from the cache.  *)
DeadTokenPassesNoGate ==
  [][\A r \in Requests :
       pc[r] = "scope" /\ pc'[r] = "ceiling" /\ AuthRequired
         => call[r].token \in Tokens /\ phase[call[r].token] # "dead"]_vars

(* A call is recorded once, when it is answered, and its record says what  *)
(* happened: an outcome of the handler if and only if the handler ran.     *)
RecordsTellWhatHappened ==
  \A r \in Requests :
    /\ Len(records[r]) = IF pc[r] = "done" THEN 1 ELSE 0
    /\ pc[r] = "done" =>
         IF outcome[r] = Nobody THEN records[r][1] \notin Outcomes
         ELSE records[r][1] = outcome[r]

(* Every call that arrives is answered, whatever the calls around it do    *)
(* with the few threads of the executor.                                   *)
EveryCallIsAnswered ==
  \A r \in Requests : pc[r] # "idle" ~> pc[r] \in {"done", "cancelled"}
=============================================================================
