------------------------------ MODULE AdminCalls ------------------------------
(* Calls of the self-managed tools on worker threads, several at once: what a    *)
(* handler checks, reads and writes, in its order, through admin_request or the   *)
(* shared SDK connection; and what happens to the cluster meanwhile.               *)
EXTENDS Sequences, AdminOps, Egress, SdkConnection, AdminRequest

CONSTANTS
  Calls,        \* the tools called, of CallNames
  Overlapping,  \* bound: those that may run while another call runs
  Payloads,     \* the payloads callers give where destinations may stand
  Statements,   \* the statements callers give
  Values,       \* the values of a field
  Unset,        \* what a field is reset to by a write that leaves it out
  Gone,         \* a document that is not there
  NoCall,       \* no tool, no field
  ReadOnlyMode, \* CB_ADMIN_READ_ONLY_MODE
  MaxFaults,    \* bound: requests that fail
  MaxEdits      \* bound: changes made by others

\* What the query service would do with a statement, and whether it is one statement
\* without comments, whose quotes are closed, and not too long.
ValidStatement(s) ==
  /\ s.does \in {"read", "create", "build", "drop", "write"}
  /\ s.single \in BOOLEAN /\ s.string \in BOOLEAN

ASSUME AdminAssumption ==
  /\ Overlapping \subseteq Calls /\ Calls \subseteq CallNames
  /\ \A p \in Payloads : \A l \in p : ValidLeaf(l)
  /\ \A s \in Statements : ValidStatement(s)
  /\ Unset \notin Values \union {7, 8} /\ ReadOnlyMode \in BOOLEAN
  /\ {MaxFaults, MaxEdits} \subseteq Nat

VARIABLES
  call,           \* worker -> the call it runs
  docs,           \* the settings of the alerts and of one user, as the cluster has them
  release,        \* the major version of the cluster
  version,        \* _cluster_version
  dns,            \* name -> where its addresses lie
  faults, edits,  \* those still to come
  moved,          \* (history) worker -> the names that moved since its call began
  unread,         \* (history) documents whose GET once had no document in its answer
  strayed,        \* (history) tools that did what their registry entry excludes
  misled,         \* (history) calls that sent a destination no setting admits
  outdated        \* (history) gated tools that reached a cluster below 8

history == <<moved, unread, strayed, misled, outdated>>
world == <<docs, release, version, dns>>
vars == <<call, world, faults, edits, history, connectionVars>>

Names == {d \in Destinations : Named(d)}
Documents == {"alerts", "user"}
Fields == {"named", "kept"}
DocumentOf(op) == IF op = "alerts_set" THEN "alerts" ELSE "user"
Merges(op) == Does(op, "merge")
UsesSdk(op) == Request(op) \in {"QUERY", "DDL"}
Guards == {"direct", "flat", "nested"}
NoStatement == [does |-> "read", single |-> TRUE, string |-> TRUE]

Idle == [pc |-> "idle", op |-> NoCall, payload |-> {}, statement |-> NoStatement,
         declared |-> TRUE, field |-> NoCall, value |-> Unset, read |-> NoCall,
         attempt |-> 1, applied |-> 0]

Init ==
  /\ call = [w \in Workers |-> Idle]
  /\ \E v \in Values, u \in [Fields -> Values] \union {Gone} :
       docs = [d \in Documents |-> IF d = "user" THEN u ELSE [f \in Fields |-> v]]
  /\ release \in {7, 8} /\ version \in {Unset, 7, release}
  /\ dns \in {[d \in Names |-> ranges] : ranges \in {{}} \union {{r} : r \in Ranges}}
  /\ faults = MaxFaults /\ edits = MaxEdits
  /\ moved = [w \in Workers |-> {}] /\ unread = {} /\ strayed = {} /\ misled = {} /\ outdated = {}
  /\ ConnectionInit

--------------------------------------------------------------------------------
\* The steps a call goes through, in this order, and which of them it needs.
Steps == <<"version", "statement", "destinations", "declared", "read", "connect", "send">>

Applies(step, op) ==
  \/ step = "version" /\ (Does(op, "gate") \/ Does(op, "probes"))
  \/ step = "statement" /\ Does(op, "statement")
  \/ step = "destinations" /\ (\E g \in Guards : Does(op, g))
  \/ step = "declared" /\ Does(op, "declared")
  \/ step = "read" /\ Merges(op)
  \/ step = "connect" /\ UsesSdk(op)
  \/ step = "send"

After(n, op) ==
  Steps[CHOOSE i \in n..Len(Steps) :
          Applies(Steps[i], op) /\ \A j \in n..(i - 1) : ~Applies(Steps[j], op)]

Following(step, op) == After(1 + CHOOSE i \in DOMAIN Steps : Steps[i] = step, op)

Goto(w, pc) == call' = [call EXCEPT ![w].pc = pc, ![w].attempt = 1]
PassIf(w, allowed, from) ==
  Goto(w, IF allowed THEN Following(from, call[w].op) ELSE "refused")

At(w, step) == call[w].pc = step /\ UNCHANGED <<faults, edits>>
Quiet == UNCHANGED <<world, history>>

\* The calls a client can make of a tool.
CallWith(op, p, s, d, f, v) ==
  [Idle EXCEPT !.op = op, !.payload = p, !.statement = s, !.declared = d, !.field = f, !.value = v]

Made == [op \in Calls |->
  {CallWith(op, p, s, d, f, v) :
     p \in {q \in Payloads \union {{}} :
              /\ q # {} => \E g \in Guards : Does(op, g)
              /\ Does(op, "direct") => Cardinality(q) <= 1 /\ \A l \in q : l.key = "host"
              /\ ~Does(op, "nested") => \A l \in q : ~l.atRoot
              /\ op = "backup_repository_create" => \A l \in q : l.key = "other" /\ ~l.atRoot},
     s \in IF Does(op, "statement") THEN Statements ELSE {NoStatement},
     d \in IF Does(op, "declared") THEN BOOLEAN ELSE {TRUE},
     f \in IF Merges(op) THEN {"named"} ELSE {NoCall},
     v \in IF Merges(op) THEN Values ELSE {Unset}}]

\* A worker makes one call; what earlier calls left is a starting state.
Begin(w, op) ==
  /\ call[w].pc = "idle"
  /\ \A u \in Workers \ {w} : call[u].op # NoCall => {op, call[u].op} \subseteq Overlapping
  /\ \E c \in Made[op] : call' = [call EXCEPT ![w] = [c EXCEPT !.pc = After(1, op)]]
  /\ UNCHANGED <<world, faults, edits, history, connectionVars>>

\* Defect: a version that could not be read passes the gate.
PassesGateUnread(w) == version = Unset \/ version = 8

\* is_8x: refuses when the version is not known.
PassesGate(w) == version = 8

Gated(w) == PassIf(w, PassesGate(w) \/ Does(call[w].op, "probes"), "version")

\* get_cluster_version: the cache, or GET /pools, whose answer is stored and the cache
\* read again.  A cluster that is upgraded meanwhile, or another call, may intervene.
AskVersion(w) ==
  /\ At(w, "version")
  /\ IF version # Unset THEN Gated(w) ELSE Goto(w, "pools")
  /\ Quiet

ReadPools(w) ==
  /\ At(w, "pools")
  /\ \/ call' = [call EXCEPT ![w].pc = "store", ![w].read = release]
     \/ Goto(w, "reread")
  /\ Quiet

StoreVersion(w) ==
  /\ At(w, "store")
  /\ version' = call[w].read
  /\ call' = [call EXCEPT ![w].pc = "reread", ![w].read = NoCall]
  /\ UNCHANGED <<docs, release, dns, history>>

RereadVersion(w) == At(w, "reread") /\ Gated(w) /\ Quiet

\* Defect: the validator of DROP is the one of CREATE.
AcceptsIndexDdl(op, s) ==
  /\ s.single /\ s.string
  /\ IF op \in {"index_create", "index_drop"} THEN s.does \in {"create", "build", "drop"}
                                              ELSE s.does = "read"

\* The validators: one DDL statement of the right sort, and not in read-only mode; a
\* diagnostic tool takes what only reads.
Accepts(op, s) ==
  /\ s.single /\ s.string
  /\ CASE op = "index_create" -> s.does \in {"create", "build"} /\ ~ReadOnlyMode
       [] op = "index_drop"   -> s.does = "drop" /\ ~ReadOnlyMode
       [] OTHER               -> s.does = "read"

CheckStatement(w) ==
  /\ At(w, "statement")
  /\ PassIf(w, Accepts(call[w].op, call[w].statement), "statement")
  /\ Quiet

Authorised(op, payload) ==
  /\ Does(op, "direct") => GuardDirect(payload, dns)
  /\ Does(op, "flat") => GuardFlat(payload, dns)
  /\ Does(op, "nested") => GuardNested(payload, dns)

CheckDestinations(w) ==
  /\ At(w, "destinations")
  /\ PassIf(w, Authorised(call[w].op, call[w].payload), "destinations")
  /\ Quiet

CheckDeclared(w) ==
  /\ At(w, "declared") /\ PassIf(w, call[w].declared, "declared")
  /\ Quiet
--------------------------------------------------------------------------------
Blank == [f \in Fields |-> Unset]

\* Defect: whatever was answered is merged onto.
ReadAnything(w) ==
  LET d == DocumentOf(call[w].op)
      proceed(base) == call' = [call EXCEPT ![w].read = base, ![w].pc = "send", ![w].attempt = 1]
  IN
  /\ At(w, "read")
  /\ \/ docs[d] # Gone /\ proceed(docs[d]) /\ UNCHANGED unread
     \/ docs[d] = Gone /\ Goto(w, "failed") /\ UNCHANGED unread
     \/ proceed(Blank) /\ UNCHANGED unread
  /\ UNCHANGED <<world, moved, strayed, misled, outdated>>

\* What is to be written back whole is read first.  The alerts are refused an answer
\* without any of their fields; the user's is taken for a user without roles.
ReadCurrent(w) ==
  LET d == DocumentOf(call[w].op)
      proceed(base) == call' = [call EXCEPT ![w].read = base, ![w].pc = "send", ![w].attempt = 1]
  IN
  /\ At(w, "read")
  /\ \/ docs[d] # Gone /\ proceed(docs[d]) /\ UNCHANGED unread
     \/ docs[d] = Gone /\ Goto(w, "failed") /\ UNCHANGED unread
     \/ /\ IF d = "alerts" THEN Goto(w, "refused") ELSE proceed(Blank)
        /\ unread' = unread \union {d}
  /\ UNCHANGED <<world, moved, strayed, misled, outdated>>

\* The shared connection: what SdkConnection does, until this call has it.
Connect(w) ==
  /\ At(w, "connect") /\ Quiet
  /\ \/ stage[w] \in {"ready", "failed"} /\ GoOn(w)
        /\ Goto(w, IF stage[w] = "ready" THEN "send" ELSE "failed")
     \/ (Ask(w) \/ Enter(w) \/ Open(w) \/ Publish(w) \/ Leave(w)) /\ UNCHANGED call

ConnectFails(w) ==
  /\ call[w].pc = "connect" /\ faults > 0 /\ faults' = faults - 1
  /\ GiveUp(w) /\ Quiet /\ UNCHANGED <<call, edits>>

\* What the cluster would be told to contact against the rules: a literal address or
\* a name that is never contacted, what lies in a denied range or, unlisted, in a
\* private one, and what nobody admitted.  A name that moved since the call began is
\* beyond this server, and so is one under an exempted key or one never looked up.
Misleads(w, l) ==
  \/ AlwaysDenied(l.dest) /\ (l.key = "exempt" \/ Relevant(l))
  \/ /\ Relevant(l) /\ l.key # "exempt" /\ l.dest \notin moved[w]
     /\ LET ranges == IF Named(l.dest) THEN IF SkipDns THEN {} ELSE dns[l.dest] ELSE {l.dest.range}
        IN  \/ "denied" \in ranges
            \/ ~l.dest.listed /\ ("private" \in ranges \/ ~AllowAny \/ (ranges = {} /\ ~SkipDns))

\* Does the request do what the entry of its tool in the registry excludes?
Strays(c) ==
  LET request == Request(c.op)
      writes == IF Does(c.op, "statement") THEN c.statement.does # "read" \/ ~c.statement.single
                ELSE request \in {"POST", "PUT", "DELETE", "DDL"} /\ ~Does(c.op, "computes")
      drops == request = "DELETE" \/ (Does(c.op, "statement") /\ c.statement.does \in {"drop", "write"})
  IN  \/ writes /\ HintOf[c.op] = "read"
      \/ drops /\ HintOf[c.op] # "destructive"
      \/ c.op = "index_drop" /\ c.statement.does # "drop"

Merged(c) == [c.read EXCEPT ![c.field] = c.value]

\* The settings after the request: a full replace of what was read, a fresh user, none.
Written(c) ==
  IF Merges(c.op) THEN [docs EXCEPT ![DocumentOf(c.op)] = Merged(c)]
  ELSE IF c.op = "user_delete" THEN [docs EXCEPT !["user"] = Gone] ELSE docs

Reaches(w) ==
  LET c == call[w]
  IN
  /\ docs' = Written(c)
  /\ strayed' = IF Strays(c) THEN strayed \union {c.op} ELSE strayed
  /\ misled' = IF \E l \in c.payload : Misleads(w, l) THEN misled \union {c.op} ELSE misled
  /\ outdated' = IF Does(c.op, "gate") /\ release < 8 THEN outdated \union {c.op} ELSE outdated
  /\ UNCHANGED <<release, version, dns, moved, unread>>

Missing(c) == c.op = "user_delete" /\ docs["user"] = Gone

\* The last request of the call, answered.  A tool without one only answers, and
\* kmip_set explains why it does nothing.
Send(w) ==
  LET c == call[w]
  IN
  /\ At(w, "send") /\ UNCHANGED connectionVars
  /\ \/ /\ Request(c.op) # "nothing" /\ ~Missing(c) /\ Reaches(w)
        /\ call' = [call EXCEPT ![w].pc = "answered", ![w].applied = @ + 1]
     \/ Missing(c) /\ Goto(w, "failed") /\ Quiet
     \/ /\ Request(c.op) = "nothing" /\ Quiet
        /\ Goto(w, IF c.op = "kmip_set" THEN "refused" ELSE "answered")

\* Where a request of the call is under way, and by which method.
Requesting(w) ==
  \/ call[w].pc \in {"pools", "read"}
  \/ call[w].pc = "send" /\ Request(call[w].op) # "nothing"
MethodNow(w) == IF call[w].pc = "send" THEN Request(call[w].op) ELSE "GET"

\* An attempt fails, and perhaps took effect all the same.  A statement is not sent
\* again, and a version that cannot be had is not known.
Fails(w, fault) ==
  LET c == call[w]
      again == ~(c.pc = "send" /\ UsesSdk(c.op)) /\ Repeats(fault, MethodNow(w), c.attempt)
      ended == IF again THEN [c EXCEPT !.attempt = @ + 1]
                        ELSE [c EXCEPT !.pc = IF c.pc = "pools" THEN "reread" ELSE "failed"]
  IN
  /\ faults > 0 /\ faults' = faults - 1
  /\ Requesting(w) /\ UNCHANGED <<edits, connectionVars>>
  /\ \/ call' = [call EXCEPT ![w] = IF again THEN ended ELSE [ended EXCEPT !.attempt = 1]] /\ Quiet
     \/ /\ c.pc = "send" /\ MayHaveApplied(fault) /\ ~Missing(c) /\ Reaches(w)
        /\ call' = [call EXCEPT ![w] = [ended EXCEPT !.applied = @ + 1]]

--------------------------------------------------------------------------------
\* Others change a setting or make or delete the user, upgrade the cluster, move a
\* name, while a call runs that is about it: otherwise this would only make another
\* starting state.
Edit == edits > 0 /\ edits' = edits - 1 /\ UNCHANGED <<call, faults, connectionVars>>

Running == {call[w].op : w \in Workers} \ {NoCall}

EditDocument(d) ==
  /\ Edit
  /\ \E op \in Running : (Merges(op) \/ op = "user_delete") /\ DocumentOf(op) = d
  /\ \E new \in [Fields -> Values] \union {Gone} :
       /\ new # docs[d] /\ (new = Gone => d = "user")
       /\ docs' = [docs EXCEPT ![d] = new]
  /\ UNCHANGED <<release, version, dns, history>>

Upgrade ==
  /\ Edit /\ release = 7 /\ release' = 8
  /\ \E op \in Running : Does(op, "gate") \/ Does(op, "probes")
  /\ UNCHANGED <<docs, version, dns, history>>

Carries(w, d) == \E l \in call[w].payload : l.dest = d

MoveName(d) ==
  /\ Edit
  /\ \E ranges \in SUBSET Ranges : ranges # dns[d] /\ dns' = [dns EXCEPT ![d] = ranges]
  /\ \E w \in Workers : Carries(w, d)
  /\ moved' = [w \in Workers |-> IF Carries(w, d) THEN moved[w] \union {d} ELSE moved[w]]
  /\ UNCHANGED <<docs, release, version, unread, strayed, misled, outdated>>

\* What a worker does by itself, unless its request fails.
Check(w) ==
  \/ AskVersion(w) \/ ReadPools(w) \/ StoreVersion(w) \/ RereadVersion(w) \/ CheckStatement(w)
  \/ CheckDestinations(w) \/ CheckDeclared(w) \/ ReadCurrent(w)
Step(w) == Connect(w) \/ Send(w) \/ (Check(w) /\ UNCHANGED connectionVars)

Next ==
  \/ \E w \in Workers :
       \/ \E op \in Calls : Begin(w, op)
       \/ Step(w) \/ ConnectFails(w)
       \/ \E fault \in Faults : Fails(w, fault)
  \/ \E d \in Documents : EditDocument(d)
  \/ Upgrade
  \/ \E d \in Names : MoveName(d)

\* A request ends by its answer or its timeout, a thread is scheduled.
Spec == Init /\ [][Next]_vars /\ \A w \in Workers : WF_vars(Step(w))
--------------------------------------------------------------------------------
TypeOK ==
  /\ ConnectionTypeOK
  /\ \A w \in Workers :
       /\ call[w].op \in Calls \union {NoCall} /\ call[w].attempt \in 1..MaxAttempts
       /\ call[w].pc = "connect" \/ stage[w] = "out"
       /\ moved[w] \subseteq Names
  /\ version \in {7, 8, Unset} /\ release \in {7, 8}
  /\ unread \subseteq Documents /\ faults \in 0..MaxFaults
  /\ edits \in 0..MaxEdits

\* No tool does what its entry in the registry excludes: one hinted read-only changes
\* nothing, only destructive ones delete, and a tool that takes a statement runs no
\* other sort than its own, whatever is sent in it.
EffectsFitTheTool == strayed = {}

\* However a payload spells, nests or names a destination, the cluster is told to
\* contact only what the operator admitted and what lies outside the denied ranges.
EgressHolds == misled = {}

\* A gated tool never reaches a cluster that is not known to be 8.x, whoever else asks
\* for the version meanwhile and however the asking fails.
GateHolds == outdated = {}

\* No POST and no statement is done twice by one call, however its answers are lost.
AppliedOnce ==
  \A w \in Workers :
    call[w].op # NoCall /\ Request(call[w].op) \in {"POST", "DDL"} => call[w].applied <= 1

\* A partial change resets nothing it does not name: settings that are replaced whole
\* keep the rest, unless the answer to the read of a user held no user.
NothingReset ==
  \A d \in Documents : docs[d] # Gone /\ (\E f \in Fields : docs[d][f] = Unset) =>
    d = "user" /\ d \in unread

\* A call ends: neither its retries nor the lock on the connection hold it for ever.
CallsEnd ==
  \A w \in Workers : call[w].op # NoCall ~> call[w].pc \in {"answered", "refused", "failed"}

\* What no handler may make a cluster do, whatever the call asks: types, effects the
\* tool does not declare, destinations not admitted, tools of a later release.
AdminInv == TypeOK /\ EffectsFitTheTool /\ EgressHolds /\ GateHolds

\* A change is made once, and whole.
ChangeInv == AppliedOnce /\ NothingReset
================================================================================
