------------------------- MODULE EnvProvisionProofs -------------------------
(***************************************************************************)
(* For any number of clusters, projects, worker threads, wishes and faults *)
(* and for every configuration of the guardrails: the types of             *)
(* capella_env_ensure and of the primitive create, that only clusters of   *)
(* the sandbox are configured, that "ready" is true when it is said, and   *)
(* how far threads that count together can exceed the spend ceiling.       *)
(* Where the ceiling applies to one project at a time a refusal is owed;   *)
(* where calls come one at a time nothing is duplicated.                   *)
(***************************************************************************)
EXTENDS EnvProvision, FiniteSetTheorems, TLAPS

Configuring == {"see", "make", "relist", "appService", "makeAppService", "bringOnline"}
InCall == {"lookup", "count", "create"} \union Configuring
Started == [op : Ops, env : Names, project : Projects, wants : SUBSET Optional]

(* What is there of what the call wants, once it works on a later piece.    *)
DoneBefore(wants, have, piece) ==
    /\ piece # "cidr" /\ "cidr" \in wants => "cidr" \in have
    /\ piece \notin {"cidr", "bucket", "scope"} /\ "scope" \in wants => "scope" \in have
    /\ piece \notin {"cidr", "bucket", "scope", "collection"}
           /\ {"scope", "collection"} \subseteq wants => "collection" \in have
    /\ piece \in {"appServiceCidr", "endpoint"} => "credential" \in have
    /\ piece = "endpoint" /\ "appServiceCidr" \in wants => "appServiceCidr" \in have

Complete(w) ==
    /\ (call[w].wants \intersect {"cidr", "scope"}) \union {"credential"}
          \subseteq pieces[target[w]]
    /\ {"scope", "collection"} \subseteq call[w].wants =>
          "collection" \in pieces[target[w]]
    /\ "appService" \in call[w].wants =>
          /\ (call[w].wants \intersect {"appServiceCidr"}) \union {"endpoint"}
                \subseteq pieces[target[w]]
          /\ target[w] \in online \/ w \in conflicts

Established(w) ==
    /\ pc[w] # "done" => result[w] = "none"
    /\ result[w] = "ready" => target[w] \in ClusterIds /\ Complete(w)
    /\ pc[w] \in InCall => call[w] \in Started
    /\ pc[w] \in Configuring =>
          /\ target[w] \in everManaged
          /\ DoneBefore(call[w].wants, pieces[target[w]], step[w])
    /\ pc[w] = "relist" => step[w] = "bucket"
    /\ pc[w] \in {"appService", "makeAppService"} =>
          step[w] = "credential" /\ "credential" \in pieces[target[w]]
    /\ pc[w] = "bringOnline" => step[w] = "endpoint" /\ "endpoint" \in pieces[target[w]]

WorkersTypeOK ==
    /\ pc \in [Workers -> PCs]
    /\ call \in [Workers -> Calls]
    /\ target \in [Workers -> ClusterIds \union {NoId}]
    /\ step \in [Workers -> Pieces]
    /\ todo \in [Workers -> SUBSET Projects]
    /\ tally \in [Workers -> Nat]
    /\ result \in [Workers -> Phases \union Refusals \union {"none"}]
LocalInv == WorkersTypeOK /\ \A w \in Workers : Established(w)

ChildrenOK ==
    /\ pieces \in [ClusterIds -> SUBSET Pieces]
    /\ importing \subseteq ClusterIds
    /\ online \subseteq ClusterIds
    /\ conflicts \subseteq Workers
HistoryOK ==
    /\ everFull \subseteq SUBSET Projects
    /\ owners \subseteq ClusterIds
    /\ OnlyManagedConfigured
CloudOK == CloudTypeOK /\ ManagedNow(cluster) \subseteq everManaged
GlobalInv == CloudOK /\ ChildrenOK /\ HistoryOK /\ memo \subseteq SUBSET Projects

IInv == GlobalInv /\ LocalInv

-----------------------------------------------------------------------------
(* What a call has seen is never taken away: no child is deleted, and what  *)
(* was ever managed stays so; only its return makes a thread forget a 409.  *)
CloudGrows ==
    /\ everManaged \subseteq everManaged'
    /\ online \subseteq online'
    /\ \A id \in ClusterIds : pieces[id] \subseteq pieces'[id]
Grows == CloudGrows /\ conflicts \subseteq conflicts'

LEMMA StableOK ==
    ASSUME GlobalInv, LocalInv, CloudGrows, NEW v \in Workers, v \in conflicts => v \in conflicts',
           pc'[v] = pc[v], call'[v] = call[v], target'[v] = target[v],
           step'[v] = step[v], result'[v] = result[v]
    PROVE  Established(v)'
<1>1. Established(v) /\ target[v] \in ClusterIds \union {NoId} /\ pc[v] \in PCs
  BY DEF LocalInv, WorkersTypeOK
<1>2. everManaged \subseteq ClusterIds /\ online \subseteq ClusterIds
  BY DEF GlobalInv, CloudOK, CloudTypeOK, ChildrenOK
<1>3. CASE target[v] \in ClusterIds
  <2>1. pieces[target[v]] \subseteq pieces'[target[v]]
    BY <1>3 DEF CloudGrows
  <2> QED BY <1>1, <2>1 DEF CloudGrows, Established, Complete, DoneBefore
<1>4. CASE target[v] \notin ClusterIds
  BY <1>1, <1>2, <1>4 DEF Established, Configuring, Complete
<1> QED BY <1>3, <1>4

-----------------------------------------------------------------------------
(* One thread moves, the others keep what they have established.            *)
OthersStill(w) ==
    \A v \in Workers \ {w} :
        /\ pc'[v] = pc[v] /\ call'[v] = call[v] /\ target'[v] = target[v]
        /\ step'[v] = step[v] /\ result'[v] = result[v]

LEMMA MoveOK ==
    ASSUME IInv, Grows, NEW w \in Workers, OthersStill(w), WorkersTypeOK', Established(w)'
    PROVE  LocalInv'
<1> SUFFICES ASSUME NEW v \in Workers, v # w PROVE Established(v)'
  BY DEF LocalInv
<1> QED BY StableOK DEF IInv, OthersStill, Grows

LEMMA AnswerOK ==
    ASSUME IInv, Grows, NEW w \in Workers, NEW r \in Phases \union Refusals, Answer(w, r),
           r = "ready" => target[w] \in ClusterIds /\ Complete(w)'
    PROVE  LocalInv'
<1> USE DEF IInv, LocalInv, WorkersTypeOK
<1>1. WorkersTypeOK'
  BY DEF Answer, Goto, PCs
<1>2. pc'[w] = "done" /\ result'[w] = r /\ target'[w] = target[w]
  BY DEF Answer, Goto
<1>3. Established(w)'
  BY <1>2 DEF Established, InCall, Configuring
<1>4. OthersStill(w)
  BY DEF OthersStill, Answer, Goto
<1> QED BY <1>1, <1>3, <1>4, MoveOK

(* On to a request for the piece st, for the cluster t.                     *)
LEMMA WorkOK ==
    ASSUME IInv, Grows, NEW w \in Workers, NEW l \in Configuring, NEW st \in Pieces,
           NEW t \in ClusterIds,
           pc' = [pc EXCEPT ![w] = l], step' = [step EXCEPT ![w] = st],
           target' = [target EXCEPT ![w] = t],
           UNCHANGED <<call, todo, tally, result>>,
           pc[w] \in InCall, t \in everManaged,
           DoneBefore(call[w].wants, pieces'[t], st),
           l = "relist" => st = "bucket",
           l \in {"appService", "makeAppService"} =>
               st = "credential" /\ "credential" \in pieces'[t],
           l = "bringOnline" => st = "endpoint" /\ "endpoint" \in pieces'[t]
    PROVE  LocalInv'
<1> USE DEF IInv, LocalInv, WorkersTypeOK
<1>1. WorkersTypeOK'
  BY DEF PCs, Configuring
<1>2. pc'[w] = l /\ step'[w] = st /\ target'[w] = t
  OBVIOUS
<1>3. result[w] = "none" /\ call[w] \in Started
  BY DEF Established, InCall, Configuring
<1>4. Established(w)'
  BY <1>2, <1>3 DEF Established, InCall, Configuring, Grows, CloudGrows
<1>5. OthersStill(w)
  BY DEF OthersStill
<1> QED BY <1>1, <1>4, <1>5, MoveOK

(* Nothing but the threads changes, apart from a failed API call.           *)
LEMMA StillOK ==
    ASSUME IInv, UNCHANGED <<cluster, appService, edits, historyVars, childVars, owners>>,
           faults' \in 0..MaxFaults, memo' \subseteq SUBSET Projects,
           everFull' \subseteq SUBSET Projects
    PROVE  GlobalInv' /\ Grows
<1> USE DEF IInv, GlobalInv, historyVars, childVars
<1>1. CloudOK'
  BY DEF CloudOK, CloudTypeOK, ManagedNow
<1>2. ChildrenOK' /\ HistoryOK'
  BY DEF ChildrenOK, HistoryOK, OnlyManagedConfigured
<1>3. Grows
  BY DEF Grows, CloudGrows
<1> QED BY <1>1, <1>2, <1>3

LEMMA FaultBound ==
    ASSUME IInv, ApiFault \/ UNCHANGED faults
    PROVE  faults' \in 0..MaxFaults
BY CloudAssumption DEF IInv, GlobalInv, CloudOK, CloudTypeOK, ApiFault

LEMMA FailsOK ==
    ASSUME IInv, NEW w \in Workers, Fails(w)
    PROVE  IInv'
<1>1. GlobalInv' /\ Grows
  BY StillOK, FaultBound DEF Fails, IInv, GlobalInv, HistoryOK
<1>2. LocalInv'
  BY <1>1, AnswerOK DEF Fails, Refusals
<1> QED BY <1>1, <1>2 DEF IInv

LEMMA ReadsOK ==
    ASSUME IInv, Reads, UNCHANGED everFull, memo' \subseteq SUBSET Projects
    PROVE  GlobalInv' /\ Grows
BY StillOK, FaultBound DEF Reads, IInv, GlobalInv, HistoryOK, cloudVars, historyVars

LEMMA NotAcceptedOK ==
    ASSUME IInv, NEW w \in Workers, NotAccepted(w)
    PROVE  IInv'
<1>1. GlobalInv' /\ Grows
  BY ReadsOK DEF NotAccepted, IInv, GlobalInv
<1>2. LocalInv'
  BY <1>1, AnswerOK DEF NotAccepted, Refusals
<1> QED BY <1>1, <1>2 DEF IInv

-----------------------------------------------------------------------------
(* The order of the pieces.                                                 *)
LEMMA OrderOK ==
    /\ Order[1] = "cidr" /\ Order[2] = "bucket" /\ Order[3] = "scope"
    /\ Order[4] = "collection" /\ Order[5] = "credential"
BY DEF Order

LEMMA PositionOK ==
    ASSUME NEW i \in 1..5
    PROVE  Position(Order[i]) = i
<1>1. \A j \in 1..5 : Order[j] = Order[i] => j = i
  BY OrderOK
<1>2. \E j \in 1..5 : Order[j] = Order[i]
  OBVIOUS
<1> QED BY <1>1, <1>2 DEF Position

(* The next piece is wanted, and none between the two is.                   *)
LEMMA NextPieceOK ==
    ASSUME NEW wants, NEW i \in 1..4
    PROVE  \E m \in (i + 1)..5 :
              /\ NextPiece(wants, Order[i]) = Order[m]
              /\ Wanted(wants, Order[m])
              /\ \A j \in (i + 1)..(m - 1) : ~ Wanted(wants, Order[j])
<1> DEFINE later == Later(wants, Order[i])
<1>1. later = {j \in (i + 1)..5 : Wanted(wants, Order[j])}
  BY PositionOK DEF Later
<1>2. 5 \in later
  BY <1>1, OrderOK DEF Wanted
<1> HIDE DEF later
<1>3. \E m \in later : \A j \in later : m <= j
  <2>1. later \subseteq 2..5
    BY <1>1
  <2> QED BY <1>2, <2>1
<1> DEFINE m == CHOOSE m \in later : \A j \in later : m <= j
<1>4. m \in later /\ \A j \in later : m <= j
  BY <1>3
<1>5. NextPiece(wants, Order[i]) = Order[m]
  BY DEF NextPiece, later
<1> HIDE DEF m
<1> QED BY <1>1, <1>4, <1>5

LEMMA NextPieceReady ==
    ASSUME NEW wants, NEW have, NEW piece \in {"cidr", "bucket", "scope", "collection"},
           DoneBefore(wants, have, piece), piece \in have
    PROVE  /\ NextPiece(wants, piece) \in Pieces
           /\ DoneBefore(wants, have, NextPiece(wants, piece))
<1>1. PICK i \in 1..4 : piece = Order[i]
  BY OrderOK
<1>2. PICK m \in (i + 1)..5 :
         /\ NextPiece(wants, piece) = Order[m]
         /\ \A j \in (i + 1)..(m - 1) : ~ Wanted(wants, Order[j])
  BY <1>1, NextPieceOK
<1>3. Order[m] \in Pieces \ {"cidr", "appServiceCidr", "endpoint"}
  BY OrderOK DEF Pieces
<1>4. "cidr" \in wants => "cidr" \in have
  BY <1>1 DEF DoneBefore
<1>5. Order[m] \in {"collection", "credential"} /\ "scope" \in wants => "scope" \in have
  <2>1. Wanted(wants, "scope") <=> "scope" \in wants
    BY DEF Wanted
  <2>2. CASE i = 3 \/ i = 4
    BY <1>1, <2>2, OrderOK DEF DoneBefore
  <2>3. CASE i < 3 /\ m > 3
    <3>1. 3 \in (i + 1)..(m - 1)
      BY <2>3
    <3> QED BY <1>2, <2>1, <3>1, OrderOK
  <2>4. CASE m <= 3
    BY <2>4, OrderOK
  <2> QED BY <2>2, <2>3, <2>4
<1>6. Order[m] = "credential" /\ {"scope", "collection"} \subseteq wants => "collection" \in have
  <2>1. Wanted(wants, "collection") <=> {"scope", "collection"} \subseteq wants
    BY DEF Wanted
  <2>2. CASE i = 4
    BY <1>1, <2>2, OrderOK
  <2>3. CASE i < 4 /\ m = 5
    <3>1. 4 \in (i + 1)..(m - 1)
      BY <2>3
    <3> QED BY <1>2, <2>1, <3>1, OrderOK
  <2>4. CASE m < 5
    BY <2>4, OrderOK
  <2> QED BY <2>2, <2>3, <2>4
<1> QED BY <1>2, <1>3, <1>4, <1>5, <1>6, OrderOK DEF DoneBefore, Pieces

-----------------------------------------------------------------------------
(* A thread that configures a cluster.                                      *)
LEMMA ConfiguringOK ==
    ASSUME IInv, Grows, NEW w \in Workers, pc[w] \in Configuring
    PROVE  /\ pc[w] \in InCall /\ call[w] \in Started
           /\ target[w] \in ClusterIds /\ target[w] \in everManaged
           /\ step[w] \in Pieces
           /\ pieces[target[w]] \subseteq pieces'[target[w]]
           /\ DoneBefore(call[w].wants, pieces'[target[w]], step[w])
<1>1. Established(w) /\ step[w] \in Pieces
  BY DEF IInv, LocalInv, WorkersTypeOK
<1>2. target[w] \in everManaged /\ target[w] \in ClusterIds
  BY <1>1 DEF Established, IInv, GlobalInv, CloudOK, CloudTypeOK
<1>3. pieces[target[w]] \subseteq pieces'[target[w]]
  BY <1>2 DEF Grows, CloudGrows
<1>4. DoneBefore(call[w].wants, pieces'[target[w]], step[w])
  BY <1>1, <1>3 DEF Established, DoneBefore
<1> QED BY <1>1, <1>2, <1>3, <1>4 DEF Established, InCall

(* The same cluster and piece, another request.                             *)
LEMMA ContinueOK ==
    ASSUME IInv, Grows, NEW w \in Workers, pc[w] \in Configuring, NEW l \in Configuring,
           Continue(w, l),
           l = "relist" => step[w] = "bucket",
           l \in {"appService", "makeAppService"} =>
               step[w] = "credential" /\ "credential" \in pieces'[target[w]],
           l = "bringOnline" => step[w] = "endpoint" /\ "endpoint" \in pieces'[target[w]]
    PROVE  LocalInv'
<1>1. /\ pc' = [pc EXCEPT ![w] = l] /\ step' = [step EXCEPT ![w] = step[w]]
      /\ target' = [target EXCEPT ![w] = target[w]]
      /\ UNCHANGED <<call, todo, tally, result>>
  BY DEF Continue, Goto, IInv, LocalInv, WorkersTypeOK
<1> QED BY <1>1, ConfiguringOK, WorkOK

(* The same cluster, another piece.                                         *)
LEMMA SeePieceOK ==
    ASSUME IInv, Grows, NEW w \in Workers, pc[w] \in Configuring, NEW st \in Pieces,
           step' = [step EXCEPT ![w] = st], Goto(w, "see"),
           UNCHANGED <<call, target, todo, tally, result>>,
           DoneBefore(call[w].wants, pieces'[target[w]], st)
    PROVE  LocalInv'
<1>1. /\ pc' = [pc EXCEPT ![w] = "see"] /\ target' = [target EXCEPT ![w] = target[w]]
  BY DEF Goto, IInv, LocalInv, WorkersTypeOK
<1> QED BY <1>1, ConfiguringOK, WorkOK DEF Configuring

LEMMA AdvanceOK ==
    ASSUME IInv, Grows, NEW w \in Workers, pc[w] \in {"see", "make", "relist"},
           step[w] \in pieces'[target[w]], Advance(w)
    PROVE  LocalInv'
<1> DEFINE wants == call[w].wants
           have == pieces'[target[w]]
<1>1. /\ pc[w] \in Configuring /\ target[w] \in ClusterIds /\ step[w] \in Pieces
      /\ DoneBefore(wants, have, step[w])
  BY ConfiguringOK DEF Configuring
<1>2. CASE step[w] = "endpoint"
  <2>1. Continue(w, "bringOnline")
    BY <1>2 DEF Advance
  <2> QED BY <1>1, <1>2, <2>1, ContinueOK DEF Configuring
<1>3. CASE step[w] = "appServiceCidr"
  <2>1. /\ step' = [step EXCEPT ![w] = "endpoint"] /\ Goto(w, "see")
        /\ UNCHANGED <<call, target, todo, tally, result>>
    BY <1>3 DEF Advance
  <2>2. DoneBefore(wants, have, "endpoint")
    BY <1>1, <1>3 DEF DoneBefore
  <2> QED BY <1>1, <2>1, <2>2, SeePieceOK DEF Pieces
<1>4. CASE step[w] = "credential" /\ "appService" \in wants
  <2>1. Continue(w, "appService")
    BY <1>4 DEF Advance
  <2> QED BY <1>1, <1>4, <2>1, ContinueOK DEF Configuring
<1>5. CASE step[w] = "credential" /\ "appService" \notin wants
  <2>1. Answer(w, "ready")
    BY <1>5 DEF Advance
  <2>2. call'[w] = call[w] /\ target'[w] = target[w]
    BY <2>1 DEF Answer
  <2>3. Complete(w)'
    BY <1>1, <1>5, <2>2 DEF Complete, DoneBefore
  <2> QED BY <1>1, <2>1, <2>3, AnswerOK DEF Phases
<1>6. CASE step[w] \in {"cidr", "bucket", "scope", "collection"}
  <2>1. /\ step' = [step EXCEPT ![w] = NextPiece(wants, step[w])] /\ Goto(w, "see")
        /\ UNCHANGED <<call, target, todo, tally, result>>
    BY <1>6 DEF Advance
  <2>2. /\ NextPiece(wants, step[w]) \in Pieces
        /\ DoneBefore(wants, have, NextPiece(wants, step[w]))
    BY <1>1, <1>6, NextPieceReady
  <2> QED BY <1>1, <2>1, <2>2, SeePieceOK
<1> QED BY <1>1, <1>2, <1>3, <1>4, <1>5, <1>6 DEF Pieces

-----------------------------------------------------------------------------
(* The beginning of a call, and what precedes the configuration.            *)
LEMMA ScopesOK == Scopes \subseteq SUBSET Projects
BY PolicyAssumption DEF Scopes, CeilingScope

LEMMA CountNextOK ==
    ASSUME IInv, Grows, NEW w \in Workers, NEW c \in Started, CountNext(w, c),
           call' = [call EXCEPT ![w] = c], pc[w] \in {"idle", "lookup"}
    PROVE  LocalInv'
<1> USE DEF IInv, LocalInv, WorkersTypeOK
<1>1. c \in Calls /\ CeilingScope(c.project) \in SUBSET Projects
  BY ScopesOK DEF Started, Calls, Scopes
<1>2. result[w] = "none"
  BY DEF Established
<1>3. WorkersTypeOK'
  BY <1>1 DEF CountNext, Goto, PCs, Refusals
<1>4. Established(w)'
  BY <1>2 DEF CountNext, Goto, Established, InCall, Configuring
<1>5. OthersStill(w)
  BY DEF OthersStill, CountNext, Goto
<1> QED BY <1>3, <1>4, <1>5, MoveOK

LEMMA StartEnsureOK ==
    ASSUME IInv, NEW w \in Workers, StartEnsure(w)
    PROVE  IInv'
<1>1. PICK env \in EnvArgs, p \in Projects, wants \in Wishes :
         call' = [call EXCEPT ![w] = [op |-> "ensure", env |-> env,
                                      project |-> p, wants |-> wants]]
  BY DEF StartEnsure
<1>2. GlobalInv' /\ Grows
  BY StillOK, FaultBound DEF StartEnsure, IInv, GlobalInv, HistoryOK, cloudVars, historyVars
<1> USE DEF IInv, LocalInv, WorkersTypeOK
<1>3. [op |-> "ensure", env |-> env, project |-> p, wants |-> wants] \in Started
  BY ProvisionAssumption DEF StartEnsure, Started
<1>4. call'[w] \in Started /\ pc'[w] = "lookup" /\ result'[w] = "none"
  BY <1>1, <1>3 DEF StartEnsure, Goto, Established
<1>5. WorkersTypeOK'
  BY <1>1, <1>3 DEF StartEnsure, Goto, PCs, Started, Calls
<1>6. Established(w)'
  BY <1>4 DEF Established, Configuring
<1>7. OthersStill(w)
  BY <1>1 DEF OthersStill, StartEnsure, Goto
<1> QED BY <1>2, <1>5, <1>6, <1>7, MoveOK

LEMMA StartPrimitiveOK ==
    ASSUME IInv, NEW w \in Workers, StartPrimitive(w)
    PROVE  IInv'
<1>1. PICK name \in EnvArgs, p \in Projects :
         LET c == [op |-> "primitive", env |-> name, project |-> p, wants |-> {}]
         IN call' = [call EXCEPT ![w] = c] /\ CountNext(w, c)
  BY DEF StartPrimitive
<1> DEFINE c == [op |-> "primitive", env |-> name, project |-> p, wants |-> {}]
<1>2. GlobalInv' /\ Grows
  BY StillOK, FaultBound DEF StartPrimitive, IInv, GlobalInv, HistoryOK, cloudVars, historyVars
<1>3. c \in Started
  BY ProvisionAssumption DEF StartPrimitive, Started
<1>4. call' = [call EXCEPT ![w] = c] /\ CountNext(w, c) /\ pc[w] = "idle"
  BY <1>1 DEF StartPrimitive
<1> HIDE DEF c
<1> QED BY <1>2, <1>3, <1>4, CountNextOK DEF IInv

LEMMA ReturnOK ==
    ASSUME IInv, NEW w \in Workers, Return(w)
    PROVE  IInv'
<1>1. GlobalInv' /\ CloudGrows
  <2>1. CloudOK' /\ CloudGrows
    BY DEF Return, IInv, GlobalInv, CloudOK, CloudTypeOK, ManagedNow, cloudVars, CloudGrows
  <2>2. ChildrenOK' /\ HistoryOK' /\ memo' = memo
    BY <2>1 DEF Return, IInv, GlobalInv, ChildrenOK, HistoryOK, OnlyManagedConfigured, cloudVars
  <2> QED BY <2>1, <2>2 DEF IInv, GlobalInv
<1> USE DEF IInv, LocalInv, WorkersTypeOK
<1>2. WorkersTypeOK'
  BY DEF Return, Goto, PCs, Calls, NoCall, Pieces
<1>3. Established(w)'
  BY DEF Return, Goto, Established, InCall, Configuring
<1>4. ASSUME NEW v \in Workers, v # w PROVE Established(v)'
  <2>1. /\ pc'[v] = pc[v] /\ call'[v] = call[v] /\ target'[v] = target[v]
        /\ step'[v] = step[v] /\ result'[v] = result[v]
        /\ v \in conflicts => v \in conflicts'
    BY <1>4 DEF Return, Goto
  <2> QED BY <1>1, <2>1, StableOK
<1> QED BY <1>1, <1>2, <1>3, <1>4

LEMMA LookupOK ==
    ASSUME IInv, NEW w \in Workers, Lookup(w)
    PROVE  IInv'
<1>1. CASE Fails(w)
  BY <1>1, FailsOK
<1>2. CASE Reads /\ UNCHANGED <<memo, everFull>>
           /\ LET found == Named(call[w].project, ClusterName(call[w].env))
              IN \/ found = {} /\ CountNext(w, call[w]) /\ UNCHANGED call
                 \/ \E id \in found : Adopt(w, id)
  <2>1. GlobalInv' /\ Grows
    BY <1>2, ReadsOK DEF IInv, GlobalInv
  <2>2. pc[w] = "lookup" /\ pc[w] \in InCall /\ call[w] \in Started
    BY DEF Lookup, IInv, LocalInv, Established, InCall
  <2>3. CASE CountNext(w, call[w]) /\ UNCHANGED call
    <3>1. call' = [call EXCEPT ![w] = call[w]]
      BY <2>3 DEF IInv, LocalInv, WorkersTypeOK
    <3> QED BY <2>1, <2>2, <2>3, <3>1, CountNextOK DEF IInv
  <2>4. CASE \E id \in Named(call[w].project, ClusterName(call[w].env)) : Adopt(w, id)
    <3>1. PICK id \in Named(call[w].project, ClusterName(call[w].env)) : Adopt(w, id)
      BY <2>4
    <3>2. CASE \E r \in (Phases \union Refusals) \ {"ready"} : Answer(w, r)
      BY <2>1, <3>2, AnswerOK DEF IInv
    <3>3. CASE /\ Adoptable(w, id)
               /\ target' = [target EXCEPT ![w] = id]
               /\ step' = [step EXCEPT ![w] = FirstPiece(call[w].wants)]
               /\ Goto(w, "see")
               /\ UNCHANGED <<call, todo, tally, result>>
      <4>1. /\ id \in ClusterIds /\ Alive(cluster[id])
            /\ cluster[id].project = call[w].project
        BY <3>1 DEF Named, Listed, Exists
      <4>2. id \in everManaged
        BY <3>3, <4>1 DEF Adoptable, ManagedNow, IInv, GlobalInv, CloudOK
      <4>3. /\ FirstPiece(call[w].wants) \in Pieces
            /\ DoneBefore(call[w].wants, pieces'[id], FirstPiece(call[w].wants))
        BY DEF FirstPiece, Pieces, DoneBefore
      <4>4. LocalInv'
        BY <2>1, <2>2, <3>3, <4>1, <4>2, <4>3, WorkOK DEF Goto, Configuring
      <4> QED BY <2>1, <4>4 DEF IInv
    <3> QED BY <3>1, <3>2, <3>3 DEF Adopt, AnswerUnhealthy, Phases, Refusals
  <2> QED BY <1>2, <2>3, <2>4
<1> QED BY <1>1, <1>2 DEF Lookup

LEMMA CountOK ==
    ASSUME IInv, NEW w \in Workers, Count(w)
    PROVE  IInv'
<1>1. CASE Fails(w)
  BY <1>1, FailsOK
<1>2. CASE ~ Fails(w)
  <2>1. PICK p \in todo[w] :
           LET sum == tally[w] + Cardinality(Counted({p}))
           IN /\ todo' = [todo EXCEPT ![w] = @ \ {p}]
              /\ tally' = [tally EXCEPT ![w] = sum]
              /\ UNCHANGED <<call, target, step>>
              /\ \/ UNCHANGED <<pc, result, memo>>
                 \/ /\ Remembers(CeilingScope(call[w].project))
                    /\ Goto(w, "done")
                    /\ result' = [result EXCEPT ![w] = "ceiling"]
                 \/ /\ Goto(w, "create")
                    /\ UNCHANGED <<result, memo>>
    BY <1>2 DEF Count
  <2>2. Cardinality(Counted({p})) \in Nat
    <3>1. IsFiniteSet(Counted({p}))
      BY FS_Subset, ProvisionAssumption DEF Counted
    <3> QED BY <3>1, FS_CardinalityType
  <2>3. pc[w] = "count" /\ call[w] \in Started /\ result[w] = "none"
    BY DEF Count, IInv, LocalInv, Established, InCall
  <2>4. CeilingScope(call[w].project) \in SUBSET Projects
    BY <2>3, ScopesOK DEF Started, Scopes
  <2>5. Reads /\ UNCHANGED everFull /\ memo' \subseteq SUBSET Projects
    BY <1>2, <2>1, <2>4 DEF Count, Remembers, IInv, GlobalInv
  <2>6. GlobalInv' /\ Grows
    BY <2>5, ReadsOK
  <2> USE DEF IInv, LocalInv, WorkersTypeOK
  <2>7. WorkersTypeOK'
    BY <2>1, <2>2 DEF Goto, PCs, Refusals
  <2>8. call'[w] = call[w] /\ pc'[w] \in {"count", "done", "create"}
    BY <2>1, <2>3 DEF Goto
  <2>9. result'[w] \in {"none", "ceiling"} /\ (pc'[w] # "done" => result'[w] = "none")
    BY <2>1, <2>3 DEF Goto
  <2>10. Established(w)'
    BY <2>3, <2>8, <2>9 DEF Established, InCall, Configuring
  <2>11. OthersStill(w)
    BY <2>1 DEF OthersStill, Goto
  <2> QED BY <2>6, <2>7, <2>10, <2>11, MoveOK
<1> QED BY <1>1, <1>2

-----------------------------------------------------------------------------
(* Writes.                                                                  *)
LEMMA RememberOK ==
    ASSUME IInv, cluster' \in [ClusterIds -> Clusters], Remember,
           appService' \in [ClusterIds -> AppServiceStates],
           edits' \in 0..MaxEdits, faults' \in 0..MaxFaults
    PROVE  CloudOK' /\ everManaged \subseteq everManaged'
BY DEF Remember, CloudOK, CloudTypeOK, ManagedNow, DeletableNow, ExpiredNow,
       IInv, GlobalInv

LEMMA CloudStepOK ==
    ASSUME IInv, cluster' \in [ClusterIds -> Clusters], Remember,
           appService' \in [ClusterIds -> AppServiceStates],
           edits' \in 0..MaxEdits, faults' \in 0..MaxFaults,
           everFull' \subseteq SUBSET Projects, UNCHANGED <<childVars, memo, owners>>
    PROVE  GlobalInv' /\ Grows
<1>1. CloudOK' /\ everManaged \subseteq everManaged'
  BY RememberOK
<1>2. ChildrenOK' /\ HistoryOK' /\ memo' \subseteq SUBSET Projects
  BY <1>1 DEF IInv, GlobalInv, ChildrenOK, HistoryOK, OnlyManagedConfigured, childVars
<1> QED BY <1>1, <1>2 DEF GlobalInv, Grows, CloudGrows, childVars

LEMMA NewClusterOK ==
    ASSUME NEW c \in Started, NEW marker \in Stamps(c)
    PROVE  NewCluster(c, marker) \in Clusters
<1>1. c.env \in Names /\ c.project \in Projects
  BY DEF Started
<1>2. ClusterName(c.env) \in Names
  BY <1>1, PolicyAssumption
<1>3. marker \in Markers
  <2>1. \A l \in {"pinned", "live"} : [env |-> c.env, life |-> l] \in Markers
    BY <1>1 DEF Markers
  <2> QED BY <2>1, ProvisionAssumption DEF Stamps
<1>4. "deploying" \in ClusterStates
  BY DEF ClusterStates
<1> QED BY <1>1, <1>2, <1>3, <1>4 DEF NewCluster, Clusters

LEMMA CreateOK ==
    ASSUME IInv, NEW w \in Workers, Create(w)
    PROVE  IInv'
<1>1. CASE Fails(w)
  BY <1>1, FailsOK
<1>2. CASE NotAccepted(w)
  BY <1>2, NotAcceptedOK
<1>3. CASE /\ \E marker \in Stamps(call[w]) :
                 cluster' = [cluster EXCEPT ![CHOOSE id \in Unborn : TRUE] =
                                NewCluster(call[w], marker)]
           /\ Remember
           /\ everFull' = everFull \union {s \in Scopes : Full(s)'}
           /\ UNCHANGED <<appService, edits, childVars, memo, owners>>
           /\ \/ UNCHANGED faults /\ Answer(w, "creating_cluster")
              \/ ApiFault /\ Answer(w, "capella_error")
  <2>1. call[w] \in Started
    BY DEF Create, IInv, LocalInv, Established, InCall
  <2>2. PICK marker \in Stamps(call[w]) :
           cluster' = [cluster EXCEPT ![CHOOSE id \in Unborn : TRUE] =
                          NewCluster(call[w], marker)]
    BY <1>3
  <2>3. NewCluster(call[w], marker) \in Clusters
    BY <2>1, NewClusterOK
  <2>4. cluster \in [ClusterIds -> Clusters]
    BY DEF IInv, GlobalInv, CloudOK, CloudTypeOK
  <2>5. cluster' \in [ClusterIds -> Clusters]
    BY <2>2, <2>3, <2>4
  <2>6. everFull' \subseteq SUBSET Projects
    BY <1>3, ScopesOK DEF IInv, GlobalInv, HistoryOK
  <2>7. /\ appService' \in [ClusterIds -> AppServiceStates]
        /\ edits' \in 0..MaxEdits /\ faults' \in 0..MaxFaults
    BY <1>3, FaultBound DEF IInv, GlobalInv, CloudOK, CloudTypeOK
  <2>8. GlobalInv' /\ Grows
    BY <1>3, <2>5, <2>6, <2>7, CloudStepOK
  <2>9. LocalInv'
    BY <1>3, <2>8, AnswerOK DEF Phases, Refusals
  <2> QED BY <2>8, <2>9 DEF IInv
<1> QED BY <1>1, <1>2, <1>3 DEF Create

-----------------------------------------------------------------------------
(* Configuration.                                                           *)
LEMMA ReadsGrow ==
    ASSUME IInv, Reads, UNCHANGED <<memo, everFull>>
    PROVE  GlobalInv' /\ Grows /\ UNCHANGED <<pieces, online>>
BY ReadsOK DEF Reads, childVars, IInv, GlobalInv

LEMMA SeeOK ==
    ASSUME IInv, NEW w \in Workers, See(w)
    PROVE  IInv'
<1>1. pc[w] = "see"
  BY DEF See
<1>2. CASE Fails(w)
  BY <1>2, FailsOK
<1>3. CASE NotAccepted(w)
  BY <1>3, NotAcceptedOK
<1>4. CASE /\ Reads /\ UNCHANGED <<memo, everFull>>
           /\ IF Present(w) THEN Advance(w) ELSE Continue(w, "make")
  <2>1. GlobalInv' /\ Grows /\ pieces' = pieces
    BY <1>4, ReadsGrow
  <2>2. CASE Present(w) /\ Advance(w)
    <3>1. step[w] \in pieces'[target[w]]
      BY <2>1, <2>2 DEF Present
    <3> QED BY <1>1, <2>1, <2>2, <3>1, AdvanceOK DEF IInv
  <2>3. CASE Continue(w, "make")
    BY <1>1, <2>1, <2>3, ContinueOK DEF Configuring, IInv
  <2> QED BY <1>4, <2>2, <2>3
<1> QED BY <1>2, <1>3, <1>4 DEF See

LEMMA MakeOK ==
    ASSUME IInv, NEW w \in Workers, Make(w)
    PROVE  IInv'
<1> DEFINE t == target[w]
<1>1. /\ pc[w] = "make" /\ pc[w] \in Configuring
      /\ t \in ClusterIds /\ t \in everManaged /\ step[w] \in Pieces
  BY DEF Make, Configuring, IInv, GlobalInv, LocalInv, WorkersTypeOK, Established,
         CloudOK, CloudTypeOK
<1>2. CASE Fails(w)
  BY <1>2, FailsOK
<1>3. CASE NotAccepted(w)
  BY <1>3, NotAcceptedOK
<1>4. CASE /\ Made(w)
           /\ owners' = owners \union {t}
           /\ UNCHANGED <<cluster, appService, edits, historyVars, online, conflicts,
                          memo, everFull>>
           /\ \/ /\ UNCHANGED faults
                 /\ IF step[w] = "bucket" THEN Continue(w, "relist") ELSE Advance(w)
              \/ ApiFault /\ Answer(w, "capella_error")
  <2>1. /\ pieces' \in [ClusterIds -> SUBSET Pieces]
        /\ importing' \subseteq ClusterIds
        /\ \A id \in ClusterIds : pieces[id] \subseteq pieces'[id]
        /\ step[w] # "bucket" => step[w] \in pieces'[t]
    BY <1>1, <1>4 DEF Made, IInv, GlobalInv, ChildrenOK
  <2>2. faults' \in 0..MaxFaults
    BY <1>4, FaultBound
  <2>3. CloudOK' /\ everManaged' = everManaged
    BY <1>4, <2>2 DEF IInv, GlobalInv, CloudOK, CloudTypeOK, ManagedNow, historyVars
  <2>4. ChildrenOK' /\ Grows
    BY <1>4, <2>1, <2>3 DEF ChildrenOK, Grows, CloudGrows, IInv, GlobalInv
  <2>5. HistoryOK' /\ memo' = memo
    BY <1>1, <1>4, <2>3 DEF HistoryOK, OnlyManagedConfigured, IInv, GlobalInv
  <2>6. GlobalInv'
    BY <2>3, <2>4, <2>5 DEF GlobalInv, IInv
  <2>7. CASE step[w] = "bucket" /\ Continue(w, "relist")
    BY <1>1, <2>4, <2>6, <2>7, ContinueOK DEF Configuring, IInv
  <2>8. CASE step[w] # "bucket" /\ Advance(w)
    BY <1>1, <2>1, <2>4, <2>6, <2>8, AdvanceOK DEF IInv
  <2>9. CASE Answer(w, "capella_error")
    BY <2>4, <2>6, <2>9, AnswerOK DEF IInv, Refusals
  <2> QED BY <1>4, <2>7, <2>8, <2>9
<1> QED BY <1>2, <1>3, <1>4 DEF Make

LEMMA RelistOK ==
    ASSUME IInv, NEW w \in Workers, Relist(w)
    PROVE  IInv'
<1>1. pc[w] = "relist" /\ pc[w] \in Configuring /\ step[w] = "bucket"
  BY DEF Relist, Configuring, IInv, LocalInv, Established
<1>2. CASE Fails(w)
  BY <1>2, FailsOK
<1>3. CASE NotAccepted(w)
  BY <1>3, NotAcceptedOK
<1>4. CASE /\ Reads /\ UNCHANGED <<memo, everFull>>
           /\ IF ScopeBlocked(w) THEN Answer(w, "configuring") ELSE NoBucketPiece(w)
  <2>1. GlobalInv' /\ Grows /\ pieces' = pieces
    BY <1>4, ReadsGrow
  <2>2. CASE Answer(w, "configuring")
    BY <2>1, <2>2, AnswerOK DEF IInv, Phases
  <2>3. CASE "bucket" \in pieces[target[w]] /\ Advance(w)
    BY <1>1, <2>1, <2>3, AdvanceOK DEF IInv
  <2>4. CASE /\ "bucket" \notin pieces[target[w]] /\ "scope" \notin call[w].wants
             /\ step' = [step EXCEPT ![w] = "credential"] /\ Goto(w, "see")
             /\ UNCHANGED <<call, target, todo, tally, result>>
    <3>1. DoneBefore(call[w].wants, pieces'[target[w]], "bucket")
      BY <1>1, <2>1, ConfiguringOK
    <3>2. DoneBefore(call[w].wants, pieces'[target[w]], "credential")
      BY <2>4, <3>1 DEF DoneBefore
    <3>3. LocalInv'
      BY <1>1, <2>1, <2>4, <3>2, SeePieceOK DEF Pieces
    <3> QED BY <2>1, <3>3 DEF IInv
  <2> QED BY <1>4, <2>2, <2>3, <2>4 DEF NoBucketPiece, ScopeBlocked
<1> QED BY <1>2, <1>3, <1>4 DEF Relist

LEMMA SeeAppServiceOK ==
    ASSUME IInv, NEW w \in Workers, SeeAppService(w)
    PROVE  IInv'
<1>1. /\ pc[w] = "appService" /\ pc[w] \in Configuring
      /\ step[w] = "credential" /\ "credential" \in pieces[target[w]]
  BY DEF SeeAppService, Configuring, IInv, LocalInv, Established
<1>2. CASE Fails(w)
  BY <1>2, FailsOK
<1>3. CASE Reads /\ UNCHANGED <<memo, everFull>> /\ ~ Fails(w)
  <2>1. GlobalInv' /\ Grows /\ pieces' = pieces
    BY <1>3, ReadsGrow
  <2>2. CASE Continue(w, "makeAppService")
    BY <1>1, <2>1, <2>2, ContinueOK DEF Configuring, IInv
  <2>3. CASE \E r \in {"waiting_for_app_service", "app_service_not_healthy"} : Answer(w, r)
    BY <2>1, <2>3, AnswerOK DEF IInv, Phases
  <2>4. CASE /\ step' = [step EXCEPT ![w] = IF "appServiceCidr" \in call[w].wants
                                            THEN "appServiceCidr" ELSE "endpoint"]
             /\ Goto(w, "see")
             /\ UNCHANGED <<call, target, todo, tally, result>>
    <3> DEFINE st == IF "appServiceCidr" \in call[w].wants
                     THEN "appServiceCidr" ELSE "endpoint"
    <3>1. DoneBefore(call[w].wants, pieces'[target[w]], "credential")
      BY <1>1, <2>1, ConfiguringOK
    <3>2. st \in Pieces /\ DoneBefore(call[w].wants, pieces'[target[w]], st)
      BY <1>1, <2>1, <3>1 DEF DoneBefore, Pieces
    <3>3. step' = [step EXCEPT ![w] = st]
      BY <2>4
    <3> HIDE DEF st
    <3>4. LocalInv'
      BY <1>1, <2>1, <2>4, <3>2, <3>3, SeePieceOK
    <3> QED BY <2>1, <3>4 DEF IInv
  <2>5. \/ Continue(w, "makeAppService")
        \/ \E r \in {"waiting_for_app_service", "app_service_not_healthy"} : Answer(w, r)
        \/ /\ step' = [step EXCEPT ![w] = IF "appServiceCidr" \in call[w].wants
                                          THEN "appServiceCidr" ELSE "endpoint"]
           /\ Goto(w, "see")
           /\ UNCHANGED <<call, target, todo, tally, result>>
    BY <1>3 DEF SeeAppService
  <2> QED BY <2>2, <2>3, <2>4, <2>5
<1> QED BY <1>2, <1>3 DEF SeeAppService

LEMMA MakeAppServiceOK ==
    ASSUME IInv, NEW w \in Workers, MakeAppService(w)
    PROVE  IInv'
<1>1. target[w] \in ClusterIds /\ target[w] \in everManaged
  BY DEF MakeAppService, Configuring, IInv, GlobalInv, LocalInv, Established,
         CloudOK, CloudTypeOK
<1>2. CASE Fails(w)
  BY <1>2, FailsOK
<1>3. CASE NotAccepted(w)
  BY <1>3, NotAcceptedOK
<1>4. CASE /\ appService' = [appService EXCEPT ![target[w]] = "deploying"]
           /\ owners' = owners \union {target[w]}
           /\ UNCHANGED <<cluster, edits, historyVars, childVars, memo, everFull>>
           /\ \/ UNCHANGED faults /\ Answer(w, "creating_app_service")
              \/ ApiFault /\ Answer(w, "capella_error")
  <2>1. faults' \in 0..MaxFaults
    BY <1>4, FaultBound
  <2>2. appService' \in [ClusterIds -> AppServiceStates]
    BY <1>4 DEF AppServiceStates, IInv, GlobalInv, CloudOK, CloudTypeOK
  <2>3. CloudOK' /\ everManaged' = everManaged
    BY <1>4, <2>1, <2>2 DEF IInv, GlobalInv, CloudOK, CloudTypeOK, ManagedNow, historyVars
  <2>4. ChildrenOK' /\ Grows
    BY <1>4, <2>3 DEF ChildrenOK, Grows, CloudGrows, IInv, GlobalInv, childVars
  <2>5. HistoryOK' /\ memo' = memo
    BY <1>1, <1>4, <2>3 DEF HistoryOK, OnlyManagedConfigured, IInv, GlobalInv
  <2>6. GlobalInv'
    BY <2>3, <2>4, <2>5 DEF GlobalInv, IInv
  <2>7. LocalInv'
    BY <1>4, <2>4, AnswerOK DEF Phases, Refusals
  <2> QED BY <2>6, <2>7 DEF IInv
<1> QED BY <1>2, <1>3, <1>4 DEF MakeAppService

(* The last request: with the endpoint online, or a 409 for an answer,      *)
(* everything wanted is there.                                              *)
LEMMA OnlineComplete ==
    ASSUME IInv, Grows, NEW w \in Workers, pc[w] = "bringOnline",
           target[w] \in online' \/ w \in conflicts', UNCHANGED <<call, target>>
    PROVE  target[w] \in ClusterIds /\ Complete(w)'
<1>1. step[w] = "endpoint" /\ pc[w] \in Configuring /\ "endpoint" \in pieces[target[w]]
  BY DEF Configuring, IInv, LocalInv, Established
<1>2. target[w] \in ClusterIds /\ DoneBefore(call[w].wants, pieces'[target[w]], "endpoint")
  BY <1>1, ConfiguringOK
<1>3. "endpoint" \in pieces'[target[w]]
  BY <1>1, <1>2 DEF Grows, CloudGrows
<1> QED BY <1>2, <1>3 DEF Complete, DoneBefore

LEMMA BringOnlineOK ==
    ASSUME IInv, NEW w \in Workers, BringOnline(w)
    PROVE  IInv'
<1>1. pc[w] = "bringOnline" /\ target[w] \in ClusterIds
  BY DEF BringOnline, Configuring, IInv, GlobalInv, LocalInv, Established, CloudOK, CloudTypeOK
<1>2. CASE Fails(w)
  BY <1>2, FailsOK
<1>3. ASSUME NEW refusal \in {"conflict", "alreadyOnline", "notResumable"},
             SwitchOnRefused(w, refusal),
             conflicts' = IF refusal = "conflict" THEN conflicts \union {w} ELSE conflicts,
             UNCHANGED <<cluster, appService, edits, historyVars, pieces, importing,
                         online, memo, everFull, owners>>,
             Answer(w, IF CountsAsOnline(refusal) THEN "ready" ELSE "capella_error")
      PROVE  IInv'
  <2>1. faults' \in 0..MaxFaults
    BY <1>3, FaultBound DEF SwitchOnRefused
  <2>2. CloudOK' /\ everManaged' = everManaged
    BY <1>3, <2>1 DEF IInv, GlobalInv, CloudOK, CloudTypeOK, ManagedNow, historyVars
  <2>3. ChildrenOK' /\ Grows /\ HistoryOK'
    BY <1>3, <2>2 DEF ChildrenOK, Grows, CloudGrows, HistoryOK, OnlyManagedConfigured,
                      IInv, GlobalInv
  <2>4. GlobalInv'
    BY <1>3, <2>2, <2>3 DEF GlobalInv, IInv
  <2>5. UNCHANGED <<call, target>>
    BY <1>3 DEF Answer
  <2>6. CASE CountsAsOnline(refusal)
    <3>1. target[w] \in online' \/ w \in conflicts'
      BY <1>3, <2>6 DEF CountsAsOnline, SwitchOnRefused
    <3>2. Answer(w, "ready")
      BY <1>3, <2>6
    <3> QED BY <1>1, <2>3, <2>4, <2>5, <3>1, <3>2, OnlineComplete, AnswerOK DEF IInv, Phases
  <2>7. CASE ~ CountsAsOnline(refusal)
    <3>1. Answer(w, "capella_error")
      BY <1>3, <2>7
    <3> QED BY <2>3, <2>4, <3>1, AnswerOK DEF IInv, Refusals
  <2> QED BY <2>6, <2>7
<1>4. CASE /\ online' = online \union {target[w]}
           /\ UNCHANGED <<cluster, appService, edits, historyVars, pieces, importing,
                          conflicts, memo, everFull, owners>>
           /\ \/ UNCHANGED faults /\ Answer(w, "ready")
              \/ ApiFault /\ Answer(w, "capella_error")
  <2>1. faults' \in 0..MaxFaults
    BY <1>4, FaultBound
  <2>2. CloudOK' /\ everManaged' = everManaged
    BY <1>4, <2>1 DEF IInv, GlobalInv, CloudOK, CloudTypeOK, ManagedNow, historyVars
  <2>3. ChildrenOK' /\ Grows /\ HistoryOK'
    BY <1>1, <1>4, <2>2 DEF ChildrenOK, Grows, CloudGrows, HistoryOK,
                            OnlyManagedConfigured, IInv, GlobalInv
  <2>4. GlobalInv'
    BY <1>4, <2>2, <2>3 DEF GlobalInv, IInv
  <2>5. UNCHANGED <<call, target>>
    BY <1>4 DEF Answer
  <2>6. target[w] \in ClusterIds /\ Complete(w)'
    BY <1>1, <1>4, <2>3, <2>5, OnlineComplete
  <2>7. LocalInv'
    BY <1>4, <2>3, <2>6, AnswerOK DEF Phases, Refusals
  <2> QED BY <2>4, <2>7 DEF IInv
<1> QED BY <1>2, <1>3, <1>4 DEF BringOnline

-----------------------------------------------------------------------------
(* What happens between the calls.                                          *)
LEMMA IdleOK ==
    ASSUME IInv, Grows, UNCHANGED workerVars
    PROVE  LocalInv'
<1> SUFFICES ASSUME NEW v \in Workers PROVE Established(v)'
  BY DEF LocalInv, WorkersTypeOK, IInv, workerVars
<1> QED BY StableOK DEF IInv, workerVars, Grows

LEMMA MemoExpiresOK ==
    ASSUME IInv, MemoExpires
    PROVE  IInv'
<1>1. GlobalInv' /\ Grows
  BY StillOK, FaultBound
     DEF MemoExpires, IInv, GlobalInv, HistoryOK, cloudVars, historyVars
<1> QED BY <1>1, IdleOK DEF MemoExpires, IInv

LEMMA ImportEndsOK ==
    ASSUME IInv, NEW id \in ClusterIds, ImportEnds(id)
    PROVE  IInv'
<1>1. CloudOK' /\ everManaged' = everManaged
  BY DEF ImportEnds, IInv, GlobalInv, CloudOK, CloudTypeOK, ManagedNow, cloudVars
<1>2. ChildrenOK' /\ Grows
  BY <1>1 DEF ImportEnds, ChildrenOK, Grows, CloudGrows, IInv, GlobalInv, Pieces
<1>3. HistoryOK' /\ memo' = memo
  BY <1>1 DEF ImportEnds, HistoryOK, OnlyManagedConfigured, IInv, GlobalInv
<1> QED BY <1>1, <1>2, <1>3, IdleOK DEF ImportEnds, IInv, GlobalInv

LEMMA SetStateOK ==
    ASSUME IInv, NEW id \in ClusterIds, NEW st \in ClusterStates, SetState(id, st)
    PROVE  cluster' \in [ClusterIds -> Clusters]
<1>1. cluster \in [ClusterIds -> Clusters]
  BY DEF IInv, GlobalInv, CloudOK, CloudTypeOK
<1>2. [cluster[id] EXCEPT !.state = st] \in Clusters
  BY <1>1 DEF Clusters
<1> QED BY <1>1, <1>2 DEF SetState

LEMMA EnvironmentDestroyedOK ==
    ASSUME IInv, EnvironmentDestroyed
    PROVE  IInv'
<1>1. cluster' \in [ClusterIds -> Clusters]
  BY SetStateOK DEF EnvironmentDestroyed, ClusterStates
<1>2. edits' \in 0..MaxEdits
  BY CloudAssumption DEF EnvironmentDestroyed, IInv, GlobalInv, CloudOK, CloudTypeOK
<1>3. GlobalInv' /\ Grows
  BY <1>1, <1>2, CloudStepOK, FaultBound
     DEF EnvironmentDestroyed, IInv, GlobalInv, HistoryOK, CloudOK, CloudTypeOK
<1> QED BY <1>3, IdleOK DEF EnvironmentDestroyed, IInv

LEMMA CloudProgressOK ==
    ASSUME IInv, NEW id \in ClusterIds, CloudProgress(id)
    PROVE  IInv'
<1>1. cluster \in [ClusterIds -> Clusters] /\ appService \in [ClusterIds -> AppServiceStates]
  BY DEF IInv, GlobalInv, CloudOK, CloudTypeOK
<1>2. cluster' \in [ClusterIds -> Clusters]
  <2>1. UNCHANGED cluster \/ \E st \in ClusterStates : SetState(id, st)
    BY DEF CloudProgress, Progress, ClusterStates
  <2> QED BY <1>1, <2>1, SetStateOK
<1>3. appService' \in [ClusterIds -> AppServiceStates]
  <2>1. \/ UNCHANGED appService
        \/ \E s \in AppServiceStates : appService' = [appService EXCEPT ![id] = s]
    <3>1. appService[id] \in AppServiceStates
      BY <1>1
    <3> QED BY <3>1 DEF CloudProgress, Progress, AppServiceStates
  <2> QED BY <1>1, <2>1
<1>4. GlobalInv' /\ Grows
  BY <1>2, <1>3, CloudStepOK, FaultBound
     DEF CloudProgress, Progress, IInv, GlobalInv, HistoryOK, CloudOK, CloudTypeOK
<1> QED BY <1>4, IdleOK DEF CloudProgress, IInv

-----------------------------------------------------------------------------
LEMMA InitOK == Init => IInv
<1> SUFFICES ASSUME Init PROVE IInv
  OBVIOUS
<1>1. cluster \in [ClusterIds -> Clusters]
  BY StartAssumption DEF Init, CloudInit
<1>2. CloudOK
  BY <1>1, CloudAssumption
     DEF Init, CloudInit, CloudOK, CloudTypeOK, AppServiceStates, ManagedNow, DeletableNow,
         ExpiredNow
<1>3. ChildrenOK /\ HistoryOK /\ memo \subseteq SUBSET Projects
  BY ScopesOK DEF Init, ChildrenOK, HistoryOK, OnlyManagedConfigured
<1>4. LocalInv
  BY DEF Init, LocalInv, WorkersTypeOK, Established, InCall, Configuring, PCs, Calls, NoCall,
         Pieces
<1> QED BY <1>2, <1>3, <1>4 DEF IInv, GlobalInv

LEMMA StepOK == IInv /\ [Next]_vars => IInv'
<1> SUFFICES ASSUME IInv, [Next]_vars PROVE IInv'
  OBVIOUS
<1>1. ASSUME NEW w \in Workers, StartEnsure(w) PROVE IInv'
  BY <1>1, StartEnsureOK
<1>2. ASSUME NEW w \in Workers, StartPrimitive(w) PROVE IInv'
  BY <1>2, StartPrimitiveOK
<1>3. ASSUME NEW w \in Workers, Runs(w) PROVE IInv'
  BY <1>3, LookupOK, CountOK, CreateOK, SeeOK, MakeOK, RelistOK, SeeAppServiceOK,
     MakeAppServiceOK, BringOnlineOK, ReturnOK DEF Runs
<1>4. ASSUME NEW id \in ClusterIds, CloudProgress(id) \/ ImportEnds(id) PROVE IInv'
  BY <1>4, CloudProgressOK, ImportEndsOK
<1>5. CASE MemoExpires \/ EnvironmentDestroyed
  BY <1>5, MemoExpiresOK, EnvironmentDestroyedOK
<1>6. CASE UNCHANGED vars
  <2>1. GlobalInv' /\ Grows
    BY <1>6, StillOK, FaultBound
       DEF vars, cloudVars, historyVars, IInv, GlobalInv, HistoryOK
  <2> QED BY <1>6, <2>1, IdleOK DEF vars, IInv
<1> QED BY <1>1, <1>2, <1>3, <1>4, <1>5, <1>6 DEF Next

(* The invariant that carries the theorems below.                           *)
THEOREM ProvisionInductive == Spec => []IInv
BY InitOK, StepOK, PTL DEF Spec

(* capella_env_ensure adopts a cluster only after assert_managed, so        *)
(* whatever happens to it later, everything the server configures has been  *)
(* inside the sandbox; the types hold with it.                              *)
THEOREM ProvisionHolds == Spec => []ProvisionInv
<1>1. IInv => ProvisionInv
  BY DEF IInv, GlobalInv, LocalInv, WorkersTypeOK, ChildrenOK, HistoryOK, CloudOK,
         ProvisionInv, TypeOK
<1> QED BY <1>1, ProvisionInductive, PTL

(* When capella_env_ensure answers "ready", every piece asked for is on the *)
(* cluster and the App Endpoint is online or its switch-on was answered by a*)
(* 409; a refusal of any other kind never passes for "already online",      *)
(* however many threads, faults and imports interleave.                     *)
THEOREM ReadyIsTrue == Spec => []ReadyMeansReady
<1>1. IInv => ReadyMeansReady
  BY DEF IInv, LocalInv, Established, Complete, ReadyMeansReady
<1> QED BY <1>1, ProvisionInductive, PTL

-----------------------------------------------------------------------------
(* How far the spend ceiling can be exceeded.  A thread that has passed the *)
(* count is pending until it creates; one that has counted some projects of *)
(* an allowlist only is midway.                                             *)
Total(projects) == Cardinality(Counted(projects))
ScopeOf(w) == CeilingScope(call[w].project)
Pending(s) == {w \in Workers : pc[w] = "create" /\ ScopeOf(w) = s}
Midway(s) == {w \in Workers : pc[w] = "count" /\ ScopeOf(w) = s /\ todo[w] # s}

(* The threads midway by when they began to count.                          *)
Ordered(s, earlier) ==
    /\ earlier \in [Workers -> SUBSET Workers]
    /\ \A v \in Midway(s) : v \notin earlier[v]
    /\ \A v, x \in Midway(s) : v # x =>
          \/ x \in earlier[v]
          \/ v \in earlier[x] /\ earlier[v] \intersect Midway(s) \subseteq earlier[x]

(* What a thread midway has missed since it counted was created by others,  *)
(* once each, unless one of them has counted the whole scope meanwhile.     *)
Missed(s, earlier, v) ==
    LET open == Cardinality(Pending(s)) + Cardinality(earlier[v] \intersect Midway(s))
    IN \/ Total(s \ todo[v]) + open <= tally[v] + Cardinality(Workers) - 1
       \/ Total(s) + open <= MaxEnvironments - 1 + Cardinality(Workers) - 1

Spent(s) ==
    /\ Pending(s) # {} =>
          Total(s) + Cardinality(Pending(s)) <= MaxEnvironments - 1 + Cardinality(Workers)
    /\ \E earlier : Ordered(s, earlier) /\ \A v \in Midway(s) : Missed(s, earlier, v)

Counting(w) ==
    pc[w] = "count" =>
        /\ todo[w] \subseteq ScopeOf(w) /\ todo[w] # {}
        /\ todo[w] = ScopeOf(w) => tally[w] = 0

SpendInv == (\A w \in Workers : Counting(w)) /\ \A s \in Scopes : Spent(s)

LEMMA SizeOK ==
    ASSUME NEW S \in SUBSET Workers
    PROVE  IsFiniteSet(S) /\ Cardinality(S) \in Nat /\ Cardinality(S) <= Cardinality(Workers)
           /\ Cardinality(Workers) \in Nat
BY FS_Subset, FS_CardinalityType, ProvisionAssumption

LEMMA PartSize ==
    ASSUME NEW S \in SUBSET Workers, NEW R \in SUBSET S
    PROVE  Cardinality(R) <= Cardinality(S)
BY SizeOK, FS_Subset

LEMMA OneMore ==
    ASSUME NEW S \in SUBSET Workers, NEW w \in Workers
    PROVE  /\ w \notin S => Cardinality(S \union {w}) = Cardinality(S) + 1
           /\ w \in S => Cardinality(S \ {w}) = Cardinality(S) - 1
BY SizeOK, FS_AddElement, FS_RemoveElement

LEMMA TotalOK ==
    ASSUME NEW X
    PROVE  /\ IsFiniteSet(Counted(X)) /\ Total(X) \in Nat
           /\ IsFiniteSet(Counted(X)') /\ Total(X)' \in Nat
<1>1. Counted(X) \subseteq ClusterIds /\ Counted(X)' \subseteq ClusterIds
  BY DEF Counted
<1>2. IsFiniteSet(Counted(X)) /\ IsFiniteSet(Counted(X)')
  BY <1>1, FS_Subset, ProvisionAssumption
<1> QED BY <1>2, FS_CardinalityType DEF Total

LEMMA TotalMonotone ==
    ASSUME NEW Y, NEW X \in SUBSET Y
    PROVE  Total(X) <= Total(Y)
<1>1. Counted(X) \subseteq Counted(Y)
  BY DEF Counted
<1> QED BY <1>1, TotalOK, FS_Subset DEF Total

(* Projects are counted one after the other, each cluster once.             *)
LEMMA TotalAdds ==
    ASSUME NEW X, NEW p, p \notin X
    PROVE  Total(X \union {p}) = Total(X) + Total({p})
<1>1. Counted(X \union {p}) = Counted(X) \union Counted({p})
  BY DEF Counted
<1>2. Counted(X) \intersect Counted({p}) = {}
  BY DEF Counted
<1>3. IsFiniteSet(Counted(X)) /\ IsFiniteSet(Counted({p}))
  BY TotalOK
<1>4. /\ Cardinality(Counted(X)) \in Nat /\ Cardinality(Counted({p})) \in Nat
      /\ Cardinality(Counted(X) \intersect Counted({p})) = 0
  BY <1>2, <1>3, FS_EmptySet, FS_CardinalityType
<1>5. Cardinality(Counted(X) \union Counted({p}))
          = Cardinality(Counted(X)) + Cardinality(Counted({p})) - 0
  BY <1>3, <1>4, FS_Union
<1>6. Cardinality(Counted(X \union {p})) = Cardinality(Counted(X) \union Counted({p}))
  BY <1>1, Zenon
<1> QED BY <1>4, <1>5, <1>6 DEF Total

LEMMA ScopeFacts ==
    /\ \A p \in Projects : CeilingScope(p) \in Scopes
    /\ \A s \in Scopes : s \subseteq Projects /\ s # {}
    /\ \A p \in Projects : \A s \in Scopes : p \in s => CeilingScope(p) = s
BY PolicyAssumption DEF Scopes, CeilingScope

-----------------------------------------------------------------------------
(* Threads leave the count or create what they are due to, and clusters go. *)
LEMMA SettleOK ==
    ASSUME IInv, NEW s \in Scopes, Spent(s),
           Pending(s)' \subseteq Pending(s),
           \A v \in Midway(s)' :
               v \in Midway(s) /\ todo'[v] = todo[v] /\ tally'[v] = tally[v],
           \A X \in SUBSET s :
               Total(X)' + Cardinality(Pending(s)') <= Total(X) + Cardinality(Pending(s))
    PROVE  Spent(s)'
<1>1. PICK e : Ordered(s, e) /\ \A v \in Midway(s) : Missed(s, e, v)
  BY DEF Spent
<1>2. /\ Pending(s) \subseteq Workers /\ Midway(s) \subseteq Workers
      /\ Midway(s)' \subseteq Workers /\ Midway(s)' \subseteq Midway(s)
  BY DEF Pending, Midway
<1>3. Ordered(s, e)'
  BY <1>1, <1>2 DEF Ordered
<1>4. ASSUME NEW v \in Midway(s)' PROVE Missed(s, e, v)'
  <2>1. v \in Midway(s) /\ Missed(s, e, v) /\ todo'[v] = todo[v] /\ tally'[v] = tally[v]
    BY <1>1, <1>4
  <2> PICK X \in SUBSET s : X = s \ todo[v]
    OBVIOUS
  <2> DEFINE before == Cardinality(e[v] \intersect Midway(s))
             after == Cardinality(e[v] \intersect Midway(s)')
             pend == Cardinality(Pending(s))
             due == Cardinality(Pending(s)')
             W == Cardinality(Workers)
  <2>2. after <= before /\ before \in Nat /\ after \in Nat
    <3>1. /\ e[v] \intersect Midway(s) \in SUBSET Workers
          /\ e[v] \intersect Midway(s)' \in SUBSET (e[v] \intersect Midway(s))
      BY <1>2
    <3> QED BY <3>1, SizeOK, PartSize
  <2>3. pend \in Nat /\ due \in Nat /\ W \in Nat
    BY <1>2, SizeOK
  <2>4. Total(X)' + due <= Total(X) + pend /\ Total(s)' + due <= Total(s) + pend
    OBVIOUS
  <2>5. /\ Total(X) \in Nat /\ Total(s) \in Nat /\ Total(X)' \in Nat /\ Total(s)' \in Nat
    BY TotalOK
  <2>6. tally[v] \in Nat /\ MaxEnvironments \in Nat
    BY <1>2, <2>1, PolicyAssumption DEF IInv, LocalInv, WorkersTypeOK
  <2>7. \/ Total(X) + (pend + before) <= tally[v] + W - 1
        \/ Total(s) + (pend + before) <= MaxEnvironments - 1 + W - 1
    BY <2>1 DEF Missed
  <2>8. \/ Total(X)' + (due + after) <= tally[v] + W - 1
        \/ Total(s)' + (due + after) <= MaxEnvironments - 1 + W - 1
    <3> HIDE DEF before, after, pend, due, W
    <3> QED BY <2>2, <2>3, <2>4, <2>5, <2>6, <2>7
  <2>9. (s \ todo[v])' = X
    BY <2>1
  <2> QED BY <2>1, <2>8, <2>9 DEF Missed
<1>5. Pending(s)' # {} =>
         Total(s)' + Cardinality(Pending(s)') <= MaxEnvironments - 1 + Cardinality(Workers)
  <2>1. Total(s)' + Cardinality(Pending(s)') <= Total(s) + Cardinality(Pending(s))
    OBVIOUS
  <2>2. /\ Total(s) \in Nat /\ Total(s)' \in Nat /\ Cardinality(Workers) \in Nat
        /\ Cardinality(Pending(s)) \in Nat /\ Cardinality(Pending(s)') \in Nat
        /\ MaxEnvironments \in Nat
    BY <1>2, TotalOK, SizeOK, PolicyAssumption
  <2>3. Pending(s)' # {} =>
           Total(s) + Cardinality(Pending(s)) <= MaxEnvironments - 1 + Cardinality(Workers)
    BY DEF Spent
  <2> QED BY <2>1, <2>2, <2>3
<1> QED BY <1>3, <1>4, <1>5 DEF Spent

(* What a thread counts when it lists one more project.                     *)
Lists(w, p) ==
    /\ pc[w] = "count" /\ p \in todo[w]
    /\ todo' = [todo EXCEPT ![w] = @ \ {p}]
    /\ tally' = [tally EXCEPT ![w] = @ + Total({p})]
    /\ UNCHANGED <<call, cluster>>

LEMMA ListsOK ==
    ASSUME IInv, NEW w \in Workers, NEW p, Lists(w, p), Counting(w)
    PROVE  /\ ScopeOf(w) \in Scopes /\ p \in ScopeOf(w)
           /\ todo'[w] = todo[w] \ {p} /\ tally'[w] = tally[w] + Total({p})
           /\ \A v \in Workers : ScopeOf(v)' = ScopeOf(v)
           /\ \A v \in Workers \ {w} : todo'[v] = todo[v] /\ tally'[v] = tally[v]
           /\ \A X : Total(X)' = Total(X)
           /\ todo[w] = ScopeOf(w) => tally[w] = 0
<1>1. ScopeOf(w) \in Scopes
  BY ScopeFacts DEF IInv, LocalInv, Established, InCall, Started, Lists, ScopeOf
<1>2. p \in ScopeOf(w) /\ (todo[w] = ScopeOf(w) => tally[w] = 0)
  BY DEF Lists, Counting
<1>3. /\ todo'[w] = todo[w] \ {p} /\ tally'[w] = tally[w] + Total({p})
      /\ \A v \in Workers \ {w} : todo'[v] = todo[v] /\ tally'[v] = tally[v]
  BY DEF Lists, IInv, LocalInv, WorkersTypeOK
<1>4. \A v \in Workers : ScopeOf(v)' = ScopeOf(v)
  BY DEF Lists, ScopeOf
<1>5. \A X : Total(X)' = Total(X)
  BY DEF Lists, Total, Counted, Exists
<1> QED BY <1>1, <1>2, <1>3, <1>4, <1>5

(* The first of several projects: whatever is created from now on by those  *)
(* who were midway or pending before comes on top of this count.            *)
LEMMA BeginOK ==
    ASSUME IInv, NEW s \in Scopes, Spent(s), NEW w \in Workers, NEW p, Lists(w, p),
           Counting(w), UNCHANGED pc, ScopeOf(w) = s, todo[w] = s
    PROVE  Spent(s)'
<1>1. PICK e : Ordered(s, e) /\ \A v \in Midway(s) : Missed(s, e, v)
  BY DEF Spent
<1>2. /\ p \in s /\ todo'[w] = s \ {p} /\ tally[w] = 0
      /\ tally'[w] = tally[w] + Total({p})
      /\ \A v \in Workers : ScopeOf(v)' = ScopeOf(v)
      /\ \A v \in Workers \ {w} : todo'[v] = todo[v] /\ tally'[v] = tally[v]
      /\ \A X : Total(X)' = Total(X)
  BY ListsOK
<1>3. pc[w] = "count"
  BY DEF Lists
<1>4. Pending(s)' = Pending(s)
  BY <1>2 DEF Pending
<1>5. Midway(s)' = Midway(s) \union {w} /\ w \notin Midway(s)
  BY <1>2, <1>3 DEF Midway
<1>6. /\ Pending(s) \subseteq Workers /\ Midway(s) \subseteq Workers
      /\ w \notin Pending(s) /\ Pending(s) \intersect Midway(s) = {}
  BY <1>3 DEF Pending, Midway
<1> DEFINE f == [x \in Workers |-> IF x = w THEN Midway(s) ELSE e[x] \ {w}]
<1>7. PICK g : g = f
  OBVIOUS
<1>8. /\ g \in [Workers -> SUBSET Workers]
      /\ g[w] = Midway(s)
      /\ \A x \in Workers \ {w} : g[x] = e[x] \ {w}
  BY <1>1, <1>6, <1>7 DEF Ordered
<1>9. /\ g[w] \intersect Midway(s)' = Midway(s)
      /\ \A x \in Workers \ {w} : g[x] \intersect Midway(s)' = e[x] \intersect Midway(s)
  BY <1>5, <1>8
<1> HIDE DEF f
<1>10. Ordered(s, g)'
  <2>1. \A v \in Midway(s)' : v \notin g[v]
    BY <1>1, <1>5, <1>6, <1>8 DEF Ordered
  <2>2. ASSUME NEW v \in Midway(s)', NEW x \in Midway(s)', v # x
        PROVE  \/ x \in g[v]
               \/ v \in g[x] /\ g[v] \intersect Midway(s)' \subseteq g[x]
    <3>1. CASE v = w
      BY <2>2, <3>1, <1>5, <1>8
    <3>2. CASE x = w
      BY <2>2, <3>2, <1>5, <1>6, <1>8, <1>9
    <3>3. CASE v # w /\ x # w
      <4>1. v \in Midway(s) /\ x \in Midway(s)
        BY <3>3, <1>5
      <4>2. \/ x \in e[v]
            \/ v \in e[x] /\ e[v] \intersect Midway(s) \subseteq e[x]
        BY <4>1, <2>2, <1>1 DEF Ordered
      <4> QED BY <4>1, <4>2, <3>3, <1>5, <1>6, <1>8, <1>9
    <3> QED BY <3>1, <3>2, <3>3
  <2> QED BY <1>8, <2>1, <2>2 DEF Ordered
<1>11. ASSUME NEW v \in Midway(s)' PROVE Missed(s, g, v)'
  <2>1. CASE v = w
    <3> DEFINE m == Cardinality(Midway(s))
               pend == Cardinality(Pending(s))
               W == Cardinality(Workers)
    <3>1. pend + m + 1 <= W /\ pend \in Nat /\ m \in Nat /\ W \in Nat
      <4>1. /\ IsFiniteSet(Pending(s)) /\ IsFiniteSet(Midway(s))
            /\ pend \in Nat /\ m \in Nat /\ W \in Nat
        BY <1>6, SizeOK
      <4>2. Cardinality(Pending(s) \union Midway(s)) = pend + m
        <5>1. Cardinality(Pending(s) \intersect Midway(s)) = 0
          BY <1>6, FS_EmptySet
        <5>2. Cardinality(Pending(s) \union Midway(s))
                 = pend + m - Cardinality(Pending(s) \intersect Midway(s))
          BY <4>1, FS_Union
        <5> HIDE DEF pend, m
        <5> QED BY <4>1, <5>1, <5>2
      <4>3. PICK B \in SUBSET Workers : B = Pending(s) \union Midway(s)
        BY <1>6
      <4>4. w \notin B
        BY <1>5, <1>6, <4>3
      <4>5. Cardinality(B \union {w}) = Cardinality(B) + 1
        BY <4>4, OneMore
      <4>6. Cardinality(B \union {w}) <= W
        <5>1. B \union {w} \in SUBSET Workers
          OBVIOUS
        <5> QED BY <5>1, SizeOK
      <4>7. Cardinality(B) = pend + m
        BY <4>2, <4>3
      <4> HIDE DEF m, pend, W
      <4> QED BY <4>1, <4>5, <4>6, <4>7
    <3>2. PICK X : X = s \ (s \ {p})
      OBVIOUS
    <3>3. Total(X) = Total({p}) /\ Total(X) \in Nat
      <4>1. X = {p}
        BY <1>2, <3>2
      <4> QED BY <4>1, TotalOK
    <3>4. Total(X)' + (pend + m) <= tally'[w] + W - 1
      <4>1. Total(X)' = Total(X) /\ tally'[w] = Total(X)
        BY <1>2, <3>3
      <4> HIDE DEF m, pend, W
      <4> QED BY <4>1, <3>1, <3>3
    <3>5. (s \ todo[w])' = X
      BY <1>2, <3>2
    <3> QED BY <2>1, <3>4, <3>5, <1>4, <1>9 DEF Missed
  <2>2. CASE v # w
    <3>1. v \in Midway(s) /\ v \in Workers /\ Missed(s, e, v)
      BY <1>1, <1>5, <1>6, <2>2
    <3>2. todo'[v] = todo[v] /\ tally'[v] = tally[v]
      BY <1>2, <2>2, <3>1
    <3>3. g[v] \intersect Midway(s)' = e[v] \intersect Midway(s)
      BY <1>9, <2>2, <3>1
    <3> PICK X : X = s \ todo[v]
      OBVIOUS
    <3>4. (s \ todo[v])' = X /\ Total(X)' = Total(X) /\ Total(s)' = Total(s)
      BY <1>2, <3>2
    <3> QED BY <3>1, <3>2, <3>3, <3>4, <1>4 DEF Missed
  <2> QED BY <2>1, <2>2
<1>12. Pending(s)' # {} =>
         Total(s)' + Cardinality(Pending(s)') <= MaxEnvironments - 1 + Cardinality(Workers)
  <2>1. Total(s)' = Total(s) /\ Cardinality(Pending(s)') = Cardinality(Pending(s))
    BY <1>2, <1>4
  <2> QED BY <2>1, <1>4 DEF Spent
<1> QED BY <1>10, <1>11, <1>12 DEF Spent

(* One more of them.                                                        *)
LEMMA GoOnOK ==
    ASSUME IInv, NEW s \in Scopes, Spent(s), NEW w \in Workers, NEW p, Lists(w, p),
           Counting(w), UNCHANGED pc, ScopeOf(w) = s, todo[w] # s
    PROVE  Spent(s)'
<1>1. PICK e : Ordered(s, e) /\ \A v \in Midway(s) : Missed(s, e, v)
  BY DEF Spent
<1>2. /\ p \in s /\ todo'[w] = todo[w] \ {p}
      /\ tally'[w] = tally[w] + Total({p})
      /\ \A v \in Workers : ScopeOf(v)' = ScopeOf(v)
      /\ \A v \in Workers \ {w} : todo'[v] = todo[v] /\ tally'[v] = tally[v]
      /\ \A X : Total(X)' = Total(X)
  BY ListsOK
<1>3. pc[w] = "count" /\ p \in todo[w] /\ todo[w] \subseteq s
  BY DEF Lists, Counting
<1>4. Pending(s)' = Pending(s)
  BY <1>2 DEF Pending
<1>5. Midway(s)' = Midway(s) /\ w \in Midway(s) /\ Midway(s) \subseteq Workers
  BY <1>2, <1>3 DEF Midway
<1>6. Ordered(s, e)'
  BY <1>1, <1>5 DEF Ordered
<1>7. ASSUME NEW v \in Midway(s) PROVE Missed(s, e, v)'
  <2> DEFINE open == Cardinality(Pending(s)) + Cardinality(e[v] \intersect Midway(s))
             W == Cardinality(Workers)
             c == Total(s \ todo[v])
  <2>1. \/ c + open <= tally[v] + W - 1
        \/ Total(s) + open <= MaxEnvironments - 1 + W - 1
    BY <1>1, <1>7 DEF Missed
  <2>2. open \in Nat /\ W \in Nat
    <3>1. Cardinality(Pending(s)) \in Nat /\ W \in Nat
      <4>1. Pending(s) \in SUBSET Workers
        BY DEF Pending
      <4> QED BY <4>1, SizeOK
    <3>2. Cardinality(e[v] \intersect Midway(s)) \in Nat
      <4>1. e[v] \intersect Midway(s) \in SUBSET Workers
        BY <1>5
      <4> QED BY <4>1, SizeOK
    <3> QED BY <3>1, <3>2
  <2>3. Total(s)' = Total(s)
    BY <1>2
  <2>4. CASE v # w
    <3>1. todo'[v] = todo[v] /\ tally'[v] = tally[v]
      BY <1>2, <1>5, <1>7, <2>4
    <3> PICK X : X = s \ todo[v]
      OBVIOUS
    <3>2. (s \ todo[v])' = X /\ Total(X)' = Total(X)
      BY <1>2, <3>1
    <3>3. \/ Total(X)' + open <= tally'[v] + W - 1
          \/ Total(s)' + open <= MaxEnvironments - 1 + W - 1
      BY <2>1, <2>3, <3>1, <3>2
    <3> QED BY <1>4, <1>5, <3>2, <3>3 DEF Missed
  <2>5. CASE v = w
    <3> PICK X : X = s \ todo[w]
      OBVIOUS
    <3>1. PICK Y : Y = X \union {p}
      OBVIOUS
    <3>2. Total(Y) = Total(X) + Total({p})
      <4>1. p \notin X
        BY <1>3
      <4> QED BY <3>1, <4>1, TotalAdds
    <3>3. (s \ todo[w])' = Y
      BY <1>2, <1>3, <3>1
    <3>4. Total(Y)' = Total(Y) /\ tally'[w] = tally[w] + Total({p})
      BY <1>2
    <3>5. /\ Total(X) \in Nat /\ Total({p}) \in Nat /\ Total(s) \in Nat
          /\ tally[w] \in Nat /\ MaxEnvironments \in Nat
      BY TotalOK, PolicyAssumption DEF IInv, LocalInv, WorkersTypeOK
    <3>6. c = Total(X)
      BY <2>5
    <3>7. \/ Total(Y)' + open <= tally'[w] + W - 1
          \/ Total(s)' + open <= MaxEnvironments - 1 + W - 1
      <4> HIDE DEF open, W, c
      <4> QED BY <2>1, <2>2, <2>3, <2>5, <3>2, <3>4, <3>5, <3>6
    <3> QED BY <1>4, <1>5, <2>5, <3>3, <3>7 DEF Missed
  <2> QED BY <2>4, <2>5
<1>8. Pending(s)' # {} =>
         Total(s)' + Cardinality(Pending(s)') <= MaxEnvironments - 1 + Cardinality(Workers)
  <2>1. Total(s)' = Total(s) /\ Cardinality(Pending(s)') = Cardinality(Pending(s))
    BY <1>2, <1>4
  <2> QED BY <2>1, <1>4 DEF Spent
<1>9. \A v \in Midway(s)' : Missed(s, e, v)'
  BY <1>5, <1>7
<1> QED BY <1>6, <1>8, <1>9 DEF Spent

(* The last one, with the sum below the ceiling: the thread will create.    *)
LEMMA PassOK ==
    ASSUME IInv, NEW s \in Scopes, Spent(s), NEW w \in Workers, NEW p, Lists(w, p),
           \A v \in Workers : Counting(v), ScopeOf(w) = s, todo[w] = {p},
           ~ AtCapacity(tally[w] + Total({p})), pc' = [pc EXCEPT ![w] = "create"]
    PROVE  Spent(s)'
<1>1. PICK e : Ordered(s, e) /\ \A v \in Midway(s) : Missed(s, e, v)
  BY DEF Spent
<1>2. /\ p \in s
      /\ \A v \in Workers : ScopeOf(v)' = ScopeOf(v)
      /\ \A v \in Workers \ {w} : todo'[v] = todo[v] /\ tally'[v] = tally[v]
      /\ \A X : Total(X)' = Total(X)
      /\ todo[w] = s => tally[w] = 0
  BY ListsOK
<1>3. /\ pc[w] = "count" /\ pc'[w] = "create"
      /\ \A v \in Workers \ {w} : pc'[v] = pc[v]
  BY DEF Lists, IInv, LocalInv, WorkersTypeOK
<1>4. /\ Pending(s)' = Pending(s) \union {w} /\ w \notin Pending(s)
      /\ Pending(s) \subseteq Workers
  BY <1>2, <1>3 DEF Pending
<1>5. Midway(s)' = Midway(s) \ {w} /\ Midway(s) \subseteq Workers
  BY <1>2, <1>3 DEF Midway
<1> DEFINE pend == Cardinality(Pending(s))
           W == Cardinality(Workers)
           M == MaxEnvironments
           T == Total(s)
           ahead(v) == Cardinality(e[v] \intersect Midway(s))
           after(v) == Cardinality(e[v] \intersect Midway(s)')
<1>6. /\ pend \in Nat /\ W \in Nat /\ M \in Nat /\ T \in Nat /\ pend + 1 <= W
      /\ Cardinality(Pending(s)') = pend + 1
  <2>1. Cardinality(Pending(s) \union {w}) = pend + 1
    BY <1>4, OneMore
  <2>2. Pending(s) \union {w} \in SUBSET Workers
    BY <1>4
  <2>3. Cardinality(Pending(s) \union {w}) <= W
    BY <2>2, SizeOK
  <2>4. pend \in Nat /\ W \in Nat /\ M \in Nat /\ T \in Nat
    BY <1>4, SizeOK, TotalOK, PolicyAssumption
  <2>5. Cardinality(Pending(s)') = Cardinality(Pending(s) \union {w})
    BY <1>4
  <2> HIDE DEF pend, W, M, T
  <2> QED BY <2>1, <2>3, <2>4, <2>5
<1>7. \A v \in Workers : ahead(v) \in Nat /\ after(v) \in Nat /\ after(v) <= ahead(v)
  <2> TAKE v \in Workers
  <2>1. /\ e[v] \intersect Midway(s) \in SUBSET Workers
        /\ e[v] \intersect Midway(s)' \in SUBSET Workers
        /\ e[v] \intersect Midway(s)' \in SUBSET (e[v] \intersect Midway(s))
    BY <1>5
  <2> QED BY <2>1, SizeOK, PartSize
<1>8. T' = T
  BY <1>2
<1>9. /\ w \in Midway(s) => T + pend + ahead(w) <= M - 1 + W - 1
      /\ w \notin Midway(s) => T + pend <= M - 1 + W - 1 /\ Midway(s) = {}
  <2>1. tally[w] + Total({p}) <= M - 1 /\ tally[w] \in Nat /\ Total({p}) \in Nat
    <3>1. tally[w] \in Nat /\ Total({p}) \in Nat
      BY TotalOK DEF IInv, LocalInv, WorkersTypeOK
    <3> QED BY <1>6, <3>1 DEF AtCapacity
  <2>2. ASSUME w \in Midway(s) PROVE T + pend + ahead(w) <= M - 1 + W - 1
    <3>1. PICK X : X = s \ {p}
      OBVIOUS
    <3>2. T = Total(X) + Total({p}) /\ Total(X) \in Nat
      <4>1. s = X \union {p} /\ p \notin X
        BY <1>2, <3>1
      <4> QED BY <4>1, TotalAdds, TotalOK
    <3>3. \/ Total(X) + (pend + ahead(w)) <= tally[w] + W - 1
          \/ T + (pend + ahead(w)) <= M - 1 + W - 1
      BY <1>1, <2>2, <3>1 DEF Missed
    <3>4. ahead(w) \in Nat
      BY <1>7
    <3> HIDE DEF pend, W, M, T, ahead
    <3> QED BY <1>6, <2>1, <3>2, <3>3, <3>4
  <2>3. ASSUME w \notin Midway(s) PROVE T + pend <= M - 1 + W - 1 /\ Midway(s) = {}
    <3>1. s = {p} /\ tally[w] = 0
      BY <1>2, <1>3, <2>3 DEF Midway
    <3>2. T = Total({p})
      BY <3>1
    <3>3. Midway(s) = {}
      <4>1. SUFFICES ASSUME NEW v \in Midway(s) PROVE FALSE
        OBVIOUS
      <4>2. pc[v] = "count" /\ ScopeOf(v) = s /\ todo[v] # s /\ v \in Workers
        BY DEF Midway
      <4> QED BY <4>2, <3>1 DEF Counting
    <3>4. T + pend <= M - 1 + W - 1
      <4> PICK n \in Nat : n = Total({p})
        BY <2>1
      <4>1. n <= M - 1 /\ T = n
        BY <2>1, <3>1, <3>2
      <4> HIDE DEF pend, W, M, T
      <4> QED BY <1>6, <4>1
    <3> QED BY <3>3, <3>4
  <2> QED BY <2>2, <2>3
<1>10. Ordered(s, e)'
  BY <1>1, <1>5 DEF Ordered
<1>11. ASSUME NEW v \in Midway(s)' PROVE Missed(s, e, v)'
  <2>1. v \in Midway(s) /\ v # w /\ v \in Workers
    BY <1>5
  <2>2. w \in Midway(s)
    BY <1>9, <2>1
  <2>3. todo'[v] = todo[v] /\ tally'[v] = tally[v]
    BY <1>2, <2>1
  <2> PICK X : X = s \ todo[v]
    OBVIOUS
  <2>4. (s \ todo[v])' = X /\ Total(X)' = Total(X) /\ Total(X) \in Nat /\ tally[v] \in Nat
    BY <1>2, <2>1, <2>3, TotalOK DEF IInv, LocalInv, WorkersTypeOK
  <2>5. ahead(v) \in Nat /\ after(v) \in Nat /\ after(v) <= ahead(v) /\ ahead(w) \in Nat
    BY <1>7, <2>1
  <2>6. \/ Total(X) + (pend + ahead(v)) <= tally[v] + W - 1
        \/ T + (pend + ahead(v)) <= M - 1 + W - 1
    BY <1>1, <2>1 DEF Missed
  <2>7. \/ after(v) = ahead(v) - 1
        \/ ahead(v) <= ahead(w) - 1
    <3>1. CASE w \in e[v]
      <4>1. PICK S \in SUBSET Workers : S = e[v] \intersect Midway(s)
        BY <1>5
      <4>2. e[v] \intersect Midway(s)' = S \ {w} /\ w \in S
        BY <4>1, <3>1, <1>5, <2>2
      <4>3. Cardinality(S \ {w}) = Cardinality(S) - 1
        BY <4>2, OneMore
      <4> QED BY <4>1, <4>2, <4>3
    <3>2. CASE w \notin e[v]
      <4>1. /\ v \in e[w] /\ e[v] \intersect Midway(s) \subseteq e[w]
            /\ v \notin e[v]
        BY <1>1, <2>1, <2>2, <3>2 DEF Ordered
      <4>2. PICK S \in SUBSET Workers : S = e[w] \intersect Midway(s)
        BY <1>5
      <4>3. /\ v \in S /\ S \ {v} \in SUBSET Workers
            /\ e[v] \intersect Midway(s) \in SUBSET (S \ {v})
        BY <4>1, <4>2, <2>1
      <4>4. ahead(v) <= Cardinality(S \ {v})
        BY <4>3, PartSize
      <4>5. Cardinality(S \ {v}) = Cardinality(S) - 1
        BY <4>3, <2>1, OneMore
      <4>6. Cardinality(S) = ahead(w)
        BY <4>2
      <4> HIDE DEF ahead
      <4> QED BY <4>4, <4>5, <4>6
    <3> QED BY <3>1, <3>2
  <2>8. \/ Total(X)' + (pend + 1 + after(v)) <= tally[v] + W - 1
        \/ T' + (pend + 1 + after(v)) <= M - 1 + W - 1
    <3>1. T + pend + ahead(w) <= M - 1 + W - 1
      BY <1>9, <2>2
    <3>2. T' = T /\ pend \in Nat /\ W \in Nat /\ M \in Nat /\ T \in Nat
      BY <1>6, <1>8
    <3> PICK t1 \in Nat : t1 = Total(X)
      BY <2>4
    <3> HIDE DEF pend, W, M, T, ahead, after
    <3>3. \/ t1 + (pend + 1 + after(v)) <= tally[v] + W - 1
          \/ T + (pend + 1 + after(v)) <= M - 1 + W - 1
      BY <3>1, <3>2, <2>4, <2>5, <2>6, <2>7
    <3> QED BY <3>2, <3>3, <2>4
  <2>9. Cardinality(Pending(s)') = pend + 1
    BY <1>6
  <2> QED BY <2>3, <2>4, <2>8, <2>9 DEF Missed
<1>12. Total(s)' + Cardinality(Pending(s)') <= M - 1 + W
  <2>1. T + pend <= M - 1 + W - 1
    <3>1. w \in Midway(s) => ahead(w) \in Nat
      BY <1>7
    <3> HIDE DEF pend, W, M, T, ahead
    <3> QED BY <1>6, <1>9, <3>1
  <2>2. Total(s)' = T
    BY <1>2
  <2> HIDE DEF pend, W, M, T
  <2> QED BY <1>6, <2>1, <2>2
<1> QED BY <1>10, <1>11, <1>12 DEF Spent

-----------------------------------------------------------------------------
(* The steps.  Only a create makes the ceiling count more.                  *)
Fades == \A X : Counted(X)' \subseteq Counted(X)
Apart(w) ==
    \A v \in Workers \ {w} :
        /\ pc'[v] = pc[v] /\ call'[v] = call[v]
        /\ todo'[v] = todo[v] /\ tally'[v] = tally[v]
Uncounted(w) ==
    pc[w] = "count" /\ todo[w] = ScopeOf(w) /\ ScopeOf(w) # {} /\ tally[w] = 0
Elsewhere(w) == pc[w] \notin {"count", "create"}

NoneBorn ==
    \/ UNCHANGED cluster
    \/ \E id \in ClusterIds : \E st : Exists(id) /\ SetState(id, st)

LEMMA FadesOK ==
    ASSUME IInv, NoneBorn
    PROVE  Fades
<1>1. CASE UNCHANGED cluster
  BY <1>1 DEF Fades, Counted, Exists
<1>2. ASSUME NEW id \in ClusterIds, NEW st, Exists(id), SetState(id, st) PROVE Fades
  <2>1. cluster \in [ClusterIds -> Clusters]
    BY DEF IInv, GlobalInv, CloudOK, CloudTypeOK
  <2>2. \A i \in ClusterIds :
           /\ cluster'[i].project = cluster[i].project /\ cluster'[i].name = cluster[i].name
           /\ cluster'[i].marker = cluster[i].marker
           /\ i # id => cluster'[i] = cluster[i]
    BY <1>2, <2>1 DEF SetState, Clusters
  <2>3. \A i \in ClusterIds : CountsTowardCeiling(cluster'[i]) = CountsTowardCeiling(cluster[i])
    BY <2>2, Zenon DEF CountsTowardCeiling
  <2>4. \A i \in ClusterIds : Exists(i)' => Exists(i)
    BY <1>2, <2>2 DEF Exists
  <2>5. ASSUME NEW X, NEW i \in Counted(X)' PROVE i \in Counted(X)
    <3>1. /\ i \in ClusterIds /\ Exists(i)' /\ cluster'[i].project \in X
          /\ CountsTowardCeiling(cluster'[i])
      BY <2>5 DEF Counted
    <3> QED BY <3>1, <2>2, <2>3, <2>4 DEF Counted
  <2> QED BY <2>5 DEF Fades
<1> QED BY <1>1, <1>2 DEF NoneBorn

LEMMA FadesCount ==
    ASSUME Fades, NEW X
    PROVE  Total(X)' <= Total(X)
<1>1. Counted(X)' \in SUBSET Counted(X)
  BY DEF Fades
<1> QED BY <1>1, TotalOK, FS_Subset DEF Total

LEMMA ShrinkOK ==
    ASSUME IInv, Fades, NEW s \in Scopes, Spent(s), Pending(s)' \subseteq Pending(s),
           \A v \in Midway(s)' :
               v \in Midway(s) /\ todo'[v] = todo[v] /\ tally'[v] = tally[v]
    PROVE  Spent(s)'
<1>1. Cardinality(Pending(s)') <= Cardinality(Pending(s))
      /\ Cardinality(Pending(s)) \in Nat /\ Cardinality(Pending(s)') \in Nat
  <2>1. Pending(s) \in SUBSET Workers /\ Pending(s)' \in SUBSET Workers
    BY DEF Pending
  <2> QED BY <2>1, SizeOK, PartSize
<1>2. \A X \in SUBSET s :
         Total(X)' + Cardinality(Pending(s)') <= Total(X) + Cardinality(Pending(s))
  <2> TAKE X \in SUBSET s
  <2>1. Total(X)' <= Total(X) /\ Total(X) \in Nat /\ Total(X)' \in Nat
    BY FadesCount, TotalOK
  <2> QED BY <1>1, <2>1
<1> QED BY <1>2, SettleOK

LEMMA IdleSpend ==
    ASSUME IInv, SpendInv, Fades, UNCHANGED workerVars
    PROVE  SpendInv'
<1>1. \A w \in Workers : Counting(w)' /\ ScopeOf(w)' = ScopeOf(w)
  BY DEF SpendInv, Counting, ScopeOf, workerVars
<1>2. ASSUME NEW s \in Scopes PROVE Spent(s)'
  <2>1. Pending(s)' = Pending(s) /\ Midway(s)' = Midway(s)
    BY DEF Pending, Midway, ScopeOf, workerVars
  <2> QED BY <2>1, ShrinkOK DEF SpendInv, workerVars
<1> QED BY <1>1, <1>2 DEF SpendInv

LEMMA QuietSpend ==
    ASSUME IInv, SpendInv, Fades, NEW w \in Workers, Apart(w),
           Elsewhere(w)' \/ Uncounted(w)'
    PROVE  SpendInv'
<1>1. \A v \in Workers \ {w} : Counting(v)' /\ ScopeOf(v)' = ScopeOf(v)
  BY DEF SpendInv, Counting, ScopeOf, Apart
<1>2. Counting(w)'
  BY DEF Elsewhere, Uncounted, Counting
<1>3. ASSUME NEW s \in Scopes PROVE Spent(s)'
  <2>1. Pending(s)' \subseteq Pending(s)
    BY <1>1 DEF Pending, Apart, Elsewhere, Uncounted
  <2>2. \A v \in Midway(s)' :
           v \in Midway(s) /\ todo'[v] = todo[v] /\ tally'[v] = tally[v]
    BY <1>1 DEF Midway, Apart, Elsewhere, Uncounted
  <2> QED BY <2>1, <2>2, ShrinkOK DEF SpendInv
<1> QED BY <1>1, <1>2, <1>3 DEF SpendInv

(* An answer, or on to the next request of a configuration.                 *)
LEMMA AnswerSpend ==
    ASSUME IInv, SpendInv, NEW w \in Workers, NEW r, Answer(w, r), UNCHANGED cluster
    PROVE  SpendInv'
<1>1. Apart(w) /\ Elsewhere(w)'
  BY DEF Answer, Goto, Apart, Elsewhere, IInv, LocalInv, WorkersTypeOK
<1> QED BY <1>1, FadesOK, QuietSpend DEF NoneBorn

LEMMA GotoSpend ==
    ASSUME IInv, SpendInv, NEW w \in Workers, NEW l, Goto(w, l), l \notin {"count", "create"},
           UNCHANGED <<cluster, call, todo, tally>>
    PROVE  SpendInv'
<1>1. Apart(w) /\ Elsewhere(w)'
  BY DEF Goto, Apart, Elsewhere, IInv, LocalInv, WorkersTypeOK
<1> QED BY <1>1, FadesOK, QuietSpend DEF NoneBorn

LEMMA ContinueSpend ==
    ASSUME IInv, SpendInv, NEW w \in Workers, NEW l, Continue(w, l),
           l \notin {"count", "create"}, UNCHANGED cluster
    PROVE  SpendInv'
BY GotoSpend DEF Continue

LEMMA FailsSpend ==
    ASSUME IInv, SpendInv, NEW w \in Workers, Fails(w) \/ NotAccepted(w)
    PROVE  SpendInv'
BY AnswerSpend DEF Fails, NotAccepted, Reads, cloudVars

LEMMA AdvanceSpend ==
    ASSUME IInv, SpendInv, NEW w \in Workers, Advance(w), UNCHANGED cluster
    PROVE  SpendInv'
<1>1. step[w] \in Pieces
  BY DEF IInv, LocalInv, WorkersTypeOK
<1>2. CASE step[w] = "endpoint"
  BY <1>2, ContinueSpend DEF Advance
<1>3. CASE step[w] = "credential" /\ "appService" \in call[w].wants
  BY <1>3, ContinueSpend DEF Advance
<1>4. CASE step[w] = "credential" /\ "appService" \notin call[w].wants
  BY <1>4, AnswerSpend DEF Advance
<1>5. CASE step[w] = "appServiceCidr"
  BY <1>5, GotoSpend DEF Advance
<1>6. CASE step[w] \in {"cidr", "bucket", "scope", "collection"}
  BY <1>6, GotoSpend DEF Advance
<1> QED BY <1>1, <1>2, <1>3, <1>4, <1>5, <1>6 DEF Pieces

LEMMA CountNextSpend ==
    ASSUME IInv, SpendInv, NEW w \in Workers, NEW c \in Started, CountNext(w, c),
           call' = [call EXCEPT ![w] = c], UNCHANGED cluster
    PROVE  SpendInv'
<1>1. CeilingScope(c.project) # {}
  BY ScopeFacts DEF Started
<1>2. Apart(w) /\ call'[w] = c
  BY DEF CountNext, Goto, Apart, IInv, LocalInv, WorkersTypeOK
<1>3. Elsewhere(w)' \/ Uncounted(w)'
  BY <1>1, <1>2 DEF CountNext, Goto, Elsewhere, Uncounted, ScopeOf, IInv, LocalInv, WorkersTypeOK
<1> QED BY <1>2, <1>3, FadesOK, QuietSpend DEF NoneBorn

LEMMA StartSpend ==
    ASSUME IInv, SpendInv, NEW w \in Workers,
           StartEnsure(w) \/ StartPrimitive(w) \/ Return(w)
    PROVE  SpendInv'
<1>1. CASE StartEnsure(w)
  <2>1. Apart(w) /\ Elsewhere(w)'
    BY <1>1 DEF StartEnsure, Goto, Apart, Elsewhere, IInv, LocalInv, WorkersTypeOK
  <2> QED BY <1>1, <2>1, FadesOK, QuietSpend DEF NoneBorn, StartEnsure, cloudVars
<1>2. CASE StartPrimitive(w)
  <2>1. PICK name \in EnvArgs, p \in Projects :
           LET c == [op |-> "primitive", env |-> name, project |-> p, wants |-> {}]
           IN call' = [call EXCEPT ![w] = c] /\ CountNext(w, c)
    BY <1>2 DEF StartPrimitive
  <2> DEFINE c == [op |-> "primitive", env |-> name, project |-> p, wants |-> {}]
  <2>2. c \in Started
    BY <1>2, ProvisionAssumption DEF StartPrimitive, Started
  <2>3. call' = [call EXCEPT ![w] = c] /\ CountNext(w, c) /\ UNCHANGED cluster
    BY <1>2, <2>1 DEF StartPrimitive, cloudVars
  <2> HIDE DEF c
  <2> QED BY <2>2, <2>3, CountNextSpend
<1>3. CASE Return(w)
  <2>1. Apart(w) /\ Elsewhere(w)'
    BY <1>3 DEF Return, Goto, Apart, Elsewhere, IInv, LocalInv, WorkersTypeOK
  <2> QED BY <1>3, <2>1, FadesOK, QuietSpend DEF NoneBorn, Return, cloudVars
<1> QED BY <1>1, <1>2, <1>3

LEMMA LookupSpend ==
    ASSUME IInv, SpendInv, NEW w \in Workers, Lookup(w)
    PROVE  SpendInv'
<1>1. CASE Fails(w)
  BY <1>1, FailsSpend
<1>2. CASE CountNext(w, call[w]) /\ UNCHANGED call /\ Reads
  <2>1. call[w] \in Started
    BY DEF Lookup, IInv, LocalInv, Established, InCall
  <2>2. call' = [call EXCEPT ![w] = call[w]]
    BY <1>2 DEF IInv, LocalInv, WorkersTypeOK
  <2> QED BY <1>2, <2>1, <2>2, CountNextSpend DEF Reads, cloudVars
<1>3. ASSUME NEW id, Adopt(w, id), Reads PROVE SpendInv'
  <2>1. (\E r : Answer(w, r)) \/ (Goto(w, "see") /\ UNCHANGED <<call, todo, tally>>)
    BY <1>3 DEF Adopt, AnswerUnhealthy
  <2> QED BY <1>3, <2>1, AnswerSpend, GotoSpend DEF Reads, cloudVars
<1> QED BY <1>1, <1>2, <1>3 DEF Lookup

LEMMA ConfigureSpend ==
    ASSUME IInv, SpendInv, NEW w \in Workers,
           See(w) \/ Make(w) \/ Relist(w) \/ SeeAppService(w) \/ MakeAppService(w)
               \/ BringOnline(w)
    PROVE  SpendInv'
<1>1. CASE Fails(w) \/ NotAccepted(w)
  BY <1>1, FailsSpend
<1>2. CASE UNCHANGED cluster /\ ((\E r : Answer(w, r)) \/ Advance(w))
  BY <1>2, AnswerSpend, AdvanceSpend
<1>3. CASE /\ UNCHANGED <<cluster, call, todo, tally>>
           /\ \E l \in {"make", "relist", "see", "makeAppService"} : Goto(w, l)
  BY <1>3, GotoSpend
<1>4. CASE See(w)
  BY <1>1, <1>2, <1>3, <1>4 DEF See, Reads, cloudVars, Continue
<1>5. CASE Make(w)
  BY <1>1, <1>2, <1>3, <1>5 DEF Make, Continue
<1>6. CASE Relist(w)
  BY <1>1, <1>2, <1>3, <1>6 DEF Relist, Reads, cloudVars, NoBucketPiece
<1>7. CASE SeeAppService(w)
  <2>1. CASE Reads
    <3>1. \/ \E r : Answer(w, r)
          \/ Continue(w, "makeAppService")
          \/ Goto(w, "see") /\ UNCHANGED <<call, todo, tally>>
          \/ Fails(w)
      BY <1>7 DEF SeeAppService
    <3> QED BY <1>1, <1>2, <1>3, <2>1, <3>1 DEF Reads, cloudVars, Continue
  <2> QED BY <1>1, <1>7, <2>1 DEF SeeAppService
<1>8. CASE MakeAppService(w)
  BY <1>1, <1>2, <1>8 DEF MakeAppService
<1>9. CASE BringOnline(w)
  BY <1>1, <1>2, <1>9 DEF BringOnline, Reads, cloudVars
<1> QED BY <1>4, <1>5, <1>6, <1>7, <1>8, <1>9

LEMMA CountSpend ==
    ASSUME IInv, SpendInv, NEW w \in Workers, Count(w)
    PROVE  SpendInv'
<1>1. CASE Fails(w)
  BY <1>1, FailsSpend
<1>2. CASE ~ Fails(w)
  <2>1. PICK p \in todo[w] :
           /\ todo' = [todo EXCEPT ![w] = @ \ {p}]
           /\ tally' = [tally EXCEPT ![w] = tally[w] + Total({p})]
           /\ UNCHANGED call
           /\ \/ todo[w] # {p} /\ UNCHANGED pc
              \/ todo[w] = {p} /\ Goto(w, "done")
              \/ todo[w] = {p} /\ ~ AtCapacity(tally[w] + Total({p})) /\ Goto(w, "create")
    BY <1>2 DEF Count, Total
  <2>2. pc[w] = "count" /\ UNCHANGED cluster
    BY <1>2 DEF Count, Reads, cloudVars
  <2>3. Lists(w, p)
    BY <2>1, <2>2 DEF Lists, IInv, LocalInv, WorkersTypeOK
  <2>4. Apart(w) \/ pc' = pc
    BY <2>1 DEF Apart, Goto, IInv, LocalInv, WorkersTypeOK
  <2>5. Fades
    BY <2>2, FadesOK DEF NoneBorn
  <2>6. Counting(w) /\ \A v \in Workers : Counting(v)
    BY DEF SpendInv
  <2>7. /\ ScopeOf(w) \in Scopes /\ todo'[w] = todo[w] \ {p}
        /\ \A v \in Workers : ScopeOf(v)' = ScopeOf(v)
        /\ \A v \in Workers \ {w} : todo'[v] = todo[v] /\ tally'[v] = tally[v]
        /\ p \in ScopeOf(w)
    BY <2>3, <2>6, ListsOK
  <2>8. \A v \in Workers \ {w} : pc'[v] = pc[v]
    BY <2>1 DEF Goto, IInv, LocalInv, WorkersTypeOK
  <2>9. ASSUME NEW s \in Scopes, s # ScopeOf(w) PROVE Spent(s)'
    <3>1. Pending(s)' \subseteq Pending(s)
      BY <2>7, <2>8, <2>9 DEF Pending
    <3>2. \A v \in Midway(s)' :
             v \in Midway(s) /\ todo'[v] = todo[v] /\ tally'[v] = tally[v]
      BY <2>7, <2>8, <2>9 DEF Midway
    <3> QED BY <3>1, <3>2, <2>5, ShrinkOK DEF SpendInv
  <2>10. \A v \in Workers \ {w} : Counting(v)'
    BY <2>6, <2>7, <2>8 DEF Counting
  <2>11. Spent(ScopeOf(w)) /\ ScopeOf(w)' = ScopeOf(w)
    BY <2>7 DEF SpendInv
  <2>12. CASE todo[w] # {p} /\ UNCHANGED pc
    <3>1. Counting(w)'
      <4>1. todo'[w] # {} /\ todo'[w] \subseteq ScopeOf(w) /\ p \notin todo'[w]
        BY <2>1, <2>2, <2>6, <2>7, <2>12 DEF Counting
      <4> QED BY <4>1, <2>7, <2>11 DEF Counting
    <3> PICK s \in Scopes : s = ScopeOf(w)
      BY <2>7
    <3>2. Spent(s)'
      <4>1. CASE todo[w] = s
        BY <4>1, <2>3, <2>6, <2>11, <2>12, BeginOK
      <4>2. CASE todo[w] # s
        BY <4>2, <2>3, <2>6, <2>11, <2>12, GoOnOK
      <4> QED BY <4>1, <4>2
    <3> QED BY <3>1, <3>2, <2>9, <2>10 DEF SpendInv
  <2>13. CASE Goto(w, "done")
    <3>1. Apart(w) /\ Elsewhere(w)'
      BY <2>13, <2>7, <2>8, <2>1 DEF Apart, Elsewhere, Goto, IInv, LocalInv, WorkersTypeOK
    <3> QED BY <3>1, <2>5, QuietSpend
  <2>14. CASE /\ todo[w] = {p} /\ ~ AtCapacity(tally[w] + Total({p}))
              /\ Goto(w, "create")
    <3>1. Counting(w)'
      BY <2>14 DEF Counting, Goto, IInv, LocalInv, WorkersTypeOK
    <3> PICK s \in Scopes : s = ScopeOf(w)
      BY <2>7
    <3>2. Spent(s)'
      BY <2>3, <2>6, <2>11, <2>14, PassOK DEF Goto
    <3> QED BY <3>1, <3>2, <2>9, <2>10 DEF SpendInv
  <2> QED BY <2>1, <2>12, <2>13, <2>14
<1> QED BY <1>1, <1>2

(* A create adds one cluster, to the scope the thread was pending in.       *)
Creates(w) ==
    /\ pc[w] = "create"
    /\ \E marker \in Stamps(call[w]), id \in ClusterIds :
          cluster' = [cluster EXCEPT ![id] = NewCluster(call[w], marker)]
    /\ \E r : Answer(w, r)

LEMMA CreateCases ==
    ASSUME IInv, NEW w \in Workers, Create(w)
    PROVE  Fails(w) \/ NotAccepted(w) \/ Creates(w)
<1>1. Unborn # {} => (CHOOSE id \in Unborn : TRUE) \in ClusterIds
  BY DEF Unborn
<1> QED BY <1>1 DEF Create, Creates

LEMMA CreatesFacts ==
    ASSUME IInv, NEW w \in Workers, Creates(w), NEW s \in Scopes
    PROVE  /\ ScopeOf(w) = s => w \in Pending(s) /\ Pending(s)' = Pending(s) \ {w}
           /\ ScopeOf(w) # s => Pending(s)' = Pending(s)
           /\ Midway(s)' = Midway(s)
           /\ Apart(w) /\ Elsewhere(w)' /\ todo' = todo /\ tally' = tally
           /\ \A X \in SUBSET s : Total(X)' <= Total(X) + (IF ScopeOf(w) = s THEN 1 ELSE 0)
<1>1. pc[w] = "create" /\ pc' = [pc EXCEPT ![w] = "done"] /\ UNCHANGED <<call, todo, tally>>
  BY DEF Creates, Answer, Goto
<1>2. PICK marker \in Stamps(call[w]), id \in ClusterIds :
         cluster' = [cluster EXCEPT ![id] = NewCluster(call[w], marker)]
  BY DEF Creates
<1>3. \A v \in Workers : ScopeOf(v)' = ScopeOf(v)
  BY <1>1 DEF ScopeOf
<1>4. /\ pc'[w] = "done" /\ \A v \in Workers \ {w} : pc'[v] = pc[v]
  BY <1>1 DEF IInv, LocalInv, WorkersTypeOK
<1>5. call[w].project \in Projects
  BY <1>1 DEF IInv, LocalInv, Established, InCall, Started
<1>6. ASSUME NEW X \in SUBSET s
      PROVE  Total(X)' <= Total(X) + (IF ScopeOf(w) = s THEN 1 ELSE 0)
  <2>1. \A i \in ClusterIds : i # id => cluster'[i] = cluster[i]
    BY <1>2 DEF IInv, GlobalInv, CloudOK, CloudTypeOK
  <2>2. cluster'[id].project = call[w].project
    BY <1>2 DEF NewCluster, IInv, GlobalInv, CloudOK, CloudTypeOK
  <2>3. \A i \in ClusterIds : i # id /\ i \in Counted(X)' => i \in Counted(X)
    BY <2>1 DEF Counted, Exists
  <2>4. id \in Counted(X)' => ScopeOf(w) = s
    <3>1. id \in Counted(X)' => call[w].project \in s
      BY <2>2 DEF Counted
    <3> QED BY <3>1, <1>5, ScopeFacts DEF ScopeOf
  <2>5. Counted(X)' \subseteq ClusterIds
    BY DEF Counted
  <2>6. CASE ScopeOf(w) = s
    <3>1. Counted(X)' \in SUBSET (Counted(X) \union {id})
      BY <2>3, <2>5
    <3>2. /\ IsFiniteSet(Counted(X) \union {id})
          /\ Cardinality(Counted(X) \union {id}) <= Total(X) + 1
      <4>1. IsFiniteSet(Counted(X)) /\ Cardinality(Counted(X)) \in Nat
        BY TotalOK DEF Total
      <4>2. /\ IsFiniteSet(Counted(X) \union {id})
            /\ \/ Cardinality(Counted(X) \union {id}) = Cardinality(Counted(X))
               \/ Cardinality(Counted(X) \union {id}) = Cardinality(Counted(X)) + 1
        BY <4>1, FS_AddElement
      <4> QED BY <4>1, <4>2 DEF Total
    <3>3. Total(X)' <= Cardinality(Counted(X) \union {id})
      BY <3>1, <3>2, FS_Subset DEF Total
    <3>4. Cardinality(Counted(X) \union {id}) \in Nat /\ Total(X) \in Nat /\ Total(X)' \in Nat
      BY <3>2, TotalOK, FS_CardinalityType
    <3> QED BY <2>6, <3>2, <3>3, <3>4
  <2>7. CASE ScopeOf(w) # s
    <3>1. Counted(X)' \in SUBSET Counted(X)
      BY <2>3, <2>4, <2>5, <2>7
    <3>2. Total(X)' <= Total(X) /\ Total(X) \in Nat /\ Total(X)' \in Nat
      BY <3>1, TotalOK, FS_Subset DEF Total
    <3> QED BY <2>7, <3>2
  <2> QED BY <2>6, <2>7
<1>7. /\ ScopeOf(w) = s => w \in Pending(s) /\ Pending(s)' = Pending(s) \ {w}
      /\ ScopeOf(w) # s => Pending(s)' = Pending(s)
      /\ Midway(s)' = Midway(s)
  BY <1>1, <1>3, <1>4 DEF Pending, Midway
<1>8. Apart(w) /\ Elsewhere(w)'
  BY <1>1, <1>4 DEF Apart, Elsewhere
<1> QED BY <1>1, <1>6, <1>7, <1>8

LEMMA CreateSpend ==
    ASSUME IInv, SpendInv, NEW w \in Workers, Create(w)
    PROVE  SpendInv'
<1>1. CASE Fails(w) \/ NotAccepted(w)
  BY <1>1, FailsSpend
<1>2. CASE Creates(w)
  <2>1. ASSUME NEW s \in Scopes PROVE Spent(s)'
    <3>1. Pending(s) \in SUBSET Workers /\ Pending(s)' \in SUBSET Workers
      BY DEF Pending
    <3>2. \A X \in SUBSET s :
             Total(X)' + Cardinality(Pending(s)') <= Total(X) + Cardinality(Pending(s))
      <4> TAKE X \in SUBSET s
      <4>1. Total(X)' <= Total(X) + (IF ScopeOf(w) = s THEN 1 ELSE 0)
        BY <1>2, CreatesFacts
      <4>2. Cardinality(Pending(s)')
               = Cardinality(Pending(s)) - (IF ScopeOf(w) = s THEN 1 ELSE 0)
        <5>1. CASE ScopeOf(w) = s
          BY <5>1, <1>2, <3>1, CreatesFacts, OneMore
        <5>2. CASE ScopeOf(w) # s
          <6>1. Cardinality(Pending(s)) \in Nat
            BY <3>1, SizeOK
          <6>2. Pending(s)' = Pending(s)
            BY <5>2, <1>2, CreatesFacts
          <6> QED BY <6>1, <6>2, <5>2
        <5> QED BY <5>1, <5>2
      <4>3. /\ Total(X) \in Nat /\ Total(X)' \in Nat
            /\ Cardinality(Pending(s)) \in Nat /\ Cardinality(Pending(s)') \in Nat
        BY <3>1, TotalOK, SizeOK
      <4> QED BY <4>1, <4>2, <4>3
    <3>3. Pending(s)' \subseteq Pending(s) /\ Midway(s)' = Midway(s)
      BY <1>2, CreatesFacts
    <3>4. todo' = todo /\ tally' = tally
      BY <1>2, CreatesFacts
    <3> QED BY <3>2, <3>3, <3>4, SettleOK DEF SpendInv
  <2>2. ASSUME NEW v \in Workers PROVE Counting(v)'
    <3>1. Scopes # {}
      BY <1>2, ScopeFacts DEF Creates, IInv, LocalInv, Established, InCall, Started
    <3>2. Apart(w) /\ Elsewhere(w)'
      BY <1>2, <3>1, CreatesFacts
    <3> QED BY <3>2 DEF Apart, Elsewhere, Counting, SpendInv, ScopeOf
  <2> QED BY <2>1, <2>2 DEF SpendInv
<1> QED BY <1>1, <1>2, CreateCases

(* Nothing that goes on beside the threads brings a cluster about.          *)
LEMMA CloudSteps ==
    ASSUME \/ \E id \in ClusterIds : CloudProgress(id) \/ ImportEnds(id)
           \/ MemoExpires \/ EnvironmentDestroyed \/ UNCHANGED vars
    PROVE  NoneBorn /\ UNCHANGED workerVars
<1>1. UNCHANGED workerVars
  BY DEF CloudProgress, ImportEnds, MemoExpires, EnvironmentDestroyed, vars
<1>2. ASSUME NEW id \in ClusterIds, CloudProgress(id) PROVE NoneBorn
  <2>1. \/ UNCHANGED cluster
        \/ \E st : cluster[id].state \notin {"unborn", "gone"} /\ SetState(id, st)
    BY <1>2 DEF CloudProgress, Progress
  <2> QED BY <2>1 DEF NoneBorn, Exists, Alive
<1>3. ASSUME NEW id \in ClusterIds, ImportEnds(id) PROVE NoneBorn
  BY <1>3 DEF ImportEnds, cloudVars, NoneBorn
<1>4. CASE MemoExpires \/ UNCHANGED vars
  BY <1>4 DEF MemoExpires, vars, cloudVars, NoneBorn
<1>5. CASE EnvironmentDestroyed
  BY <1>5 DEF EnvironmentDestroyed, ClusterDeleteAccepted, NoneBorn
<1> QED BY <1>1, <1>2, <1>3, <1>4, <1>5

(* Nor does any request but a create.                                       *)
LEMMA OnlyCreates ==
    ASSUME IInv, [Next]_vars, ~ NoneBorn
    PROVE  \E w \in Workers : Creates(w)
<1>1. cluster' # cluster
  BY DEF NoneBorn
<1>2. \A w \in Workers : ~ Fails(w) /\ ~ NotAccepted(w)
  BY <1>1 DEF Fails, NotAccepted, Reads, cloudVars
<1>3. ASSUME NEW w \in Workers, StartEnsure(w) \/ StartPrimitive(w) \/ Runs(w)
      PROVE  Creates(w)
  <2>1. ~ StartEnsure(w) /\ ~ StartPrimitive(w) /\ ~ Return(w)
    BY <1>1 DEF StartEnsure, StartPrimitive, Return, cloudVars
  <2>2. ~ Lookup(w) /\ ~ Count(w)
    BY <1>1, <1>2 DEF Lookup, Count, Reads, cloudVars
  <2>3. ~ See(w) /\ ~ Make(w) /\ ~ Relist(w)
    BY <1>1, <1>2 DEF See, Make, Relist, Reads, cloudVars
  <2>4. ~ SeeAppService(w) /\ ~ MakeAppService(w) /\ ~ BringOnline(w)
    <3>1. ~ SeeAppService(w)
      BY <1>1, <1>2 DEF SeeAppService, Reads, cloudVars
    <3> QED BY <3>1, <1>1, <1>2 DEF MakeAppService, BringOnline, Reads, cloudVars
  <2> QED BY <1>2, <1>3, <2>1, <2>2, <2>3, <2>4, CreateCases DEF Runs
<1> QED BY <1>3, CloudSteps DEF Next

LEMMA SpendStep == IInv /\ SpendInv /\ [Next]_vars => SpendInv'
<1> SUFFICES ASSUME IInv, SpendInv, [Next]_vars PROVE SpendInv'
  OBVIOUS
<1>1. ASSUME NEW w \in Workers, StartEnsure(w) \/ StartPrimitive(w) \/ Runs(w)
      PROVE  SpendInv'
  BY <1>1, StartSpend, LookupSpend, CountSpend, CreateSpend, ConfigureSpend DEF Runs
<1>2. CASE \/ \E id \in ClusterIds : CloudProgress(id) \/ ImportEnds(id)
           \/ MemoExpires \/ EnvironmentDestroyed \/ UNCHANGED vars
  BY <1>2, CloudSteps, FadesOK, IdleSpend
<1> QED BY <1>1, <1>2 DEF Next

LEMMA SpendInit == Init => SpendInv
<1> SUFFICES ASSUME Init PROVE SpendInv
  OBVIOUS
<1>1. \A w \in Workers : Counting(w)
  BY DEF Init, Counting
<1>2. ASSUME NEW s \in Scopes PROVE Spent(s)
  <2>1. Pending(s) = {} /\ Midway(s) = {}
    BY DEF Init, Pending, Midway
  <2>2. Ordered(s, [w \in Workers |-> {}])
    BY <2>1 DEF Ordered
  <2> QED BY <2>1, <2>2 DEF Spent
<1> QED BY <1>1, <1>2 DEF SpendInv

(* The steps that make the count of a scope grow are the creates of the     *)
(* threads pending in it.                                                   *)
LEMMA OnlyCreatesGrow ==
    ASSUME IInv, SpendInv, [Next]_vars, NEW s \in Scopes, Total(s)' > Total(s)
    PROVE  Pending(s) # {} /\ Total(s)' <= Total(s) + 1
<1>1. Total(s) \in Nat /\ Total(s)' \in Nat
  BY TotalOK
<1>2. ~ Fades
  BY <1>1, FadesCount
<1>3. PICK w \in Workers : Creates(w)
  BY <1>2, FadesOK, OnlyCreates
<1>4. Total(s)' <= Total(s) + (IF ScopeOf(w) = s THEN 1 ELSE 0)
  BY <1>3, CreatesFacts
<1>5. ScopeOf(w) = s
  BY <1>1, <1>4
<1> QED BY <1>1, <1>3, <1>4, <1>5, CreatesFacts

(* The spend ceiling of assert_capacity is not locked: what is created      *)
(* after the count comes on top.  But however many threads count together,  *)
(* over however many projects, they exceed it by one cluster for each       *)
(* thread beyond the first, and no more.                                    *)
THEOREM SpendStaysBounded == Spec => SpendBound
<1> DEFINE A == \A s \in Scopes :
                   Cardinality(Counted(s)') > Cardinality(Counted(s))
                      => Cardinality(Counted(s)')
                            <= MaxEnvironments - 1 + Cardinality(Workers)
<1>1. IInv /\ SpendInv /\ [Next]_vars => A
  <2> SUFFICES ASSUME IInv, SpendInv, [Next]_vars, NEW s \in Scopes,
                      Total(s)' > Total(s)
               PROVE  Total(s)' <= MaxEnvironments - 1 + Cardinality(Workers)
    BY DEF Total
  <2>1. Pending(s) # {} /\ Total(s)' <= Total(s) + 1
    BY OnlyCreatesGrow
  <2>2. Total(s) + Cardinality(Pending(s)) <= MaxEnvironments - 1 + Cardinality(Workers)
    BY <2>1 DEF SpendInv, Spent
  <2>3. Pending(s) \in SUBSET Workers
    BY DEF Pending
  <2>4. /\ Cardinality(Pending(s)) \in Nat /\ Cardinality(Workers) \in Nat
        /\ Cardinality(Pending(s)) # 0 /\ MaxEnvironments \in Nat
    BY <2>1, <2>3, SizeOK, FS_EmptySet, PolicyAssumption
  <2>5. Total(s) \in Nat /\ Total(s)' \in Nat
    BY TotalOK
  <2> QED BY <2>1, <2>2, <2>4, <2>5
<1>2. Spec => [](IInv /\ SpendInv)
  BY InitOK, StepOK, SpendInit, SpendStep, PTL DEF Spec
<1> HIDE DEF A
<1>3. Spec => [][A]_vars
  BY <1>1, <1>2, PTL DEF Spec
<1> QED BY <1>3 DEF SpendBound, A

-----------------------------------------------------------------------------
(* A refusal is owed, where a scope is one project: the count of a scope is *)
(* then one list, and what it found was there.  Counts of several projects  *)
(* are taken at different moments, and their sum may never have been there. *)
RefusalOK(w) ==
    result[w] \in {"ceiling", "ceiling_memo"} => ScopeOf(w) \in everFull
FullOK == \A s \in Scopes : Full(s) => s \in everFull
RefusalInv == FullOK /\ memo \subseteq everFull /\ \A w \in Workers : RefusalOK(w)

LEMMA FullFades ==
    ASSUME FullOK, Fades, everFull' = everFull
    PROVE  FullOK'
<1> SUFFICES ASSUME NEW s \in Scopes, Full(s)' PROVE s \in everFull
  BY DEF FullOK
<1>1. Total(s)' >= MaxEnvironments /\ Total(s)' <= Total(s)
  BY FadesCount DEF Full, Total
<1>2. Total(s) >= MaxEnvironments
  BY <1>1, TotalOK, PolicyAssumption
<1> QED BY <1>2 DEF FullOK, Full, Total

LEMMA RefusalQuiet ==
    ASSUME RefusalInv, Fades, everFull' = everFull, memo' \subseteq everFull,
           NEW w \in Workers, OthersStill(w), RefusalOK(w)'
    PROVE  RefusalInv'
BY FullFades DEF RefusalInv, RefusalOK, OthersStill, ScopeOf

(* A thread that is not refused leaves all refusals owed.                   *)
LEMMA RefusalAnswer ==
    ASSUME IInv, RefusalInv, NEW w \in Workers, NEW r, Answer(w, r),
           r \notin {"ceiling", "ceiling_memo"}, UNCHANGED <<cluster, memo, everFull>>
    PROVE  RefusalInv'
<1>1. OthersStill(w) /\ RefusalOK(w)'
  BY DEF Answer, Goto, OthersStill, RefusalOK, IInv, LocalInv, WorkersTypeOK
<1> QED BY <1>1, FadesOK, RefusalQuiet DEF NoneBorn, RefusalInv

LEMMA RefusalMove ==
    ASSUME IInv, RefusalInv, NEW w \in Workers, pc[w] \in InCall \union {"idle"},
           OthersStill(w), UNCHANGED <<cluster, memo, everFull, result>>
    PROVE  RefusalInv'
<1>1. result'[w] = "none"
  BY DEF IInv, LocalInv, Established, InCall, Configuring
<1> QED BY <1>1, FadesOK, RefusalQuiet DEF NoneBorn, RefusalInv, RefusalOK

LEMMA RefusalFails ==
    ASSUME IInv, RefusalInv, NEW w \in Workers, Fails(w) \/ NotAccepted(w)
    PROVE  RefusalInv'
BY RefusalAnswer DEF Fails, NotAccepted, Reads, cloudVars

LEMMA RefusalCountNext ==
    ASSUME IInv, RefusalInv, NEW w \in Workers, NEW c \in Started, CountNext(w, c),
           call' = [call EXCEPT ![w] = c], UNCHANGED <<cluster, memo, everFull>>,
           pc[w] \in {"idle", "lookup"}
    PROVE  RefusalInv'
<1>1. OthersStill(w) /\ call'[w] = c
  BY DEF CountNext, Goto, OthersStill, IInv, LocalInv, WorkersTypeOK
<1>2. CASE CeilingScope(c.project) \in memo
  <2>1. RefusalOK(w)'
    BY <1>1, <1>2 DEF RefusalInv, RefusalOK, ScopeOf
  <2> QED BY <1>1, <2>1, FadesOK, RefusalQuiet DEF NoneBorn, RefusalInv
<1>3. CASE CeilingScope(c.project) \notin memo
  <2>1. UNCHANGED result
    BY <1>3 DEF CountNext, MemoServed
  <2> QED BY <1>1, <2>1, RefusalMove DEF InCall
<1> QED BY <1>2, <1>3

LEMMA RefusalAdvance ==
    ASSUME IInv, RefusalInv, NEW w \in Workers, Advance(w), pc[w] \in Configuring,
           UNCHANGED <<cluster, memo, everFull>>
    PROVE  RefusalInv'
<1>1. step[w] \in Pieces /\ pc[w] \in InCall
  BY DEF IInv, LocalInv, WorkersTypeOK, InCall
<1>2. CASE \E r \in {"ready"} : Answer(w, r)
  BY <1>2, RefusalAnswer
<1>3. CASE UNCHANGED result /\ OthersStill(w)
  BY <1>1, <1>3, RefusalMove
<1>4. ASSUME NEW l, Continue(w, l) PROVE UNCHANGED result /\ OthersStill(w)
  BY <1>4 DEF Continue, Goto, OthersStill, IInv, LocalInv, WorkersTypeOK
<1>5. ASSUME NEW st, step' = [step EXCEPT ![w] = st], Goto(w, "see"),
             UNCHANGED <<call, target, todo, tally, result>>
      PROVE  UNCHANGED result /\ OthersStill(w)
  BY <1>5 DEF Goto, OthersStill, IInv, LocalInv, WorkersTypeOK
<1>6. CASE step[w] \in {"endpoint", "credential"}
  BY <1>2, <1>3, <1>4, <1>6 DEF Advance
<1>7. CASE step[w] = "appServiceCidr"
  BY <1>3, <1>5, <1>7 DEF Advance
<1>8. CASE step[w] \in {"cidr", "bucket", "scope", "collection"}
  <2>1. /\ step' = [step EXCEPT ![w] = NextPiece(call[w].wants, step[w])]
        /\ Goto(w, "see")
        /\ UNCHANGED <<call, target, todo, tally, result>>
    BY <1>8 DEF Advance
  <2> QED BY <1>3, <1>5, <2>1
<1> QED BY <1>1, <1>6, <1>7, <1>8 DEF Pieces

LEMMA RefusalConfigure ==
    ASSUME IInv, RefusalInv, NEW w \in Workers,
           See(w) \/ Make(w) \/ Relist(w) \/ SeeAppService(w) \/ MakeAppService(w)
               \/ BringOnline(w)
    PROVE  RefusalInv'
<1>1. CASE Fails(w) \/ NotAccepted(w)
  BY <1>1, RefusalFails
<1>2. pc[w] \in Configuring /\ pc[w] \in InCall
  BY DEF See, Make, Relist, SeeAppService, MakeAppService, BringOnline, Configuring, InCall
<1>3. CASE /\ UNCHANGED <<cluster, memo, everFull>>
           /\ \/ \E r \in (Phases \union Refusals) \ {"ceiling", "ceiling_memo"} : Answer(w, r)
              \/ Advance(w)
  BY <1>2, <1>3, RefusalAnswer, RefusalAdvance
<1>4. CASE /\ UNCHANGED <<cluster, memo, everFull, call, target, result>>
           /\ \E l : Goto(w, l)
           /\ \/ UNCHANGED step
              \/ \E st : step' = [step EXCEPT ![w] = st]
  <2>1. OthersStill(w)
    BY <1>4 DEF Goto, OthersStill, IInv, LocalInv, WorkersTypeOK
  <2> QED BY <1>2, <1>4, <2>1, RefusalMove
<1>5. CASE See(w)
  BY <1>1, <1>3, <1>4, <1>5 DEF See, Reads, cloudVars, Continue
<1>6. CASE Make(w)
  BY <1>1, <1>3, <1>4, <1>6 DEF Make, Continue, Refusals
<1>7. CASE Relist(w)
  BY <1>1, <1>3, <1>4, <1>7 DEF Relist, Reads, cloudVars, NoBucketPiece, Phases
<1>8. CASE SeeAppService(w)
  <2>1. CASE Reads /\ UNCHANGED <<memo, everFull>> /\ ~ Fails(w)
    <3>1. \/ \E r \in {"waiting_for_app_service", "app_service_not_healthy"} : Answer(w, r)
          \/ Continue(w, "makeAppService")
          \/ /\ step' = [step EXCEPT ![w] = IF "appServiceCidr" \in call[w].wants
                                            THEN "appServiceCidr" ELSE "endpoint"]
             /\ Goto(w, "see")
             /\ UNCHANGED <<call, target, todo, tally, result>>
      BY <1>8, <2>1 DEF SeeAppService
    <3> QED BY <1>3, <1>4, <2>1, <3>1 DEF Reads, cloudVars, Continue, Phases
  <2> QED BY <1>1, <1>8, <2>1 DEF SeeAppService
<1>9. CASE MakeAppService(w)
  BY <1>1, <1>3, <1>9 DEF MakeAppService, Phases, Refusals
<1>10. CASE BringOnline(w)
  <2>1. \A refusal : (IF CountsAsOnline(refusal) THEN "ready" ELSE "capella_error") \in
            (Phases \union Refusals) \ {"ceiling", "ceiling_memo"}
    BY DEF Phases, Refusals
  <2> QED BY <1>1, <1>3, <1>10, <2>1 DEF BringOnline, Reads, cloudVars, Phases, Refusals
<1> QED BY <1>5, <1>6, <1>7, <1>8, <1>9, <1>10

LEMMA RefusalLookup ==
    ASSUME IInv, RefusalInv, NEW w \in Workers, Lookup(w)
    PROVE  RefusalInv'
<1>1. CASE Fails(w)
  BY <1>1, RefusalFails
<1>2. pc[w] = "lookup" /\ pc[w] \in InCall /\ call[w] \in Started
  BY DEF Lookup, IInv, LocalInv, Established, InCall
<1>3. CASE CountNext(w, call[w]) /\ UNCHANGED call /\ Reads /\ UNCHANGED <<memo, everFull>>
  <2>1. call' = [call EXCEPT ![w] = call[w]]
    BY <1>3 DEF IInv, LocalInv, WorkersTypeOK
  <2> QED BY <1>2, <1>3, <2>1, RefusalCountNext DEF Reads, cloudVars
<1>4. ASSUME NEW id, Adopt(w, id), Reads, UNCHANGED <<memo, everFull>> PROVE RefusalInv'
  <2>1. \/ \E r \in {"guardrail", "waiting_for_cluster", "cluster_not_healthy"} : Answer(w, r)
        \/ /\ target' = [target EXCEPT ![w] = id]
           /\ step' = [step EXCEPT ![w] = FirstPiece(call[w].wants)]
           /\ Goto(w, "see") /\ UNCHANGED <<call, result>>
    BY <1>4 DEF Adopt, AnswerUnhealthy
  <2>2. OthersStill(w) \/ \E r \in {"guardrail", "waiting_for_cluster", "cluster_not_healthy"} :
            Answer(w, r)
    BY <2>1 DEF Goto, OthersStill, IInv, LocalInv, WorkersTypeOK
  <2> QED BY <1>2, <1>4, <2>1, <2>2, RefusalAnswer, RefusalMove DEF Reads, cloudVars
<1> QED BY <1>1, <1>3, <1>4 DEF Lookup

LEMMA RefusalStart ==
    ASSUME IInv, RefusalInv, NEW w \in Workers,
           StartEnsure(w) \/ StartPrimitive(w) \/ Return(w)
    PROVE  RefusalInv'
<1>1. CASE StartEnsure(w)
  <2>1. OthersStill(w) /\ pc[w] = "idle"
    BY <1>1 DEF StartEnsure, Goto, OthersStill, IInv, LocalInv, WorkersTypeOK
  <2> QED BY <1>1, <2>1, RefusalMove DEF StartEnsure, cloudVars
<1>2. CASE StartPrimitive(w)
  <2>1. PICK name \in EnvArgs, p \in Projects :
           LET c == [op |-> "primitive", env |-> name, project |-> p, wants |-> {}]
           IN call' = [call EXCEPT ![w] = c] /\ CountNext(w, c)
    BY <1>2 DEF StartPrimitive
  <2> DEFINE c == [op |-> "primitive", env |-> name, project |-> p, wants |-> {}]
  <2>2. c \in Started
    BY <1>2, ProvisionAssumption DEF StartPrimitive, Started
  <2>3. call' = [call EXCEPT ![w] = c] /\ CountNext(w, c)
        /\ UNCHANGED <<cluster, memo, everFull>> /\ pc[w] = "idle"
    BY <1>2, <2>1 DEF StartPrimitive, cloudVars
  <2> HIDE DEF c
  <2> QED BY <2>2, <2>3, RefusalCountNext
<1>3. CASE Return(w)
  <2>1. OthersStill(w) /\ RefusalOK(w)'
    BY <1>3 DEF Return, Goto, OthersStill, RefusalOK, IInv, LocalInv, WorkersTypeOK
  <2> QED BY <1>3, <2>1, FadesOK, RefusalQuiet DEF NoneBorn, Return, cloudVars, RefusalInv
<1> QED BY <1>1, <1>2, <1>3

LEMMA RefusalCount ==
    ASSUME \A s \in Scopes : \E p : s = {p},
           IInv, SpendInv, RefusalInv, NEW w \in Workers, Count(w)
    PROVE  RefusalInv'
<1>1. CASE Fails(w)
  BY <1>1, RefusalFails
<1>2. CASE ~ Fails(w)
  <2>1. PICK p \in todo[w] :
           /\ UNCHANGED <<call, target, step>>
           /\ \/ UNCHANGED <<pc, result, memo>>
              \/ /\ todo[w] = {p} /\ AtCapacity(tally[w] + Total({p}))
                 /\ memo' = memo \union {ScopeOf(w)}
                 /\ Goto(w, "done")
                 /\ result' = [result EXCEPT ![w] = "ceiling"]
              \/ Goto(w, "create") /\ UNCHANGED <<result, memo>>
    BY <1>2, Zenon DEF Count, Total, Remembers, ScopeOf
  <2>2. pc[w] = "count" /\ pc[w] \in InCall /\ call[w] \in Started
        /\ UNCHANGED <<cluster, everFull>>
    BY <1>2 DEF Count, Reads, cloudVars, InCall, IInv, LocalInv, Established
  <2>3. OthersStill(w)
    BY <2>1 DEF Goto, OthersStill, IInv, LocalInv, WorkersTypeOK
  <2>4. CASE UNCHANGED <<result, memo>>
    BY <2>2, <2>3, <2>4, RefusalMove
  <2>5. CASE /\ todo[w] = {p} /\ AtCapacity(tally[w] + Total({p}))
             /\ memo' = memo \union {ScopeOf(w)}
    <3> PICK s \in Scopes : s = ScopeOf(w)
      BY <2>2, ScopeFacts DEF Started, ScopeOf
    <3>1. s = {p} /\ tally[w] = 0
      BY <2>2, <2>5 DEF SpendInv, Counting
    <3>2. Full(s)
      <4>1. Total({p}) \in Nat
        BY TotalOK
      <4>2. Total({p}) >= MaxEnvironments
        BY <2>5, <3>1, <4>1 DEF AtCapacity
      <4> QED BY <3>1, <4>2 DEF Full, Total
    <3>3. s \in everFull
      BY <3>2 DEF RefusalInv, FullOK
    <3>4. ScopeOf(w)' = s
      BY <2>1 DEF ScopeOf
    <3>5. RefusalOK(w)' /\ memo' \subseteq everFull
      BY <2>2, <2>5, <3>3, <3>4 DEF RefusalOK, RefusalInv
    <3> QED BY <2>2, <2>3, <3>5, FadesOK, RefusalQuiet DEF NoneBorn
  <2> QED BY <2>1, <2>4, <2>5
<1> QED BY <1>1, <1>2

LEMMA RefusalCreate ==
    ASSUME IInv, RefusalInv, NEW w \in Workers, Create(w)
    PROVE  RefusalInv'
<1>1. CASE Fails(w) \/ NotAccepted(w)
  BY <1>1, RefusalFails
<1>2. CASE ~ Fails(w) /\ ~ NotAccepted(w)
  <2>1. /\ everFull' = everFull \union {s \in Scopes : Full(s)'}
        /\ UNCHANGED memo
        /\ \E r \in {"creating_cluster", "capella_error"} : Answer(w, r)
    BY <1>2 DEF Create
  <2>2. FullOK'
    BY <2>1 DEF FullOK
  <2>3. OthersStill(w) /\ RefusalOK(w)'
    BY <2>1 DEF Answer, Goto, OthersStill, RefusalOK, IInv, LocalInv, WorkersTypeOK
  <2> QED BY <2>1, <2>2, <2>3 DEF RefusalInv, RefusalOK, OthersStill, ScopeOf
<1> QED BY <1>1, <1>2

LEMMA RefusalStep ==
    ASSUME \A s \in Scopes : \E p : s = {p}
    PROVE  IInv /\ SpendInv /\ RefusalInv /\ [Next]_vars => RefusalInv'
<1> SUFFICES ASSUME IInv, SpendInv, RefusalInv, [Next]_vars PROVE RefusalInv'
  OBVIOUS
<1>1. ASSUME NEW w \in Workers, StartEnsure(w) \/ StartPrimitive(w) \/ Runs(w)
      PROVE  RefusalInv'
  BY <1>1, RefusalStart, RefusalLookup, RefusalCount, RefusalCreate, RefusalConfigure DEF Runs
<1>2. CASE \/ \E id \in ClusterIds : CloudProgress(id) \/ ImportEnds(id)
           \/ MemoExpires \/ EnvironmentDestroyed \/ UNCHANGED vars
  <2>1. everFull' = everFull /\ memo' \subseteq memo
    BY <1>2 DEF CloudProgress, ImportEnds, MemoExpires, EnvironmentDestroyed, vars
  <2>2. Fades /\ UNCHANGED workerVars
    BY <1>2, CloudSteps, FadesOK
  <2> QED BY <2>1, <2>2, FullFades DEF RefusalInv, RefusalOK, ScopeOf, workerVars
<1> QED BY <1>1, <1>2 DEF Next

LEMMA RefusalInit == Init => RefusalInv
BY DEF Init, RefusalInv, FullOK, RefusalOK

(* What an ensure answers is true: "ready" has every piece and an endpoint  *)
(* that is online or whose switch-on was answered by a 409, and, where the  *)
(* ceiling applies to one project at a time, nobody is told that it is      *)
(* reached, not even from the memo of refusals, unless it was.              *)
THEOREM AnswersAreTrue ==
    ASSUME \A s \in Scopes : \E p : s = {p}
    PROVE  Spec => []AnswerInv
<1>1. IInv /\ SpendInv /\ RefusalInv => AnswerInv
  <2>1. IInv => ReadyMeansReady
    BY DEF IInv, LocalInv, Established, Complete, ReadyMeansReady
  <2> QED BY <2>1 DEF AnswerInv, RefusalIsOwed, RefusalInv, RefusalOK, ScopeOf
<1>2. IInv /\ SpendInv /\ RefusalInv /\ [Next]_vars => (IInv /\ SpendInv /\ RefusalInv)'
  BY StepOK, SpendStep, RefusalStep
<1>3. Init => IInv /\ SpendInv /\ RefusalInv
  BY InitOK, SpendInit, RefusalInit
<1> QED BY <1>1, <1>2, <1>3, PTL DEF Spec

-----------------------------------------------------------------------------
(* One thread at a time: what the lookup did not find is not there when the *)
(* cluster is created.                                                      *)
Sought(w) == Named(call[w].project, ClusterName(call[w].env))
SoughtInv == \A w \in Workers : pc[w] \in {"count", "create"} => Sought(w) = {}

LEMMA TwinsFade ==
    ASSUME IInv, NoneBorn
    PROVE  /\ \A i \in ClusterIds :
                 /\ cluster'[i].name = cluster[i].name
                 /\ cluster'[i].project = cluster[i].project
                 /\ Exists(i)' => Exists(i)
           /\ \A p, n : Named(p, n)' \subseteq Named(p, n)
<1>1. \A i \in ClusterIds :
         /\ cluster'[i].name = cluster[i].name
         /\ cluster'[i].project = cluster[i].project
         /\ Exists(i)' => Exists(i)
  <2>1. CASE UNCHANGED cluster
    BY <2>1 DEF Exists
  <2>2. ASSUME NEW id \in ClusterIds, NEW st, Exists(id), SetState(id, st)
        PROVE  \A i \in ClusterIds :
                  /\ cluster'[i].name = cluster[i].name
                  /\ cluster'[i].project = cluster[i].project
                  /\ Exists(i)' => Exists(i)
    <3>1. cluster \in [ClusterIds -> Clusters]
      BY DEF IInv, GlobalInv, CloudOK, CloudTypeOK
    <3>2. \A i \in ClusterIds :
             /\ cluster'[i].name = cluster[i].name /\ cluster'[i].project = cluster[i].project
             /\ i # id => cluster'[i] = cluster[i]
      BY <2>2, <3>1 DEF SetState, Clusters
    <3> QED BY <2>2, <3>2 DEF Exists
  <2> QED BY <2>1, <2>2 DEF NoneBorn
<1> QED BY <1>1 DEF Named, Listed

LEMMA AdvanceElsewhere ==
    ASSUME IInv, NEW w \in Workers, Advance(w)
    PROVE  Elsewhere(w)'
<1>1. step[w] \in Pieces
  BY DEF IInv, LocalInv, WorkersTypeOK
<1>2. (\E l \in {"bringOnline", "appService", "see", "done"} : Goto(w, l)) => Elsewhere(w)'
  BY DEF Goto, Elsewhere, IInv, LocalInv, WorkersTypeOK
<1>3. CASE step[w] \in {"endpoint", "appServiceCidr", "credential"}
  BY <1>2, <1>3 DEF Advance, Continue, Answer
<1>4. CASE step[w] \in {"cidr", "bucket", "scope", "collection"}
  <2>1. Goto(w, "see")
    BY <1>4 DEF Advance
  <2> QED BY <1>2, <2>1
<1> QED BY <1>1, <1>3, <1>4 DEF Pieces

(* How a thread of ensure comes to the count and to the create.             *)
LEMMA SoughtMoves ==
    ASSUME IInv, NEW w \in Workers, StartEnsure(w) \/ Runs(w), ~ Elsewhere(w)'
    PROVE  /\ UNCHANGED <<cluster, call>>
           /\ pc[w] \in {"count", "create"} \/ Sought(w) = {}
<1>1. \A l : Goto(w, l) => pc'[w] = l
  BY DEF Goto, IInv, LocalInv, WorkersTypeOK
<1>2. (\E l \in {"lookup", "see", "make", "relist", "makeAppService", "done", "idle"} :
          Goto(w, l)) => Elsewhere(w)'
  BY <1>1 DEF Elsewhere
<1>3. /\ \A r : ~ Answer(w, r)
      /\ ~ Fails(w) /\ ~ NotAccepted(w) /\ ~ Advance(w)
  BY <1>2, AdvanceElsewhere DEF Answer, Fails, NotAccepted
<1>4. ~ StartEnsure(w) /\ ~ Return(w)
  BY <1>2 DEF StartEnsure, Return
<1>5. ~ Create(w)
  BY <1>3 DEF Create
<1>6. ~ See(w) /\ ~ Make(w) /\ ~ MakeAppService(w) /\ ~ BringOnline(w)
  BY <1>2, <1>3 DEF See, Make, MakeAppService, BringOnline, Continue
<1>7. ~ Relist(w) /\ ~ SeeAppService(w)
  <2>1. ~ Relist(w)
    BY <1>2, <1>3 DEF Relist, NoBucketPiece
  <2>2. ~ SeeAppService(w)
    <3>1. SUFFICES ASSUME SeeAppService(w) PROVE FALSE
      OBVIOUS
    <3>2. \/ \E r : Answer(w, r)
          \/ Continue(w, "makeAppService")
          \/ Goto(w, "see")
          \/ Fails(w)
      BY <3>1 DEF SeeAppService
    <3> QED BY <3>2, <1>2, <1>3 DEF Continue
  <2> QED BY <2>1, <2>2
<1>8. CASE Count(w)
  BY <1>3, <1>8 DEF Count, Reads, cloudVars
<1>9. CASE Lookup(w)
  <2>1. \A id : ~ Adopt(w, id)
    BY <1>2, <1>3 DEF Adopt, AnswerUnhealthy
  <2>2. Reads /\ Sought(w) = {} /\ UNCHANGED call
    BY <1>3, <1>9, <2>1 DEF Lookup, Sought
  <2> QED BY <2>2 DEF Reads, cloudVars
<1> QED BY <1>4, <1>5, <1>6, <1>7, <1>8, <1>9 DEF Runs

LEMMA SoughtStep ==
    ASSUME \E w \in Workers : Workers = {w}, Ops = {"ensure"}
    PROVE  IInv /\ SoughtInv /\ [Next]_vars => SoughtInv'
<1> SUFFICES ASSUME IInv, SoughtInv, [Next]_vars PROVE SoughtInv'
  OBVIOUS
<1>1. PICK w \in Workers : Workers = {w}
  OBVIOUS
<1>2. CASE StartEnsure(w) \/ Runs(w)
  <2>1. CASE Elsewhere(w)'
    BY <1>1, <2>1 DEF SoughtInv, Elsewhere
  <2>2. CASE ~ Elsewhere(w)'
    <3>1. UNCHANGED <<cluster, call>> /\ Sought(w) = {}
      BY <1>2, <2>2, SoughtMoves DEF SoughtInv
    <3>2. Sought(w)' = Sought(w)
      BY <3>1 DEF Sought, Named, Listed, Exists
    <3> QED BY <1>1, <3>1, <3>2 DEF SoughtInv
  <2> QED BY <2>1, <2>2
<1>3. ~ StartPrimitive(w)
  BY DEF StartPrimitive
<1>4. CASE \/ \E id \in ClusterIds : CloudProgress(id) \/ ImportEnds(id)
           \/ MemoExpires \/ EnvironmentDestroyed \/ UNCHANGED vars
  <2>1. NoneBorn /\ UNCHANGED <<pc, call>>
    BY <1>4, CloudSteps DEF workerVars
  <2>2. \A p, n : Named(p, n)' \subseteq Named(p, n)
    BY <2>1, TwinsFade
  <2>3. Sought(w)' \subseteq Sought(w)
    <3>1. PICK c : c = call[w]
      OBVIOUS
    <3>2. Named(c.project, ClusterName(c.env))' \subseteq Named(c.project, ClusterName(c.env))
      BY <2>2
    <3> QED BY <2>1, <3>1, <3>2 DEF Sought
  <2> QED BY <1>1, <2>1, <2>3 DEF SoughtInv
<1> QED BY <1>1, <1>2, <1>3, <1>4 DEF Next

(* "Existing resources are reused, never duplicated", says the docstring of *)
(* capella_env_ensure.  One call at a time it keeps its word, whatever      *)
(* fails, ends or is torn down meanwhile; two calls that overlap, and the   *)
(* raw create primitive, which looks for nothing, need not.                 *)
THEOREM OneAtATimeNoneDoubled ==
    ASSUME \E w \in Workers : Workers = {w}, Ops = {"ensure"}
    PROVE  Spec => NeverDuplicated
<1> DEFINE A == \A i, j \in ClusterIds : Twins(i, j)' => Twins(i, j)
<1>1. IInv /\ SoughtInv /\ [Next]_vars => A
  <2> SUFFICES ASSUME IInv, SoughtInv, [Next]_vars,
                      NEW i \in ClusterIds, NEW j \in ClusterIds, Twins(i, j)'
               PROVE  Twins(i, j)
    OBVIOUS
  <2>1. CASE NoneBorn
    BY <2>1, TwinsFade DEF Twins
  <2>2. CASE ~ NoneBorn
    <3>1. PICK w \in Workers : Creates(w)
      BY <2>2, OnlyCreates
    <3>2. pc[w] = "create" /\ call[w] \in Started /\ call[w].op = "ensure"
      BY <3>1 DEF Creates, IInv, LocalInv, Established, InCall, Started
    <3>3. PICK marker \in Stamps(call[w]), id \in ClusterIds :
             cluster' = [cluster EXCEPT ![id] = NewCluster(call[w], marker)]
      BY <3>1 DEF Creates
    <3>4. \A k \in ClusterIds : k # id => cluster'[k] = cluster[k]
      BY <3>3 DEF IInv, GlobalInv, CloudOK, CloudTypeOK
    <3>5. cluster'[id] = NewCluster(call[w], marker)
      BY <3>3 DEF IInv, GlobalInv, CloudOK, CloudTypeOK
    <3>6. /\ cluster'[id].name = ClusterName(call[w].env)
          /\ cluster'[id].project = call[w].project
      BY <3>2, <3>5 DEF NewCluster
    <3>7. ASSUME NEW k \in ClusterIds, k # id, Exists(k)',
                 cluster'[k].name = cluster'[id].name,
                 cluster'[k].project = cluster'[id].project
          PROVE  FALSE
      <4>1. k \in Sought(w)
        BY <3>4, <3>6, <3>7 DEF Sought, Named, Listed, Exists
      <4> QED BY <3>2, <4>1 DEF SoughtInv
    <3>8. i # id /\ j # id
      BY <3>7 DEF Twins
    <3> QED BY <3>4, <3>8 DEF Twins, Exists
  <2> QED BY <2>1, <2>2
<1>2. IInv /\ SoughtInv /\ [Next]_vars => (IInv /\ SoughtInv)'
  BY StepOK, SoughtStep
<1>3. Init => IInv /\ SoughtInv
  <2>1. Init => SoughtInv
    BY DEF Init, SoughtInv
  <2> QED BY <2>1, InitOK
<1> HIDE DEF A
<1>4. Spec => [][A]_vars
  BY <1>1, <1>2, <1>3, PTL DEF Spec
<1> QED BY <1>4 DEF NeverDuplicated, A
=============================================================================
