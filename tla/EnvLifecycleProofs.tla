------------------------- MODULE EnvLifecycleProofs -------------------------
(***************************************************************************)
(* For any number of clusters, projects, worker threads, edits and faults, *)
(* and for every configuration of the guardrails: the types and the safety *)
(* of capella_env_teardown, _reap, _park and _resume.                      *)
(***************************************************************************)
EXTENDS EnvLifecycle, TLAPS

(* What the history variables remember includes what is so now.             *)
Remembered ==
    /\ ManagedNow(cluster) \subseteq everManaged
    /\ DeletableNow(cluster) \subseteq everDeletable
    /\ ExpiredNow(cluster) \subseteq everExpired

(* What a call has established when it stands at a request.                 *)
Deleting == {"appService", "deleteAppService", "deleteCluster"}
InCall == {"lookup", "fetch", "refetch", "power"} \union Deleting

Established(w) ==
    /\ pc[w] \in {"list", "sweep"} => call[w].op = "reap"
    /\ \A e \in sweep[w].reapable : e.id \in everExpired
    /\ pc[w] \in InCall =>
         /\ call[w].op \in Ops
         /\ call[w].op = "reap" => call[w].pin \in everExpired
    /\ pc[w] = "fetch" => call[w].pin \in ClusterIds
    /\ pc[w] \in {"refetch", "power"} \union Deleting =>
         /\ target[w] \in ClusterIds
         /\ PinAgrees(w, target[w])
    /\ pc[w] = "power" => target[w] \in everManaged
    /\ pc[w] \in Deleting =>
         /\ target[w] \in everManaged \intersect everDeletable
         /\ Permitted("capella_cluster_delete", call[w].human)

LocalInv == WorkerTypeOK /\ \A w \in Workers : Established(w)

ActsInv ==
    /\ acts \subseteq Acts
    /\ OnlyManagedTouched
    /\ OnlyDeletableDestroyed
    /\ ReapOnlyExpired
    /\ CeilingHolds

IInv == CloudTypeOK /\ Remembered /\ LocalInv /\ ActsInv

-----------------------------------------------------------------------------
LEMMA RecordOK ==
    ASSUME NEW s \in Sweeps, NEW id \in ClusterIds, NEW outcome
    PROVE  Record(s, id, outcome) \in Sweeps /\ Record(s, id, outcome).reapable = s.reapable
BY DEF Record, Sweeps

(* The end of a call leaves every thread's invariant in place.              *)
LEMMA ConcludeOK ==
    ASSUME LocalInv, CloudTypeOK, NEW w \in Workers, NEW outcome \in Answers \union Errors,
           pc[w] \in InCall, Conclude(w, outcome), UNCHANGED historyVars
    PROVE  LocalInv'
<1> USE DEF LocalInv, WorkerTypeOK, CloudTypeOK
<1>1. pc' \in [Workers -> PCs] /\ call' \in [Workers -> Calls]
  BY DEF Conclude, Goto, PCs
<1>2. target' \in [Workers -> ClusterIds \union {NoId}]
  BY DEF Conclude
<1>3. call[w].op = "reap" => call[w].pin \in ClusterIds
  BY DEF Established
<1>4. sweep' \in [Workers -> Sweeps]
  BY <1>3, RecordOK DEF Conclude
<1>5. result' \in [Workers -> Results]
  BY DEF Conclude, Results
<1>6. ASSUME NEW v \in Workers PROVE Established(v)'
  <2>1. Established(v)
    OBVIOUS
  <2>2. CASE v # w
    BY <2>1, <2>2 DEF Conclude, Goto, Established, PinAgrees, historyVars
  <2>3. CASE v = w
    <3>1. pc'[w] \in {"sweep", "done"} /\ (pc'[w] = "sweep" => call'[w].op = "reap")
      BY DEF Conclude, Goto
    <3>2. sweep'[w].reapable = sweep[w].reapable
      BY <1>3, RecordOK DEF Conclude
    <3> QED BY <2>1, <2>3, <3>1, <3>2 DEF Established, InCall, Deleting, historyVars
  <2> QED BY <2>2, <2>3
<1> QED BY <1>1, <1>2, <1>4, <1>5, <1>6
-----------------------------------------------------------------------------
(* Requests that change nothing in the cloud, and those that only fail.     *)
Undisturbed == UNCHANGED <<cluster, appService, edits, historyVars, acts>>

LEMMA Frame ==
    ASSUME IInv, Undisturbed, faults' \in 0..MaxFaults
    PROVE  CloudTypeOK' /\ Remembered' /\ ActsInv'
<1> USE DEF IInv, Undisturbed, historyVars
<1>1. CloudTypeOK'
  BY DEF CloudTypeOK
<1>2. Remembered'
  BY DEF Remembered, ManagedNow, DeletableNow, ExpiredNow
<1>3. ActsInv'
  BY DEF ActsInv, OnlyManagedTouched, OnlyDeletableDestroyed, ReapOnlyExpired,
         CeilingHolds, Deletions
<1> QED BY <1>1, <1>2, <1>3

LEMMA FaultBound ==
    ASSUME CloudTypeOK, ApiFault
    PROVE  faults' \in 0..MaxFaults
BY CloudAssumption DEF CloudTypeOK, ApiFault

LEMMA RefusedOK ==
    ASSUME IInv, NEW w \in Workers, NEW p, pc[w] \in InCall, Refused(w, p)
    PROVE  IInv'
<1>1. LocalInv'
  BY ConcludeOK DEF IInv, Refused, Errors, cloudVars, historyVars
<1>2. faults' \in 0..MaxFaults /\ Undisturbed
  BY DEF Refused, cloudVars, Undisturbed, historyVars, IInv, CloudTypeOK
<1> QED BY <1>1, <1>2, Frame DEF IInv

LEMMA FailsOK ==
    ASSUME IInv, NEW w \in Workers, NEW p, pc[w] \in InCall, Fails(w, p)
    PROVE  IInv'
<1>1. LocalInv'
  BY ConcludeOK DEF IInv, Fails, Errors
<1>2. faults' \in 0..MaxFaults /\ Undisturbed
  BY FaultBound DEF Fails, Undisturbed, IInv
<1> QED BY <1>1, <1>2, Frame DEF IInv

(* A read is safe when what it leaves in the thread's hands is.             *)
LEMMA ReadsOK ==
    ASSUME IInv, NEW w \in Workers, NEW p, Reads(w, p), LocalInv'
    PROVE  IInv'
<1>1. faults' \in 0..MaxFaults /\ Undisturbed
  BY DEF Reads, cloudVars, Undisturbed, historyVars, IInv, CloudTypeOK
<1> QED BY <1>1, Frame DEF IInv

LEMMA ReadsConcludeOK ==
    ASSUME IInv, NEW w \in Workers, NEW p, NEW outcome \in Answers \union Errors,
           pc[w] \in InCall, Reads(w, p), Conclude(w, outcome)
    PROVE  IInv'
BY ReadsOK, ConcludeOK DEF IInv, Reads, cloudVars, historyVars

(* One thread moves: the others keep what they have established, since what *)
(* was ever managed, deletable or expired stays so.                         *)
HistoryGrows ==
    /\ everManaged \subseteq everManaged'
    /\ everDeletable \subseteq everDeletable'
    /\ everExpired \subseteq everExpired'

LEMMA OthersOK ==
    ASSUME LocalInv, HistoryGrows, NEW v \in Workers, pc'[v] = pc[v], call'[v] = call[v],
           target'[v] = target[v], sweep'[v] = sweep[v]
    PROVE  Established(v)'
BY DEF LocalInv, Established, HistoryGrows, PinAgrees

LEMMA MoveOK ==
    ASSUME LocalInv, HistoryGrows, WorkerTypeOK', NEW w \in Workers, Established(w)',
           NEW l, NEW c, NEW t, NEW s,
           pc' = [pc EXCEPT ![w] = l], call' = [call EXCEPT ![w] = c],
           target' = [target EXCEPT ![w] = t], sweep' = [sweep EXCEPT ![w] = s]
    PROVE  LocalInv'
<1> SUFFICES ASSUME NEW v \in Workers, v # w PROVE Established(v)'
  BY DEF LocalInv
<1>1. /\ pc'[v] = pc[v] /\ call'[v] = call[v]
      /\ target'[v] = target[v] /\ sweep'[v] = sweep[v]
  BY DEF LocalInv, WorkerTypeOK
<1> QED BY <1>1, OthersOK

LEMMA ContinueOK ==
    ASSUME LocalInv, HistoryGrows, NEW w \in Workers, NEW l \in InCall, Continue(w, l),
           pc[w] \in InCall,
           l = "fetch" => call[w].pin \in ClusterIds,
           l \in {"refetch", "power"} \union Deleting =>
               target[w] \in ClusterIds /\ PinAgrees(w, target[w]),
           l = "power" => target[w] \in everManaged,
           l \in Deleting =>
               /\ target[w] \in everManaged \intersect everDeletable
               /\ Permitted("capella_cluster_delete", call[w].human)
    PROVE  LocalInv'
<1> USE DEF LocalInv, WorkerTypeOK
<1>1. WorkerTypeOK'
  BY DEF Continue, Goto, InCall, Deleting, PCs
<1>2. pc'[w] = l
  BY DEF Continue, Goto
<1>3. Established(w)'
  BY <1>2 DEF Continue, Established, PinAgrees, HistoryGrows, InCall, Deleting
<1>4. /\ pc' = [pc EXCEPT ![w] = l] /\ call' = [call EXCEPT ![w] = call[w]]
      /\ target' = [target EXCEPT ![w] = target[w]]
      /\ sweep' = [sweep EXCEPT ![w] = sweep[w]]
  BY DEF Continue, Goto
<1> QED BY <1>1, <1>3, <1>4, MoveOK

-----------------------------------------------------------------------------
(* The beginning of a call, and the loop of a sweep.                        *)
LEMMA StillOK ==
    ASSUME IInv, UNCHANGED <<cloudVars, acts>>, LocalInv'
    PROVE  IInv'
<1>1. faults' \in 0..MaxFaults /\ Undisturbed
  BY DEF cloudVars, Undisturbed, historyVars, IInv, CloudTypeOK
<1> QED BY <1>1, Frame DEF IInv

LEMMA StartCallOK ==
    ASSUME IInv, NEW w \in Workers, StartCall(w)
    PROVE  IInv'
<1> USE DEF IInv, LocalInv, WorkerTypeOK
<1>1. PICK op \in Ops \ {"reap"}, env \in EnvArgs, p \in Projects, h \in Presence :
         call' = [call EXCEPT ![w] = [op |-> op, env |-> env, project |-> p,
                                      pin |-> NoId, human |-> h]]
  BY DEF StartCall
<1>2. WorkerTypeOK'
  BY <1>1, LifecycleAssumption DEF StartCall, Goto, Calls, PCs
<1>3. Established(w)'
  BY <1>1 DEF StartCall, Goto, Established, InCall, Deleting, cloudVars
<1>4. /\ pc' = [pc EXCEPT ![w] = "lookup"]
      /\ target' = [target EXCEPT ![w] = target[w]]
      /\ sweep' = [sweep EXCEPT ![w] = sweep[w]]
      /\ HistoryGrows
  BY DEF StartCall, Goto, HistoryGrows, cloudVars
<1>5. LocalInv'
  BY <1>1, <1>2, <1>3, <1>4, MoveOK
<1> QED BY <1>5, StillOK DEF StartCall

LEMMA StartReapOK ==
    ASSUME IInv, NEW w \in Workers, NEW ps \in SUBSET Projects, StartReap(w, ps)
    PROVE  IInv'
<1> USE DEF IInv, LocalInv, WorkerTypeOK
<1>1. PICK h \in Presence :
         call' = [call EXCEPT ![w] = [NoCall EXCEPT !.op = "reap", !.human = h]]
  BY DEF StartReap
<1>2. WorkerTypeOK'
  BY <1>1, LifecycleAssumption DEF StartReap, Goto, Calls, NoCall, PCs, Sweeps, NoSweep
<1>3. Established(w)'
  BY <1>1 DEF StartReap, Goto, Established, InCall, Deleting, NoCall, NoSweep
<1>4. /\ pc' = [pc EXCEPT ![w] = "list"]
      /\ target' = [target EXCEPT ![w] = target[w]]
      /\ sweep' = [sweep EXCEPT ![w] = [NoSweep EXCEPT !.todo = ps]]
      /\ HistoryGrows
  BY DEF StartReap, Goto, HistoryGrows, cloudVars
<1>5. LocalInv'
  BY <1>1, <1>2, <1>3, <1>4, MoveOK
<1> QED BY <1>5, StillOK DEF StartReap

LEMMA ReturnOK ==
    ASSUME IInv, NEW w \in Workers, Return(w)
    PROVE  IInv'
<1> USE DEF IInv, LocalInv, WorkerTypeOK
<1>1. WorkerTypeOK'
  BY DEF Return, Goto, Calls, NoCall, PCs, Sweeps, NoSweep, Results
<1>2. Established(w)'
  BY DEF Return, Goto, Established, InCall, Deleting, NoSweep
<1>3. HistoryGrows
  BY DEF Return, HistoryGrows, cloudVars
<1>4. LocalInv'
  BY <1>1, <1>2, <1>3, MoveOK DEF Return, Goto
<1> QED BY <1>4, StillOK DEF Return

LEMMA NextEntryOK ==
    ASSUME IInv, NEW w \in Workers, NextEntry(w)
    PROVE  IInv'
<1> USE DEF IInv, LocalInv, WorkerTypeOK
<1>1. HistoryGrows /\ target' = [target EXCEPT ![w] = target[w]]
  BY DEF NextEntry, HistoryGrows, cloudVars
<1>2. CASE \E e \in sweep[w].reapable :
             /\ sweep' = [sweep EXCEPT ![w] = Without(@, e)]
             /\ call' = [call EXCEPT ![w] = TeardownOf(w, e)]
             /\ Goto(w, "lookup")
             /\ UNCHANGED result
  <2>1. PICK e \in sweep[w].reapable :
             /\ sweep' = [sweep EXCEPT ![w] = Without(@, e)]
             /\ call' = [call EXCEPT ![w] = TeardownOf(w, e)]
             /\ Goto(w, "lookup")
             /\ UNCHANGED result
    BY <1>2
  <2>2. e \in Entries /\ e.id \in everExpired /\ call[w].op = "reap"
    BY DEF Sweeps, Established, NextEntry
  <2>3. /\ TeardownOf(w, e) \in Calls /\ call'[w] = TeardownOf(w, e)
        /\ TeardownOf(w, e).op \in Ops /\ TeardownOf(w, e).pin = e.id
    <3>1. call[w] \in Calls /\ "reap" \in Ops
      BY <2>2 DEF Calls
    <3>2. call[w].human \in BOOLEAN
      BY <3>1 DEF Calls
    <3>3. e.env \in Names \union {BlankEnv} /\ e.project \in Projects /\ e.id \in ClusterIds
      BY <2>2 DEF Entries
    <3>4. TeardownOf(w, e) \in Calls
      BY <3>1, <3>2, <3>3, Zenon DEF Calls, TeardownOf
    <3> QED BY <2>1, <3>1, <3>4 DEF TeardownOf
  <2>4. /\ sweep'[w] \in Sweeps
        /\ sweep'[w].reapable \subseteq sweep[w].reapable
    <3>1. sweep'[w] = Without(sweep[w], e) /\ sweep[w] \in Sweeps
      BY <2>1
    <3> QED BY <3>1 DEF Sweeps, Without
  <2>5. WorkerTypeOK'
    BY <2>1, <2>3, <2>4 DEF NextEntry, Goto, PCs
  <2>6. Established(w)'
    BY <2>1, <2>2, <2>3, <2>4 DEF Goto, Established, InCall, Deleting, NextEntry, cloudVars
  <2>7. /\ pc' = [pc EXCEPT ![w] = "lookup"]
        /\ call' = [call EXCEPT ![w] = TeardownOf(w, e)]
        /\ sweep' = [sweep EXCEPT ![w] = Without(sweep[w], e)]
    BY <2>1 DEF Goto
  <2>8. LocalInv'
    BY <1>1, <2>5, <2>6, <2>7, MoveOK
  <2> QED BY <2>8, StillOK DEF NextEntry
<1>3. CASE /\ sweep[w].reapable = {} /\ Goto(w, "done")
           /\ result' = [result EXCEPT ![w] = "swept"] /\ UNCHANGED <<sweep, call>>
  <2>1. WorkerTypeOK'
    BY <1>1, <1>3 DEF Goto, PCs, Results
  <2>2. Established(w)'
    BY <1>3 DEF Goto, Established, InCall, Deleting
  <2>3. /\ pc' = [pc EXCEPT ![w] = "done"]
        /\ call' = [call EXCEPT ![w] = call[w]]
        /\ sweep' = [sweep EXCEPT ![w] = sweep[w]]
    BY <1>3 DEF Goto
  <2>4. LocalInv'
    BY <1>1, <2>1, <2>2, <2>3, MoveOK
  <2> QED BY <2>4, StillOK DEF NextEntry
<1> QED BY <1>2, <1>3 DEF NextEntry

LEMMA ClassifiedOK ==
    ASSUME NEW s \in Sweeps
    PROVE  Classified(s) \in Sweeps /\ Classified(s).reapable \subseteq s.reapable
<1>1. {e.id : e \in {f \in s.reapable : f.env = BlankEnv}} \in SUBSET ClusterIds
  BY DEF Sweeps, Entries
<1>2. {e \in s.reapable : e.env # BlankEnv} \in SUBSET Entries
  BY DEF Sweeps
<1> QED BY <1>1, <1>2 DEF Classified, Sweeps

LEMMA ListProjectOK ==
    ASSUME IInv, NEW w \in Workers, ListProject(w)
    PROVE  IInv'
<1> USE DEF IInv, LocalInv, WorkerTypeOK
<1>0. pc[w] = "list" /\ call[w].op = "reap"
  BY DEF ListProject, Established
<1>1. CASE \E outcome \in {"composite_refused", "capella_error"} :
             /\ IF outcome = "capella_error"
                THEN Permitted("capella_clusters_list", call[w].human) /\ ApiFault
                ELSE ~ Permitted("capella_clusters_list", call[w].human)
                     /\ UNCHANGED faults
             /\ Goto(w, "done")
             /\ result' = [result EXCEPT ![w] = outcome]
             /\ sweep' = [sweep EXCEPT ![w] = NoSweep]
             /\ UNCHANGED <<cluster, appService, edits, historyVars,
                            call, target, acts>>
  <2>1. PICK outcome \in {"composite_refused", "capella_error"} :
             /\ ApiFault \/ UNCHANGED faults
             /\ Goto(w, "done")
             /\ result' = [result EXCEPT ![w] = outcome]
             /\ sweep' = [sweep EXCEPT ![w] = NoSweep]
             /\ UNCHANGED <<cluster, appService, edits, historyVars,
                            call, target, acts>>
    BY <1>1
  <2>2. faults' \in 0..MaxFaults /\ Undisturbed /\ HistoryGrows
    BY <2>1, FaultBound DEF Undisturbed, CloudTypeOK, HistoryGrows, historyVars
  <2>3. WorkerTypeOK'
    BY <2>1 DEF Goto, PCs, Results, Errors, Sweeps, NoSweep
  <2>4. Established(w)'
    BY <2>1 DEF Goto, Established, InCall, Deleting, NoSweep
  <2>5. /\ pc' = [pc EXCEPT ![w] = "done"]
        /\ call' = [call EXCEPT ![w] = call[w]]
        /\ target' = [target EXCEPT ![w] = target[w]]
        /\ sweep' = [sweep EXCEPT ![w] = NoSweep]
    BY <2>1 DEF Goto
  <2>6. LocalInv'
    BY <2>2, <2>3, <2>4, <2>5, MoveOK
  <2> QED BY <2>2, <2>6, Frame
<1>2. CASE /\ Reads(w, "capella_clusters_list")
           /\ \E p \in sweep[w].todo : ProjectRead(w, p)
           /\ UNCHANGED <<call, target, result>>
  <2>1. PICK p \in sweep[w].todo : ProjectRead(w, p)
    BY <1>2
  <2> DEFINE read == ReadInto(sweep[w], p)
  <2>2. p \in Projects /\ sweep[w] \in Sweeps
    BY DEF Sweeps
  <2>3. /\ read \in Sweeps
        /\ \A e \in read.reapable : e.id \in everExpired
    <3>1. ExpiredIn(p) \subseteq everExpired /\ ExpiredIn(p) \subseteq ClusterIds
      BY DEF ExpiredIn, Listed, Exists, Remembered, ExpiredNow
    <3>2. \A id \in ExpiredIn(p) : cluster[id].marker.env \in Names \union {BlankEnv}
      BY DEF ExpiredIn, Listed, CloudTypeOK, Clusters, Markers, NoMarker
    <3> DEFINE new == {[id |-> id, project |-> p, env |-> cluster[id].marker.env]
                          : id \in ExpiredIn(p)}
    <3>3. new \in SUBSET Entries /\ \A e \in new : e.id \in everExpired
      BY <2>2, <3>1, <3>2 DEF Entries
    <3>4. \A e \in sweep[w].reapable : e.id \in everExpired
      BY DEF Established
    <3> HIDE DEF new
    <3>5. read = [sweep[w] EXCEPT !.todo = @ \ {p},
                                  !.expired = @ \union ExpiredIn(p),
                                  !.reapable = @ \union new]
      BY DEF ReadInto, new
    <3> HIDE DEF read
    <3> QED BY <2>2, <3>1, <3>3, <3>4, <3>5 DEF Sweeps
  <2> HIDE DEF read
  <2>4. PICK s \in Sweeps, l \in {"sweep", "list"} :
           /\ sweep' = [sweep EXCEPT ![w] = s]
           /\ pc' = [pc EXCEPT ![w] = l]
           /\ \A e \in s.reapable : e.id \in everExpired
    <3>1. CASE read.todo = {}
      BY <2>1, <2>3, <3>1, ClassifiedOK DEF ProjectRead, Goto, read
    <3>2. CASE read.todo # {}
      BY <2>1, <2>3, <3>2 DEF ProjectRead, Goto, read
    <3> QED BY <3>1, <3>2
  <2>5. HistoryGrows /\ UNCHANGED everExpired
    BY <1>2 DEF Reads, cloudVars, HistoryGrows
  <2>6. WorkerTypeOK'
    BY <1>2, <2>4 DEF PCs
  <2>7. Established(w)'
    BY <1>0, <1>2, <2>4, <2>5 DEF Established, InCall, Deleting
  <2>8. call' = [call EXCEPT ![w] = call[w]] /\ target' = [target EXCEPT ![w] = target[w]]
    BY <1>2
  <2>9. LocalInv'
    BY <2>4, <2>5, <2>6, <2>7, <2>8, MoveOK
  <2> QED BY <1>2, <2>9, ReadsOK
<1> QED BY <1>1, <1>2 DEF ListProject

-----------------------------------------------------------------------------
(* The requests of one teardown, park or resume.                            *)
LEMMA SettleOnOK ==
    ASSUME LocalInv, HistoryGrows, NEW w \in Workers, pc[w] \in InCall,
           NEW id \in ClusterIds, PinAgrees(w, id), SettleOn(w, id)
    PROVE  LocalInv'
<1> USE DEF LocalInv, WorkerTypeOK
<1>1. WorkerTypeOK'
  BY DEF SettleOn, Goto, PCs
<1>2. Established(w)'
  BY DEF SettleOn, Goto, Established, PinAgrees, HistoryGrows, InCall, Deleting
<1>3. /\ pc' = [pc EXCEPT ![w] = "refetch"]
      /\ target' = [target EXCEPT ![w] = id]
      /\ call' = [call EXCEPT ![w] = call[w]]
      /\ sweep' = [sweep EXCEPT ![w] = sweep[w]]
  BY DEF SettleOn, Goto
<1> QED BY <1>1, <1>2, <1>3, MoveOK

LEMMA ReadsHistory ==
    ASSUME NEW w, NEW p, Reads(w, p)
    PROVE  HistoryGrows
BY DEF Reads, cloudVars, HistoryGrows

LEMMA LookupOK ==
    ASSUME IInv, NEW w \in Workers, Lookup(w)
    PROVE  IInv'
<1>1. pc[w] \in InCall
  BY DEF Lookup, InCall
<1>2. CASE Refused(w, "capella_clusters_list")
  BY <1>1, <1>2, RefusedOK
<1>3. CASE Fails(w, "capella_clusters_list")
  BY <1>1, <1>3, FailsOK
<1>4. CASE Reads(w, "capella_clusters_list")
           /\ \E id \in Candidates(call[w].project, call[w].env) :
                 IF PinAgrees(w, id) THEN SettleOn(w, id) ELSE Conclude(w, "guardrail")
  <2>1. PICK id \in Candidates(call[w].project, call[w].env) :
           IF PinAgrees(w, id) THEN SettleOn(w, id) ELSE Conclude(w, "guardrail")
    BY <1>4
  <2>2. id \in ClusterIds
    BY DEF Candidates, Named, Listed
  <2>3. CASE PinAgrees(w, id)
    <3>1. LocalInv'
      BY <1>1, <1>4, <2>1, <2>2, <2>3, SettleOnOK, ReadsHistory DEF IInv
    <3> QED BY <1>4, <3>1, ReadsOK
  <2>4. CASE ~ PinAgrees(w, id)
    BY <1>1, <1>4, <2>1, <2>4, ReadsConcludeOK DEF Errors
  <2> QED BY <2>3, <2>4
<1>5. CASE /\ Reads(w, "capella_clusters_list")
           /\ \/ Conclude(w, "guardrail")
              \/ Conclude(w, "nothing_to_do")
  BY <1>1, <1>5, ReadsConcludeOK DEF Errors, Answers
<1>6. CASE /\ Reads(w, "capella_clusters_list")
           /\ call[w].pin # NoId /\ Continue(w, "fetch")
  <2>1. call[w].pin \in ClusterIds
    BY <1>6 DEF IInv, LocalInv, WorkerTypeOK, Calls
  <2>2. LocalInv'
    BY <1>1, <1>6, <2>1, ContinueOK, ReadsHistory DEF IInv, InCall, Deleting
  <2> QED BY <1>6, <2>2, ReadsOK
<1> QED BY <1>2, <1>3, <1>4, <1>5, <1>6 DEF Lookup

LEMMA FetchByIdOK ==
    ASSUME IInv, NEW w \in Workers, FetchById(w)
    PROVE  IInv'
<1>1. pc[w] \in InCall
  BY DEF FetchById, InCall
<1>2. CASE Refused(w, "capella_cluster_get")
  BY <1>1, <1>2, RefusedOK
<1>3. CASE Fails(w, "capella_cluster_get")
  BY <1>1, <1>3, FailsOK
<1>4. CASE Reads(w, "capella_cluster_get") /\ SettleOn(w, call[w].pin)
  <2>1. call[w].pin \in ClusterIds /\ PinAgrees(w, call[w].pin)
    BY DEF IInv, LocalInv, Established, FetchById, PinAgrees
  <2>2. LocalInv'
    BY <1>1, <1>4, <2>1, SettleOnOK, ReadsHistory DEF IInv
  <2> QED BY <1>4, <2>2, ReadsOK
<1>5. CASE Reads(w, "capella_cluster_get") /\ Conclude(w, "not_found")
  BY <1>1, <1>5, ReadsConcludeOK DEF Answers
<1> QED BY <1>2, <1>3, <1>4, <1>5 DEF FetchById

LEMMA RefetchOK ==
    ASSUME IInv, NEW w \in Workers, Refetch(w)
    PROVE  IInv'
<1>1. /\ pc[w] = "refetch" /\ pc[w] \in InCall
      /\ target[w] \in ClusterIds /\ PinAgrees(w, target[w])
  BY DEF Refetch, InCall, IInv, LocalInv, Established
<1>2. CASE Refused(w, "capella_cluster_get")
  BY <1>1, <1>2, RefusedOK
<1>3. CASE Fails(w, "capella_cluster_get")
  BY <1>1, <1>3, FailsOK
<1>4. CASE Reads(w, "capella_cluster_get")
           /\ \E o \in Errors : Conclude(w, o)
  BY <1>1, <1>4, ReadsConcludeOK
<1> DEFINE id == target[w]
<1>5. ASSUME Found(call[w].project, id), GuardPasses(w, id)
      PROVE  /\ id \in everManaged
             /\ call[w].op \notin {"park", "resume"} => id \in everDeletable
  <2>1. cluster[id].project = call[w].project /\ Alive(cluster[id])
    BY <1>5 DEF Found, Listed, Exists
  <2>2. IsManaged(id, cluster[id], cluster[id].project)
    BY <1>5, <2>1 DEF GuardPasses, IsDeletable
  <2>3. id \in everManaged
    BY <1>1, <2>1, <2>2 DEF IInv, Remembered, ManagedNow
  <2>4. ASSUME call[w].op \notin {"park", "resume"} PROVE id \in everDeletable
    BY <1>1, <1>5, <2>1, <2>4 DEF GuardPasses, IInv, Remembered, DeletableNow
  <2> QED BY <2>3, <2>4
<1>6. CASE /\ Reads(w, "capella_cluster_get")
           /\ Found(call[w].project, id) /\ GuardPasses(w, id)
           /\ Continue(w, "power")
  <2>1. LocalInv'
    BY <1>1, <1>5, <1>6, ContinueOK, ReadsHistory DEF IInv, InCall, Deleting
  <2> QED BY <1>6, <2>1, ReadsOK
<1>7. CASE /\ Reads(w, "capella_cluster_get")
           /\ Found(call[w].project, id) /\ GuardPasses(w, id)
           /\ call[w].op \notin {"park", "resume"} /\ Preflight(w)
           /\ Continue(w, "appService")
  <2>1. LocalInv'
    BY <1>1, <1>5, <1>7, ContinueOK, ReadsHistory DEF IInv, InCall, Deleting, Preflight
  <2> QED BY <1>7, <2>1, ReadsOK
<1> QED BY <1>2, <1>3, <1>4, <1>6, <1>7 DEF Refetch, Errors

LEMMA FindAppServiceOK ==
    ASSUME IInv, NEW w \in Workers, FindAppService(w)
    PROVE  IInv'
<1>1. /\ pc[w] = "appService" /\ pc[w] \in InCall
      /\ target[w] \in ClusterIds /\ PinAgrees(w, target[w])
      /\ target[w] \in everManaged \intersect everDeletable
      /\ Permitted("capella_cluster_delete", call[w].human)
  BY DEF FindAppService, InCall, Deleting, IInv, LocalInv, Established
<1>2. CASE Refused(w, "capella_app_services_list")
  BY <1>1, <1>2, RefusedOK
<1>3. ASSUME HistoryGrows, NEW l \in {"deleteCluster", "deleteAppService"}, Continue(w, l)
      PROVE  LocalInv'
  BY <1>1, <1>3, ContinueOK DEF IInv, InCall, Deleting
<1>4. CASE ApiFault /\ Continue(w, "deleteCluster") /\ Undisturbed
  BY <1>3, <1>4, Frame, FaultBound DEF IInv, Undisturbed, historyVars, HistoryGrows
<1>5. CASE Reads(w, "capella_app_services_list")
           /\ \E l \in {"deleteCluster", "deleteAppService"} : Continue(w, l)
  BY <1>3, <1>5, ReadsOK, ReadsHistory
<1>6. CASE Reads(w, "capella_app_services_list") /\ Conclude(w, "waiting")
  BY <1>1, <1>6, ReadsConcludeOK DEF Answers
<1> QED BY <1>2, <1>4, <1>5, <1>6 DEF FindAppService, Undisturbed

-----------------------------------------------------------------------------
(* The requests that change something.                                      *)
LEMMA SetStateOK ==
    ASSUME CloudTypeOK, Remembered, NEW id \in ClusterIds, NEW st \in ClusterStates,
           Exists(id), SetState(id, st), UNCHANGED historyVars
    PROVE  cluster' \in [ClusterIds -> Clusters] /\ Remembered'
<1>1. \A i \in ClusterIds :
         /\ cluster'[i] = IF i = id THEN [cluster[i] EXCEPT !.state = st] ELSE cluster[i]
         /\ cluster[i] \in Clusters
  BY DEF SetState, CloudTypeOK
<1>2. \A i \in ClusterIds :
         /\ cluster'[i].project = cluster[i].project
         /\ cluster'[i].name = cluster[i].name
         /\ cluster'[i].marker = cluster[i].marker
         /\ cluster'[i].deletionProtection = cluster[i].deletionProtection
         /\ cluster'[i] \in Clusters
         /\ Alive(cluster'[i]) => Alive(cluster[i])
  BY <1>1 DEF Clusters, Exists
<1>3. cluster' \in [ClusterIds -> Clusters]
  BY <1>2 DEF SetState, CloudTypeOK
<1>4. Remembered'
  BY <1>2 DEF Remembered, ManagedNow, DeletableNow, ExpiredNow, IsDeletable, IsManaged,
              historyVars
<1> QED BY <1>3, <1>4

LEMMA WritesOK ==
    ASSUME IInv, NEW w \in Workers, NEW p \in Requests, NEW outcome \in Answers,
           pc[w] \in InCall, Writes(w, p, outcome),
           target[w] \in everManaged, PinAgrees(w, target[w]),
           p \in {"capella_app_service_delete", "capella_cluster_delete"} =>
               /\ target[w] \in everDeletable
               /\ Permitted("capella_cluster_delete", call[w].human),
           cluster' \in [ClusterIds -> Clusters], Remembered',
           appService' \in [ClusterIds -> AppServiceStates]
    PROVE  IInv'
<1>1. PICK o \in Answers \union Errors : Conclude(w, o) /\ (ApiFault \/ UNCHANGED faults)
  BY DEF Writes, Errors
<1>2. LocalInv'
  BY <1>1, ConcludeOK DEF IInv, Writes
<1>3. CloudTypeOK'
  BY <1>1, FaultBound DEF IInv, Writes, CloudTypeOK, historyVars
<1> DEFINE new == [what |-> p, id |-> target[w], op |-> call[w].op, human |-> call[w].human]
<1>4. call[w] \in Calls /\ call[w].op \in Ops /\ target[w] \in ClusterIds
  BY DEF IInv, LocalInv, WorkerTypeOK, Established, CloudTypeOK
<1>5. new \in Acts
  <2>1. call[w].human \in BOOLEAN
    BY <1>4 DEF Calls
  <2> QED BY <1>4, <2>1, Zenon DEF Acts
<1>6. call[w].op = "reap" => target[w] \in everExpired
  BY CloudAssumption DEF IInv, LocalInv, Established, PinAgrees, CloudTypeOK
<1>7. /\ new.id = target[w] /\ new.what = p /\ new.op = call[w].op
      /\ new.human = call[w].human
  OBVIOUS
<1>8. acts' = acts \union {new} /\ Permitted(p, call[w].human) /\ UNCHANGED historyVars
  BY DEF Writes
<1> HIDE DEF new
<1>9. ActsInv'
  BY <1>5, <1>6, <1>7, <1>8
     DEF IInv, ActsInv, OnlyManagedTouched, OnlyDeletableDestroyed, ReapOnlyExpired,
         CeilingHolds, Deletions, historyVars
<1> QED BY <1>2, <1>3, <1>9 DEF IInv

LEMMA DeletingHolds ==
    ASSUME IInv, NEW w \in Workers, pc[w] \in Deleting
    PROVE  /\ pc[w] \in InCall
           /\ target[w] \in ClusterIds /\ PinAgrees(w, target[w])
           /\ target[w] \in everManaged /\ target[w] \in everDeletable
           /\ Permitted("capella_cluster_delete", call[w].human)
BY DEF InCall, Deleting, IInv, LocalInv, Established

LEMMA DeleteAppServiceOK ==
    ASSUME IInv, NEW w \in Workers, DeleteAppService(w)
    PROVE  IInv'
<1>1. pc[w] \in Deleting
  BY DEF DeleteAppService, Deleting
<1>2. CASE Refused(w, "capella_app_service_delete")
  BY <1>1, <1>2, RefusedOK, DeletingHolds
<1>3. CASE Fails(w, "capella_app_service_delete")
  BY <1>1, <1>3, FailsOK, DeletingHolds
<1>4. CASE /\ appService' = [appService EXCEPT ![target[w]] = "destroying"]
           /\ Writes(w, "capella_app_service_delete", "app_service_deleting")
           /\ UNCHANGED cluster
  <2>1. appService' \in [ClusterIds -> AppServiceStates]
    BY <1>1, <1>4, DeletingHolds DEF IInv, CloudTypeOK, AppServiceStates
  <2>2. cluster' \in [ClusterIds -> Clusters] /\ Remembered'
    BY <1>4 DEF IInv, CloudTypeOK, Remembered, ManagedNow, DeletableNow, ExpiredNow,
                Writes, historyVars
  <2> QED BY <1>1, <1>4, <2>1, <2>2, DeletingHolds, WritesOK DEF Requests, Answers
<1>5. CASE Reads(w, "capella_app_service_delete") /\ Conclude(w, "capella_error")
  BY <1>1, <1>5, ReadsConcludeOK, DeletingHolds DEF Errors
<1> QED BY <1>2, <1>3, <1>4, <1>5 DEF DeleteAppService

LEMMA DeleteClusterOK ==
    ASSUME IInv, NEW w \in Workers, DeleteCluster(w)
    PROVE  IInv'
<1>1. pc[w] \in Deleting
  BY DEF DeleteCluster, Deleting
<1>2. CASE Refused(w, "capella_cluster_delete")
  BY <1>1, <1>2, RefusedOK, DeletingHolds
<1>3. CASE Fails(w, "capella_cluster_delete")
  BY <1>1, <1>3, FailsOK, DeletingHolds
<1>4. CASE /\ ClusterDeleteAccepted(target[w])
           /\ SetState(target[w], "destroying")
           /\ Writes(w, "capella_cluster_delete", "cluster_deleting")
           /\ UNCHANGED appService
  <2>1. cluster' \in [ClusterIds -> Clusters] /\ Remembered'
    BY <1>1, <1>4, SetStateOK, DeletingHolds
       DEF IInv, ClusterDeleteAccepted, ClusterStates, Writes
  <2>2. appService' \in [ClusterIds -> AppServiceStates]
    BY <1>4 DEF IInv, CloudTypeOK
  <2> QED BY <1>1, <1>4, <2>1, <2>2, DeletingHolds, WritesOK DEF Requests, Answers
<1>5. CASE Reads(w, "capella_cluster_delete") /\ Conclude(w, "capella_error")
  BY <1>1, <1>5, ReadsConcludeOK, DeletingHolds DEF Errors
<1> QED BY <1>2, <1>3, <1>4, <1>5 DEF DeleteCluster

LEMMA SwitchPowerOK ==
    ASSUME IInv, NEW w \in Workers, pc[w] = "power",
           NEW p \in {"capella_cluster_turn_off", "capella_cluster_turn_on"},
           NEW from \in {"healthy", "turnedOff"}, NEW to \in {"turningOff", "turningOn"},
           NEW already, NEW done \in Answers, NEW same \in Answers,
           SwitchPower(w, p, from, to, already, done, same)
    PROVE  IInv'
<1>1. /\ pc[w] \in InCall /\ target[w] \in ClusterIds /\ target[w] \in everManaged
      /\ PinAgrees(w, target[w])
  BY DEF InCall, IInv, LocalInv, Established
<1>2. CASE Refused(w, p)
  BY <1>1, <1>2, RefusedOK
<1>3. CASE Fails(w, p)
  BY <1>1, <1>3, FailsOK
<1>4. CASE /\ cluster[target[w]].state = from /\ SetState(target[w], to)
           /\ Writes(w, p, done) /\ UNCHANGED appService
  <2>1. cluster' \in [ClusterIds -> Clusters] /\ Remembered'
    BY <1>1, <1>4, SetStateOK DEF IInv, Exists, Alive, ClusterStates, Writes
  <2>2. appService' \in [ClusterIds -> AppServiceStates]
    BY <1>4 DEF IInv, CloudTypeOK
  <2> QED BY <1>1, <1>4, <2>1, <2>2, WritesOK DEF Requests
<1>5. CASE Reads(w, p) /\ \E o \in {same, "capella_error"} : Conclude(w, o)
  BY <1>1, <1>5, ReadsConcludeOK DEF Errors
<1> QED BY <1>2, <1>3, <1>4, <1>5 DEF SwitchPower

LEMMA PowerOK ==
    ASSUME IInv, NEW w \in Workers, Park(w) \/ Resume(w)
    PROVE  IInv'
<1>1. CASE Park(w)
  BY <1>1, SwitchPowerOK DEF Park, Answers
<1>2. CASE Resume(w)
  BY <1>2, SwitchPowerOK DEF Resume, Answers
<1> QED BY <1>1, <1>2

-----------------------------------------------------------------------------
(* The control plane, time, other sessions and people.                      *)
LEMMA WorldKeeps ==
    ASSUME IInv, Remember, UNCHANGED <<workerVars, acts>>,
           cluster' \in [ClusterIds -> Clusters],
           appService' \in [ClusterIds -> AppServiceStates],
           edits' \in 0..MaxEdits, faults' \in 0..MaxFaults
    PROVE  IInv'
<1>1. HistoryGrows
  BY DEF Remember, HistoryGrows
<1>2. CloudTypeOK'
  BY DEF IInv, CloudTypeOK, Remember, ManagedNow, DeletableNow, ExpiredNow
<1>3. Remembered'
  BY DEF Remember, Remembered
<1>4. LocalInv'
  BY <1>1, OthersOK DEF IInv, LocalInv, WorkerTypeOK, workerVars
<1>5. ActsInv'
  BY <1>1 DEF IInv, ActsInv, OnlyManagedTouched, OnlyDeletableDestroyed, ReapOnlyExpired,
              CeilingHolds, Deletions, HistoryGrows
<1> QED BY <1>2, <1>3, <1>4, <1>5 DEF IInv

LEMMA ProgressOK ==
    ASSUME IInv, NEW id \in ClusterIds, Progress(id), UNCHANGED <<workerVars, acts>>
    PROVE  IInv'
<1> USE DEF IInv, CloudTypeOK
<1>1. ASSUME NEW st \in ClusterStates, SetState(id, st)
      PROVE  cluster' \in [ClusterIds -> Clusters]
  BY <1>1 DEF SetState, Clusters
<1>2. ASSUME NEW st \in AppServiceStates, appService' = [appService EXCEPT ![id] = st]
      PROVE  appService' \in [ClusterIds -> AppServiceStates]
  BY <1>2
<1>3. cluster' \in [ClusterIds -> Clusters]
  BY <1>1 DEF Progress, ClusterStates
<1>4. appService' \in [ClusterIds -> AppServiceStates]
  BY <1>2 DEF Progress, AppServiceStates
<1> QED BY <1>3, <1>4, WorldKeeps DEF Progress

LEMMA OutsideOK ==
    ASSUME IInv, TtlElapses \/ EnvironmentCreated \/ HumanEdit,
           UNCHANGED <<workerVars, acts>>
    PROVE  IInv'
<1> USE DEF IInv, CloudTypeOK
<1>1. CASE TtlElapses
  <2>1. PICK id \in ClusterIds :
           /\ cluster[id].marker.life = "live"
           /\ cluster' = [cluster EXCEPT ![id].marker.life = "expired"]
    BY <1>1 DEF TtlElapses
  <2>2. [cluster[id].marker EXCEPT !.life = "expired"] \in Markers
    BY <2>1 DEF Clusters, Markers, NoMarker
  <2>3. [cluster[id] EXCEPT !.marker = [cluster[id].marker EXCEPT !.life = "expired"]]
           \in Clusters
    BY <2>2 DEF Clusters
  <2>4. cluster' \in [ClusterIds -> Clusters]
    BY <2>1, <2>3
  <2> QED BY <1>1, <2>4, WorldKeeps DEF TtlElapses
<1>2. CASE EnvironmentCreated
  <2>1. PICK id \in ClusterIds, p \in Projects, env \in Names, l \in {"pinned", "live"} :
           cluster' = [cluster EXCEPT ![id] =
                [project |-> p, name |-> ClusterName(env),
                 marker |-> [env |-> env, life |-> l],
                 state |-> "deploying", deletionProtection |-> FALSE]]
    BY <1>2 DEF EnvironmentCreated
  <2>2. ClusterName(env) \in Names
    BY PolicyAssumption
  <2>3. [env |-> env, life |-> l] \in Markers
    BY DEF Markers
  <2>4. [project |-> p, name |-> ClusterName(env), marker |-> [env |-> env, life |-> l],
         state |-> "deploying", deletionProtection |-> FALSE] \in Clusters
    BY <2>2, <2>3 DEF Clusters, ClusterStates
  <2>5. cluster' \in [ClusterIds -> Clusters]
    BY <2>1, <2>4
  <2> QED BY <1>2, <2>5, WorldKeeps DEF EnvironmentCreated
<1>3. CASE HumanEdit
  <2>1. PICK id \in ClusterIds :
           \/ \E n \in Names : cluster' = [cluster EXCEPT ![id].name = n]
           \/ \E m \in Markers : cluster' = [cluster EXCEPT ![id].marker = m]
           \/ \E b \in BOOLEAN : cluster' = [cluster EXCEPT ![id].deletionProtection = b]
    BY <1>3 DEF HumanEdit
  <2>2. cluster' \in [ClusterIds -> Clusters]
    <3>1. CASE \E n \in Names : cluster' = [cluster EXCEPT ![id].name = n]
      BY <3>1 DEF Clusters
    <3>2. CASE \E m \in Markers : cluster' = [cluster EXCEPT ![id].marker = m]
      BY <3>2 DEF Clusters
    <3>3. CASE \E b \in BOOLEAN : cluster' = [cluster EXCEPT ![id].deletionProtection = b]
      <4>1. PICK b \in BOOLEAN : cluster' = [cluster EXCEPT ![id].deletionProtection = b]
        BY <3>3
      <4>2. [cluster[id] EXCEPT !.deletionProtection = b] \in Clusters
        BY Zenon DEF Clusters
      <4> QED BY <4>1, <4>2
    <3> QED BY <2>1, <3>1, <3>2, <3>3
  <2>3. edits' \in 0..MaxEdits
    BY <1>3, CloudAssumption DEF HumanEdit
  <2> QED BY <1>3, <2>2, <2>3, WorldKeeps DEF HumanEdit
<1> QED BY <1>1, <1>2, <1>3

-----------------------------------------------------------------------------
LEMMA InitOK == Init => IInv
<1> SUFFICES ASSUME Init PROVE IInv
  OBVIOUS
<1>1. CloudTypeOK
  BY StartAssumption, CloudAssumption
     DEF Init, CloudInit, CloudTypeOK, AppServiceStates, ManagedNow, DeletableNow, ExpiredNow
<1>2. Remembered
  BY DEF Init, CloudInit, Remembered
<1>3. WorkerTypeOK
  BY DEF Init, WorkerTypeOK, PCs, Calls, NoCall, Sweeps, NoSweep, Results
<1>4. \A w \in Workers : Established(w)
  BY DEF Init, Established, InCall, Deleting, NoSweep
<1>5. ActsInv
  BY DEF Init, ActsInv, OnlyManagedTouched, OnlyDeletableDestroyed, ReapOnlyExpired,
         CeilingHolds, Deletions
<1> QED BY <1>1, <1>2, <1>3, <1>4, <1>5 DEF IInv, LocalInv

LEMMA StepOK == IInv /\ [Next]_vars => IInv'
<1> SUFFICES ASSUME IInv, [Next]_vars PROVE IInv'
  OBVIOUS
<1>1. CASE UNCHANGED vars
  <2>1. LocalInv'
    BY <1>1 DEF IInv, LocalInv, WorkerTypeOK, Established, PinAgrees, vars, cloudVars,
                workerVars
  <2> QED BY <1>1, <2>1, StillOK DEF vars
<1>2. ASSUME NEW w \in Workers, Runs(w) PROVE IInv'
  BY <1>2, ListProjectOK, NextEntryOK, LookupOK, FetchByIdOK, RefetchOK, FindAppServiceOK,
     DeleteAppServiceOK, DeleteClusterOK, PowerOK, ReturnOK DEF Runs
<1>3. ASSUME NEW w \in Workers,
             StartReap(w, AllowedProjects) \/ \E p \in Projects : StartReap(w, {p})
      PROVE  IInv'
  BY <1>3, StartReapOK, PolicyAssumption
<1>4. ASSUME World, UNCHANGED <<workerVars, acts>> PROVE IInv'
  BY <1>4, ProgressOK, OutsideOK DEF World
<1> QED BY <1>1, <1>2, <1>3, <1>4, StartCallOK DEF Next

LEMMA Invariance == Spec => []IInv
BY InitOK, StepOK, PTL DEF Spec

(* Every variable keeps its type.                                           *)
THEOREM TypeCorrect == Spec => []TypeOK
<1>1. IInv => TypeOK
  BY DEF IInv, TypeOK, LocalInv, ActsInv
<1> QED BY <1>1, Invariance, PTL

(* No request that changes a cluster ever reaches one that was at no time   *)
(* inside the sandbox.                                                      *)
THEOREM SandboxHolds == Spec => []OnlyManagedTouched
<1>1. IInv => OnlyManagedTouched
  BY DEF IInv, ActsInv
<1> QED BY <1>1, Invariance, PTL

(* Teardown, reap, park and resume, whatever other threads and people do    *)
(* between their requests: the types and the sandbox hold at every one.     *)
THEOREM LifecycleHolds == Spec => []LifecycleInv
BY TypeCorrect, SandboxHolds, PTL DEF LifecycleInv

(* Nothing that was at no time deletable is destroyed.                      *)
THEOREM DestroysOnlyDeletable == Spec => []OnlyDeletableDestroyed
<1>1. IInv => OnlyDeletableDestroyed
  BY DEF IInv, ActsInv
<1> QED BY <1>1, Invariance, PTL

(* A sweep destroys only what had expired, whatever people do to names and  *)
(* markers while it runs.                                                   *)
THEOREM ReapsOnlyExpired == Spec => []ReapOnlyExpired
<1>1. IInv => ReapOnlyExpired
  BY DEF IInv, ActsInv
<1> QED BY <1>1, Invariance, PTL

(* No composite reaches a primitive the operator restricted, and none       *)
(* destroys an App Service whose cluster it may not delete.                 *)
THEOREM CompositesRespectCeiling == Spec => []CeilingHolds
<1>1. IInv => CeilingHolds
  BY DEF IInv, ActsInv
<1> QED BY <1>1, Invariance, PTL

-----------------------------------------------------------------------------
(* That a sweep counts as reaped only what was deleted rests on one fact    *)
(* about the cloud: an App Service that is being destroyed, for which the   *)
(* sweep waits, is one the server has asked Capella to destroy.             *)
DeletedIds == {d.id : d \in Deletions}

ReapInv ==
    /\ ReapedMeansDeleted
    /\ \A id \in ClusterIds : appService[id] = "destroying" => id \in DeletedIds

(* Every step adds to the reports of the sweeps and to the App Services     *)
(* being destroyed only what has been deleted.                              *)
ReportsDeleted ==
    \A v \in Workers : sweep'[v].reaped \subseteq sweep[v].reaped \union DeletedIds'
DestroysDeleted ==
    \A id \in ClusterIds :
        appService'[id] = "destroying" => appService[id] = "destroying" \/ id \in DeletedIds'
ReapStep == acts \subseteq acts' /\ ReportsDeleted /\ DestroysDeleted

LEMMA ReapStepKeeps ==
    ASSUME ReapInv, ReapStep
    PROVE  ReapInv'
<1>1. DeletedIds \subseteq DeletedIds'
  BY DEF ReapStep, DeletedIds, Deletions
<1>2. ReapedMeansDeleted'
  BY <1>1 DEF ReapInv, ReapStep, ReportsDeleted, ReapedMeansDeleted, DeletedIds
<1>3. ASSUME NEW id \in ClusterIds, appService'[id] = "destroying" PROVE id \in DeletedIds'
  BY <1>1, <1>3 DEF ReapInv, ReapStep, DestroysDeleted
<1> QED BY <1>2, <1>3 DEF ReapInv

LEMMA ConcludeReports ==
    ASSUME LocalInv, NEW w \in Workers, NEW outcome, Conclude(w, outcome),
           call[w].op = "reap" /\ outcome \notin NothingDeleted \union {"composite_refused"}
               => call[w].pin \in DeletedIds'
    PROVE  ReportsDeleted
<1> USE DEF LocalInv, WorkerTypeOK
<1>1. CASE call[w].op = "reap" /\ outcome # "composite_refused"
  <2>1. sweep' = [sweep EXCEPT ![w] = Record(@, call[w].pin, outcome)]
    BY <1>1 DEF Conclude
  <2>2. Record(sweep[w], call[w].pin, outcome).reaped
           \subseteq sweep[w].reaped \union DeletedIds'
    BY <1>1 DEF Record, Sweeps
  <2> QED BY <2>1, <2>2 DEF ReportsDeleted
<1>2. CASE ~ (call[w].op = "reap" /\ outcome # "composite_refused")
  BY <1>2 DEF Conclude, ReportsDeleted
<1> QED BY <1>1, <1>2

(* Steps that leave the cloud's objects alone and end the call, if at all,  *)
(* with nothing deleted.                                                    *)
QuietEnd(w) ==
    /\ UNCHANGED <<appService, acts>>
    /\ \/ UNCHANGED sweep
       \/ \E o \in NothingDeleted \union {"composite_refused"} : Conclude(w, o)

LEMMA QuietEndReaps ==
    ASSUME IInv, NEW w \in Workers, QuietEnd(w)
    PROVE  ReapStep
<1>1. ReportsDeleted
  BY ConcludeReports DEF QuietEnd, ReportsDeleted, IInv
<1> QED BY <1>1 DEF QuietEnd, ReapStep, DestroysDeleted

LEMMA RefusalsAreQuiet ==
    ASSUME NEW w \in Workers, NEW p, Refused(w, p) \/ Fails(w, p)
    PROVE  QuietEnd(w)
BY DEF Refused, Fails, QuietEnd, NothingDeleted, cloudVars

LEMMA LookingReaps ==
    ASSUME IInv, NEW w \in Workers, Lookup(w) \/ FetchById(w) \/ Refetch(w)
    PROVE  ReapStep
<1>1. QuietEnd(w)
  <2>1. CASE Lookup(w)
    BY <2>1, RefusalsAreQuiet
       DEF Lookup, Reads, SettleOn, Continue, QuietEnd, NothingDeleted, cloudVars
  <2>2. CASE FetchById(w)
    BY <2>2, RefusalsAreQuiet
       DEF FetchById, Reads, SettleOn, QuietEnd, NothingDeleted, cloudVars
  <2>3. CASE Refetch(w)
    BY <2>3, RefusalsAreQuiet
       DEF Refetch, Reads, Continue, QuietEnd, NothingDeleted, cloudVars
  <2> QED BY <2>1, <2>2, <2>3
<1> QED BY <1>1, QuietEndReaps

LEMMA FindAppServiceReaps ==
    ASSUME IInv, ReapInv, NEW w \in Workers, FindAppService(w)
    PROVE  ReapStep
<1>1. CASE QuietEnd(w)
  BY <1>1, QuietEndReaps
<1>2. CASE /\ Reads(w, "capella_app_services_list")
           /\ AttachedAppService(target[w]) = "destroying"
           /\ Conclude(w, "waiting")
  <2>1. pc[w] \in Deleting
    BY DEF FindAppService, Deleting
  <2>2. target[w] \in DeletedIds'
    BY <1>2, <2>1, DeletingHolds
       DEF ReapInv, AttachedAppService, Reads, DeletedIds, Deletions
  <2>3. call[w].op = "reap" => call[w].pin = target[w]
    BY <2>1, DeletingHolds, CloudAssumption
       DEF IInv, LocalInv, Established, PinAgrees, CloudTypeOK, InCall, Deleting
  <2>4. ReportsDeleted
    BY <1>2, <2>2, <2>3, ConcludeReports DEF IInv
  <2> QED BY <1>2, <2>4 DEF ReapStep, DestroysDeleted, Reads, cloudVars
<1> QED BY <1>1, <1>2, RefusalsAreQuiet
        DEF FindAppService, Reads, Continue, QuietEnd, cloudVars

LEMMA DeletingReaps ==
    ASSUME IInv, NEW w \in Workers, DeleteAppService(w) \/ DeleteCluster(w)
    PROVE  ReapStep
<1>1. pc[w] \in Deleting
  BY DEF DeleteAppService, DeleteCluster, Deleting
<1>2. CASE QuietEnd(w)
  BY <1>2, QuietEndReaps
<1>3. ASSUME NEW p \in {"capella_app_service_delete", "capella_cluster_delete"},
             NEW outcome, Writes(w, p, outcome),
             \A id \in ClusterIds \ {target[w]} : appService'[id] = appService[id]
      PROVE  ReapStep
  <2>1. PICK o : Conclude(w, o)
    BY <1>3 DEF Writes
  <2>2. acts \subseteq acts' /\ target[w] \in DeletedIds'
    <3> DEFINE new == [what |-> p, id |-> target[w], op |-> call[w].op,
                       human |-> call[w].human]
    <3>1. new.what = p /\ new.id = target[w]
      OBVIOUS
    <3>2. acts' = acts \union {new}
      BY <1>3 DEF Writes
    <3> HIDE DEF new
    <3> QED BY <3>1, <3>2 DEF DeletedIds, Deletions
  <2>3. call[w].op = "reap" => call[w].pin = target[w]
    BY <1>1, DeletingHolds, CloudAssumption
       DEF IInv, LocalInv, Established, PinAgrees, CloudTypeOK, InCall, Deleting
  <2>4. ReportsDeleted
    BY <2>1, <2>2, <2>3, ConcludeReports DEF IInv
  <2> QED BY <1>3, <2>2, <2>4 DEF ReapStep, DestroysDeleted
<1>4. CASE DeleteAppService(w)
  <2>1. CASE /\ appService' = [appService EXCEPT ![target[w]] = "destroying"]
             /\ Writes(w, "capella_app_service_delete", "app_service_deleting")
    BY <1>3, <2>1 DEF IInv, CloudTypeOK
  <2> QED BY <1>2, <1>4, <2>1, RefusalsAreQuiet
          DEF DeleteAppService, Reads, QuietEnd, NothingDeleted, cloudVars
<1>5. CASE DeleteCluster(w)
  <2>1. CASE Writes(w, "capella_cluster_delete", "cluster_deleting") /\ UNCHANGED appService
    BY <1>3, <2>1
  <2> QED BY <1>2, <1>5, <2>1, RefusalsAreQuiet
          DEF DeleteCluster, Reads, QuietEnd, NothingDeleted, cloudVars
<1> QED BY <1>4, <1>5

LEMMA SwitchingReaps ==
    ASSUME IInv, NEW w \in Workers, call[w].op # "reap", NEW p, NEW from, NEW to,
           NEW already, NEW done, NEW same, SwitchPower(w, p, from, to, already, done, same)
    PROVE  ReapStep
<1>1. UNCHANGED <<appService, sweep>> /\ acts \subseteq acts'
  BY DEF SwitchPower, Refused, Fails, Reads, Writes, Conclude, cloudVars
<1> QED BY <1>1 DEF ReapStep, ReportsDeleted, DestroysDeleted

(* A sweep begins, goes to its next entry and returns with nothing counted  *)
(* as reaped that was not before.                                           *)
LEMMA LoopReaps ==
    ASSUME IInv, NEW w \in Workers,
           StartCall(w) \/ Return(w) \/ ListProject(w) \/ NextEntry(w)
    PROVE  ReapStep
<1> USE DEF IInv, LocalInv, WorkerTypeOK
<1>1. appService' = appService /\ acts' = acts
  <2>1. CASE StartCall(w) \/ Return(w) \/ NextEntry(w)
    BY <2>1 DEF StartCall, Return, NextEntry, cloudVars
  <2>2. CASE ListProject(w)
    BY <2>2 DEF ListProject, Reads, cloudVars
  <2> QED BY <2>1, <2>2
<1>2. ASSUME NEW s, sweep' = [sweep EXCEPT ![w] = s], s.reaped \subseteq sweep[w].reaped
      PROVE  ReportsDeleted
  BY <1>2 DEF ReportsDeleted
<1>3. ReportsDeleted
  <2>1. CASE StartCall(w)
    BY <2>1 DEF StartCall, ReportsDeleted
  <2>2. CASE Return(w)
    BY <1>2, <2>2 DEF Return, NoSweep
  <2>3. CASE ListProject(w)
    <3>1. CASE sweep' = [sweep EXCEPT ![w] = NoSweep]
      BY <1>2, <3>1 DEF NoSweep
    <3>2. CASE \E q \in sweep[w].todo : ProjectRead(w, q)
      <4>1. PICK q \in sweep[w].todo : ProjectRead(w, q)
        BY <3>2
      <4> DEFINE read == ReadInto(sweep[w], q)
      <4>2. read.reaped = sweep[w].reaped /\ Classified(read).reaped = sweep[w].reaped
        BY DEF ReadInto, Classified, Sweeps
      <4>3. \/ sweep' = [sweep EXCEPT ![w] = read]
            \/ sweep' = [sweep EXCEPT ![w] = Classified(read)]
        BY <4>1 DEF ProjectRead
      <4> HIDE DEF read
      <4> QED BY <1>2, <4>2, <4>3
    <3> QED BY <2>3, <3>1, <3>2 DEF ListProject
  <2>4. CASE NextEntry(w)
    <3>1. CASE UNCHANGED sweep
      BY <3>1 DEF ReportsDeleted
    <3>2. CASE \E e \in sweep[w].reapable : sweep' = [sweep EXCEPT ![w] = Without(@, e)]
      <4>1. PICK e \in sweep[w].reapable :
               sweep' = [sweep EXCEPT ![w] = Without(sweep[w], e)]
        BY <3>2
      <4>2. Without(sweep[w], e).reaped = sweep[w].reaped
        BY DEF Without, Sweeps
      <4> QED BY <1>2, <4>1, <4>2
    <3>3. UNCHANGED sweep \/ \E e \in sweep[w].reapable :
                                sweep' = [sweep EXCEPT ![w] = Without(@, e)]
      BY <2>4, Zenon DEF NextEntry
    <3> QED BY <3>1, <3>2, <3>3
  <2> QED BY <2>1, <2>2, <2>3, <2>4
<1> QED BY <1>1, <1>3 DEF ReapStep, DestroysDeleted

LEMMA StartReapReaps ==
    ASSUME IInv, NEW w \in Workers, NEW ps, StartReap(w, ps)
    PROVE  ReapStep
<1>1. sweep' = [sweep EXCEPT ![w] = [NoSweep EXCEPT !.todo = ps]]
  BY DEF StartReap
<1>2. ReportsDeleted
  BY <1>1 DEF NoSweep, ReportsDeleted, IInv, LocalInv, WorkerTypeOK
<1> QED BY <1>2 DEF StartReap, ReapStep, DestroysDeleted, cloudVars

LEMMA WorldReaps ==
    ASSUME IInv, World, UNCHANGED <<workerVars, acts>>
    PROVE  ReapStep
<1>1. DestroysDeleted
  BY DEF World, Progress, TtlElapses, EnvironmentCreated, HumanEdit, DestroysDeleted,
         IInv, CloudTypeOK
<1> QED BY <1>1 DEF ReapStep, ReportsDeleted, workerVars

LEMMA ReapInvInit == Init => ReapInv
BY DEF Init, CloudInit, ReapInv, ReapedMeansDeleted, NoSweep

LEMMA ReapInvStep == IInv /\ ReapInv /\ [Next]_vars => ReapInv'
<1> SUFFICES ASSUME IInv, ReapInv, [Next]_vars PROVE ReapStep
  BY ReapStepKeeps
<1>1. CASE UNCHANGED vars
  BY <1>1 DEF vars, cloudVars, workerVars, ReapStep, ReportsDeleted, DestroysDeleted
<1>2. ASSUME NEW w \in Workers, Park(w) \/ Resume(w) PROVE ReapStep
  BY <1>2, SwitchingReaps DEF Park, Resume
<1>3. ASSUME NEW w \in Workers, Runs(w) PROVE ReapStep
  BY <1>2, <1>3, LoopReaps, LookingReaps, FindAppServiceReaps, DeletingReaps DEF Runs
<1>4. ASSUME NEW w \in Workers,
             \/ StartCall(w)
             \/ StartReap(w, AllowedProjects)
             \/ \E p \in Projects : StartReap(w, {p})
      PROVE  ReapStep
  BY <1>4, LoopReaps, StartReapReaps
<1> QED BY <1>1, <1>3, <1>4, WorldReaps DEF Next

(* What a sweep reports as reaped is an environment on which Capella        *)
(* accepted a delete, though names and markers change under it and answers  *)
(* are lost.                                                                *)
THEOREM ReapedIsDeleted == Spec => []ReapedMeansDeleted
<1>1. ReapInv => ReapedMeansDeleted
  BY DEF ReapInv
<1> QED BY <1>1, ReapInvInit, ReapInvStep, Invariance, PTL DEF Spec

-----------------------------------------------------------------------------
(* What a sweep accounts for.                                               *)

(* Every expired environment the sweep has listed is still to be visited,   *)
(* is being torn down, was reaped or was refused, and only one of these.    *)
Waiting(s) == {e.id : e \in s.reapable}
Balanced(s, visited) ==
    /\ s.expired = Waiting(s) \union s.reaped \union s.refused \union visited
    /\ Waiting(s) \intersect (s.reaped \union s.refused) = {}
    /\ s.reaped \intersect s.refused = {}
    /\ visited \intersect (Waiting(s) \union s.reaped \union s.refused) = {}

(* An id was listed once, in the project its cluster has had ever since.    *)
ListedOnce(s) == \A e, f \in s.reapable : e.id = f.id => e = f
Placed(s) ==
    \A e \in s.reapable :
        /\ cluster[e.id].state # "unborn"
        /\ cluster[e.id].project = e.project
        /\ e.project \notin s.todo

Accounted(w) ==
    /\ ListedOnce(sweep[w])
    /\ pc[w] = "list" =>
         /\ sweep[w].reaped = {} /\ sweep[w].refused = {}
         /\ sweep[w].expired = Waiting(sweep[w])
         /\ Placed(sweep[w])
    /\ pc[w] = "sweep" => Balanced(sweep[w], {})
    /\ pc[w] \in InCall /\ call[w].op = "reap" => Balanced(sweep[w], {call[w].pin})
    /\ pc[w] = "done" /\ call[w].op = "reap" /\ result[w] # "composite_refused" =>
         /\ sweep[w].expired = sweep[w].reaped \union sweep[w].refused
         /\ sweep[w].reaped \intersect sweep[w].refused = {}

AccountInv == \A w \in Workers : Accounted(w)

(* A cluster is created once, in a project it stays in.                     *)
Permanent ==
    \A id \in ClusterIds : cluster[id].state # "unborn" =>
        cluster'[id].state # "unborn" /\ cluster'[id].project = cluster[id].project

LEMMA SetStatePermanent ==
    ASSUME IInv, NEW id \in ClusterIds, NEW st, st # "unborn", SetState(id, st)
    PROVE  Permanent
<1>1. [cluster[id] EXCEPT !.state = st].state = st
      /\ [cluster[id] EXCEPT !.state = st].project = cluster[id].project
  BY DEF IInv, CloudTypeOK, Clusters
<1> QED BY <1>1 DEF SetState, Permanent, IInv, CloudTypeOK

LEMMA WorldPermanent ==
    ASSUME IInv, World
    PROVE  Permanent
<1> USE DEF IInv, CloudTypeOK
<1>1. ASSUME NEW id \in ClusterIds, NEW object, cluster' = [cluster EXCEPT ![id] = object],
             cluster[id].state # "unborn" =>
                 object.state # "unborn" /\ object.project = cluster[id].project
      PROVE  Permanent
  BY <1>1 DEF Permanent
<1>2. ASSUME NEW id \in ClusterIds, Progress(id) PROVE Permanent
  <2>1. CASE UNCHANGED cluster
    BY <2>1 DEF Permanent
  <2>2. CASE \E st \in ClusterStates \ {"unborn"} : SetState(id, st)
    BY <2>2, SetStatePermanent
  <2> QED BY <1>2, <2>1, <2>2 DEF Progress, ClusterStates
<1>3. CASE TtlElapses
  <2>1. PICK id \in ClusterIds : cluster' = [cluster EXCEPT ![id].marker.life = "expired"]
    BY <1>3 DEF TtlElapses
  <2>2. PICK object : object = [cluster[id] EXCEPT !.marker.life = "expired"]
    OBVIOUS
  <2>3. object.state = cluster[id].state /\ object.project = cluster[id].project
    BY <2>2 DEF Clusters
  <2>4. cluster' = [cluster EXCEPT ![id] = object]
    BY <2>1, <2>2
  <2> QED BY <1>1, <2>3, <2>4
<1>4. CASE EnvironmentCreated
  BY <1>1, <1>4 DEF EnvironmentCreated
<1>5. CASE HumanEdit
  <2>1. PICK id \in ClusterIds :
           \/ \E n \in Names : cluster' = [cluster EXCEPT ![id].name = n]
           \/ \E m \in Markers : cluster' = [cluster EXCEPT ![id].marker = m]
           \/ \E b \in BOOLEAN : cluster' = [cluster EXCEPT ![id].deletionProtection = b]
    BY <1>5 DEF HumanEdit
  <2>2. PICK object : /\ cluster' = [cluster EXCEPT ![id] = object]
                      /\ \/ \E n \in Names : object = [cluster[id] EXCEPT !.name = n]
                         \/ \E m \in Markers : object = [cluster[id] EXCEPT !.marker = m]
                         \/ \E b \in BOOLEAN :
                               object = [cluster[id] EXCEPT !.deletionProtection = b]
    BY <2>1
  <2>3. object.state = cluster[id].state /\ object.project = cluster[id].project
    BY <2>2 DEF Clusters
  <2> QED BY <1>1, <2>2, <2>3
<1> QED BY <1>2, <1>3, <1>4, <1>5 DEF World

(* A thread that does not move keeps its account.                           *)
LEMMA OthersAccount ==
    ASSUME IInv, Permanent, NEW v \in Workers, Accounted(v), pc'[v] = pc[v],
           call'[v] = call[v], sweep'[v] = sweep[v], result'[v] = result[v]
    PROVE  Accounted(v)'
<1>1. PICK s : s = sweep[v]
  OBVIOUS
<1>2. s = sweep'[v] /\ s \in Sweeps
  BY <1>1 DEF IInv, LocalInv, WorkerTypeOK
<1>3. \A e \in s.reapable : e.id \in ClusterIds
  BY <1>2 DEF Sweeps, Entries
<1>4. Placed(s) => Placed(s)'
  BY <1>3 DEF Placed, Permanent
<1>5. ListedOnce(s) = ListedOnce(s)' /\ Waiting(s) = Waiting(s)'
      /\ \A visited : Balanced(s, visited) = Balanced(s, visited)'
  BY DEF ListedOnce, Waiting, Balanced
<1> QED BY <1>1, <1>2, <1>4, <1>5 DEF Accounted

LEMMA MovesAccount ==
    ASSUME IInv, AccountInv, Permanent, NEW w \in Workers, Accounted(w)',
           NEW l, NEW c, NEW s, NEW o,
           pc' = [pc EXCEPT ![w] = l], call' = [call EXCEPT ![w] = c],
           sweep' = [sweep EXCEPT ![w] = s], result' = [result EXCEPT ![w] = o]
    PROVE  AccountInv'
<1> SUFFICES ASSUME NEW v \in Workers, v # w PROVE Accounted(v)'
  BY DEF AccountInv
<1>1. /\ pc'[v] = pc[v] /\ call'[v] = call[v]
      /\ sweep'[v] = sweep[v] /\ result'[v] = result[v]
  BY DEF IInv, LocalInv, WorkerTypeOK
<1> QED BY <1>1, OthersAccount DEF AccountInv

(* What a thread has in hand when it stops, told without the variables.     *)
LEMMA Stops ==
    ASSUME IInv, AccountInv, Permanent, NEW w \in Workers,
           NEW l, NEW c, NEW s, NEW o,
           pc' = [pc EXCEPT ![w] = l], call' = [call EXCEPT ![w] = c],
           sweep' = [sweep EXCEPT ![w] = s], result' = [result EXCEPT ![w] = o],
           ListedOnce(s),
           l # "list",
           l = "sweep" => Balanced(s, {}),
           l \in InCall /\ c.op = "reap" => Balanced(s, {c.pin}),
           l = "done" /\ c.op = "reap" /\ o # "composite_refused" =>
               /\ s.expired = s.reaped \union s.refused
               /\ s.reaped \intersect s.refused = {}
    PROVE  AccountInv'
<1>1. pc'[w] = l /\ call'[w] = c /\ sweep'[w] = s /\ result'[w] = o
  BY DEF IInv, LocalInv, WorkerTypeOK
<1>2. Accounted(w)'
  BY <1>1 DEF Accounted, ListedOnce, Balanced, Waiting
<1> QED BY <1>2, MovesAccount

LEMMA RecordBalances ==
    ASSUME NEW s \in Sweeps, NEW id, NEW outcome, Balanced(s, {id}), ListedOnce(s)
    PROVE  Balanced(Record(s, id, outcome), {}) /\ ListedOnce(Record(s, id, outcome))
<1>1. PICK r : r = Record(s, id, outcome)
  OBVIOUS
<1>2. /\ r.expired = s.expired /\ r.reapable = s.reapable
      /\ \/ r.reaped = s.reaped \union {id} /\ r.refused = s.refused
         \/ r.refused = s.refused \union {id} /\ r.reaped = s.reaped
  BY <1>1 DEF Record, Sweeps
<1>3. Waiting(r) = Waiting(s) /\ ListedOnce(r)
  BY <1>2 DEF Waiting, ListedOnce
<1> HIDE DEF Waiting
<1>4. Balanced(r, {})
  BY <1>2, <1>3 DEF Balanced
<1> QED BY <1>1, <1>3, <1>4

LEMMA ConcludeAccounts ==
    ASSUME IInv, AccountInv, Permanent, NEW w \in Workers, NEW outcome,
           pc[w] \in InCall, Conclude(w, outcome)
    PROVE  AccountInv'
<1> USE DEF IInv, LocalInv, WorkerTypeOK
<1>1. PICK s \in Sweeps : s = sweep[w]
  OBVIOUS
<1>2. ListedOnce(s) /\ (call[w].op = "reap" => Balanced(s, {call[w].pin}))
  BY <1>1 DEF AccountInv, Accounted
<1>3. call' = [call EXCEPT ![w] = call[w]]
  BY DEF Conclude
<1>4. CASE call[w].op = "reap" /\ outcome # "composite_refused"
  <2>1. /\ pc' = [pc EXCEPT ![w] = "sweep"]
        /\ sweep' = [sweep EXCEPT ![w] = Record(s, call[w].pin, outcome)]
        /\ result' = [result EXCEPT ![w] = result[w]]
    BY <1>1, <1>4 DEF Conclude, Goto
  <2>2. Balanced(Record(s, call[w].pin, outcome), {})
        /\ ListedOnce(Record(s, call[w].pin, outcome))
    BY <1>2, <1>4, RecordBalances
  <2> QED BY <1>3, <2>1, <2>2, Stops DEF InCall, Deleting
<1>5. CASE ~ (call[w].op = "reap" /\ outcome # "composite_refused")
  <2>1. /\ pc' = [pc EXCEPT ![w] = "done"]
        /\ sweep' = [sweep EXCEPT ![w] = s]
        /\ result' = [result EXCEPT ![w] = outcome]
    BY <1>1, <1>5 DEF Conclude, Goto
  <2> QED BY <1>2, <1>3, <1>5, <2>1, Stops DEF InCall, Deleting
<1> QED BY <1>4, <1>5

LEMMA GoesOnAccounts ==
    ASSUME IInv, AccountInv, Permanent, NEW w \in Workers, pc[w] \in InCall,
           NEW l \in InCall, Goto(w, l), UNCHANGED <<call, sweep, result>>
    PROVE  AccountInv'
<1> USE DEF IInv, LocalInv, WorkerTypeOK
<1>1. PICK s : s = sweep[w]
  OBVIOUS
<1>2. ListedOnce(s) /\ (call[w].op = "reap" => Balanced(s, {call[w].pin}))
  BY <1>1 DEF AccountInv, Accounted
<1>3. /\ pc' = [pc EXCEPT ![w] = l] /\ call' = [call EXCEPT ![w] = call[w]]
      /\ sweep' = [sweep EXCEPT ![w] = s] /\ result' = [result EXCEPT ![w] = result[w]]
  BY <1>1 DEF Goto
<1>4. l \notin {"list", "sweep", "done"}
  BY DEF InCall, Deleting
<1>5. PICK c : c = call[w]
  OBVIOUS
<1>6. call' = [call EXCEPT ![w] = c] /\ (c.op = "reap" => Balanced(s, {c.pin}))
  BY <1>2, <1>3, <1>5
<1> HIDE DEF IInv, LocalInv, WorkerTypeOK
<1> QED BY <1>2, <1>3, <1>4, <1>6, Stops

(* The requests of one teardown, park or resume: each ends the call or goes *)
(* on to the next request.                                                  *)
LEMMA InCallAccounts ==
    ASSUME IInv, AccountInv, NEW w \in Workers,
           \/ Lookup(w) \/ FetchById(w) \/ Refetch(w) \/ FindAppService(w)
           \/ DeleteAppService(w) \/ DeleteCluster(w) \/ Park(w) \/ Resume(w)
    PROVE  AccountInv'
<1>1. pc[w] \in InCall
  BY DEF Lookup, FetchById, Refetch, FindAppService, DeleteAppService, DeleteCluster, Park,
         Resume, InCall, Deleting
<1>2. Permanent
  <2>1. CASE UNCHANGED cluster
    BY <2>1 DEF Permanent
  <2>2. CASE /\ pc[w] \in {"power", "deleteCluster"}
             /\ \E st \in {"destroying", "turningOff", "turningOn"} : SetState(target[w], st)
    <3>1. target[w] \in ClusterIds
      BY <2>2 DEF IInv, LocalInv, Established, Deleting
    <3> QED BY <2>2, <3>1, SetStatePermanent
  <2> QED BY <2>1, <2>2 DEF Lookup, FetchById, Refetch, FindAppService, DeleteAppService,
             DeleteCluster, Park, Resume, SwitchPower, Refused, Fails, Reads, cloudVars
<1>3. \/ \E outcome : Conclude(w, outcome)
      \/ \E l \in InCall : Goto(w, l) /\ UNCHANGED <<call, sweep, result>>
  <2>1. ASSUME NEW p, NEW outcome, Refused(w, p) \/ Fails(w, p) \/ Writes(w, p, outcome)
        PROVE  \E o : Conclude(w, o)
    BY <2>1 DEF Refused, Fails, Writes
  <2>2. CASE Lookup(w) \/ FetchById(w) \/ Refetch(w) \/ FindAppService(w)
    BY <2>1, <2>2 DEF Lookup, FetchById, Refetch, FindAppService, SettleOn, Continue, InCall,
       Deleting
  <2>3. CASE DeleteAppService(w) \/ DeleteCluster(w) \/ Park(w) \/ Resume(w)
    BY <2>1, <2>3 DEF DeleteAppService, DeleteCluster, Park, Resume, SwitchPower
  <2> QED BY <2>2, <2>3
<1> QED BY <1>1, <1>2, <1>3, ConcludeAccounts, GoesOnAccounts

(* The loop of a sweep, and the beginning and the end of a call.            *)
LEMMA ReadAccounts ==
    ASSUME IInv, NEW s \in Sweeps, NEW p \in s.todo, ListedOnce(s), Placed(s),
           s.reaped = {}, s.refused = {}, s.expired = Waiting(s)
    PROVE  LET read == ReadInto(s, p) IN
           /\ read \in Sweeps /\ ListedOnce(read) /\ Placed(read)
           /\ read.reaped = {} /\ read.refused = {} /\ read.expired = Waiting(read)
<1> DEFINE new == {[id |-> id, project |-> p, env |-> cluster[id].marker.env]
                      : id \in ExpiredIn(p)}
           read == ReadInto(s, p)
<1>1. \A id \in ExpiredIn(p) :
         /\ id \in ClusterIds /\ cluster[id].state # "unborn" /\ cluster[id].project = p
         /\ cluster[id].marker.env \in Names \union {BlankEnv}
  BY DEF ExpiredIn, Listed, Exists, Alive, IInv, CloudTypeOK, Clusters, Markers, NoMarker
<1>2. /\ \A e \in new : e.id \in ExpiredIn(p) /\ e.project = p
                        /\ e.env = cluster[e.id].marker.env
      /\ \A id \in ExpiredIn(p) : \E e \in new : e.id = id
  <2> DEFINE entry(id) == [id |-> id, project |-> p, env |-> cluster[id].marker.env]
  <2>1. \A id : entry(id).id = id /\ entry(id).project = p
                /\ entry(id).env = cluster[id].marker.env
    OBVIOUS
  <2>2. new = {entry(id) : id \in ExpiredIn(p)}
    OBVIOUS
  <2> HIDE DEF entry, new
  <2>3. ASSUME NEW e \in new
        PROVE  e.id \in ExpiredIn(p) /\ e.project = p /\ e.env = cluster[e.id].marker.env
    <3>1. PICK id \in ExpiredIn(p) : e = entry(id)
      BY <2>2
    <3> QED BY <2>1, <3>1
  <2>4. ASSUME NEW id \in ExpiredIn(p) PROVE \E e \in new : e.id = id
    <3>1. entry(id) \in new
      BY <2>2
    <3> QED BY <2>1, <3>1
  <2> QED BY <2>3, <2>4
<1>3. new \in SUBSET Entries
  BY <1>1 DEF Entries, Sweeps
<1>4. \A e, f \in new : e.id = f.id => e = f
  BY <1>2, <1>3 DEF Entries
<1> HIDE DEF new
<1>5. read = [s EXCEPT !.todo = @ \ {p}, !.expired = @ \union ExpiredIn(p),
                       !.reapable = @ \union new]
  BY DEF ReadInto, new
<1> HIDE DEF read
<1>6. /\ read \in Sweeps /\ read.todo = s.todo \ {p}
      /\ read.expired = s.expired \union ExpiredIn(p) /\ read.reapable = s.reapable \union new
      /\ read.reaped = {} /\ read.refused = {}
  BY <1>1, <1>3, <1>5 DEF Sweeps
<1>7. ListedOnce(read)
  <2> SUFFICES ASSUME NEW e \in read.reapable, NEW f \in read.reapable, e.id = f.id
               PROVE  e = f
    BY DEF ListedOnce
  <2>1. ASSUME NEW a \in s.reapable, NEW b \in new PROVE a.id # b.id
    BY <1>1, <1>2, <2>1 DEF Placed
  <2> QED BY <1>4, <1>6, <2>1 DEF ListedOnce
<1>8. Placed(read)
  BY <1>1, <1>2, <1>6 DEF Placed
<1>9. read.expired = Waiting(read)
  <2>1. \A id : id \in Waiting(read) <=> id \in Waiting(s) \/ id \in ExpiredIn(p)
    BY <1>2, <1>6 DEF Waiting
  <2> HIDE DEF Waiting
  <2> QED BY <1>6, <2>1
<1> QED BY <1>6, <1>7, <1>8, <1>9 DEF read

LEMMA ClassifiedBalances ==
    ASSUME NEW s \in Sweeps, ListedOnce(s), s.reaped = {}, s.refused = {},
           s.expired = Waiting(s)
    PROVE  ListedOnce(Classified(s)) /\ Balanced(Classified(s), {})
<1> DEFINE named == {e \in s.reapable : e.env # BlankEnv}
           nameless == {e.id : e \in {f \in s.reapable : f.env = BlankEnv}}
<1>1. PICK c : c = Classified(s)
  OBVIOUS
<1>2. /\ c.reapable = named /\ c.refused = nameless /\ c.reaped = {}
      /\ c.expired = s.expired
  BY <1>1 DEF Classified, Sweeps
<1>3. /\ \A id : id \in nameless <=> \E e \in s.reapable : e.env = BlankEnv /\ e.id = id
      /\ \A id : id \in Waiting(s) <=> \E e \in s.reapable : e.id = id
      /\ \A id : id \in Waiting(c) <=> \E e \in s.reapable : e.env # BlankEnv /\ e.id = id
  BY <1>2 DEF Waiting
<1>4. ListedOnce(c)
  BY <1>2 DEF ListedOnce
<1> HIDE DEF named, nameless, Waiting
<1>5. Waiting(c) \intersect nameless = {}
  BY <1>3 DEF ListedOnce
<1>6. Waiting(s) = Waiting(c) \union nameless
  BY <1>3
<1>7. Balanced(c, {})
  BY <1>2, <1>5, <1>6 DEF Balanced
<1> QED BY <1>1, <1>4, <1>7

LEMMA ListProjectAccounts ==
    ASSUME IInv, AccountInv, NEW w \in Workers, ListProject(w)
    PROVE  AccountInv'
<1> USE DEF IInv, LocalInv, WorkerTypeOK
<1>1. /\ pc[w] = "list" /\ cluster' = cluster
      /\ call' = [call EXCEPT ![w] = call[w]]
  BY DEF ListProject, Reads, cloudVars
<1>2. Permanent
  BY <1>1 DEF Permanent
<1>3. CASE \E outcome \in {"composite_refused", "capella_error"} :
             /\ Goto(w, "done")
             /\ result' = [result EXCEPT ![w] = outcome]
             /\ sweep' = [sweep EXCEPT ![w] = NoSweep]
  <2>1. /\ ListedOnce(NoSweep) /\ NoSweep.expired = {} /\ NoSweep.reaped = {}
        /\ NoSweep.refused = {}
    BY DEF NoSweep, ListedOnce
  <2>2. PICK none : none = NoSweep
    OBVIOUS
  <2>3. PICK outcome \in {"composite_refused", "capella_error"} :
             /\ pc' = [pc EXCEPT ![w] = "done"]
             /\ result' = [result EXCEPT ![w] = outcome]
             /\ sweep' = [sweep EXCEPT ![w] = none]
    BY <1>3, <2>2 DEF Goto
  <2>4. PICK c : call' = [call EXCEPT ![w] = c]
    BY <1>1
  <2>5. /\ "done" # "list" /\ "done" # "sweep" /\ "done" \notin InCall
        /\ none.expired = none.reaped \union none.refused
        /\ none.reaped \intersect none.refused = {} /\ ListedOnce(none)
    BY <2>1, <2>2 DEF InCall, Deleting
  <2> HIDE DEF IInv, LocalInv, WorkerTypeOK
  <2> QED BY <1>2, <2>3, <2>4, <2>5, Stops
<1>4. CASE (\E p \in sweep[w].todo : ProjectRead(w, p)) /\ UNCHANGED result
  <2>1. PICK p \in sweep[w].todo : ProjectRead(w, p)
    BY <1>4
  <2>2. PICK s \in Sweeps : s = sweep[w]
    OBVIOUS
  <2>3. PICK read : read = ReadInto(s, p)
    OBVIOUS
  <2>4. /\ read \in Sweeps /\ ListedOnce(read) /\ Placed(read)
        /\ read.reaped = {} /\ read.refused = {} /\ read.expired = Waiting(read)
    BY <1>1, <2>1, <2>2, <2>3, ReadAccounts DEF AccountInv, Accounted
  <2>5. result' = [result EXCEPT ![w] = result[w]]
    BY <1>4
  <2>6. CASE read.todo = {}
    <3>1. /\ sweep' = [sweep EXCEPT ![w] = Classified(read)]
          /\ pc' = [pc EXCEPT ![w] = "sweep"]
      BY <2>1, <2>2, <2>3, <2>6 DEF ProjectRead, Goto
    <3>2. ListedOnce(Classified(read)) /\ Balanced(Classified(read), {})
      BY <2>4, ClassifiedBalances
    <3>3. "sweep" \notin InCall
      BY DEF InCall, Deleting
    <3> HIDE DEF IInv, LocalInv, WorkerTypeOK
    <3> QED BY <1>1, <1>2, <2>5, <3>1, <3>2, <3>3, Stops
  <2>7. CASE read.todo # {}
    <3>1. /\ sweep' = [sweep EXCEPT ![w] = read] /\ pc' = [pc EXCEPT ![w] = "list"]
      BY <2>1, <2>2, <2>3, <2>7 DEF ProjectRead, Goto
    <3>2. sweep'[w] = read /\ pc'[w] = "list" /\ "list" \notin InCall
      BY <3>1 DEF InCall, Deleting
    <3>3. ListedOnce(read)' /\ Placed(read)' /\ read.expired = Waiting(read)'
      BY <1>1, <2>4 DEF ListedOnce, Placed, Waiting
    <3>4. Accounted(w)'
      BY <2>4, <3>2, <3>3 DEF Accounted
    <3> HIDE DEF IInv, LocalInv, WorkerTypeOK
    <3> QED BY <1>1, <1>2, <2>5, <3>1, <3>4, MovesAccount
  <2> QED BY <2>6, <2>7
<1> QED BY <1>3, <1>4 DEF ListProject

LEMMA NextEntryAccounts ==
    ASSUME IInv, AccountInv, NEW w \in Workers, NextEntry(w)
    PROVE  AccountInv'
<1> USE DEF IInv, LocalInv, WorkerTypeOK
<1>1. PICK s \in Sweeps : s = sweep[w]
  OBVIOUS
<1>2. /\ ListedOnce(s) /\ Balanced(s, {})
  BY <1>1 DEF NextEntry, AccountInv, Accounted
<1>3. Permanent
  BY DEF NextEntry, cloudVars, Permanent
<1>4. CASE \E e \in sweep[w].reapable :
             /\ sweep' = [sweep EXCEPT ![w] = Without(@, e)]
             /\ call' = [call EXCEPT ![w] = TeardownOf(w, e)]
             /\ Goto(w, "lookup")
             /\ UNCHANGED result
  <2>1. PICK e \in s.reapable :
             /\ sweep' = [sweep EXCEPT ![w] = Without(s, e)]
             /\ call' = [call EXCEPT ![w] = TeardownOf(w, e)]
             /\ pc' = [pc EXCEPT ![w] = "lookup"]
             /\ result' = [result EXCEPT ![w] = result[w]]
    BY <1>1, <1>4 DEF Goto
  <2>2. PICK rest : rest = Without(s, e)
    OBVIOUS
  <2>3. /\ rest.reapable = s.reapable \ {e} /\ rest.expired = s.expired
        /\ rest.reaped = s.reaped /\ rest.refused = s.refused
    BY <2>2 DEF Without, Sweeps
  <2>4. /\ ListedOnce(rest) /\ e.id \notin Waiting(rest)
        /\ Waiting(s) = Waiting(rest) \union {e.id}
    BY <1>2, <2>3 DEF ListedOnce, Waiting
  <2> HIDE DEF Waiting
  <2>5. Balanced(rest, {e.id})
    BY <1>2, <2>3, <2>4 DEF Balanced
  <2>6. PICK c : c = TeardownOf(w, e)
    OBVIOUS
  <2>7. c.pin = e.id /\ call' = [call EXCEPT ![w] = c]
    BY <2>1, <2>6 DEF TeardownOf
  <2> HIDE DEF IInv, LocalInv, WorkerTypeOK
  <2> QED BY <1>3, <2>1, <2>2, <2>4, <2>5, <2>7, Stops
<1>5. CASE /\ sweep[w].reapable = {} /\ Goto(w, "done")
           /\ result' = [result EXCEPT ![w] = "swept"] /\ UNCHANGED <<sweep, call>>
  <2>1. /\ sweep' = [sweep EXCEPT ![w] = s] /\ call' = [call EXCEPT ![w] = call[w]]
        /\ pc' = [pc EXCEPT ![w] = "done"] /\ result' = [result EXCEPT ![w] = "swept"]
    BY <1>1, <1>5 DEF Goto
  <2>2. Waiting(s) = {}
    BY <1>1, <1>5 DEF Waiting
  <2>3. s.expired = s.reaped \union s.refused /\ s.reaped \intersect s.refused = {}
    BY <1>2, <2>2 DEF Balanced
  <2>4. "done" \notin InCall
    BY DEF InCall, Deleting
  <2> HIDE DEF IInv, LocalInv, WorkerTypeOK
  <2> QED BY <1>2, <1>3, <2>1, <2>3, <2>4, Stops
<1> QED BY <1>4, <1>5 DEF NextEntry

LEMMA CallsAccount ==
    ASSUME IInv, AccountInv, NEW w \in Workers,
           \/ StartCall(w) \/ Return(w)
           \/ \E ps \in SUBSET Projects : StartReap(w, ps)
    PROVE  AccountInv'
<1> USE DEF IInv, LocalInv, WorkerTypeOK
<1>1. Permanent
  BY DEF StartCall, Return, StartReap, cloudVars, Permanent
<1>2. CASE StartCall(w)
  <2>1. PICK s : s = sweep[w]
    OBVIOUS
  <2>2. PICK c : call' = [call EXCEPT ![w] = c] /\ c.op # "reap"
    <3>1. PICK op \in Ops \ {"reap"}, env \in EnvArgs, p \in Projects, h \in Presence :
             call' = [call EXCEPT ![w] = [op |-> op, env |-> env, project |-> p,
                                          pin |-> NoId, human |-> h]]
      BY <1>2 DEF StartCall
    <3>2. PICK c : c = [op |-> op, env |-> env, project |-> p, pin |-> NoId, human |-> h]
      OBVIOUS
    <3>3. c.op = op
      BY <3>2
    <3> QED BY <3>1, <3>2, <3>3
  <2>3. /\ pc' = [pc EXCEPT ![w] = "lookup"] /\ sweep' = [sweep EXCEPT ![w] = s]
        /\ result' = [result EXCEPT ![w] = result[w]] /\ ListedOnce(s)
    BY <1>2, <2>1 DEF StartCall, Goto, AccountInv, Accounted
  <2> HIDE DEF IInv, LocalInv, WorkerTypeOK
  <2> QED BY <1>1, <2>2, <2>3, Stops
<1>3. CASE Return(w)
  <2>1. PICK s : s = NoSweep
    OBVIOUS
  <2>2. ListedOnce(s)
    BY <2>1 DEF NoSweep, ListedOnce
  <2>3. /\ pc' = [pc EXCEPT ![w] = "idle"] /\ sweep' = [sweep EXCEPT ![w] = s]
        /\ result' = [result EXCEPT ![w] = "none"] /\ call' = [call EXCEPT ![w] = NoCall]
        /\ "idle" \notin InCall
    BY <1>3, <2>1 DEF Return, Goto, InCall, Deleting
  <2> HIDE DEF IInv, LocalInv, WorkerTypeOK
  <2> QED BY <1>1, <2>2, <2>3, Stops
<1>4. ASSUME NEW ps \in SUBSET Projects, StartReap(w, ps) PROVE AccountInv'
  <2>1. PICK s : s = [NoSweep EXCEPT !.todo = ps]
    OBVIOUS
  <2>2. s.reapable = {} /\ s.reaped = {} /\ s.refused = {} /\ s.expired = {}
    BY <2>1 DEF NoSweep
  <2>3. PICK c : call' = [call EXCEPT ![w] = c]
    BY <1>4 DEF StartReap
  <2>4. /\ pc' = [pc EXCEPT ![w] = "list"] /\ sweep' = [sweep EXCEPT ![w] = s]
        /\ result' = [result EXCEPT ![w] = result[w]] /\ "list" \notin InCall
    BY <1>4, <2>1 DEF StartReap, Goto, InCall, Deleting
  <2>5. pc'[w] = "list" /\ sweep'[w] = s
    BY <2>4
  <2>6. Accounted(w)'
    BY <2>2, <2>4, <2>5 DEF Accounted, ListedOnce, Waiting, Placed
  <2> HIDE DEF IInv, LocalInv, WorkerTypeOK
  <2> QED BY <1>1, <2>3, <2>4, <2>6, MovesAccount
<1> QED BY <1>2, <1>3, <1>4

LEMMA AccountInvInit == Init => AccountInv
BY DEF Init, AccountInv, Accounted, ListedOnce, NoSweep, InCall, Deleting

LEMMA AccountInvStep == IInv /\ AccountInv /\ [Next]_vars => AccountInv'
<1> SUFFICES ASSUME IInv, AccountInv, [Next]_vars PROVE AccountInv'
  OBVIOUS
<1>1. ASSUME Permanent, UNCHANGED workerVars PROVE AccountInv'
  BY <1>1, OthersAccount DEF AccountInv, workerVars
<1>2. CASE UNCHANGED vars
  BY <1>1, <1>2 DEF vars, cloudVars, Permanent
<1>3. ASSUME NEW w \in Workers, Runs(w) PROVE AccountInv'
  BY <1>3, ListProjectAccounts, NextEntryAccounts, InCallAccounts, CallsAccount DEF Runs
<1>4. ASSUME NEW w \in Workers,
             \/ StartCall(w)
             \/ StartReap(w, AllowedProjects)
             \/ \E p \in Projects : StartReap(w, {p})
      PROVE  AccountInv'
  BY <1>4, CallsAccount, PolicyAssumption
<1> QED BY <1>1, <1>2, <1>3, <1>4, WorldPermanent DEF Next

(* Whatever fails, is renamed, expires or is created while a sweep runs: it *)
(* reports each expired environment it listed exactly once.                 *)
THEOREM SweepsAccount == Spec => []SweepAccounts
<1>1. AccountInv => SweepAccounts
  BY DEF AccountInv, Accounted, SweepAccounts
<1> QED BY <1>1, AccountInvInit, AccountInvStep, Invariance, PTL DEF Spec

-----------------------------------------------------------------------------
(* "Already off" is said in the step that finds it so.                      *)
LEMMA OffIsSaidTruly ==
    ASSUME IInv, [Next]_vars, NEW w \in Workers, result'[w] = "already_off",
           result[w] # "already_off"
    PROVE  cluster[target[w]].state = "turnedOff"
<1> USE DEF IInv, LocalInv, WorkerTypeOK
<1>1. ASSUME NEW v \in Workers, NEW outcome, outcome # "already_off", Conclude(v, outcome)
      PROVE  FALSE
  BY <1>1 DEF Conclude
<1>2. ASSUME NEW v \in Workers, NEW p, NEW outcome, outcome # "already_off",
             Refused(v, p) \/ Fails(v, p) \/ Writes(v, p, outcome)
      PROVE  FALSE
  BY <1>1, <1>2 DEF Refused, Fails, Writes
<1>3. ASSUME NEW v \in Workers, Park(v) PROVE cluster[target[w]].state = "turnedOff"
  <2>1. CASE /\ cluster[target[v]].state = "turnedOff"
             /\ Conclude(v, "already_off")
    BY <2>1 DEF Conclude
  <2> QED BY <1>1, <1>2, <1>3, <2>1 DEF Park, SwitchPower, AlreadySo
<1>4. ASSUME NEW v \in Workers, Resume(v) PROVE FALSE
  BY <1>1, <1>2, <1>4 DEF Resume, SwitchPower
<1>5. ASSUME NEW v \in Workers,
             \/ Lookup(v) \/ FetchById(v) \/ Refetch(v) \/ FindAppService(v)
             \/ DeleteAppService(v) \/ DeleteCluster(v)
      PROVE  FALSE
  <2>1. CASE Lookup(v) \/ FetchById(v) \/ Refetch(v)
    BY <1>1, <1>2, <2>1 DEF Lookup, FetchById, Refetch, SettleOn, Continue
  <2>2. CASE FindAppService(v) \/ DeleteAppService(v) \/ DeleteCluster(v)
    BY <1>1, <1>2, <2>2 DEF FindAppService, DeleteAppService, DeleteCluster, Continue
  <2> QED BY <1>5, <2>1, <2>2
<1>6. ASSUME NEW v \in Workers,
             \/ StartCall(v) \/ ListProject(v) \/ NextEntry(v) \/ Return(v)
             \/ \E ps : StartReap(v, ps)
      PROVE  FALSE
  BY <1>6 DEF StartCall, ListProject, NextEntry, Return, StartReap
<1>7. CASE UNCHANGED result
  BY <1>7
<1> QED BY <1>3, <1>4, <1>5, <1>6, <1>7 DEF Next, Runs, vars, workerVars

(* A park that answers "already off", so that nobody thinks of it again, is *)
(* about a cluster that is off.                                             *)
THEOREM OffIsTrue == Spec => AlreadyOffIsTrue
<1>1. IInv /\ [Next]_vars =>
        [\A w \in Workers :
            result'[w] = "already_off" /\ result[w] # "already_off"
                => cluster[target[w]].state = "turnedOff"]_vars
  BY OffIsSaidTruly
<1> QED BY <1>1, Invariance, PTL DEF Spec, AlreadyOffIsTrue
=============================================================================
