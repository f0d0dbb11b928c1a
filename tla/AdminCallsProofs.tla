--------------------------- MODULE AdminCallsProofs ---------------------------
(* The calls of the self-managed tools, for any number of workers, any tools,   *)
(* payloads and bounds: the shared connection is one and ready, no tool does     *)
(* what its registry entry excludes, nothing is sent to a destination that was    *)
(* not admitted, and a change is made once and whole.                             *)
EXTENDS AdminCalls, TLAPS

(* A thread is inside the lock exactly while it holds it, so at most one is.   *)
HolderIsInside == \A w \in Workers : stage[w] \in InLock <=> holder = w

(* What is open is what is published and what the holder makes ready.          *)
OpenIsOwned == \A w \in Workers : w \in opened <=> w = cached \/ stage[w] = "readying"

(* A build is under way only while nothing is published.                       *)
BuildersFindNothing ==
  \A w \in Workers : stage[w] \in {"building", "readying"} => cached = Nobody

ConnectionIInv == ConnectionTypeOK /\ HolderIsInside /\ OpenIsOwned /\ BuildersFindNothing

--------------------------------------------------------------------------------
LEMMA Starts == ConnectionInit => ConnectionIInv
BY ConnectionAssumption
   DEF ConnectionInit, ConnectionIInv, ConnectionTypeOK, HolderIsInside, OpenIsOwned,
       BuildersFindNothing, Stages, InLock

(* Two threads that build would both hold the lock, and a thread that builds   *)
(* finds nothing published.                                                    *)
LEMMA Suffices == ConnectionIInv => ConnectionInv
<1> SUFFICES ASSUME ConnectionIInv PROVE OneConnection /\ CachedIsReady
  BY DEF ConnectionInv
<1> USE DEF ConnectionIInv, ConnectionTypeOK, HolderIsInside, OpenIsOwned,
            BuildersFindNothing, InLock
<1>1. OneConnection
  <2> SUFFICES ASSUME NEW v \in opened, NEW w \in opened PROVE v = w
    BY DEF OneConnection
  <2>1. CASE cached = Nobody
    BY <2>1, ConnectionAssumption
  <2>2. CASE cached # Nobody
    BY <2>2
  <2> QED BY <2>1, <2>2
<1>2. CachedIsReady
  BY <1>1, ConnectionAssumption DEF CachedIsReady, OneConnection
<1> QED BY <1>1, <1>2

--------------------------------------------------------------------------------
(* One lemma for the steps of get_sdk_cluster, a step of the proof for each.   *)
LEMMA StepKeeps ==
  ASSUME ConnectionIInv, NEW w \in Workers, ConnectionStep(w)
  PROVE  ConnectionIInv'
<1> USE ConnectionAssumption
    DEF ConnectionIInv, ConnectionTypeOK, HolderIsInside, OpenIsOwned, BuildersFindNothing,
        InLock, Stages, To
<1>1. CASE Ask(w)    BY <1>1 DEF Ask
<1>2. CASE Enter(w)  BY <1>2 DEF Enter
<1>3. CASE Open(w)   BY <1>3 DEF Open
<1>4. CASE GiveUp(w) BY <1>4 DEF GiveUp
<1>5. CASE Publish(w) BY <1>5 DEF Publish
<1>6. CASE Leave(w)  BY <1>6 DEF Leave
<1>7. CASE GoOn(w)   BY <1>7 DEF GoOn
<1> QED BY <1>1, <1>2, <1>3, <1>4, <1>5, <1>6, <1>7 DEF ConnectionStep

LEMMA StutterKeeps ==
  ASSUME ConnectionIInv, UNCHANGED connectionVars
  PROVE  ConnectionIInv'
BY DEF connectionVars, ConnectionIInv, ConnectionTypeOK, HolderIsInside, OpenIsOwned,
       BuildersFindNothing

(* However many threads ask for the shared connection at once and however      *)
(* building it fails, there is one, and it is ready before it is shared        *)
(* (get_sdk_cluster by itself).                                                *)
THEOREM ConnectionIsOne == ConnectionSpec => []ConnectionInv
<1>1. ConnectionIInv /\ [\E w \in Workers : ConnectionStep(w)]_connectionVars => ConnectionIInv'
  BY StepKeeps, StutterKeeps
<1> QED BY Starts, Suffices, <1>1, PTL DEF ConnectionSpec

--------------------------------------------------------------------------------
(* Nothing a call does beside its steps in get_sdk_cluster touches the         *)
(* connection.                                                                 *)
LEMMA CallsOnlyConnect ==
  ASSUME [Next]_vars
  PROVE  [\E w \in Workers : ConnectionStep(w)]_connectionVars
<1>1. CASE UNCHANGED vars
  BY <1>1 DEF vars
<1>2. ASSUME NEW w \in Workers, NEW op \in Calls, Begin(w, op)
      PROVE  UNCHANGED connectionVars
  BY <1>2 DEF Begin
<1>3. ASSUME NEW w \in Workers, Connect(w) PROVE ConnectionStep(w)
  BY <1>3 DEF Connect, ConnectionStep
<1>4. ASSUME NEW w \in Workers, ConnectFails(w) PROVE ConnectionStep(w)
  BY <1>4 DEF ConnectFails, ConnectionStep
<1>5. ASSUME NEW w \in Workers, Send(w) \/ (Check(w) /\ UNCHANGED connectionVars)
      PROVE  UNCHANGED connectionVars
  BY <1>5 DEF Send
<1>6. ASSUME NEW w \in Workers, NEW fault \in Faults, Fails(w, fault)
      PROVE  UNCHANGED connectionVars
  BY <1>6 DEF Fails
<1>7. ASSUME (\E d \in Documents : EditDocument(d)) \/ Upgrade \/ (\E d \in Names : MoveName(d))
      PROVE  UNCHANGED connectionVars
  BY <1>7 DEF EditDocument, Upgrade, MoveName, Edit
<1>8. CASE Next
  BY <1>2, <1>3, <1>4, <1>5, <1>6, <1>7, <1>8 DEF Next, Step
<1> QED BY <1>1, <1>8

(* The calls that share the connection implement it: each of their steps is    *)
(* one of get_sdk_cluster or leaves the connection alone.                      *)
THEOREM CallsShareConnection == Spec => ConnectionSpec
<1>1. Init => ConnectionInit
  BY DEF Init
<1> QED BY <1>1, CallsOnlyConnect, PTL DEF Spec, ConnectionSpec

(* So the connection is one and ready whatever the tools do around it.         *)
THEOREM AdminConnectionIsOne == Spec => []ConnectionInv
BY ConnectionIsOne, CallsShareConnection, PTL

--------------------------------------------------------------------------------
(* The registry, entry by entry: what the handler of a tool does fits what the  *)
(* tool of that name tells a client, and every handler belongs to a tool.       *)
Fits(t, c) ==
  t.name = c.name =>
    /\ /\ c.request \in {"POST", "PUT", "DELETE", "DDL"}
       /\ "computes" \notin c.flags /\ "statement" \notin c.flags
       => t.hint # "read"
    /\ c.request = "DELETE" \/ c.name = "index_drop" => t.hint = "destructive"
    /\ c.name = "index_create" => t.hint # "read"

Entered(c) ==
  /\ \E hint \in {"read", "write", "destructive"} : [name |-> c.name, hint |-> hint] \in Tools
  /\ c.name \in {"index_create", "index_drop"} => "statement" \in c.flags
  /\ "gate" \in c.flags => "probes" \notin c.flags

LEMMA EntriesFit ==
  (\A t \in Tools, c \in CallsOfTools : Fits(t, c)) /\ (\A c \in CallsOfTools : Entered(c))
<1> USE DEF Hinted, Requests, Fits, Entered, Tools,
            ClusterTools1, ClusterTools2, ClusterTools3, ClusterTools4,
            SecurityTools1, SecurityTools2, SecurityTools3, BucketsTools1,
            BucketsTools2, CollectionsTools, XdcrTools1, XdcrTools2, IndexesTools1,
            IndexesTools2, EventingTools1, EventingTools2, SearchTools, StatsTools1,
            StatsTools2, EncryptionTools, EightXTools1, EightXTools2,
            DiagnosticsTools1, DiagnosticsTools2, BackupTools1, BackupTools2,
            CatalogTools1, CatalogTools2, StatusTools
<1>1. \A t \in Tools, c \in ClusterCalls1 : Fits(t, c) BY DEF ClusterCalls1
<1>2. \A t \in Tools, c \in ClusterCalls2 : Fits(t, c) BY DEF ClusterCalls2
<1>3. \A t \in Tools, c \in SecurityCalls1 : Fits(t, c) BY DEF SecurityCalls1
<1>4. \A t \in Tools, c \in SecurityCalls2 : Fits(t, c) BY DEF SecurityCalls2
<1>5. \A t \in Tools, c \in BucketsCalls : Fits(t, c) BY DEF BucketsCalls
<1>6. \A t \in Tools, c \in CollectionsCalls : Fits(t, c) BY DEF CollectionsCalls
<1>7. \A t \in Tools, c \in XdcrCalls : Fits(t, c) BY DEF XdcrCalls
<1>8. \A t \in Tools, c \in IndexesCalls1 : Fits(t, c) BY DEF IndexesCalls1
<1>9. \A t \in Tools, c \in IndexesCalls2 : Fits(t, c) BY DEF IndexesCalls2
<1>10. \A t \in Tools, c \in EventingCalls : Fits(t, c) BY DEF EventingCalls
<1>11. \A t \in Tools, c \in SearchCalls : Fits(t, c) BY DEF SearchCalls
<1>12. \A t \in Tools, c \in StatsCalls : Fits(t, c) BY DEF StatsCalls
<1>13. \A t \in Tools, c \in EncryptionCalls : Fits(t, c) BY DEF EncryptionCalls
<1>14. \A t \in Tools, c \in EightXCalls : Fits(t, c) BY DEF EightXCalls
<1>15. \A t \in Tools, c \in DiagnosticsCalls : Fits(t, c) BY DEF DiagnosticsCalls
<1>16. \A t \in Tools, c \in BackupCalls : Fits(t, c) BY DEF BackupCalls
<1>17. \A t \in Tools, c \in StatusCalls : Fits(t, c) BY DEF StatusCalls
<1>18. \A c \in ClusterCalls1 : Entered(c) BY DEF ClusterCalls1
<1>19. \A c \in ClusterCalls2 : Entered(c) BY DEF ClusterCalls2
<1>20. \A c \in SecurityCalls1 : Entered(c) BY DEF SecurityCalls1
<1>21. \A c \in SecurityCalls2 : Entered(c) BY DEF SecurityCalls2
<1>22. \A c \in BucketsCalls : Entered(c) BY DEF BucketsCalls
<1>23. \A c \in CollectionsCalls : Entered(c) BY DEF CollectionsCalls
<1>24. \A c \in XdcrCalls : Entered(c) BY DEF XdcrCalls
<1>25. \A c \in IndexesCalls1 : Entered(c) BY DEF IndexesCalls1
<1>26. \A c \in IndexesCalls2 : Entered(c) BY DEF IndexesCalls2
<1>27. \A c \in EventingCalls : Entered(c) BY DEF EventingCalls
<1>28. \A c \in SearchCalls : Entered(c) BY DEF SearchCalls
<1>29. \A c \in StatsCalls : Entered(c) BY DEF StatsCalls
<1>30. \A c \in EncryptionCalls : Entered(c) BY DEF EncryptionCalls
<1>31. \A c \in EightXCalls : Entered(c) BY DEF EightXCalls
<1>32. \A c \in DiagnosticsCalls : Entered(c) BY DEF DiagnosticsCalls
<1>33. \A c \in BackupCalls : Entered(c) BY DEF BackupCalls
<1>34. \A c \in StatusCalls : Entered(c) BY DEF StatusCalls
<1> HIDE DEF Tools, Fits, Entered
<1> QED BY <1>1, <1>2, <1>3, <1>4, <1>5, <1>6, <1>7, <1>8, <1>9, <1>10, <1>11, <1>12, <1>13, <1>14, <1>15, <1>16, <1>17, <1>18, <1>19, <1>20, <1>21, <1>22, <1>23, <1>24, <1>25, <1>26, <1>27, <1>28, <1>29, <1>30, <1>31, <1>32, <1>33, <1>34 DEF CallsOfTools

LEMMA RegistryFits ==
  ASSUME NEW op \in CallNames
  PROVE  /\ Request(op) \in {"POST", "PUT", "DELETE", "DDL"}
              /\ ~Does(op, "computes") /\ ~Does(op, "statement") => HintOf[op] # "read"
         /\ Request(op) = "DELETE" \/ op = "index_drop" => HintOf[op] = "destructive"
         /\ op = "index_create" => HintOf[op] # "read"
         /\ op \in {"index_create", "index_drop"} => Does(op, "statement")
         /\ Does(op, "gate") => ~Does(op, "probes")
<1>1. CallOf[op] \in CallsOfTools /\ CallOf[op].name = op
  BY DEF CallOf, CallNames
<1>2. PICK t \in Tools : t.name = op
  <2>1. PICK hint \in {"read", "write", "destructive"} : [name |-> op, hint |-> hint] \in Tools
    BY <1>1, EntriesFit DEF Entered
  <2> QED BY <2>1
<1>3. op \in ToolNames
  BY <1>2 DEF ToolNames
<1>4. \E s \in Tools : s.name = op /\ s.hint = HintOf[op]
  BY <1>2, <1>3 DEF HintOf
<1> QED BY <1>1, <1>4, EntriesFit DEF Fits, Entered, Request, Does

--------------------------------------------------------------------------------
(* The steps of a call: the next is the first that its tool needs.              *)
LEMMA AfterOK ==
  ASSUME NEW op, NEW k \in 1..7
  PROVE  \E n \in k..7 : After(k, op) = Steps[n] /\ \A j \in k..(n - 1) : ~Applies(Steps[j], op)
<1> DEFINE Found(m) == \E n \in m..7 :
                          Applies(Steps[n], op) /\ \A j \in m..(n - 1) : ~Applies(Steps[j], op)
<1>1. Found(7)
  BY DEF Steps, Applies
<1>2. ASSUME NEW m \in 1..6, Found(m + 1) PROVE Found(m)
  <2>1. CASE Applies(Steps[m], op)
    BY <2>1
  <2>2. CASE ~Applies(Steps[m], op)
    <3>1. PICK n \in (m + 1)..7 :
             Applies(Steps[n], op) /\ \A j \in (m + 1)..(n - 1) : ~Applies(Steps[j], op)
      BY <1>2
    <3>2. \A j \in m..(n - 1) : j = m \/ j \in (m + 1)..(n - 1)
      OBVIOUS
    <3> QED BY <2>2, <3>1, <3>2
  <2> QED BY <2>1, <2>2
<1> HIDE DEF Found
<1>3. Found(6)  BY <1>1, <1>2
<1>4. Found(5)  BY <1>2, <1>3
<1>5. Found(4)  BY <1>2, <1>4
<1>6. Found(3)  BY <1>2, <1>5
<1>7. Found(2)  BY <1>2, <1>6
<1>8. Found(1)  BY <1>2, <1>7
<1>9. k = 1 \/ k = 2 \/ k = 3 \/ k = 4 \/ k = 5 \/ k = 6 \/ k = 7
  OBVIOUS
<1>10. Found(k)
  BY <1>1, <1>3, <1>4, <1>5, <1>6, <1>7, <1>8, <1>9
<1>11. Len(Steps) = 7
  BY DEF Steps
<1> QED BY <1>10, <1>11 DEF Found, After

LEMMA FollowingOK ==
  ASSUME NEW op, NEW k \in 1..6
  PROVE  \E n \in (k + 1)..7 :
           /\ Following(Steps[k], op) = Steps[n]
           /\ \A j \in (k + 1)..(n - 1) : ~Applies(Steps[j], op)
<1>1. (CHOOSE i \in DOMAIN Steps : Steps[i] = Steps[k]) = k
  <2>1. \A i, j \in 1..7 : Steps[i] = Steps[j] => i = j
    BY DEF Steps
  <2>2. DOMAIN Steps = 1..7
    BY DEF Steps
  <2> QED BY <2>1, <2>2
<1>2. Following(Steps[k], op) = After(1 + k, op)
  BY <1>1, Zenon DEF Following
<1>3. 1 + k = k + 1
  OBVIOUS
<1> QED BY <1>2, <1>3, AfterOK
--------------------------------------------------------------------------------
(* What a call has established at its place: of every step it has gone through, *)
(* what the step is there for still holds when the request is sent.             *)
PCs == {"idle", "pools", "store", "reread", "answered", "refused", "failed"}
         \union {Steps[i] : i \in 1..7}
Answer == [Fields -> Values \union {Unset}]
CallRecords ==
  [pc : PCs, op : Calls \union {NoCall}, payload : Payloads \union {{}},
   statement : Statements \union {NoStatement}, declared : BOOLEAN,
   field : {"named", NoCall}, value : Values \union {Unset},
   read : Answer \union {7, 8, NoCall}, attempt : 1..MaxAttempts, applied : Nat]

(* Settings from which nothing has been reset, but for a user once not found.   *)
Whole(settings, d) ==
  /\ settings \in Answer
  /\ (\E f \in Fields : settings[f] = Unset) => d = "user" /\ d \in unread

Shown(step, w) ==
  /\ step = "version" /\ Does(call[w].op, "gate") => release = 8
  /\ step = "statement" => Accepts(call[w].op, call[w].statement)
  /\ step = "destinations" => \A l \in call[w].payload : ~Misleads(w, l)
  /\ step = "read" => Whole(call[w].read, DocumentOf(call[w].op))
Passed(w) ==
  \A i \in 1..7 : call[w].pc = Steps[i] =>
    \A j \in 1..(i - 1) : Applies(Steps[j], call[w].op) => Shown(Steps[j], w)

(* What a client can ask, and a version on its way from the cluster.            *)
Asked(w) ==
  /\ call[w].pc # "idle" => call[w].op \in Calls
  /\ call[w].payload # {} => \E g \in Guards : Does(call[w].op, g)
  /\ Does(call[w].op, "direct") => \A l \in call[w].payload : l.key = "host"
  /\ Merges(call[w].op) => call[w].field = "named" /\ call[w].value \in Values
  /\ call[w].pc = "store" => call[w].read \in {7, 8} /\ (call[w].read = 8 => release = 8)

Ends == {"answered", "refused", "failed"}
Once(w) ==
  Request(call[w].op) \in {"POST", "DDL"} =>
    call[w].applied <= 1 /\ (call[w].pc \notin Ends => call[w].applied = 0)

Sound(w) ==
  /\ call[w].pc # "idle" => Asked(w)
  /\ Once(w) /\ Passed(w)
  /\ call[w].pc = "connect" \/ stage[w] = "out"

WorkersOK == call \in [Workers -> CallRecords] /\ \A w \in Workers : Sound(w)
WorldOK ==
  /\ release \in {7, 8} /\ version \in {7, 8, Unset} /\ (version = 8 => release = 8)
  /\ dns \in [Names -> SUBSET Ranges] /\ moved \in [Workers -> SUBSET Names]
  /\ unread \subseteq Documents /\ faults \in 0..MaxFaults /\ edits \in 0..MaxEdits
  /\ docs \in [Documents -> Answer \union {Gone}]
  /\ \A d \in Documents : docs[d] # Gone => Whole(docs[d], d)
Harmless == strayed = {} /\ misled = {} /\ outdated = {}

IInv == ConnectionIInv /\ WorkersOK /\ WorldOK /\ Harmless

--------------------------------------------------------------------------------
LEMMA StepsAre ==
  /\ \A i, j \in 1..7 : Steps[i] = Steps[j] => i = j
  /\ \A i \in 1..7 : Steps[i] \notin {"idle", "pools", "store", "reread"} \union Ends
  /\ Steps[1] = "version" /\ Steps[2] = "statement" /\ Steps[3] = "destinations"
  /\ Steps[4] = "declared" /\ Steps[5] = "read" /\ Steps[6] = "connect" /\ Steps[7] = "send"
BY DEF Steps, Ends

LEMMA InitOK == Init => IInv
<1> SUFFICES ASSUME Init PROVE IInv
  OBVIOUS
<1>1. ConnectionIInv
  BY Starts DEF Init
<1>2. Idle \in CallRecords
  BY RequestAssumption DEF Idle, CallRecords, PCs
<1>3. \A w \in Workers : call[w] = Idle /\ stage[w] = "out"
  BY DEF Init, ConnectionInit
<1>4. \A w \in Workers : Sound(w)
  BY <1>3, StepsAre DEF Sound, Once, Passed, Idle
<1>5. WorkersOK
  BY <1>2, <1>4 DEF WorkersOK, Init
<1>6. WorldOK
  <2>1. dns \in [Names -> SUBSET Ranges]
    BY DEF Init
  <2>2. docs \in [Documents -> Answer \union {Gone}]
        /\ \A d \in Documents : docs[d] # Gone => Whole(docs[d], d)
    BY AdminAssumption DEF Init, Whole, Answer, Fields
  <2> QED BY <2>1, <2>2, AdminAssumption DEF Init, WorldOK
<1> QED BY <1>1, <1>5, <1>6 DEF IInv, Harmless, Init

--------------------------------------------------------------------------------
(* Who does not move keeps what it has established while the release does not   *)
(* fall, no name moves that it carries without a record, and what was not       *)
(* readable once is remembered.                                                 *)
Grows == (release = 8 => release' = 8) /\ unread \subseteq unread'
Admits(w) == \A l \in call[w].payload : ~Misleads(w, l) => ~Misleads(w, l)'

LEMMA ShownStays ==
  ASSUME NEW w \in Workers, NEW step, Grows, Admits(w), Shown(step, w),
         call'[w].op = call[w].op, call'[w].statement = call[w].statement,
         call'[w].payload = call[w].payload, call'[w].read = call[w].read
  PROVE  Shown(step, w)'
BY DEF Shown, Grows, Admits, Whole

LEMMA StandsOK ==
  ASSUME IInv, NEW w \in Workers, Grows, Admits(w), call'[w] = call[w], stage'[w] = stage[w]
  PROVE  Sound(w)'
<1>1. Sound(w)
  BY DEF IInv, WorkersOK
<1>2. Passed(w)'
  BY <1>1, ShownStays DEF Sound, Passed
<1>3. Asked(w) => Asked(w)'
  BY DEF Asked, Grows
<1>4. Once(w) => Once(w)'
  BY DEF Once
<1> QED BY <1>1, <1>2, <1>3, <1>4 DEF Sound

LEMMA AdmitsOK ==
  ASSUME UNCHANGED <<dns, moved>>, NEW w \in Workers
  PROVE  Admits(w)
BY DEF Admits, Misleads

LEMMA MoveOK ==
  ASSUME IInv, NEW w \in Workers, NEW c \in CallRecords, call' = [call EXCEPT ![w] = c],
         Grows, UNCHANGED <<dns, moved>>, \A u \in Workers \ {w} : stage'[u] = stage[u],
         Sound(w)'
  PROVE  WorkersOK'
<1>1. ASSUME NEW u \in Workers, u # w PROVE Sound(u)'
  BY <1>1, StandsOK, AdmitsOK DEF IInv, WorkersOK
<1> QED BY <1>1 DEF IInv, WorkersOK

(* From a step to the next that the tool needs, or to the refusal.              *)
LEMMA PassOK ==
  ASSUME IInv, NEW w \in Workers, NEW k \in 1..6, NEW allowed \in BOOLEAN,
         PassIf(w, allowed, Steps[k]), call[w].pc \notin Ends \union {"idle"},
         stage[w] = "out", UNCHANGED <<stage, world, history>>,
         \A j \in 1..(k - 1) : Applies(Steps[j], call[w].op) => Shown(Steps[j], w),
         allowed /\ Applies(Steps[k], call[w].op) => Shown(Steps[k], w)
  PROVE  WorkersOK'
<1> DEFINE c == [call[w] EXCEPT !.pc = IF allowed THEN Following(Steps[k], call[w].op)
                                                 ELSE "refused",
                                !.attempt = 1]
<1>1. PICK n \in (k + 1)..7 :
         /\ Following(Steps[k], call[w].op) = Steps[n]
         /\ \A j \in (k + 1)..(n - 1) : ~Applies(Steps[j], call[w].op)
  BY FollowingOK
<1>2. call[w] \in CallRecords /\ Asked(w) /\ Once(w)
  BY DEF IInv, WorkersOK, Sound
<1>3. c \in CallRecords
  <2>1. (IF allowed THEN Following(Steps[k], call[w].op) ELSE "refused") \in PCs
    BY <1>1 DEF PCs
  <2>2. 1 \in 1..MaxAttempts
    BY RequestAssumption
  <2> QED BY <1>2, <2>1, <2>2 DEF CallRecords
<1>4. call' = [call EXCEPT ![w] = c]
  BY DEF PassIf, Goto, IInv, WorkersOK, CallRecords
<1>5. /\ call'[w].pc = IF allowed THEN Steps[n] ELSE "refused"
      /\ call'[w].op = call[w].op /\ call'[w].statement = call[w].statement
      /\ call'[w].payload = call[w].payload /\ call'[w].read = call[w].read
      /\ call'[w].field = call[w].field /\ call'[w].value = call[w].value
      /\ call'[w].applied = call[w].applied
  BY <1>1, <1>2, <1>4 DEF IInv, WorkersOK, CallRecords
<1>6. Grows /\ Admits(w)
  BY AdmitsOK DEF Grows, world, history
<1>7. Passed(w)'
  <2> SUFFICES ASSUME NEW i \in 1..7, call'[w].pc = Steps[i], NEW j \in 1..(i - 1),
                      Applies(Steps[j], call[w].op)
               PROVE  Shown(Steps[j], w)'
    BY <1>5 DEF Passed
  <2>1. allowed /\ i = n
    <3>1. Steps[i] # "refused" /\ (Steps[i] = Steps[n] => i = n)
      BY StepsAre DEF Ends
    <3> QED BY <1>5, <3>1
  <2>2. j \in 1..(k - 1) \/ j = k \/ j \in (k + 1)..(n - 1)
    BY <2>1
  <2>3. Shown(Steps[j], w)
    BY <1>1, <2>1, <2>2
  <2> QED BY <1>5, <1>6, <2>3, ShownStays
<1>8. Asked(w)' /\ Once(w)'
  BY <1>1, <1>2, <1>5, StepsAre DEF Asked, Once, Ends
<1>9. Sound(w)'
  BY <1>7, <1>8 DEF Sound
<1> QED BY <1>3, <1>4, <1>6, <1>9, MoveOK DEF world, history

--------------------------------------------------------------------------------
(* Off the path of the steps, or at its end, only what was asked and how often  *)
(* it was done matter.                                                          *)
LEMMA AskedStays ==
  ASSUME IInv, NEW w \in Workers, call[w].pc # "idle", Grows,
         call'[w].op = call[w].op, call'[w].payload = call[w].payload,
         call'[w].field = call[w].field, call'[w].value = call[w].value,
         call'[w].pc # "store"
  PROVE  Asked(w)'
BY DEF IInv, WorkersOK, Sound, Asked

LEMMA AsideOK ==
  ASSUME IInv, NEW w \in Workers, call[w].pc # "idle", Grows, UNCHANGED <<dns, moved>>,
         \A u \in Workers \ {w} : stage'[u] = stage[u], stage'[w] = "out",
         NEW c \in CallRecords, call' = [call EXCEPT ![w] = c],
         c.op = call[w].op, c.payload = call[w].payload, c.field = call[w].field,
         c.value = call[w].value,
         c.pc \in {"pools", "store", "reread"} \union Ends,
         c.pc = "store" => c.read \in {7, 8} /\ (c.read = 8 => release' = 8),
         Request(c.op) \in {"POST", "DDL"} =>
           c.applied <= 1 /\ (c.pc \notin Ends => c.applied = 0)
  PROVE  WorkersOK'
<1>1. call'[w] = c
  BY DEF IInv, WorkersOK
<1>2. Passed(w)'
  <2>1. \A i \in 1..7 : call'[w].pc # Steps[i]
    BY <1>1, StepsAre
  <2> QED BY <2>1 DEF Passed
<1>3. Asked(w)'
  BY <1>1 DEF IInv, WorkersOK, Sound, Asked
<1>4. Once(w)'
  BY <1>1 DEF Once
<1>5. Sound(w)'
  BY <1>2, <1>3, <1>4 DEF Sound
<1> QED BY <1>5, MoveOK

LEMMA PassedThere ==
  ASSUME NEW w \in Workers, NEW n \in 1..7, call'[w].pc = Steps[n],
         \A j \in 1..(n - 1) : Applies(Steps[j], call'[w].op) => Shown(Steps[j], w)'
  PROVE  Passed(w)'
<1> SUFFICES ASSUME NEW i \in 1..7, call'[w].pc = Steps[i], NEW j \in 1..(i - 1),
                    Applies(Steps[j], call'[w].op)
             PROVE  Shown(Steps[j], w)'
  BY DEF Passed
<1>1. i = n
  BY StepsAre
<1> QED BY <1>1

(* At a later step, with what was established before.                           *)
LEMMA OnwardOK ==
  ASSUME IInv, NEW w \in Workers, call[w].pc \notin Ends \union {"idle"}, Grows,
         UNCHANGED <<dns, moved>>,
         \A u \in Workers \ {w} : stage'[u] = stage[u],
         NEW n \in 1..7, Steps[n] = "connect" \/ stage'[w] = "out",
         NEW c \in CallRecords, call' = [call EXCEPT ![w] = c], c.pc = Steps[n],
         c.op = call[w].op, c.payload = call[w].payload, c.field = call[w].field,
         c.value = call[w].value, c.statement = call[w].statement,
         c.applied = call[w].applied,
         \A j \in 1..(n - 1) : Applies(Steps[j], c.op) => Shown(Steps[j], w)'
  PROVE  WorkersOK'
<1>1. call'[w] = c
  BY DEF IInv, WorkersOK
<1>2. Passed(w)'
  BY <1>1, PassedThere
<1>3. Asked(w)'
  BY <1>1, AskedStays, StepsAre
<1>4. Once(w)'
  BY <1>1 DEF Once, IInv, WorkersOK, Sound
<1>5. Sound(w)'
  BY <1>1, <1>2, <1>3, <1>4 DEF Sound
<1> QED BY <1>5, MoveOK

(* What stays as it is, or is counted down.                                     *)
LEMMA QuietOK ==
  ASSUME IInv, Quiet, faults' \in 0..MaxFaults, UNCHANGED edits
  PROVE  WorldOK' /\ Harmless'
<1>1. ASSUME NEW d \in Documents, docs[d] # Gone PROVE Whole(docs[d], d)'
  BY <1>1 DEF IInv, WorldOK, Whole, Quiet, world, history
<1> QED BY <1>1 DEF IInv, WorldOK, Harmless, Quiet, world, history

--------------------------------------------------------------------------------
LEMMA BeginOK ==
  ASSUME IInv, NEW w \in Workers, NEW op \in Calls, Begin(w, op)
  PROVE  WorkersOK'
<1>1. PICK b \in Made[op] : call' = [call EXCEPT ![w] = [b EXCEPT !.pc = After(1, op)]]
  BY DEF Begin
<1>2. PICK n \in 1..7 : After(1, op) = Steps[n] /\ \A j \in 1..(n - 1) : ~Applies(Steps[j], op)
  BY AfterOK
<1>3. /\ b \in CallRecords /\ b.op = op /\ b.applied = 0
      /\ b.payload # {} => \E g \in Guards : Does(op, g)
      /\ Does(op, "direct") => \A l \in b.payload : l.key = "host"
      /\ Merges(op) => b.field = "named" /\ b.value \in Values
  <2> DEFINE Given == {q \in Payloads \union {{}} :
              /\ q # {} => \E g \in Guards : Does(op, g)
              /\ Does(op, "direct") => Cardinality(q) <= 1 /\ \A l \in q : l.key = "host"
              /\ ~Does(op, "nested") => \A l \in q : ~l.atRoot
              /\ op = "backup_repository_create" => \A l \in q : l.key = "other" /\ ~l.atRoot}
             Sent == IF Does(op, "statement") THEN Statements ELSE {NoStatement}
             Known == IF Does(op, "declared") THEN BOOLEAN ELSE {TRUE}
             Filled == IF Merges(op) THEN {"named"} ELSE {NoCall}
             Valued == IF Merges(op) THEN Values ELSE {Unset}
  <2>0. Made[op] = {CallWith(op, p, s, d, f, v) :
                      p \in Given, s \in Sent, d \in Known, f \in Filled, v \in Valued}
    BY DEF Made
  <2>1. PICK p \in Given, s \in Sent, d \in Known, f \in Filled, v \in Valued :
          b = CallWith(op, p, s, d, f, v)
    <3> HIDE DEF Given, Sent, Known, Filled, Valued
    <3> QED BY <2>0
  <2>2. 1 \in 1..MaxAttempts
    BY RequestAssumption
  <2> QED BY <2>1, <2>2 DEF CallWith, Idle, CallRecords, PCs
<1> DEFINE c == [b EXCEPT !.pc = After(1, op)]
<1>4. c \in CallRecords
  <2>1. After(1, op) \in PCs
    BY <1>2 DEF PCs
  <2> QED BY <1>3, <2>1 DEF CallRecords
<1>5. /\ call'[w].pc = Steps[n] /\ call'[w].op = op /\ call'[w].applied = 0
      /\ call'[w].payload = b.payload /\ call'[w].field = b.field /\ call'[w].value = b.value
  BY <1>1, <1>2, <1>3 DEF IInv, WorkersOK, CallRecords
<1>6. stage' = stage /\ stage[w] = "out" /\ Grows /\ UNCHANGED <<dns, moved>>
  BY DEF Begin, IInv, WorkersOK, Sound, connectionVars, Grows, world, history
<1>7. Passed(w)'
  BY <1>2, <1>5, PassedThere
<1>8. Asked(w)' /\ Once(w)'
  BY <1>3, <1>5, StepsAre DEF Asked, Once
<1>9. Sound(w)'
  BY <1>6, <1>7, <1>8 DEF Sound
<1> QED BY <1>1, <1>4, <1>6, <1>9, MoveOK

--------------------------------------------------------------------------------
(* A call that is not connecting has nothing to do with the connection.         *)
LEMMA PlaceOK ==
  ASSUME IInv, NEW w \in Workers, call[w].pc # "idle"
  PROVE  /\ call[w] \in CallRecords /\ Asked(w) /\ Once(w) /\ Passed(w)
         /\ call[w].pc # "connect" => stage[w] = "out"
         /\ call[w].op \in CallNames
BY AdminAssumption DEF IInv, WorkersOK, Sound, Asked

LEMMA PassedAt ==
  ASSUME IInv, NEW w \in Workers, NEW k \in 1..7, call[w].pc = Steps[k]
  PROVE  \A j \in 1..(k - 1) : Applies(Steps[j], call[w].op) => Shown(Steps[j], w)
BY DEF IInv, WorkersOK, Sound, Passed

LEMMA GatedOK ==
  ASSUME IInv, NEW w \in Workers, Gated(w), call[w].pc \in {"version", "reread"}, Quiet,
         UNCHANGED connectionVars
  PROVE  WorkersOK'
<1>1. call[w].pc \notin Ends \union {"idle"} /\ stage[w] = "out" /\ call[w].op \in CallNames
  BY PlaceOK DEF Ends
<1> DEFINE allowed == PassesGate(w) \/ Does(call[w].op, "probes")
<1>2. allowed \in BOOLEAN
  BY DEF PassesGate
<1>3. PassIf(w, allowed, Steps[1])
  BY StepsAre DEF Gated
<1>4. allowed => Shown(Steps[1], w)
  BY <1>1, RegistryFits, StepsAre DEF PassesGate, Shown, IInv, WorldOK
<1> HIDE DEF allowed
<1> QED BY <1>1, <1>2, <1>3, <1>4, PassOK DEF Quiet, connectionVars

(* Nobody else moves while a worker turns aside.                                *)
LEMMA JumpOK ==
  ASSUME IInv, NEW w \in Workers, call[w].pc \notin {"idle", "connect"} \union Ends,
         NEW pc \in {"pools", "reread"} \union Ends, Goto(w, pc), UNCHANGED <<dns, moved>>,
         Grows, UNCHANGED connectionVars
  PROVE  WorkersOK'
<1> DEFINE c == [call[w] EXCEPT !.pc = pc, !.attempt = 1]
<1>1. call[w] \in CallRecords /\ Once(w) /\ stage[w] = "out"
  BY PlaceOK
<1>2. 1 \in 1..MaxAttempts /\ pc \in PCs
  BY RequestAssumption DEF PCs, Ends
<1>3. c \in CallRecords
  BY <1>1, <1>2 DEF CallRecords
<1>4. call' = [call EXCEPT ![w] = c]
  BY DEF Goto, IInv, WorkersOK, CallRecords
<1>5. /\ c.op = call[w].op /\ c.payload = call[w].payload /\ c.field = call[w].field
      /\ c.value = call[w].value /\ c.applied = call[w].applied /\ c.pc = pc
  BY <1>1 DEF CallRecords
<1>6. /\ c.pc \in {"pools", "store", "reread"} \union Ends /\ c.pc # "store"
      /\ Request(c.op) \in {"POST", "DDL"} => c.applied <= 1 /\ c.applied = 0
  BY <1>1, <1>5 DEF Once, Ends
<1>7. stage' = stage
  BY DEF connectionVars
<1> HIDE DEF c
<1> QED BY <1>1, <1>3, <1>4, <1>5, <1>6, <1>7, AsideOK

--------------------------------------------------------------------------------
(* The steps before the request, one lemma for each.                            *)
LEMMA VersionOK ==
  ASSUME IInv, NEW w \in Workers, UNCHANGED connectionVars,
         AskVersion(w) \/ ReadPools(w) \/ RereadVersion(w)
  PROVE  WorkersOK' /\ WorldOK' /\ Harmless'
<1>1. Quiet /\ UNCHANGED <<faults, edits>>
  BY DEF AskVersion, ReadPools, RereadVersion, At
<1>2. WorldOK' /\ Harmless'
  BY <1>1, QuietOK DEF IInv, WorldOK
<1>3. Grows /\ UNCHANGED <<dns, moved>>
  BY <1>1 DEF Quiet, Grows, world, history
<1>4. CASE AskVersion(w)
  <2>1. CASE version # Unset
    <3>1. Gated(w) /\ call[w].pc = "version"
      BY <1>4, <2>1 DEF AskVersion, At
    <3> QED BY <1>1, <1>2, <3>1, GatedOK
  <2>2. CASE version = Unset
    <3>1. Goto(w, "pools") /\ call[w].pc \notin {"idle", "connect"} \union Ends
      BY <1>4, <2>2 DEF AskVersion, At, Ends
    <3> QED BY <1>2, <1>3, <3>1, JumpOK
  <2> QED BY <2>1, <2>2
<1>5. CASE RereadVersion(w)
  <2>1. Gated(w) /\ call[w].pc = "reread"
    BY <1>5 DEF RereadVersion, At
  <2> QED BY <1>1, <1>2, <2>1, GatedOK
<1>6. CASE ReadPools(w)
  <2>1. CASE Goto(w, "reread")
    <3>1. call[w].pc \notin {"idle", "connect"} \union Ends
      BY <1>6 DEF ReadPools, At, Ends
    <3> QED BY <1>2, <1>3, <2>1, <3>1, JumpOK
  <2>2. CASE call' = [call EXCEPT ![w].pc = "store", ![w].read = release]
    <3> DEFINE c == [call[w] EXCEPT !.pc = "store", !.read = release]
    <3>1. call[w] \in CallRecords /\ Once(w) /\ stage[w] = "out" /\ call[w].pc = "pools"
      BY <1>6, PlaceOK DEF ReadPools, At
    <3>2. c \in CallRecords
      BY <3>1 DEF CallRecords, PCs, IInv, WorldOK
    <3>3. call' = [call EXCEPT ![w] = c]
      BY <2>2 DEF IInv, WorkersOK, CallRecords
    <3>4. /\ c.op = call[w].op /\ c.payload = call[w].payload /\ c.field = call[w].field
          /\ c.value = call[w].value /\ c.applied = call[w].applied /\ c.pc = "store"
          /\ c.read = release
      BY <3>1 DEF CallRecords
    <3>5. Request(c.op) \in {"POST", "DDL"} => c.applied <= 1 /\ c.applied = 0
      BY <3>1, <3>4 DEF Once, Ends
    <3>6. stage' = stage /\ release' = release /\ release \in {7, 8}
      BY <1>1 DEF connectionVars, Quiet, world, IInv, WorldOK
    <3> HIDE DEF c
    <3> QED BY <1>2, <1>3, <3>1, <3>2, <3>3, <3>4, <3>5, <3>6, AsideOK
  <2> QED BY <1>2, <1>6, <2>1, <2>2 DEF ReadPools
<1> QED BY <1>2, <1>4, <1>5, <1>6

LEMMA StoreOK ==
  ASSUME IInv, NEW w \in Workers, UNCHANGED connectionVars, StoreVersion(w)
  PROVE  WorkersOK' /\ WorldOK' /\ Harmless'
<1> DEFINE c == [call[w] EXCEPT !.pc = "reread", !.read = NoCall]
<1>1. /\ call[w] \in CallRecords /\ Once(w) /\ stage[w] = "out" /\ call[w].pc = "store"
      /\ call[w].read \in {7, 8} /\ (call[w].read = 8 => release = 8)
  BY PlaceOK DEF StoreVersion, At, Asked
<1>2. c \in CallRecords
  BY <1>1 DEF CallRecords, PCs
<1>3. call' = [call EXCEPT ![w] = c]
  BY DEF StoreVersion, IInv, WorkersOK, CallRecords
<1>4. /\ c.op = call[w].op /\ c.payload = call[w].payload /\ c.field = call[w].field
      /\ c.value = call[w].value /\ c.applied = call[w].applied /\ c.pc = "reread"
  BY <1>1 DEF CallRecords
<1>5. Request(c.op) \in {"POST", "DDL"} => c.applied <= 1 /\ c.applied = 0
  BY <1>1, <1>4 DEF Once, Ends
<1>6. stage' = stage /\ Grows /\ UNCHANGED <<dns, moved>>
  BY DEF connectionVars, StoreVersion, Grows, history
<1>7. WorldOK' /\ Harmless'
  <2>1. ASSUME NEW d \in Documents, docs[d] # Gone PROVE Whole(docs[d], d)'
    BY <2>1 DEF IInv, WorldOK, Whole, StoreVersion, history
  <2> QED BY <1>1, <2>1 DEF IInv, WorldOK, Harmless, StoreVersion, At, history
<1> HIDE DEF c
<1> QED BY <1>1, <1>2, <1>3, <1>4, <1>5, <1>6, <1>7, AsideOK

(* What an authorised destination is not.                                       *)
LEMMA AuthorisedOK ==
  ASSUME IInv, NEW w \in Workers, call[w].pc = "destinations",
         Authorised(call[w].op, call[w].payload)
  PROVE  Shown("destinations", w)
<1> SUFFICES ASSUME NEW l \in call[w].payload PROVE ~Misleads(w, l)
  BY DEF Shown
<1>1. /\ ValidLeaf(l) /\ ValidDestination(l.dest)
      /\ AllowAny \in BOOLEAN /\ SkipDns \in BOOLEAN
  <2>1. call[w].payload \in Payloads \union {{}}
    BY DEF IInv, WorkersOK, CallRecords
  <2> QED BY <2>1, AdminAssumption, EgressAssumption DEF ValidLeaf
<1>2. Named(l.dest) => dns[l.dest] \subseteq Ranges
  BY <1>1 DEF IInv, WorldOK, Names, ValidLeaf
<1>3. CASE LeafAllowed(l, dns)
  BY <1>1, <1>2, <1>3
     DEF LeafAllowed, Misleads, EgressAllowed, ResolvedAllowed, Admitted, AlwaysDenied, Named,
         Relevant, ValidLeaf, ValidDestination, Ranges
<1>4. CASE l.key = "host" /\ EgressAllowed(l.dest, dns)
  BY <1>1, <1>2, <1>4
     DEF Misleads, EgressAllowed, ResolvedAllowed, Admitted, AlwaysDenied, Named,
         Relevant, ValidLeaf, ValidDestination, Ranges
<1>5. LeafAllowed(l, dns) \/ (l.key = "host" /\ EgressAllowed(l.dest, dns))
  <2>1. PICK g \in Guards : Does(call[w].op, g)
    BY PlaceOK DEF Asked
  <2>2. Does(call[w].op, "direct") => l.key = "host"
    BY PlaceOK DEF Asked
  <2> QED BY <2>1, <2>2 DEF Guards, Authorised, GuardDirect, GuardFlat, GuardNested
<1> QED BY <1>3, <1>4, <1>5

LEMMA ChecksOK ==
  ASSUME IInv, NEW w \in Workers, UNCHANGED connectionVars,
         CheckStatement(w) \/ CheckDestinations(w) \/ CheckDeclared(w)
  PROVE  WorkersOK' /\ WorldOK' /\ Harmless'
<1>1. Quiet /\ UNCHANGED <<faults, edits>>
  BY DEF CheckStatement, CheckDestinations, CheckDeclared, At
<1>2. WorldOK' /\ Harmless'
  BY <1>1, QuietOK DEF IInv, WorldOK
<1>3. ASSUME NEW k \in 2..4, NEW allowed \in BOOLEAN, call[w].pc = Steps[k],
             PassIf(w, allowed, Steps[k]), allowed => Shown(Steps[k], w)
      PROVE  WorkersOK'
  <2>1. call[w].pc \notin Ends \union {"idle"} /\ stage[w] = "out"
    <3>1. Steps[k] \notin Ends \union {"idle"} /\ Steps[k] # "connect"
      BY StepsAre
    <3> QED BY <1>3, <3>1, PlaceOK
  <2> QED BY <1>1, <1>3, <2>1, PassedAt, PassOK DEF Quiet, connectionVars
<1>4. CASE CheckStatement(w)
  <2> DEFINE allowed == Accepts(call[w].op, call[w].statement)
  <2>1. allowed => Shown(Steps[2], w)
    BY StepsAre DEF Shown
  <2>2. allowed \in BOOLEAN
    BY DEF Accepts
  <2> HIDE DEF allowed
  <2> QED BY <1>2, <1>3, <1>4, <2>1, <2>2, StepsAre DEF CheckStatement, At, allowed
<1>5. CASE CheckDestinations(w)
  <2> DEFINE allowed == Authorised(call[w].op, call[w].payload)
  <2>1. allowed => Shown(Steps[3], w)
    BY <1>5, AuthorisedOK, StepsAre DEF CheckDestinations, At
  <2>2. allowed \in BOOLEAN
    BY DEF Authorised
  <2> HIDE DEF allowed
  <2> QED BY <1>2, <1>3, <1>5, <2>1, <2>2, StepsAre DEF CheckDestinations, At, allowed
<1>6. CASE CheckDeclared(w)
  <2>1. Shown(Steps[4], w)
    BY StepsAre DEF Shown
  <2>2. call[w].declared \in BOOLEAN
    BY DEF IInv, WorkersOK, CallRecords
  <2> QED BY <1>2, <1>3, <1>6, <2>1, <2>2, StepsAre DEF CheckDeclared, At
<1> QED BY <1>4, <1>5, <1>6

--------------------------------------------------------------------------------
(* Whatever the read answers, what is merged onto is whole, or the answer that  *)
(* held no user is remembered.                                                  *)
LEMMA ReadOK ==
  ASSUME IInv, NEW w \in Workers, UNCHANGED connectionVars, ReadCurrent(w)
  PROVE  WorkersOK' /\ WorldOK' /\ Harmless'
<1>0. PICK d \in Documents : d = DocumentOf(call[w].op)
  BY DEF DocumentOf, Documents
<1>1. /\ UNCHANGED <<world, faults, edits, moved, strayed, misled, outdated>>
      /\ unread' = unread \/ unread' = unread \union {d}
      /\ call[w].pc = "read"
  BY <1>0 DEF ReadCurrent, At
<1>2. WorldOK' /\ Harmless'
  <2>1. ASSUME NEW e \in Documents, docs[e] # Gone PROVE Whole(docs[e], e)'
    BY <1>1, <2>1 DEF IInv, WorldOK, Whole, world
  <2> QED BY <1>1, <2>1 DEF IInv, WorldOK, Harmless, world
<1>3. Grows /\ UNCHANGED <<dns, moved, stage>>
  BY <1>1 DEF Grows, world, connectionVars
<1>4. /\ call[w] \in CallRecords /\ stage[w] = "out"
      /\ call[w].pc \notin {"idle", "connect"} \union Ends
  BY <1>1, PlaceOK DEF Ends
<1>5. ASSUME NEW pc \in {"failed", "refused"}, Goto(w, pc) PROVE WorkersOK'
  BY <1>3, <1>4, <1>5, JumpOK DEF Ends
<1>6. ASSUME NEW base \in Answer, Whole(base, d)',
             call' = [call EXCEPT ![w].read = base, ![w].pc = "send", ![w].attempt = 1]
      PROVE  WorkersOK'
  <2> DEFINE c == [call[w] EXCEPT !.read = base, !.pc = "send", !.attempt = 1]
  <2>1. 1 \in 1..MaxAttempts /\ "send" \in PCs
    BY RequestAssumption, StepsAre DEF PCs
  <2>2. c \in CallRecords
    BY <1>4, <2>1 DEF CallRecords
  <2>3. call' = [call EXCEPT ![w] = c]
    BY <1>6 DEF IInv, WorkersOK, CallRecords
  <2>4. /\ c.pc = Steps[7] /\ c.op = call[w].op /\ c.payload = call[w].payload
        /\ c.field = call[w].field /\ c.value = call[w].value
        /\ c.statement = call[w].statement /\ c.applied = call[w].applied /\ c.read = base
    BY <1>4, StepsAre DEF CallRecords
  <2> HIDE DEF c
  <2>5. call'[w] = c
    BY <2>3 DEF IInv, WorkersOK
  <2> PICK n \in 1..7 : n = 7
    OBVIOUS
  <2>6. ASSUME NEW j \in 1..(n - 1), Applies(Steps[j], c.op) PROVE Shown(Steps[j], w)'
    <3>1. CASE j \in 1..4
      <4>1. Shown(Steps[j], w)
        BY <1>1, <2>4, <2>6, <3>1, PassedAt, StepsAre
      <4>2. Steps[j] # "read"
        BY <3>1, StepsAre
      <4> QED BY <1>1, <1>3, <2>4, <2>5, <4>1, <4>2, AdmitsOK DEF Shown, Grows, Admits
    <3>2. CASE j = 5
      BY <1>0, <1>6, <2>4, <2>5, <3>2, StepsAre DEF Shown
    <3>3. CASE j = 6
      BY <3>3, StepsAre DEF Shown
    <3> QED BY <3>1, <3>2, <3>3
  <2> QED BY <1>3, <1>4, <2>2, <2>3, <2>4, <2>6, OnwardOK
<1>7. CASE docs[d] # Gone /\ call' = [call EXCEPT ![w].read = docs[d], ![w].pc = "send",
                                                 ![w].attempt = 1]
  <2>1. PICK base : base = docs[d]
    OBVIOUS
  <2>2. Whole(base, d)
    BY <1>1, <1>7, <2>1 DEF IInv, WorldOK
  <2>3. base \in Answer /\ Whole(base, d)'
    BY <1>1, <2>2 DEF Whole
  <2>4. call' = [call EXCEPT ![w].read = base, ![w].pc = "send", ![w].attempt = 1]
    BY <1>7, <2>1, Zenon
  <2> QED BY <1>2, <1>6, <2>3, <2>4
<1>8. CASE /\ d = "user" /\ unread' = unread \union {d}
           /\ call' = [call EXCEPT ![w].read = Blank, ![w].pc = "send", ![w].attempt = 1]
  <2>1. PICK base : base = Blank
    OBVIOUS
  <2>2. base \in Answer /\ Whole(base, d)'
    BY <1>8, <2>1 DEF Blank, Answer, Whole
  <2>3. call' = [call EXCEPT ![w].read = base, ![w].pc = "send", ![w].attempt = 1]
    BY <1>8, <2>1, Zenon
  <2> QED BY <1>2, <1>6, <2>2, <2>3
<1>9. Goto(w, "failed") \/ Goto(w, "refused") => WorkersOK'
  BY <1>5
<1> QED BY <1>0, <1>1, <1>2, <1>7, <1>8, <1>9 DEF ReadCurrent, Documents

--------------------------------------------------------------------------------
(* Connecting: the call goes on with the connection or fails.                   *)
LEMMA ConnectOK ==
  ASSUME IInv, NEW w \in Workers, Connect(w) \/ ConnectFails(w)
  PROVE  WorkersOK' /\ WorldOK' /\ Harmless'
<1>1. Quiet /\ call[w].pc = "connect" /\ UNCHANGED edits
      /\ (faults' = faults \/ (faults > 0 /\ faults' = faults - 1))
  BY DEF Connect, ConnectFails, At
<1>2. WorldOK' /\ Harmless'
  BY <1>1, QuietOK, AdminAssumption DEF IInv, WorldOK
<1>3. Grows /\ UNCHANGED <<dns, moved>>
  BY <1>1 DEF Quiet, Grows, world, history
<1>4. \A u \in Workers \ {w} : stage'[u] = stage[u]
  BY DEF Connect, ConnectFails, GoOn, Ask, Enter, Open, Publish, Leave, GiveUp, To, IInv,
         ConnectionIInv, ConnectionTypeOK
<1>5. CASE call' = call
  <2>1. call[w] \in CallRecords /\ call' = [call EXCEPT ![w] = call[w]]
    BY <1>5 DEF IInv, WorkersOK
  <2> PICK n \in 1..7 : n = 6
    OBVIOUS
  <2>2. ASSUME NEW j \in 1..(n - 1), Applies(Steps[j], call[w].op) PROVE Shown(Steps[j], w)'
    BY <1>1, <1>3, <1>5, <2>2, PassedAt, StepsAre, ShownStays, AdmitsOK
  <2>3. Steps[6] = "connect" /\ call[w].pc \notin Ends \union {"idle"}
    BY <1>1, StepsAre DEF Ends
  <2> QED BY <1>1, <1>2, <1>3, <1>4, <2>1, <2>2, <2>3, OnwardOK
<1>6. CASE stage[w] = "ready" /\ GoOn(w) /\ Goto(w, "send")
  <2> DEFINE c == [call[w] EXCEPT !.pc = "send", !.attempt = 1]
  <2>0. call[w] \in CallRecords
    BY DEF IInv, WorkersOK
  <2>1. 1 \in 1..MaxAttempts /\ "send" \in PCs
    BY RequestAssumption, StepsAre DEF PCs
  <2>2. c \in CallRecords
    BY <2>0, <2>1 DEF CallRecords
  <2>3. call' = [call EXCEPT ![w] = c]
    BY <1>6 DEF Goto, IInv, WorkersOK, CallRecords
  <2>4. /\ c.pc = Steps[7] /\ c.op = call[w].op /\ c.payload = call[w].payload
        /\ c.field = call[w].field /\ c.value = call[w].value
        /\ c.statement = call[w].statement /\ c.applied = call[w].applied
        /\ c.read = call[w].read
    BY <2>0, StepsAre DEF CallRecords
  <2> HIDE DEF c
  <2>5. call'[w] = c
    BY <2>3 DEF IInv, WorkersOK
  <2> PICK n \in 1..7 : n = 7
    OBVIOUS
  <2>6. ASSUME NEW j \in 1..(n - 1), Applies(Steps[j], c.op) PROVE Shown(Steps[j], w)'
    <3>1. CASE j \in 1..5
      BY <1>1, <1>3, <2>4, <2>5, <2>6, <3>1, PassedAt, StepsAre, ShownStays, AdmitsOK
    <3>2. CASE j = 6
      BY <3>2, StepsAre DEF Shown
    <3> QED BY <3>1, <3>2
  <2>7. stage'[w] = "out" /\ call[w].pc \notin Ends \union {"idle"}
    BY <1>1, <1>6 DEF GoOn, To, Ends, IInv, ConnectionIInv, ConnectionTypeOK
  <2> QED BY <1>2, <1>3, <1>4, <2>2, <2>3, <2>4, <2>6, <2>7, OnwardOK
<1>7. CASE stage[w] = "failed" /\ GoOn(w) /\ Goto(w, "failed")
  <2> DEFINE c == [call[w] EXCEPT !.pc = "failed", !.attempt = 1]
  <2>0. call[w] \in CallRecords /\ Once(w)
    BY <1>1, PlaceOK
  <2>1. 1 \in 1..MaxAttempts /\ "failed" \in PCs
    BY RequestAssumption DEF PCs
  <2>2. c \in CallRecords
    BY <2>0, <2>1 DEF CallRecords
  <2>3. call' = [call EXCEPT ![w] = c]
    BY <1>7 DEF Goto, IInv, WorkersOK, CallRecords
  <2>4. /\ c.pc = "failed" /\ c.op = call[w].op /\ c.payload = call[w].payload
        /\ c.field = call[w].field /\ c.value = call[w].value /\ c.applied = call[w].applied
    BY <2>0 DEF CallRecords
  <2> HIDE DEF c
  <2>5. Request(c.op) \in {"POST", "DDL"} => c.applied <= 1
    BY <2>0, <2>4 DEF Once
  <2>6. stage'[w] = "out"
    BY <1>7 DEF GoOn, To, IInv, ConnectionIInv, ConnectionTypeOK
  <2>7. c.pc \in Ends
    BY <2>4 DEF Ends
  <2> QED BY <1>1, <1>2, <1>3, <1>4, <2>2, <2>3, <2>4, <2>5, <2>6, <2>7, AsideOK
<1> QED BY <1>2, <1>5, <1>6, <1>7 DEF Connect, ConnectFails

--------------------------------------------------------------------------------
(* What a request does that reaches the cluster: every step its tool needs has  *)
(* been gone through.                                                           *)
LEMMA ReachesOK ==
  ASSUME IInv, NEW w \in Workers, call[w].pc = "send", Reaches(w),
         faults' \in 0..MaxFaults, UNCHANGED edits
  PROVE  WorldOK' /\ Harmless' /\ Grows /\ UNCHANGED <<dns, moved>>
<1> DEFINE op == call[w].op
<1>1. /\ call[w] \in CallRecords /\ Asked(w) /\ op \in CallNames
      /\ UNCHANGED <<release, version, dns, moved, unread>>
  BY PlaceOK DEF Reaches
<1>2. ASSUME NEW j \in 1..6, Applies(Steps[j], op) PROVE Shown(Steps[j], w)
  <2> PICK n \in 1..7 : n = 7
    OBVIOUS
  <2>1. call[w].pc = Steps[n] /\ j \in 1..(n - 1)
    BY StepsAre
  <2> QED BY <1>2, <2>1, PassedAt
<1>3. Does(op, "gate") => release = 8
  BY <1>2, StepsAre DEF Applies, Shown
<1>4. Does(op, "statement") => Accepts(op, call[w].statement)
  BY <1>2, StepsAre DEF Applies, Shown
<1>5. \A l \in call[w].payload : ~Misleads(w, l)
  BY <1>1, <1>2, StepsAre DEF Applies, Shown, Asked
<1>6. Merges(op) => Whole(call[w].read, DocumentOf(op))
  BY <1>2, StepsAre DEF Applies, Shown
<1>7. ~Strays(call[w])
  BY <1>1, <1>4, RegistryFits DEF Strays, Accepts
<1>8. strayed' = {} /\ misled' = {} /\ outdated' = {}
  BY <1>1, <1>3, <1>5, <1>7 DEF Reaches, IInv, WorldOK, Harmless
<1>9. /\ docs' \in [Documents -> Answer \union {Gone}]
      /\ \A d \in Documents : docs'[d] # Gone => Whole(docs[d], d)'
  <2> USE DEF IInv, WorldOK
  <2>0. docs' = Written(call[w])
    BY DEF Reaches
  <2>1. CASE Merges(op)
    <3>1. PICK new : new = Merged(call[w])
      OBVIOUS
    <3>2. new \in Answer /\ ((\E f \in Fields : new[f] = Unset) =>
                               \E f \in Fields : call[w].read[f] = Unset)
      BY <1>1, <1>6, <2>1, <3>1, AdminAssumption DEF Merged, Asked, Whole, Answer, Fields
    <3>3. docs' = [docs EXCEPT ![DocumentOf(op)] = new]
      BY <2>0, <2>1, <3>1 DEF Written
    <3>4. DocumentOf(op) \in Documents
      BY DEF DocumentOf, Documents
    <3>5. ASSUME NEW d \in Documents, docs'[d] # Gone PROVE Whole(docs[d], d)'
      <4>1. CASE d = DocumentOf(op)
        BY <1>1, <1>6, <2>1, <3>2, <3>3, <4>1 DEF Whole
      <4>2. CASE d # DocumentOf(op)
        BY <1>1, <3>3, <3>5, <4>2 DEF Whole
      <4> QED BY <4>1, <4>2
    <3> QED BY <3>2, <3>3, <3>4, <3>5
  <2>2. CASE ~Merges(op) /\ op = "user_delete"
    <3>1. docs' = [docs EXCEPT !["user"] = Gone]
      BY <2>0, <2>2 DEF Written
    <3> QED BY <1>1, <3>1 DEF Whole
  <2>3. CASE ~Merges(op) /\ op # "user_delete"
    <3>1. docs' = docs
      BY <2>0, <2>3 DEF Written
    <3> QED BY <1>1, <3>1 DEF Whole
  <2> QED BY <2>1, <2>2, <2>3
<1>10. WorldOK'
  BY <1>1, <1>9 DEF IInv, WorldOK
<1> QED BY <1>1, <1>8, <1>10 DEF Harmless, Grows

(* The end of a call, or one of its attempts.                                   *)
LEMMA SendOK ==
  ASSUME IInv, NEW w \in Workers, Send(w)
  PROVE  WorkersOK' /\ WorldOK' /\ Harmless'
<1>1. /\ call[w].pc = "send" /\ UNCHANGED <<faults, edits>> /\ stage' = stage
      /\ UNCHANGED connectionVars
  BY DEF Send, At, connectionVars
<1>2. /\ call[w] \in CallRecords /\ Once(w) /\ stage[w] = "out" /\ faults' \in 0..MaxFaults
      /\ call[w].pc \notin {"idle", "connect"} \union Ends
  BY <1>1, PlaceOK DEF IInv, WorldOK, Ends
<1>3. CASE Reaches(w) /\ call' = [call EXCEPT ![w].pc = "answered", ![w].applied = @ + 1]
  <2>1. WorldOK' /\ Harmless' /\ Grows /\ UNCHANGED <<dns, moved>>
    BY <1>1, <1>2, <1>3, ReachesOK
  <2> DEFINE c == [call[w] EXCEPT !.pc = "answered", !.applied = call[w].applied + 1]
  <2>2. c \in CallRecords
    <3>1. "answered" \in PCs /\ call[w].applied + 1 \in Nat
      BY <1>2 DEF CallRecords, PCs
    <3> QED BY <1>2, <3>1 DEF CallRecords
  <2>3. call' = [call EXCEPT ![w] = c]
    BY <1>3 DEF IInv, WorkersOK, CallRecords
  <2>4. /\ c.pc = "answered" /\ c.op = call[w].op /\ c.payload = call[w].payload
        /\ c.field = call[w].field /\ c.value = call[w].value
        /\ c.applied = call[w].applied + 1
    BY <1>2 DEF CallRecords
  <2> HIDE DEF c
  <2>5. Request(c.op) \in {"POST", "DDL"} => c.applied <= 1
    BY <1>2, <2>4 DEF Once
  <2>6. c.pc \in Ends
    BY <2>4 DEF Ends
  <2> QED BY <1>1, <1>2, <2>1, <2>2, <2>3, <2>4, <2>5, <2>6, AsideOK
<1>4. CASE Quiet /\ \E pc \in {"failed", "refused", "answered"} : Goto(w, pc)
  <2>1. Grows /\ UNCHANGED <<dns, moved>>
    BY <1>4 DEF Quiet, Grows, world, history
  <2>2. PICK pc \in {"pools", "reread"} \union Ends : Goto(w, pc)
    BY <1>4 DEF Ends
  <2> QED BY <1>1, <1>2, <1>4, <2>1, <2>2, JumpOK, QuietOK
<1> QED BY <1>3, <1>4 DEF Send

LEMMA FailsOK ==
  ASSUME IInv, NEW w \in Workers, NEW fault \in Faults, Fails(w, fault)
  PROVE  WorkersOK' /\ WorldOK' /\ Harmless'
<1> DEFINE c == call[w]
           again == ~(c.pc = "send" /\ UsesSdk(c.op)) /\ Repeats(fault, MethodNow(w), c.attempt)
           ended == IF again THEN [c EXCEPT !.attempt = @ + 1]
                    ELSE [c EXCEPT !.pc = IF c.pc = "pools" THEN "reread" ELSE "failed"]
<1>1. /\ Requesting(w) /\ stage' = stage /\ UNCHANGED edits /\ faults' \in 0..MaxFaults
  BY AdminAssumption DEF Fails, connectionVars, IInv, WorldOK
<1>2. c.pc \in {"pools", "read", "send"}
  BY <1>1 DEF Requesting
<1>3. /\ c \in CallRecords /\ Once(w) /\ stage[w] = "out" /\ c.applied \in Nat
      /\ c.pc \notin {"idle", "connect", "store"} \union Ends
  BY <1>2, PlaceOK DEF Ends, CallRecords
<1>4. again => c.attempt + 1 \in 1..MaxAttempts
  BY <1>3, RequestAssumption DEF Repeats, CallRecords
<1>5. 1 \in 1..MaxAttempts /\ {"reread", "failed"} \subseteq PCs
  BY RequestAssumption DEF PCs
<1> HIDE DEF again, ended
<1>6. ASSUME NEW e \in CallRecords, call' = [call EXCEPT ![w] = e],
             e.op = c.op, e.payload = c.payload, e.field = c.field, e.value = c.value,
             e.statement = c.statement, e.read = c.read, e.pc = c.pc,
             Request(c.op) \in {"POST", "DDL"} => e.applied = c.applied,
             Grows, UNCHANGED <<dns, moved>>
      PROVE  WorkersOK'
  <2>1. call'[w] = e
    BY <1>6 DEF IInv, WorkersOK
  <2>2. Asked(w)' /\ Once(w)'
    BY <1>2, <1>3, <1>6, <2>1, AskedStays DEF Once
  <2>3. ASSUME NEW step, Shown(step, w) PROVE Shown(step, w)'
    BY <1>6, <2>1, <2>3, ShownStays, AdmitsOK
  <2>4. Passed(w)'
    BY <1>6, <2>1, <2>3 DEF Passed, IInv, WorkersOK, Sound
  <2>5. Sound(w)'
    BY <1>1, <1>3, <2>2, <2>4 DEF Sound
  <2> QED BY <1>1, <1>6, <2>5, MoveOK
<1>7. ASSUME NEW e \in CallRecords, call' = [call EXCEPT ![w] = e],
             e.op = c.op, e.payload = c.payload, e.field = c.field, e.value = c.value,
             \/ e.pc = "reread" /\ e.applied = c.applied
             \/ e.pc = "failed" /\ e.applied \in {c.applied, c.applied + 1},
             Grows, UNCHANGED <<dns, moved>>
      PROVE  WorkersOK'
  <2>1. e.pc \in {"pools", "store", "reread"} \union Ends /\ e.pc # "store"
    BY <1>7 DEF Ends
  <2>2. Request(e.op) \in {"POST", "DDL"} =>
          e.applied <= 1 /\ (e.pc \notin Ends => e.applied = 0)
    BY <1>3, <1>7 DEF Once, Ends
  <2> QED BY <1>1, <1>3, <1>7, <2>1, <2>2, AsideOK
<1>8. CASE call' = [call EXCEPT ![w] = IF again THEN ended ELSE [ended EXCEPT !.attempt = 1]]
           /\ Quiet
  <2>1. Grows /\ UNCHANGED <<dns, moved>> /\ WorldOK' /\ Harmless'
    BY <1>1, <1>8, QuietOK DEF Quiet, Grows, world, history
  <2>2. CASE again
    <3> PICK e : e = [c EXCEPT !.attempt = c.attempt + 1]
      OBVIOUS
    <3>1. call' = [call EXCEPT ![w] = e]
      BY <1>8, <2>2 DEF ended, IInv, WorkersOK, CallRecords
    <3>2. /\ e \in CallRecords /\ e.op = c.op /\ e.payload = c.payload /\ e.field = c.field
          /\ e.value = c.value /\ e.statement = c.statement /\ e.read = c.read
          /\ e.pc = c.pc /\ e.applied = c.applied
      BY <1>3, <1>4, <2>2 DEF CallRecords
    <3> QED BY <1>6, <2>1, <3>1, <3>2
  <2>3. CASE ~again
    <3> PICK e : e = [c EXCEPT !.pc = IF c.pc = "pools" THEN "reread" ELSE "failed",
                               !.attempt = 1]
      OBVIOUS
    <3>1. call' = [call EXCEPT ![w] = e]
      BY <1>8, <2>3 DEF ended, IInv, WorkersOK, CallRecords
    <3>2. /\ e \in CallRecords /\ e.op = c.op /\ e.payload = c.payload /\ e.field = c.field
          /\ e.value = c.value /\ e.applied = c.applied /\ e.pc \in {"reread", "failed"}
      BY <1>3, <1>5 DEF CallRecords
    <3> QED BY <1>7, <2>1, <3>1, <3>2
  <2> QED BY <2>2, <2>3
<1>9. CASE /\ c.pc = "send" /\ MayHaveApplied(fault) /\ Reaches(w)
           /\ call' = [call EXCEPT ![w] = [ended EXCEPT !.applied = @ + 1]]
  <2>1. WorldOK' /\ Harmless' /\ Grows /\ UNCHANGED <<dns, moved>>
    BY <1>1, <1>9, ReachesOK
  <2>2. CASE again
    <3> PICK e : e = [c EXCEPT !.attempt = c.attempt + 1, !.applied = c.applied + 1]
      OBVIOUS
    <3>1. call' = [call EXCEPT ![w] = e]
      BY <1>9, <2>2 DEF ended, IInv, WorkersOK, CallRecords
    <3>2. /\ e \in CallRecords /\ e.op = c.op /\ e.payload = c.payload /\ e.field = c.field
          /\ e.value = c.value /\ e.statement = c.statement /\ e.read = c.read
          /\ e.pc = c.pc
      <4>1. c.applied + 1 \in Nat
        BY <1>3
      <4> QED BY <1>3, <1>4, <2>2, <4>1 DEF CallRecords
    <3>3. Request(c.op) \notin {"POST", "DDL"}
      BY <1>9, <2>2 DEF again, Repeats, Retryable, IdempotentMethods, MethodNow, MayHaveApplied, UsesSdk
    <3> QED BY <1>6, <2>1, <3>1, <3>2, <3>3
  <2>3. CASE ~again
    <3> PICK e : e = [c EXCEPT !.pc = "failed", !.applied = c.applied + 1]
      OBVIOUS
    <3>1. call' = [call EXCEPT ![w] = e]
      BY <1>9, <2>3 DEF ended, IInv, WorkersOK, CallRecords
    <3>2. /\ e \in CallRecords /\ e.op = c.op /\ e.payload = c.payload /\ e.field = c.field
          /\ e.value = c.value /\ e.applied = c.applied + 1 /\ e.pc = "failed"
      <4>1. c.applied + 1 \in Nat
        BY <1>3
      <4> QED BY <1>3, <1>5, <4>1 DEF CallRecords
    <3> QED BY <1>7, <2>1, <3>1, <3>2
  <2> QED BY <2>1, <2>2, <2>3
<1>10. Fails(w, fault) <=>
         /\ faults > 0 /\ faults' = faults - 1
         /\ Requesting(w) /\ UNCHANGED <<edits, connectionVars>>
         /\ \/ call' = [call EXCEPT ![w] = IF again THEN ended ELSE [ended EXCEPT !.attempt = 1]]
               /\ Quiet
            \/ /\ c.pc = "send" /\ MayHaveApplied(fault) /\ ~Missing(c) /\ Reaches(w)
               /\ call' = [call EXCEPT ![w] = [ended EXCEPT !.applied = @ + 1]]
  BY Zenon DEF Fails, again, ended
<1> QED BY <1>8, <1>9, <1>10

--------------------------------------------------------------------------------
(* What others do: a destination that was authorised moves away only on record. *)
LEMMA OthersOK ==
  ASSUME IInv,
         \/ \E d \in Documents : EditDocument(d)
         \/ Upgrade
         \/ \E d \in Names : MoveName(d)
  PROVE  WorkersOK' /\ WorldOK' /\ Harmless'
<1>1. /\ Edit /\ call' = call /\ stage' = stage /\ faults' = faults
      /\ edits' \in 0..MaxEdits
      /\ UNCHANGED <<version, unread, strayed, misled, outdated>>
  BY AdminAssumption
     DEF EditDocument, Upgrade, MoveName, Edit, history, connectionVars, IInv, WorldOK
<1>2. Harmless'
  BY <1>1 DEF IInv, Harmless
<1>3. ASSUME Grows, \A w \in Workers : Admits(w) PROVE WorkersOK'
  BY <1>1, <1>3, StandsOK DEF IInv, WorkersOK
<1>4. ASSUME NEW d \in Documents, docs' = docs, docs[d] # Gone PROVE Whole(docs[d], d)'
  BY <1>1, <1>4 DEF IInv, WorldOK, Whole
<1>5. ASSUME NEW d \in Documents, EditDocument(d) PROVE WorkersOK' /\ WorldOK'
  <2>1. UNCHANGED <<release, version, dns, moved>>
    BY <1>5 DEF EditDocument, history
  <2>2. PICK new \in [Fields -> Values] \union {Gone} : docs' = [docs EXCEPT ![d] = new]
    BY <1>5 DEF EditDocument
  <2>3. new # Gone => new \in Answer /\ \A f \in Fields : new[f] # Unset
    BY <2>2, AdminAssumption DEF Answer
  <2>4. docs' \in [Documents -> Answer \union {Gone}]
    BY <2>2, <2>3 DEF IInv, WorldOK
  <2>5. ASSUME NEW e \in Documents, docs'[e] # Gone PROVE Whole(docs[e], e)'
    <3>1. CASE e = d
      BY <2>2, <2>3, <2>5, <3>1 DEF Whole, IInv, WorldOK
    <3>2. CASE e # d
      BY <1>1, <2>2, <2>5, <3>2 DEF Whole, IInv, WorldOK
    <3> QED BY <3>1, <3>2
  <2>6. Grows /\ \A w \in Workers : Admits(w)
    BY <1>1, <2>1, AdmitsOK DEF Grows
  <2> QED BY <1>1, <1>3, <2>1, <2>4, <2>5, <2>6 DEF IInv, WorldOK
<1>6. CASE Upgrade
  <2>1. release' = 8 /\ UNCHANGED <<docs, dns, moved>>
    BY <1>6 DEF Upgrade, history
  <2>2. Grows /\ \A w \in Workers : Admits(w)
    BY <1>1, <2>1, AdmitsOK DEF Grows
  <2>3. \A d \in Documents : docs'[d] # Gone => Whole(docs[d], d)'
    BY <1>4, <2>1
  <2> QED BY <1>1, <1>2, <1>3, <2>1, <2>2, <2>3 DEF IInv, WorldOK
<1>7. ASSUME NEW d \in Names, MoveName(d) PROVE WorkersOK' /\ WorldOK'
  <2>1. PICK ranges \in SUBSET Ranges : dns' = [dns EXCEPT ![d] = ranges]
    BY <1>7 DEF MoveName
  <2>2. /\ moved' = [w \in Workers |-> IF Carries(w, d) THEN moved[w] \union {d} ELSE moved[w]]
        /\ UNCHANGED <<docs, release>>
    BY <1>7 DEF MoveName
  <2>3. ASSUME NEW w \in Workers, NEW l \in call[w].payload, ~Misleads(w, l)
        PROVE  ~Misleads(w, l)'
    <3>1. moved[w] \subseteq moved'[w] /\ (l.dest = d => l.dest \in moved'[w])
      BY <2>2 DEF Carries
    <3>2. Named(l.dest) /\ l.dest # d => dns'[l.dest] = dns[l.dest]
      <4>1. l.dest \in Destinations
        BY AdminAssumption DEF IInv, WorkersOK, CallRecords, ValidLeaf
      <4> QED BY <2>1, <4>1 DEF IInv, WorldOK, Names
    <3> QED BY <2>3, <3>1, <3>2 DEF Misleads
  <2>4. \A w \in Workers : Admits(w)
    BY <2>3 DEF Admits
  <2>5. Grows
    BY <1>1, <2>2 DEF Grows
  <2>6. dns' \in [Names -> SUBSET Ranges] /\ moved' \in [Workers -> SUBSET Names]
    BY <2>1, <2>2 DEF IInv, WorldOK
  <2> QED BY <1>1, <1>3, <1>4, <2>2, <2>4, <2>5, <2>6 DEF IInv, WorldOK
<1> QED BY <1>2, <1>5, <1>6, <1>7

--------------------------------------------------------------------------------
LEMMA StepOK ==
  ASSUME IInv, [Next]_vars
  PROVE  IInv'
<1>1. ConnectionIInv'
  BY CallsOnlyConnect, StepKeeps, StutterKeeps DEF IInv
<1>2. CASE UNCHANGED vars
  <2>1. /\ Quiet /\ UNCHANGED <<call, stage, faults, edits, dns, moved>>
        /\ Grows /\ faults \in 0..MaxFaults
    BY <1>2 DEF vars, Quiet, Grows, world, history, connectionVars, IInv, WorldOK
  <2>2. \A w \in Workers : Sound(w)'
    BY <2>1, AdmitsOK, StandsOK
  <2>3. WorldOK' /\ Harmless'
    BY <2>1, QuietOK
  <2> QED BY <1>1, <2>1, <2>2, <2>3 DEF IInv, WorkersOK
<1>3. ASSUME NEW w \in Workers, NEW op \in Calls, Begin(w, op)
      PROVE  WorkersOK' /\ WorldOK' /\ Harmless'
  <2>1. Quiet /\ UNCHANGED edits /\ faults' \in 0..MaxFaults
    BY <1>3 DEF Begin, Quiet, IInv, WorldOK
  <2> QED BY <1>3, <2>1, BeginOK, QuietOK
<1>4. ASSUME NEW w \in Workers, Check(w) /\ UNCHANGED connectionVars
      PROVE  WorkersOK' /\ WorldOK' /\ Harmless'
  BY <1>4, VersionOK, StoreOK, ChecksOK, ReadOK DEF Check
<1>5. ASSUME Next PROVE WorkersOK' /\ WorldOK' /\ Harmless'
  BY <1>3, <1>4, <1>5, ConnectOK, SendOK, FailsOK, OthersOK DEF Next, Step
<1> QED BY <1>1, <1>2, <1>5 DEF IInv

LEMMA Holds == IInv => AdminInv /\ ChangeInv
<1> SUFFICES ASSUME IInv PROVE AdminInv /\ ChangeInv
  OBVIOUS
<1>1. TypeOK
  BY DEF IInv, WorkersOK, WorldOK, ConnectionIInv, CallRecords, Sound, TypeOK
<1>2. EffectsFitTheTool /\ EgressHolds /\ GateHolds
  BY DEF IInv, Harmless, EffectsFitTheTool, EgressHolds, GateHolds
<1>3. AppliedOnce
  <2> SUFFICES ASSUME NEW w \in Workers, call[w].op # NoCall,
                      Request(call[w].op) \in {"POST", "DDL"}
               PROVE  call[w].applied <= 1
    BY DEF AppliedOnce
  <2> QED BY DEF IInv, WorkersOK, Sound, Once
<1>4. NothingReset
  BY DEF IInv, WorldOK, Whole, NothingReset
<1> QED BY <1>1, <1>2, <1>3, <1>4 DEF AdminInv, ChangeInv

(* Whatever the tools are called with, however many run at once, however their  *)
(* requests fail and whatever others do to the cluster meanwhile: no tool does   *)
(* what its entry excludes, no destination is sent that the operator did not     *)
(* admit, and no gated tool reaches a cluster that is not 8.x.                   *)
THEOREM HandlersKeepTheirWord == Spec => []AdminInv
BY InitOK, StepOK, Holds, PTL DEF Spec

(* No POST and no statement is done twice by one call however its answers are    *)
(* lost, and a partial change resets nothing that it does not name.              *)
THEOREM ChangesAreMadeOnce == Spec => []ChangeInv
BY InitOK, StepOK, Holds, PTL DEF Spec
================================================================================
