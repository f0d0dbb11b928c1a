------------------------ MODULE CapellaPrimitivesProofs ------------------------
(* For any number of clusters, any configuration of the guardrails, any page size *)
(* and cap, any failures and any edits by people: no tool of the registry writes   *)
(* outside the sandbox or refuses inside it, none takes a name or a marker away,   *)
(* a create is sent once, and a listing that is not marked truncated is whole.     *)
EXTENDS CapellaPrimitives, FiniteSetTheorems, WellFoundedInduction, TLAPS

Objects == [name : Names, marker : Markers, deletionProtection : BOOLEAN, project : Projects]
Bodies == [name : Names \union {Absent}, description : Markers \union {Absent}]
Lists == [page : Nat \ {0}, items : SUBSET Ids, count : Nat, total : Nat \union {Unknown}]
StepNames == {"own", "target", "contents", "name", "marker", "send"}
PCs == StepNames \union {"idle", "pages", "answered", "refused", "failed"}
CallRecords ==
  [pc : PCs, op : OpNames \union {Absent}, project : Projects \union {Absent},
   id : Ids \union {Absent}, other : Ids \union {Absent}, body : Bodies,
   cap : Caps \union {Absent}, cursor : SUBSET CursorFields, attempt : 1..MaxAttempts,
   list : Lists, foreign : BOOLEAN, applied : 0..MaxAttempts]

WorldOK ==
  /\ cluster \in [Ids -> Objects \union {Absent}]
  /\ faults \in 0..MaxFaults /\ edits \in 0..MaxEdits
  /\ inside \subseteq Ids /\ outside \subseteq Ids /\ steady \subseteq Ids
StateOK == WorldOK /\ call \in CallRecords

\* While a call runs, the history has what the guardrails say of every cluster now.
SeenOK ==
  call.pc # "idle" =>
    /\ call.op \in OpNames
    /\ Inside(call.op, cluster) \subseteq inside /\ Outside(call.op, cluster) \subseteq outside

\* A call is at a step only if it needs it, and has what the step reads.
NeededOK(c) ==
  /\ c.pc \in {"own", "target", "contents", "name", "marker"} => Applies(c.pc, c)
  /\ c.pc \in {"own", "target", "name", "marker"} => c.list = NoPages
  /\ c.pc # "idle" /\ Has(c.op, "paginated") => c.cap \in Int
  /\ c.pc # "idle" /\ (Has(c.op, "paginated") \/ c.op = "project_delete") =>
       c.cursor \in SUBSET CursorFields
  /\ c.pc = "pages" => Has(c.op, "paginated")
  /\ c.pc = "send" => ~ Has(c.op, "paginated")

\* No foreign cluster that people left alone is in a project.
NoneForeign(project, objects, kept) ==
  \A i \in kept : objects[i] # Absent /\ objects[i].project = project =>
    NameAllowed(objects[i].name) /\ ~ IsProtected(i, objects[i].name)

\* What the steps a call has passed have established of it.
PassedOK(c, objects, within, kept) ==
  /\ c.pc \in {"target", "contents", "name", "marker", "send"} /\ Applies("own", c) =>
       c.id \in within
  /\ c.pc \in {"contents", "name", "marker", "send"} /\ Applies("target", c) =>
       c.other \in within
  /\ c.pc \in {"name", "marker", "send"} /\ c.op = "project_delete" /\ c.cursor # {} =>
       NoneForeign(c.project, objects, kept)
  /\ c.pc \in {"marker", "send"} /\ c.op \in NameChecked /\ c.body.name # Absent =>
       NameAllowed(c.body.name)
  /\ /\ c.pc = "send" /\ c.op \in MarkerPreserving /\ c.id \in kept
     /\ objects[c.id] # Absent /\ HasMarker(objects[c.id].marker)
     => c.body.description = Absent \/ HasMarker(c.body.description)

\* A listing: the pages read so far have whatever stands still and has a place in
\* them, and what it counts is enough for every place.
ListedIn(project, objects) ==
  {i \in Ids : objects[i] # Absent /\ project \in {Absent, objects[i].project}}
ForeignIn(objects, i) == ~ NameAllowed(objects[i].name) \/ IsProtected(i, objects[i].name)

Seen(c, objects, i) ==
  IF c.pc = "contents" THEN ForeignIn(objects, i) => c.foreign ELSE i \in c.list.items

PagesOK(c, objects, kept) ==
  c.pc \in {"contents", "pages"} =>
    /\ c.list.count <= (c.list.page - 1) * PerPage
    /\ \A i \in ListedIn(c.project, objects) \intersect kept :
         LET place == Position(i, ListedIn(c.project, objects))
         IN  /\ place <= (c.list.page - 1) * PerPage => Seen(c, objects, i)
             /\ c.list.total # Unknown => place <= c.list.total

\* An attempt of the last request counts as one that may have been applied.
AppliedOK(c) ==
  /\ c.pc \in {"idle", "own", "target", "contents", "name", "marker", "pages"} => c.applied = 0
  /\ c.pc = "send" => c.applied < c.attempt
  /\ c.op \in OpNames /\ Method(c.op) = "POST" =>
       c.applied <= 1 /\ (c.pc = "send" => c.applied = 0)

EndOK == RefusalsAreOwed /\ ListsAreComplete

IInv ==
  /\ StateOK /\ SeenOK /\ NeededOK(call)
  /\ PassedOK(call, cluster, inside, steady)
  /\ PagesOK(call, cluster, steady)
  /\ AppliedOK(call) /\ EndOK /\ harmed = {}
--------------------------------------------------------------------------------
(* The registry: what a guardrail relies on holds of each of its operations. *)

LEMMA OpsIs ==
  ASSUME NEW method, NEW place, NEW flags, NEW names, NEW r \in Ops(method, place, flags,
     names)
  PROVE  r.method = method /\ r.place = place /\ r.flags = flags /\ r.name \in names
  BY DEF Ops

Proper(r) ==
  /\ r.place = "cluster" /\ r.method # "GET" => "guarded" \in r.flags \/ r.name \in Additive
  /\ r.name = "project_delete" => r.place = "project" /\ "paginated" \notin r.flags
  /\ r.name = "cluster_update" => "paginated" \notin r.flags

LEMMA ProjectOpsProper == \A r \in ProjectOps : Proper(r)
  BY OpsIs DEF ProjectOps, Proper, Additive

LEMMA PowerOpsProper == \A r \in PowerOps : Proper(r)
  BY OpsIs DEF PowerOps, Proper, Additive

LEMMA DataApiOpsProper == \A r \in DataApiOps : Proper(r)
  BY OpsIs DEF DataApiOps, Proper, Additive

LEMMA BucketOpsProper == \A r \in BucketOps : Proper(r)
  BY OpsIs DEF BucketOps, Proper, Additive

LEMMA CollectionOpsProper == \A r \in CollectionOps : Proper(r)
  BY OpsIs DEF CollectionOps, Proper, Additive

LEMMA CredentialOpsProper == \A r \in CredentialOps : Proper(r)
  BY OpsIs DEF CredentialOps, Proper, Additive

LEMMA AppServiceOpsProper == \A r \in AppServiceOps : Proper(r)
  BY OpsIs DEF AppServiceOps, Proper, Additive

LEMMA AppServiceAccessOpsProper == \A r \in AppServiceAccessOps : Proper(r)
  BY OpsIs DEF AppServiceAccessOps, Proper, Additive

LEMMA AppEndpointOpsProper == \A r \in AppEndpointOps : Proper(r)
  BY OpsIs DEF AppEndpointOps, Proper, Additive

LEMMA AppEndpointCodeOpsProper == \A r \in AppEndpointCodeOps : Proper(r)
  BY OpsIs DEF AppEndpointCodeOps, Proper, Additive

LEMMA AppEndpointStateOpsProper == \A r \in AppEndpointStateOps : Proper(r)
  BY OpsIs DEF AppEndpointStateOps, Proper, Additive

LEMMA BackupOpsProper == \A r \in BackupOps : Proper(r)
  BY OpsIs DEF BackupOps, Proper, Additive

LEMMA ReplicationOpsProper == \A r \in ReplicationOps : Proper(r)
  BY OpsIs DEF ReplicationOps, Proper, Additive

LEMMA EventingOpsProper == \A r \in EventingOps : Proper(r)
  BY OpsIs DEF EventingOps, Proper, Additive

LEMMA SnapshotOpsProper == \A r \in SnapshotOps : Proper(r)
  BY OpsIs DEF SnapshotOps, Proper, Additive

LEMMA RestoreOpsProper == \A r \in RestoreOps : Proper(r)
  BY OpsIs DEF RestoreOps, Proper, Additive

LEMMA AlertOpsProper == \A r \in AlertOps : Proper(r)
  BY OpsIs DEF AlertOps, Proper, Additive

LEMMA RegistryProper == \A r \in Registry : Proper(r)
  BY ProjectOpsProper, PowerOpsProper, DataApiOpsProper, BucketOpsProper,
     CollectionOpsProper, CredentialOpsProper, AppServiceOpsProper,
     AppServiceAccessOpsProper, AppEndpointOpsProper, AppEndpointCodeOpsProper,
     AppEndpointStateOpsProper, BackupOpsProper, ReplicationOpsProper, EventingOpsProper,
     SnapshotOpsProper, RestoreOpsProper, AlertOpsProper DEF Registry

LEMMA OpIs ==
  ASSUME NEW op \in OpNames
  PROVE  /\ Place(op) = "cluster" /\ ~ ReadOnly(op) => Guarded(op) \/ op \in Additive
         /\ op = "project_delete" => Place(op) # "cluster" /\ ~ Has(op, "paginated")
         /\ op = "cluster_update" => ~ Has(op, "paginated")
<1>1. \E r \in Registry : r.name = op
  BY DEF OpNames
<1>2. OpsByName[op] \in Registry /\ OpsByName[op].name = op
  BY <1>1 DEF OpsByName
<1>3. Proper(OpsByName[op])
  BY <1>2, RegistryProper
<1> QED BY <1>2, <1>3 DEF Proper, Place, ReadOnly, Guarded, Has
--------------------------------------------------------------------------------
(* The order of the steps. *)

LEMMA StepsAre ==
  /\ Steps[1] = "own" /\ Steps[2] = "target" /\ Steps[3] = "contents"
  /\ Steps[4] = "name" /\ Steps[5] = "marker" /\ Steps[6] = "send"
  /\ Len(Steps) = 6 /\ DOMAIN Steps = 1..6
  BY DEF Steps

LEMMA SendApplies == \A c : Applies("send", c)
  BY DEF Applies

\* The first step from the n-th on that a call needs.
First(n, m, c) == Applies(Steps[m], c) /\ \A j \in n..(m - 1) : ~Applies(Steps[j], c)

LEMMA FirstExists ==
  ASSUME NEW c, NEW n \in 1..6
  PROVE  \E m \in n..6 : First(n, m, c)
<1>1. 6 \in n..6 /\ Applies(Steps[6], c)
  BY StepsAre, SendApplies
<1> DEFINE D(i) == Applies(Steps[i], c)
<1>6. First(6, 6, c)
  BY <1>1 DEF First
<1>5. \E m \in 5..6 : First(5, m, c)
  <2>1. CASE D(5)
    BY <2>1 DEF First
  <2>2. CASE ~D(5)
    <3>1. First(5, 6, c)
      BY <2>2, <1>6 DEF First
    <3> QED BY <3>1
  <2> QED BY <2>1, <2>2
<1>4. \E m \in 4..6 : First(4, m, c)
  <2>1. CASE D(4)
    BY <2>1 DEF First
  <2>2. CASE ~D(4)
    <3>1. PICK m \in 5..6 : First(5, m, c)
      BY <1>5
    <3>2. \A j \in 4..(m - 1) : j = 4 \/ j \in 5..(m - 1)
      OBVIOUS
    <3>3. First(4, m, c)
      BY <2>2, <3>1, <3>2 DEF First
    <3> QED BY <3>3
  <2> QED BY <2>1, <2>2
<1>3. \E m \in 3..6 : First(3, m, c)
  <2>1. CASE D(3)
    BY <2>1 DEF First
  <2>2. CASE ~D(3)
    <3>1. PICK m \in 4..6 : First(4, m, c)
      BY <1>4
    <3>2. \A j \in 3..(m - 1) : j = 3 \/ j \in 4..(m - 1)
      OBVIOUS
    <3>3. First(3, m, c)
      BY <2>2, <3>1, <3>2 DEF First
    <3> QED BY <3>3
  <2> QED BY <2>1, <2>2
<1>2. \E m \in 2..6 : First(2, m, c)
  <2>1. CASE D(2)
    BY <2>1 DEF First
  <2>2. CASE ~D(2)
    <3>1. PICK m \in 3..6 : First(3, m, c)
      BY <1>3
    <3>2. \A j \in 2..(m - 1) : j = 2 \/ j \in 3..(m - 1)
      OBVIOUS
    <3>3. First(2, m, c)
      BY <2>2, <3>1, <3>2 DEF First
    <3> QED BY <3>3
  <2> QED BY <2>1, <2>2
<1>7. \E m \in 1..6 : First(1, m, c)
  <2>1. CASE D(1)
    BY <2>1 DEF First
  <2>2. CASE ~D(1)
    <3>1. PICK m \in 2..6 : First(2, m, c)
      BY <1>2
    <3>2. \A j \in 1..(m - 1) : j = 1 \/ j \in 2..(m - 1)
      OBVIOUS
    <3>3. First(1, m, c)
      BY <2>2, <3>1, <3>2 DEF First
    <3> QED BY <3>3
  <2> QED BY <2>1, <2>2
<1>8. n = 1 \/ n = 2 \/ n = 3 \/ n = 4 \/ n = 5 \/ n = 6
  OBVIOUS
<1> QED BY <1>2, <1>3, <1>4, <1>5, <1>6, <1>7, <1>8

LEMMA AfterIsFirst ==
  ASSUME NEW c, NEW n \in 1..6
  PROVE  \E m \in n..6 :
           /\ First(n, m, c)
           /\ After(n, c) = IF Steps[m] = "send" /\ Has(c.op, "paginated") THEN "pages"
                                                                         ELSE Steps[m]
<1> DEFINE next == CHOOSE i \in n..Len(Steps) :
                     /\ Applies(Steps[i], c) /\ \A j \in n..(i - 1) : ~Applies(Steps[j], c)
<1>1. \E i \in n..Len(Steps) :
        /\ Applies(Steps[i], c) /\ \A j \in n..(i - 1) : ~Applies(Steps[j], c)
  BY FirstExists, StepsAre DEF First
<1>2. /\ next \in n..Len(Steps)
      /\ Applies(Steps[next], c) /\ \A j \in n..(next - 1) : ~Applies(Steps[j], c)
  BY <1>1
<1>3. next \in n..6 /\ First(n, next, c)
  BY <1>2, StepsAre DEF First
<1>4. After(n, c) = IF Steps[next] = "send" /\ Has(c.op, "paginated") THEN "pages"
                                                                    ELSE Steps[next]
  BY DEF After
<1> HIDE DEF next
<1> QED BY <1>3, <1>4

\* Where a call goes from its n-th step on, and the steps it has no need of.
LEMMA AfterIs ==
  ASSUME NEW c, NEW n \in 1..6
  PROVE  /\ After(n, c) \in StepNames \union {"pages"}
         /\ After(n, c) # "pages" => Applies(After(n, c), c)
         /\ After(n, c) = "pages" => Has(c.op, "paginated")
         /\ After(n, c) = "send" => ~Has(c.op, "paginated")
         /\ After(n, c) = "own" => n = 1
         /\ After(n, c) = "target" => n <= 2
         /\ After(n, c) = "contents" => n <= 3
         /\ After(n, c) # "own" /\ n <= 1 => ~Applies("own", c)
         /\ After(n, c) \notin {"own", "target"} /\ n <= 2 => ~Applies("target", c)
         /\ After(n, c) \in {"name", "marker", "send"} /\ n <= 3 => ~Applies("contents", c)
         /\ After(n, c) \in {"marker", "send"} /\ n <= 4 => ~Applies("name", c)
         /\ After(n, c) = "send" /\ n <= 5 => ~Applies("marker", c)
<1>1. PICK m \in n..6 :
        /\ First(n, m, c)
        /\ After(n, c) = IF Steps[m] = "send" /\ Has(c.op, "paginated") THEN "pages"
                                                                      ELSE Steps[m]
  BY AfterIsFirst
<1>2. Applies(Steps[m], c) /\ \A j \in n..(m - 1) : ~Applies(Steps[j], c)
  BY <1>1 DEF First
<1>3. m = 1 \/ m = 2 \/ m = 3 \/ m = 4 \/ m = 5 \/ m = 6
  OBVIOUS
<1>4. CASE m = 1
  BY <1>1, <1>2, <1>4, StepsAre DEF StepNames
<1>5. CASE m = 2
  BY <1>1, <1>2, <1>5, StepsAre DEF StepNames
<1>6. CASE m = 3
  BY <1>1, <1>2, <1>6, StepsAre DEF StepNames
<1>7. CASE m = 4
  BY <1>1, <1>2, <1>7, StepsAre DEF StepNames
<1>8. CASE m = 5
  BY <1>1, <1>2, <1>8, StepsAre DEF StepNames
<1>9. CASE m = 6
  BY <1>1, <1>2, <1>9, StepsAre DEF StepNames
<1> QED BY <1>3, <1>4, <1>5, <1>6, <1>7, <1>8, <1>9

LEMMA FollowingIs ==
  ASSUME NEW c
  PROVE  /\ Following("own", c) = After(2, c)
         /\ Following("target", c) = After(3, c)
         /\ Following("name", c) = After(5, c)
<1> DEFINE At(s) == CHOOSE i \in DOMAIN Steps : Steps[i] = s
<1>1. At("own") = 1
  BY StepsAre
<1>2. At("target") = 2
  BY StepsAre
<1>3. At("name") = 4
  BY StepsAre
<1>4. \A s : Following(s, c) = After(1 + At(s), c)
  BY DEF Following
<1> HIDE DEF At
<1>5. 1 + At("own") = 2 /\ 1 + At("target") = 3 /\ 1 + At("name") = 5
  BY <1>1, <1>2, <1>3
<1> QED BY <1>4, <1>5

LEMMA IdsAre ==
  ASSUME PrimitivesAssumption
  PROVE  /\ IsFiniteSet(Ids) /\ Cardinality(Ids) \in Nat
         /\ \A i \in Ids : i \in Nat /\ 1 <= i
<1>1. IsFiniteSet(Ids) /\ Ids = 1..Cardinality(Ids)
  BY DEF PrimitivesAssumption
<1>2. Cardinality(Ids) \in Nat
  BY <1>1, FS_CardinalityType
<1> QED BY <1>1, <1>2

\* Before its first page, a listing has missed nothing.
LEMMA NoPagesFit ==
  ASSUME NEW c \in CallRecords, NEW objects, NEW kept, c.list = NoPages,
         ClientAssumption, PrimitivesAssumption
  PROVE  PagesOK(c, objects, kept)
<1>1. c.list.page = 1 /\ c.list.count = 0 /\ c.list.total = Unknown
  BY DEF NoPages
<1>2. \A i \in ListedIn(c.project, objects) :
        Position(i, ListedIn(c.project, objects)) # 0 /\ Position(i, ListedIn(c.project, objects)) \in Nat
  <2> TAKE i \in ListedIn(c.project, objects)
  <2> DEFINE upTo == {j \in ListedIn(c.project, objects) : j <= i}
  <2>1. IsFiniteSet(Ids) /\ Ids \subseteq Nat /\ ListedIn(c.project, objects) \subseteq Ids
    BY IdsAre DEF ListedIn
  <2>2. IsFiniteSet(upTo)
    BY <2>1, FS_Subset
  <2>3. i \in upTo
    BY <2>1
  <2>4. Cardinality(upTo) \in Nat /\ Cardinality(upTo) # 0
    BY <2>2, <2>3, FS_CardinalityType, FS_EmptySet
  <2> QED BY <2>4 DEF Position
<1>3. (1 - 1) * PerPage = 0
  BY DEF ClientAssumption
<1> QED BY <1>1, <1>2, <1>3 DEF PagesOK
--------------------------------------------------------------------------------
(* Where the elements of a listing stand, and what a page of it holds. *)

LEMMA UpToIs ==
  ASSUME NEW all, IsFiniteSet(all), all \subseteq Nat, NEW i \in all
  PROVE  /\ IsFiniteSet({j \in all : j <= i})
         /\ Position(i, all) \in Nat /\ 1 <= Position(i, all)
         /\ Position(i, all) <= Cardinality(all) /\ Cardinality(all) \in Nat
<1> DEFINE upTo == {j \in all : j <= i}
<1>1. upTo \in SUBSET all /\ i \in upTo
  OBVIOUS
<1>2. IsFiniteSet(upTo) /\ Cardinality(upTo) <= Cardinality(all)
  BY <1>1, FS_Subset
<1>3. Cardinality(upTo) \in Nat /\ Cardinality(all) \in Nat
  BY <1>2, FS_CardinalityType
<1>4. Cardinality(upTo) # 0
  BY <1>1, <1>2, FS_EmptySet
<1>5. Position(i, all) = Cardinality(upTo)
  BY DEF Position
<1> QED BY <1>2, <1>3, <1>4, <1>5

LEMMA PositionsGrow ==
  ASSUME NEW all, IsFiniteSet(all), all \subseteq Nat, NEW i \in all, NEW k \in all, i < k
  PROVE  Position(i, all) < Position(k, all)
<1> DEFINE low == {j \in all : j <= i}
           high == {j \in all : j <= k}
<1>1. /\ IsFiniteSet(low) /\ IsFiniteSet(high)
      /\ Position(i, all) = Cardinality(low) /\ Position(k, all) = Cardinality(high)
  BY UpToIs DEF Position
<1>2. k \notin low /\ low \union {k} \in SUBSET high
  <2>1. i \in Nat /\ k \in Nat /\ \A j \in all : j \in Nat
    OBVIOUS
  <2>2. k \notin low /\ k \in high
    BY <2>1
  <2>3. \A j \in low : j \in high
    BY <2>1
  <2> QED BY <2>2, <2>3
<1>3. Cardinality(low \union {k}) = Cardinality(low) + 1
  BY <1>1, <1>2, FS_AddElement
<1>4. Cardinality(low \union {k}) <= Cardinality(high)
  BY <1>1, <1>2, FS_Subset
<1>5. Cardinality(low) \in Nat /\ Cardinality(high) \in Nat
  BY <1>1, FS_CardinalityType
<1> QED BY <1>1, <1>3, <1>4, <1>5

\* No more elements than places.
LEMMA PlacesBound ==
  ASSUME NEW all, IsFiniteSet(all), all \subseteq Nat, NEW S \in SUBSET all,
         NEW lo \in Nat, NEW hi \in Nat, lo <= hi,
         \A i \in S : lo < Position(i, all) /\ Position(i, all) <= hi
  PROVE  IsFiniteSet(S) /\ Cardinality(S) \in Nat /\ Cardinality(S) <= hi - lo
<1> DEFINE place == [i \in S |-> Position(i, all)]
           places == (lo + 1)..hi
<1>1. IsFiniteSet(S) /\ Cardinality(S) \in Nat
  BY FS_Subset, FS_CardinalityType
<1>2. \A i \in S : Position(i, all) \in Nat
  BY UpToIs
<1>3. place \in [S -> places]
  BY <1>2
<1>4. IsFiniteSet(places) /\ Cardinality(places) = hi - lo
  <2>1. lo + 1 \in Int /\ hi \in Int
    OBVIOUS
  <2>2. /\ IsFiniteSet(places)
        /\ Cardinality(places) = IF lo + 1 > hi THEN 0 ELSE hi - (lo + 1) + 1
    BY <2>1, FS_Interval
  <2> QED BY <2>2
<1>5. \A i, k \in S : i # k => place[i] # place[k]
  <2> SUFFICES ASSUME NEW i \in S, NEW k \in S, i # k PROVE place[i] # place[k]
    OBVIOUS
  <2>1. i \in all /\ k \in all /\ i \in Nat /\ k \in Nat /\ (i < k \/ k < i)
    OBVIOUS
  <2>2. Position(i, all) < Position(k, all) \/ Position(k, all) < Position(i, all)
    BY <2>1, PositionsGrow
  <2>3. Position(i, all) \in Nat /\ Position(k, all) \in Nat
    BY <1>2
  <2>4. place[i] = Position(i, all) /\ place[k] = Position(k, all)
    OBVIOUS
  <2> QED BY <2>2, <2>3, <2>4
<1> HIDE DEF place, places
<1>6. ~ (Cardinality(places) < Cardinality(S))
  BY <1>1, <1>3, <1>4, <1>5, FS_PigeonHole
<1> QED BY <1>1, <1>4, <1>6

LEMMA PagesMeet ==
  ASSUME NEW page \in Nat \ {0}, ClientAssumption
  PROVE  /\ (page - 1) * PerPage \in Nat /\ page * PerPage \in Nat
         /\ page * PerPage = (page - 1) * PerPage + PerPage
         /\ \A q : q = page + 1 => (q - 1) * PerPage = page * PerPage
         /\ page <= page * PerPage
<1>1. PerPage \in Nat /\ PerPage >= 1
  BY DEF ClientAssumption
<1>2. PICK before \in Nat : page = before + 1
  <2>1. page - 1 \in Nat /\ page = (page - 1) + 1
    OBVIOUS
  <2> QED BY <2>1
<1>3. before * PerPage \in Nat /\ (before + 1) * PerPage = before * PerPage + PerPage
  BY <1>1
<1>4. page - 1 = before /\ \A q : q = page + 1 => q - 1 = page
  BY <1>2
<1>5. page <= page * PerPage
  BY <1>1
<1>6. /\ (page - 1) * PerPage = before * PerPage
      /\ page * PerPage = (before + 1) * PerPage
      /\ \A q : q = page + 1 => (q - 1) * PerPage = page * PerPage
  BY <1>2, <1>4
<1> QED BY <1>1, <1>3, <1>5, <1>6

LEMMA ChunkIsSmall ==
  ASSUME NEW all, IsFiniteSet(all), all \subseteq Nat, NEW page \in Nat \ {0}, ClientAssumption
  PROVE  Cardinality(Chunk(all, page)) \in Nat /\ Cardinality(Chunk(all, page)) <= PerPage
<1>1. /\ (page - 1) * PerPage \in Nat /\ page * PerPage \in Nat
      /\ page * PerPage = (page - 1) * PerPage + PerPage /\ PerPage \in Nat
  BY PagesMeet DEF ClientAssumption
<1>2. /\ Chunk(all, page) \in SUBSET all
      /\ \A i \in Chunk(all, page) :
           (page - 1) * PerPage < Position(i, all) /\ Position(i, all) <= page * PerPage
  BY DEF Chunk
<1>3. Cardinality(Chunk(all, page)) \in Nat
  BY <1>1, <1>2, FS_Subset, FS_CardinalityType
<1>4. (page - 1) * PerPage <= page * PerPage
  BY <1>1
<1>5. Cardinality(Chunk(all, page)) <= page * PerPage - (page - 1) * PerPage
  BY <1>1, <1>2, <1>4, PlacesBound
<1> QED BY <1>1, <1>3, <1>5

Below == {p \in Nat \X Nat : p[1] < p[2]}

LEMMA LeastExists ==
  ASSUME NEW S, S \subseteq Nat, S # {}
  PROVE  \E i \in S : \A j \in S : i <= j
<1>1. Below = OpToRel(<, Nat)
  BY DEF Below, OpToRel
<1>2. IsWellFoundedOn(Below, Nat)
  BY <1>1, NatLessThanWellFounded
<1>3. PICK i \in S : \A j \in S : ~ (<<j, i>> \in Below)
  BY <1>2, WFMin
<1>4. ASSUME NEW j \in S PROVE i <= j
  <2>1. i \in Nat /\ j \in Nat
    OBVIOUS
  <2>2. CASE j < i
    <3>1. <<j, i>> \in Below
      BY <2>1, <2>2 DEF Below
    <3> QED BY <1>3, <3>1
  <2> QED BY <2>1, <2>2
<1> QED BY <1>4

\* A page is empty only past the end.
LEMMA ChunkIsEmptyLast ==
  ASSUME NEW all, IsFiniteSet(all), all \subseteq Nat, NEW page \in Nat \ {0}, ClientAssumption,
         NEW i \in all, (page - 1) * PerPage < Position(i, all)
  PROVE  Chunk(all, page) # {}
<1> DEFINE lo == (page - 1) * PerPage
           later == {j \in all : lo < Position(j, all)}
<1>1. /\ lo \in Nat /\ page * PerPage \in Nat /\ page * PerPage = lo + PerPage
      /\ PerPage \in Nat /\ 1 <= PerPage
  BY PagesMeet DEF ClientAssumption
<1>2. later \subseteq Nat /\ later # {}
  OBVIOUS
<1>3. PICK k \in later : \A j \in later : k <= j
  BY <1>2, LeastExists
<1> DEFINE before == {j \in all : j < k}
<1>4. before \in SUBSET all /\ k \in all /\ k \in Nat
  OBVIOUS
<1>5. \A j \in before : 0 < Position(j, all) /\ Position(j, all) <= lo
  <2> SUFFICES ASSUME NEW j \in before PROVE 0 < Position(j, all) /\ Position(j, all) <= lo
    OBVIOUS
  <2>1. Position(j, all) \in Nat /\ 1 <= Position(j, all)
    BY UpToIs
  <2>2. j \notin later
    BY <1>3, <1>4
  <2> QED BY <1>1, <2>1, <2>2
<1>6. 0 \in Nat /\ 0 <= lo
  BY <1>1
<1> HIDE DEF lo
<1>7. IsFiniteSet(before) /\ Cardinality(before) \in Nat /\ Cardinality(before) <= lo - 0
  BY <1>1, <1>4, <1>5, <1>6, PlacesBound
<1>8. {j \in all : j <= k} = before \union {k} /\ k \notin before
  <2>1. \A j \in all : j \in Nat
    OBVIOUS
  <2>2. \A j \in all : j <= k <=> j < k \/ j = k
    BY <1>4, <2>1
  <2>3. k \notin before
    BY <1>4
  <2> QED BY <1>4, <2>2, <2>3
<1>9. Cardinality(before \union {k}) = Cardinality(before) + 1
  BY <1>7, <1>8, FS_AddElement
<1>10. Position(k, all) <= page * PerPage
  <2>1. Position(k, all) = Cardinality(before \union {k})
    BY <1>8 DEF Position
  <2> HIDE DEF before
  <2> QED BY <1>1, <1>7, <1>8, <1>9, <2>1
<1>11. k \in Chunk(all, page)
  BY <1>4, <1>10 DEF Chunk, lo
<1> QED BY <1>11
--------------------------------------------------------------------------------
(* What a call holds when it is made, and when it comes to a step. *)

Assumed == PolicyAssumption /\ ClientAssumption /\ PrimitivesAssumption

LEMMA IdleIs ==
  ASSUME Assumed
  PROVE  /\ Idle \in CallRecords /\ Idle.pc = "idle" /\ Idle.applied = 0
         /\ Idle.attempt = 1 /\ Idle.list = NoPages /\ Idle.foreign = FALSE
<1>1. NoBody \in Bodies
  BY DEF NoBody, Bodies
<1>2. NoPages \in Lists
  BY DEF NoPages, Lists, Unknown
<1>3. 1 \in 1..MaxAttempts /\ 0 \in 0..MaxAttempts
  BY DEF Assumed, ClientAssumption
<1>4. "idle" \in PCs
  BY DEF PCs
<1> HIDE DEF NoBody, NoPages
<1> QED BY <1>1, <1>2, <1>3, <1>4 DEF Idle, CallRecords

LEMMA MadeIs ==
  ASSUME Assumed, NEW op \in Calls, NEW c \in Made(op)
  PROVE  /\ c \in CallRecords /\ c.op = op /\ op \in OpNames /\ c.list = NoPages
         /\ c.applied = 0 /\ c.attempt = 1 /\ c.foreign = FALSE
         /\ Has(op, "paginated") => c.cap \in Int
         /\ Has(op, "paginated") \/ op = "project_delete" => c.cursor \in SUBSET CursorFields
<1> DEFINE Bs == CASE op = "cluster_update" -> [name : Names \union {Absent},
                                               description : Descriptions \union {Absent}]
                  [] op = "project_create" -> [name : Names, description : {Absent}]
                  [] OTHER                 -> {NoBody}
           Ps == IF Place(op) \in {"project", "cluster"} THEN Projects ELSE {Absent}
           Is == IF Place(op) = "cluster" THEN Ids ELSE {Absent}
           Os == IF op \in WrittenByBody THEN Ids \union {Absent} ELSE {Absent}
           Ms == IF Has(op, "paginated") THEN Caps ELSE {Absent}
           Ls == IF Has(op, "paginated") \/ op = "project_delete" THEN SUBSET CursorFields ELSE {{}}
<1>0. Made(op) = {CallWith(op, p, i, o, b, m, l) :
                    p \in Ps, i \in Is, o \in Os, b \in Bs, m \in Ms, l \in Ls}
  BY DEF Made
<1>1. /\ Ps \subseteq Projects \union {Absent} /\ Is \subseteq Ids \union {Absent}
      /\ Os \subseteq Ids \union {Absent}
      /\ Ms \subseteq Caps \union {Absent} /\ Ls \subseteq SUBSET CursorFields
      /\ Has(op, "paginated") => Ms \subseteq Int
      /\ Has(op, "paginated") \/ op = "project_delete" => Ls = SUBSET CursorFields
  BY DEF Assumed, PrimitivesAssumption
<1>2. Bs \subseteq Bodies
  <2>1. Descriptions \subseteq Markers
    BY DEF Assumed, PrimitivesAssumption
  <2>2. CASE op = "cluster_update"
    BY <2>1, <2>2 DEF Bodies
  <2>3. CASE op = "project_create"
    BY <2>1, <2>3 DEF Bodies
  <2>4. CASE op \notin {"cluster_update", "project_create"}
    BY <2>4 DEF Bodies, NoBody
  <2> QED BY <2>2, <2>3, <2>4
<1>3. op \in OpNames
  BY DEF Assumed, PrimitivesAssumption
<1> HIDE DEF Bs, Ps, Is, Os, Ms, Ls
<1>4. PICK p \in Ps, i \in Is, o \in Os, b \in Bs, m \in Ms, l \in Ls :
        c = CallWith(op, p, i, o, b, m, l)
  BY <1>0
<1>5. c = [Idle EXCEPT !.op = op, !.project = p, !.id = i, !.other = o, !.body = b, !.cap = m,
                       !.cursor = l]
  BY <1>4 DEF CallWith
<1>6. /\ Idle \in CallRecords /\ Idle.pc = "idle" /\ Idle.applied = 0
      /\ Idle.attempt = 1 /\ Idle.list = NoPages /\ Idle.foreign = FALSE
  BY IdleIs
<1>7. /\ p \in Projects \union {Absent} /\ i \in Ids \union {Absent} /\ o \in Ids \union {Absent}
      /\ b \in Bodies /\ m \in Caps \union {Absent} /\ l \in SUBSET CursorFields
  BY <1>1, <1>2
<1> HIDE DEF Idle, NoPages
<1>8. /\ c \in CallRecords /\ c.op = op /\ c.cap = m /\ c.cursor = l /\ c.list = NoPages
      /\ c.applied = 0 /\ c.attempt = 1 /\ c.foreign = FALSE
  BY <1>3, <1>5, <1>6, <1>7 DEF CallRecords
<1> QED BY <1>1, <1>3, <1>8

\* What is known of a call that goes on to a step from its n-th step on.
LEMMA Arrives ==
  ASSUME Assumed, NEW c, NEW n \in 1..5, NEW d \in CallRecords, NEW objects, NEW within, NEW kept,
         d.pc = After(n, c), d.op = c.op, d.body = c.body, d.op \in OpNames,
         d.list = NoPages, d.applied = 0, d.attempt = 1,
         Has(d.op, "paginated") => d.cap \in Int,
         Has(d.op, "paginated") \/ d.op = "project_delete" => d.cursor \in SUBSET CursorFields,
         n > 1 /\ Applies("own", c) => d.id \in within,
         n > 2 /\ Applies("target", c) => d.other \in within,
         n > 3 => d.op # "project_delete",
         n > 4 /\ d.op \in NameChecked /\ d.body.name # Absent => NameAllowed(d.body.name)
  PROVE  NeededOK(d) /\ PassedOK(d, objects, within, kept) /\ PagesOK(d, objects, kept)
         /\ AppliedOK(d)
<1>1. n \in 1..6 /\ (n = 1 \/ n = 2 \/ n = 3 \/ n = 4 \/ n = 5)
  OBVIOUS
<1>2. \A step : Applies(step, d) <=> Applies(step, c)
  BY DEF Applies
<1> DEFINE a == After(n, c)
<1>3. /\ a \in StepNames \union {"pages"}
      /\ a # "pages" => Applies(a, c)
      /\ a = "pages" => Has(c.op, "paginated")
      /\ a = "send" => ~Has(c.op, "paginated")
      /\ a = "own" => n = 1
      /\ a = "target" => n <= 2
      /\ a = "contents" => n <= 3
      /\ a # "own" /\ n <= 1 => ~Applies("own", c)
      /\ a \notin {"own", "target"} /\ n <= 2 => ~Applies("target", c)
      /\ a \in {"name", "marker", "send"} /\ n <= 3 => ~Applies("contents", c)
      /\ a \in {"marker", "send"} /\ n <= 4 => ~Applies("name", c)
      /\ a = "send" /\ n <= 5 => ~Applies("marker", c)
  BY <1>1, AfterIs
<1>4. d.pc = a /\ d.pc # "idle"
  BY <1>3 DEF StepNames
<1> HIDE DEF a
<1>5. NeededOK(d)
  BY <1>2, <1>3, <1>4 DEF NeededOK
<1>6. PassedOK(d, objects, within, kept)
  <2>1. d.pc \in {"target", "contents", "name", "marker", "send"} /\ Applies("own", d) =>
          d.id \in within
    BY <1>1, <1>2, <1>3, <1>4
  <2>2. d.pc \in {"contents", "name", "marker", "send"} /\ Applies("target", d) =>
          d.other \in within
    BY <1>1, <1>2, <1>3, <1>4
  <2>3. ~ (d.pc \in {"name", "marker", "send"} /\ d.op = "project_delete")
    <3>1. d.op = "project_delete" => Applies("contents", c)
      BY DEF Applies
    <3> QED BY <1>1, <1>3, <1>4, <3>1
  <2>4. d.pc \in {"marker", "send"} /\ d.op \in NameChecked /\ d.body.name # Absent =>
          NameAllowed(d.body.name)
    <3>1. d.op \in NameChecked /\ d.body.name # Absent => Applies("name", c)
      BY DEF Applies
    <3> QED BY <1>1, <1>3, <1>4, <3>1
  <2>5. d.pc = "send" /\ d.op \in MarkerPreserving =>
          d.body.description = Absent \/ HasMarker(d.body.description)
    <3>1. d.op \in MarkerPreserving /\ d.body.description = NoMarker => Applies("marker", c)
      BY DEF Applies
    <3>2. d.body.description \in Markers \union {Absent}
      BY DEF CallRecords, Bodies
    <3>3. \A m \in Markers : m # NoMarker => HasMarker(m)
      BY DEF Markers, HasMarker
    <3> QED BY <1>1, <1>3, <1>4, <3>1, <3>2, <3>3
  <2> QED BY <2>1, <2>2, <2>3, <2>4, <2>5 DEF PassedOK
<1>7. PagesOK(d, objects, kept)
  BY NoPagesFit DEF Assumed
<1>8. AppliedOK(d)
  BY DEF AppliedOK
<1> QED BY <1>5, <1>6, <1>7, <1>8
--------------------------------------------------------------------------------
(* The steps that change the call alone. *)

\* Two records of one call, whatever it has reached.
SameCall(d, c) ==
  /\ d.op = c.op /\ d.project = c.project /\ d.id = c.id /\ d.other = c.other
  /\ d.cap = c.cap /\ d.cursor = c.cursor

LEMMA CallKeeps ==
  ASSUME IInv, UNCHANGED worldVars, call.pc # "idle", call' \in CallRecords, call'.op = call.op,
         NeededOK(call'), PassedOK(call', cluster, inside, steady), PagesOK(call', cluster, steady),
         AppliedOK(call'), EndOK'
  PROVE  IInv'
<1>1. /\ cluster' = cluster /\ faults' = faults /\ edits' = edits /\ inside' = inside
      /\ outside' = outside /\ steady' = steady /\ harmed' = harmed
  BY DEF worldVars
<1>2. StateOK'
  BY <1>1 DEF IInv, StateOK, WorldOK
<1>3. Inside(call.op, cluster)' = Inside(call.op, cluster) /\ Outside(call.op, cluster)' = Outside(call.op, cluster)
  BY <1>1 DEF Inside, Outside
<1>4. SeenOK'
  BY <1>1, <1>3 DEF IInv, SeenOK
<1>5. (harmed = {})'
  BY <1>1 DEF IInv
<1> QED BY <1>1, <1>2, <1>4, <1>5 DEF IInv

LEMMA GotoIs ==
  ASSUME Assumed, call \in CallRecords, NEW pc \in PCs, Goto(pc)
  PROVE  /\ call' \in CallRecords /\ SameCall(call', call) /\ call'.pc = pc /\ call'.attempt = 1
         /\ call'.body = call.body /\ call'.list = call.list /\ call'.applied = call.applied
         /\ call'.foreign = call.foreign
<1>1. 1 \in 1..MaxAttempts
  BY DEF Assumed, ClientAssumption
<1> QED BY <1>1 DEF Goto, CallRecords, SameCall

LEMMA RunningIs ==
  ASSUME IInv, call.pc # "idle"
  PROVE  /\ call \in CallRecords /\ call.op \in OpNames
         /\ Has(call.op, "paginated") => call.cap \in Int
         /\ Has(call.op, "paginated") \/ call.op = "project_delete" => call.cursor \in SUBSET CursorFields
         /\ NeededOK(call) /\ PassedOK(call, cluster, inside, steady)
         /\ PagesOK(call, cluster, steady) /\ AppliedOK(call)
  BY DEF IInv, StateOK, SeenOK, NeededOK

LEMMA EndFits ==
  ASSUME IInv, call.pc # "idle", NEW d, SameCall(d, call), d.pc \in {"answered", "refused", "failed"},
         Method(d.op) = "POST" => d.applied <= 1,
         NEW objects, NEW within, NEW kept
  PROVE  /\ NeededOK(d) /\ PassedOK(d, objects, within, kept) /\ PagesOK(d, objects, kept)
         /\ AppliedOK(d)
<1>1. NeededOK(d)
  BY RunningIs DEF NeededOK, SameCall
<1>2. PassedOK(d, objects, within, kept) /\ PagesOK(d, objects, kept) /\ AppliedOK(d)
  BY DEF PassedOK, PagesOK, AppliedOK
<1> QED BY <1>1, <1>2

LEMMA EndKeeps ==
  ASSUME Assumed, IInv, UNCHANGED worldVars, call.pc # "idle", NEW pc \in {"refused", "failed"}, Goto(pc),
         pc = "refused" =>
           \/ call.project # Absent /\ ~ProjectAllowed(call.project)
           \/ IF call.op = "project_delete" THEN call.foreign
              ELSE \/ call.op \in WritesElsewhere /\ (call.other = Absent \/ call.other \in outside)
                   \/ call.op \notin WritesElsewhere /\ call.id \in outside
                   \/ call.op \in NameChecked /\ ~NameAllowed(call.body.name)
  PROVE  IInv'
<1>1. call \in CallRecords /\ call.op \in OpNames /\ AppliedOK(call)
  BY RunningIs
<1>2. pc \in PCs
  BY DEF PCs
<1>3. /\ call' \in CallRecords /\ SameCall(call', call) /\ call'.pc = pc
      /\ call'.body = call.body /\ call'.applied = call.applied /\ call'.foreign = call.foreign
  BY <1>1, <1>2, GotoIs
<1>4. call'.op = call.op /\ call'.project = call.project /\ call'.id = call.id /\ call'.other = call.other
  BY <1>3 DEF SameCall
<1>5. Method(call'.op) = "POST" => call'.applied <= 1
  BY <1>1, <1>3, <1>4 DEF AppliedOK
<1>6. /\ NeededOK(call') /\ PassedOK(call', cluster, inside, steady) /\ PagesOK(call', cluster, steady)
      /\ AppliedOK(call')
  BY <1>3, <1>5, EndFits
<1>7. outside' = outside
  BY DEF worldVars
<1>8. EndOK'
  BY <1>3, <1>4, <1>7 DEF EndOK, RefusalsAreOwed, ListsAreComplete
<1> QED BY <1>3, <1>4, <1>6, <1>8, CallKeeps

\* The guardrail lets the call go on to the step it needs next.
LEMMA GoesOnKeeps ==
  ASSUME Assumed, IInv, UNCHANGED worldVars, NEW n \in 1..5, Goto(After(n, call)),
         call.pc \in {"own", "target", "name"},
         n > 1 /\ Applies("own", call) => call.id \in inside,
         n > 2 /\ Applies("target", call) => call.other \in inside,
         n > 3 => call.op # "project_delete",
         n > 4 /\ call.op \in NameChecked /\ call.body.name # Absent => NameAllowed(call.body.name)
  PROVE  IInv'
<1>1. /\ call \in CallRecords /\ call.op \in OpNames
      /\ Has(call.op, "paginated") => call.cap \in Int
      /\ Has(call.op, "paginated") \/ call.op = "project_delete" => call.cursor \in SUBSET CursorFields
      /\ NeededOK(call) /\ AppliedOK(call)
  BY RunningIs
<1>2. call.list = NoPages /\ call.applied = 0
  BY <1>1 DEF NeededOK, AppliedOK
<1>3. n \in 1..6
  OBVIOUS
<1>4. After(n, call) \in StepNames \union {"pages"}
  BY <1>3, AfterIs
<1>5. After(n, call) \in PCs
  BY <1>4 DEF PCs
<1>6. /\ call' \in CallRecords /\ SameCall(call', call) /\ call'.pc = After(n, call) /\ call'.attempt = 1
      /\ call'.body = call.body /\ call'.list = call.list /\ call'.applied = call.applied
  BY <1>1, <1>5, GotoIs
<1>7. /\ call'.op = call.op /\ call'.id = call.id /\ call'.other = call.other
      /\ call'.cap = call.cap /\ call'.cursor = call.cursor
  BY <1>6 DEF SameCall
<1>8. /\ NeededOK(call') /\ PassedOK(call', cluster, inside, steady) /\ PagesOK(call', cluster, steady)
      /\ AppliedOK(call')
  BY <1>1, <1>2, <1>6, <1>7, Arrives
<1>9. EndOK'
  BY <1>4, <1>6 DEF EndOK, RefusalsAreOwed, ListsAreComplete, StepNames
<1> QED BY <1>6, <1>7, <1>8, <1>9, CallKeeps

LEMMA CheckOwnKeeps == ASSUME Assumed, IInv, CheckOwn PROVE IInv'
<1>1. /\ call.pc = "own" /\ UNCHANGED worldVars /\ call.op \in OpNames /\ Applies("own", call)
      /\ Inside(call.op, cluster) \subseteq inside /\ Outside(call.op, cluster) \subseteq outside
  BY RunningIs DEF CheckOwn, IInv, SeenOK, NeededOK
<1>2. CASE call.id \in In(call.project) /\ Permits(call.op, call.id, cluster[call.id])
  <2>1. call.id \in inside
    BY <1>1, <1>2 DEF In, Inside
  <2>2. Goto(After(2, call))
    BY <1>1, <1>2, FollowingIs DEF CheckOwn, PassIf
  <2> QED BY <1>1, <2>1, <2>2, GoesOnKeeps
<1>3. CASE call.id \in In(call.project) /\ ~Permits(call.op, call.id, cluster[call.id])
  <2>1. call.id \in outside
    BY <1>1, <1>3 DEF In, Outside
  <2>2. Goto("refused")
    BY <1>1, <1>3 DEF CheckOwn, PassIf
  <2>3. call.op \notin WritesElsewhere /\ call.op # "project_delete"
    BY <1>1, OpIs DEF Applies
  <2> QED BY <1>1, <2>1, <2>2, <2>3, EndKeeps
<1>4. CASE call.id \notin In(call.project)
  <2>1. Goto("failed")
    BY <1>4 DEF CheckOwn
  <2> QED BY <1>1, <2>1, EndKeeps
<1> QED BY <1>2, <1>3, <1>4

LEMMA CheckTargetKeeps == ASSUME Assumed, IInv, CheckTarget PROVE IInv'
<1>1. /\ call.pc = "target" /\ UNCHANGED worldVars /\ call.op \in OpNames /\ Applies("target", call)
      /\ PassedOK(call, cluster, inside, steady)
      /\ Inside(call.op, cluster) \subseteq inside /\ Outside(call.op, cluster) \subseteq outside
  BY RunningIs DEF CheckTarget, IInv, SeenOK, NeededOK
<1>2. call.op \in WritesElsewhere /\ call.op # "project_delete"
  BY <1>1 DEF Applies, WritesElsewhere
<1>3. Applies("own", call) => call.id \in inside
  BY <1>1 DEF PassedOK
<1>4. CASE call.other = Absent /\ Goto("refused")
  BY <1>1, <1>2, <1>4, EndKeeps
<1>5. CASE call.other \in In(call.project) /\ PassIf(Permits(call.op, call.other, cluster[call.other]))
  <2>1. CASE Permits(call.op, call.other, cluster[call.other])
    <3>1. call.other \in inside
      BY <1>1, <1>5, <2>1 DEF In, Inside
    <3>2. Goto(After(3, call))
      BY <1>1, <1>5, <2>1, FollowingIs DEF PassIf
    <3> QED BY <1>1, <1>3, <3>1, <3>2, GoesOnKeeps
  <2>2. CASE ~Permits(call.op, call.other, cluster[call.other])
    <3>1. call.other \in outside
      BY <1>1, <1>5, <2>2 DEF In, Outside
    <3>2. Goto("refused")
      BY <1>5, <2>2 DEF PassIf
    <3> QED BY <1>1, <1>2, <3>1, <3>2, EndKeeps
  <2> QED BY <2>1, <2>2
<1>6. CASE Goto("failed")
  BY <1>1, <1>6, EndKeeps
<1> QED BY <1>4, <1>5, <1>6 DEF CheckTarget

LEMMA CheckNameKeeps == ASSUME Assumed, IInv, CheckName PROVE IInv'
<1>1. /\ call.pc = "name" /\ UNCHANGED worldVars /\ call.op \in OpNames /\ Applies("name", call)
      /\ PassedOK(call, cluster, inside, steady)
  BY RunningIs DEF CheckName, NeededOK
<1>2. call.op \in NameChecked /\ call.op # "project_delete"
  BY <1>1 DEF Applies, NameChecked
<1>3. /\ Applies("own", call) => call.id \in inside
      /\ Applies("target", call) => call.other \in inside
  BY <1>1 DEF PassedOK
<1>4. CASE NameAllowed(call.body.name)
  <2>1. Goto(After(5, call))
    BY <1>1, <1>4, FollowingIs DEF CheckName, PassIf
  <2> QED BY <1>1, <1>2, <1>3, <1>4, <2>1, GoesOnKeeps
<1>5. CASE ~NameAllowed(call.body.name)
  <2>1. Goto("refused")
    BY <1>5 DEF CheckName, PassIf
  <2> QED BY <1>1, <1>2, <1>5, <2>1, EndKeeps
<1> QED BY <1>4, <1>5

LEMMA PreserveMarkerKeeps == ASSUME Assumed, IInv, PreserveMarker PROVE IInv'
<1>1. /\ call.pc = "marker" /\ UNCHANGED worldVars /\ call.op \in OpNames /\ Applies("marker", call)
      /\ PassedOK(call, cluster, inside, steady) /\ call \in CallRecords /\ NeededOK(call)
      /\ AppliedOK(call) /\ cluster \in [Ids -> Objects \union {Absent}]
  BY RunningIs DEF PreserveMarker, NeededOK, IInv, StateOK, WorldOK
<1>2. call.op = "cluster_update"
  BY <1>1 DEF Applies, MarkerPreserving
<1>3. CASE call.id \in In(call.project)
  <2> DEFINE d == [call EXCEPT !.pc = "send", !.attempt = 1,
                               !.body.description = cluster[call.id].marker]
  <2>1. call' = d
    BY <1>3 DEF PreserveMarker
  <2>2. call.id \in Ids /\ cluster[call.id] \in Objects
    BY <1>1, <1>3 DEF In, There
  <2>3. cluster[call.id].marker \in Markers
    BY <2>2 DEF Objects
  <2>4. call.body \in Bodies /\ 1 \in 1..MaxAttempts /\ "send" \in PCs
    BY <1>1 DEF CallRecords, Assumed, ClientAssumption, PCs, StepNames
  <2> DEFINE b == [call.body EXCEPT !.description = cluster[call.id].marker]
  <2>5. b \in Bodies /\ b.name = call.body.name /\ b.description = cluster[call.id].marker
    BY <2>3, <2>4 DEF Bodies
  <2>6. d = [call EXCEPT !.pc = "send", !.attempt = 1, !.body = b]
    BY <1>1 DEF CallRecords
  <2> HIDE DEF b, d
  <2>7. /\ d \in CallRecords /\ SameCall(d, call) /\ d.pc = "send" /\ d.attempt = 1 /\ d.body = b
        /\ d.applied = call.applied
    BY <1>1, <2>4, <2>5, <2>6 DEF CallRecords, SameCall
  <2>8. /\ d.op = call.op /\ d.id = call.id /\ d.other = call.other /\ d.cap = call.cap
        /\ d.cursor = call.cursor
    BY <2>7 DEF SameCall
  <2>9. NeededOK(d)
    <3>1. ~Has(d.op, "paginated")
      BY <1>1, <1>2, <2>8, OpIs
    <3> QED BY <1>2, <2>7, <2>8, <3>1 DEF NeededOK
  <2>10. PassedOK(d, cluster, inside, steady)
    <3>1. Applies("own", d) <=> Applies("own", call)
      BY <2>8 DEF Applies
    <3>2. Applies("target", d) <=> Applies("target", call)
      BY <2>8 DEF Applies
    <3>3. /\ Applies("own", call) => call.id \in inside
          /\ Applies("target", call) => call.other \in inside
          /\ call.op \in NameChecked /\ call.body.name # Absent => NameAllowed(call.body.name)
      BY <1>1 DEF PassedOK
    <3> QED BY <1>2, <2>5, <2>7, <2>8, <3>1, <3>2, <3>3 DEF PassedOK
  <2>11. PagesOK(d, cluster, steady) /\ AppliedOK(d)
    BY <1>1, <2>7 DEF PagesOK, AppliedOK
  <2>12. EndOK'
    BY <2>1, <2>7 DEF EndOK, RefusalsAreOwed, ListsAreComplete
  <2> QED BY <1>1, <2>1, <2>7, <2>8, <2>9, <2>10, <2>11, <2>12, CallKeeps
<1>4. CASE call.id \notin In(call.project)
  <2>1. Goto("failed")
    BY <1>4 DEF PreserveMarker
  <2> QED BY <1>1, <2>1, EndKeeps
<1> QED BY <1>3, <1>4
--------------------------------------------------------------------------------
(* One page more: what stands still below its end has been seen. *)

LEMMA ReadIs ==
  ASSUME Assumed, NEW list \in Lists, NEW all, IsFiniteSet(all), all \subseteq Ids, NEW cursor
  PROVE  /\ Read(list, all, cursor) \in Lists /\ Read(list, all, cursor).page = list.page
         /\ Read(list, all, cursor).items = list.items \union Chunk(all, list.page)
         /\ list.count <= (list.page - 1) * PerPage =>
              Read(list, all, cursor).count <= list.page * PerPage
         /\ "total" \in cursor => Read(list, all, cursor).total \in Nat
         /\ Read(list, all, cursor).total = IF list.total = Unknown /\ "total" \in cursor
                                            THEN Cardinality(all) ELSE list.total
<1> DEFINE chunk == Chunk(all, list.page)
<1>1. /\ list.page \in Nat \ {0} /\ list.items \subseteq Ids /\ list.count \in Nat
      /\ list.total \in Nat \union {Unknown}
  BY DEF Lists
<1>2. all \subseteq Nat /\ ClientAssumption
  BY IdsAre DEF Assumed
<1>3. Cardinality(chunk) \in Nat /\ Cardinality(chunk) <= PerPage
  BY <1>1, <1>2, ChunkIsSmall
<1>4. chunk \subseteq Ids
  BY DEF Chunk
<1>5. Cardinality(all) \in Nat
  BY FS_CardinalityType
<1>6. /\ (list.page - 1) * PerPage \in Nat
      /\ list.page * PerPage = (list.page - 1) * PerPage + PerPage /\ PerPage \in Nat
  BY <1>1, <1>2, PagesMeet DEF ClientAssumption
<1> HIDE DEF chunk
<1>7. Read(list, all, cursor) = [list EXCEPT !.items = @ \union chunk, !.count = @ + Cardinality(chunk),
                                     !.total = IF @ = Unknown /\ "total" \in cursor
                                               THEN Cardinality(all) ELSE @]
  BY DEF Read, chunk
<1>8. /\ Read(list, all, cursor).page = list.page /\ Read(list, all, cursor).items = list.items \union chunk
      /\ Read(list, all, cursor).count = list.count + Cardinality(chunk)
      /\ Read(list, all, cursor).total = IF list.total = Unknown /\ "total" \in cursor
                                         THEN Cardinality(all) ELSE list.total
      /\ Read(list, all, cursor) \in Lists
  <2> DEFINE items == list.items \union chunk
             count == list.count + Cardinality(chunk)
             total == IF list.total = Unknown /\ "total" \in cursor
                      THEN Cardinality(all) ELSE list.total
  <2>1. items \in SUBSET Ids /\ count \in Nat /\ total \in Nat \union {Unknown}
    BY <1>1, <1>3, <1>4, <1>5
  <2>2. Read(list, all, cursor) = [list EXCEPT !.items = items, !.count = count, !.total = total]
    BY <1>7 DEF Lists
  <2> HIDE DEF items, count, total
  <2>3. /\ Read(list, all, cursor) \in Lists /\ Read(list, all, cursor).page = list.page
        /\ Read(list, all, cursor).items = items /\ Read(list, all, cursor).count = count
        /\ Read(list, all, cursor).total = total
    BY <2>1, <2>2 DEF Lists
  <2> QED BY <2>3 DEF items, count, total
<1>9. "total" \in cursor => Read(list, all, cursor).total \in Nat
  BY <1>1, <1>5, <1>8
<1>10. list.count <= (list.page - 1) * PerPage => Read(list, all, cursor).count <= list.page * PerPage
  BY <1>1, <1>3, <1>6, <1>8
<1> QED BY <1>8, <1>9, <1>10 DEF chunk

\* A page was the last to read: then nothing is beyond it.
LEMMA NothingBeyond ==
  ASSUME Assumed, NEW list \in Lists, NEW all, IsFiniteSet(all), all \subseteq Ids,
         NEW cursor \in SUBSET CursorFields, ~GoesOn(list, all, cursor),
         cursor # {}, "total" \in cursor => list.total \in Nat,
         list.count <= list.page * PerPage,
         NEW i \in all, list.total # Unknown => Position(i, all) <= list.total
  PROVE  Position(i, all) <= list.page * PerPage
<1>1. list.page \in Nat \ {0} /\ list.count \in Nat
  BY DEF Lists
<1>2. all \subseteq Nat /\ ClientAssumption
  BY IdsAre DEF Assumed
<1>3. /\ (list.page - 1) * PerPage \in Nat /\ list.page * PerPage \in Nat /\ PerPage \in Nat
      /\ list.page * PerPage = (list.page - 1) * PerPage + PerPage
  BY <1>1, <1>2, PagesMeet DEF ClientAssumption
<1>4. /\ Position(i, all) \in Nat /\ Cardinality(all) \in Nat
      /\ Position(i, all) <= Cardinality(all)
  BY <1>2, UpToIs
<1>5. CASE Chunk(all, list.page) = {}
  <2>1. ~ ((list.page - 1) * PerPage < Position(i, all))
    BY <1>1, <1>2, <1>5, ChunkIsEmptyLast
  <2> QED BY <1>3, <1>4, <2>1
<1>6. CASE Chunk(all, list.page) # {}
  <2>1. CASE "last" \in cursor
    <3>1. AtLast(all, list.page)
      BY <1>6, <2>1 DEF GoesOn
    <3> QED BY <1>3, <1>4, <3>1 DEF AtLast
  <2>2. CASE "last" \notin cursor
    <3>1. "total" \in cursor
      BY <2>2 DEF CursorFields
    <3>2. list.total \in Nat /\ list.total # Unknown
      BY <3>1 DEF Unknown
    <3>3. ~ (list.count < list.total)
      BY <1>6, <2>2, <3>2 DEF GoesOn
    <3> QED BY <1>1, <1>3, <1>4, <3>2, <3>3
  <2> QED BY <2>1, <2>2
<1> QED BY <1>5, <1>6

LEMMA NextPageIs ==
  ASSUME Assumed, NEW list \in Lists, NEW all, IsFiniteSet(all), all \subseteq Ids,
         NEW page \in Nat \ {0}, Chunk(all, page) # {}
  PROVE  NextPage(page, Ids) = page + 1
<1>1. all \subseteq Nat /\ ClientAssumption /\ IsFiniteSet(Ids) /\ Cardinality(Ids) \in Nat
  BY IdsAre DEF Assumed
<1>2. PICK i \in all : (page - 1) * PerPage < Position(i, all)
  BY DEF Chunk
<1>3. /\ Position(i, all) \in Nat /\ Position(i, all) <= Cardinality(all) /\ Cardinality(all) \in Nat
  BY <1>1, UpToIs
<1>4. Cardinality(all) <= Cardinality(Ids)
  BY <1>1, FS_Subset
<1>5. page - 1 <= (page - 1) * PerPage
  <2>1. CASE page = 1
    BY <1>1, <2>1 DEF ClientAssumption
  <2>2. CASE page # 1
    <3>1. page - 1 \in Nat \ {0}
      BY <2>2
    <3> QED BY <1>1, <3>1, PagesMeet
  <2> QED BY <2>1, <2>2
<1>6. (page - 1) * PerPage \in Nat
  BY <1>1, PagesMeet
<1>7. ~ (page > Cardinality(Ids))
  BY <1>1, <1>2, <1>3, <1>4, <1>5, <1>6
<1> QED BY <1>7 DEF NextPage

\* Whatever has a place within the cap is among the first of what was read.
LEMMA FirstHas ==
  ASSUME Assumed, NEW list \in Lists, NEW all, IsFiniteSet(all), all \subseteq Nat, NEW cap \in Int,
         list.count <= (list.page - 1) * PerPage,
         NEW i \in all, i \in list.items \union Chunk(all, list.page), Position(i, all) <= cap
  PROVE  i \in FirstOf(list, all, cap)
<1>1. list.count \in Nat /\ list.page \in Nat \ {0}
  BY DEF Lists
<1>2. (list.page - 1) * PerPage \in Nat /\ Position(i, all) \in Nat
  BY <1>1, PagesMeet, UpToIs DEF Assumed
<1> DEFINE lo == (list.page - 1) * PerPage
<1>3. FirstOf(list, all, cap) = list.items \union
        {j \in Chunk(all, list.page) : list.count + Position(j, all) - lo <= cap}
  BY DEF FirstOf
<1>4. lo \in Nat /\ list.count <= lo
  BY <1>2
<1> HIDE DEF lo
<1>5. list.count + Position(i, all) - lo <= cap
  BY <1>1, <1>2, <1>4
<1> QED BY <1>3, <1>5

LEMMA ListPageKeeps == ASSUME Assumed, IInv, ListPage PROVE IInv'
<1> DEFINE all == Listed
           list == Read(call.list, all, call.cursor)
           page == Chunk(all, call.list.page)
           foreign == call.foreign \/ \E i \in page : Foreign(i)
           guard == call.pc = "contents"
           full == ~guard /\ Full(list, call.cap)
           more == ~full /\ GoesOn(list, all, call.cursor)
           items == IF full THEN FirstOf(call.list, all, call.cap) ELSE list.items
           seen == [list EXCEPT !.page = IF more THEN NextPage(@, Ids) ELSE @,
                                !.items = IF full THEN FirstOf(call.list, all, call.cap) ELSE @]
           pc == CASE more                     -> call.pc
                   [] ~more /\ ~guard           -> "answered"
                   [] ~more /\ guard /\ foreign -> "refused"
                   [] OTHER                    -> "send"
           d == [call EXCEPT !.list = seen, !.foreign = guard /\ foreign, !.attempt = 1, !.pc = pc]
<1>1. /\ call.pc \in {"contents", "pages"} /\ UNCHANGED worldVars /\ call.pc # "idle"
  BY DEF ListPage
<1>2. call' = d
  BY DEF ListPage
<1>3. /\ call \in CallRecords /\ call.op \in OpNames
      /\ Has(call.op, "paginated") => call.cap \in Int
      /\ Has(call.op, "paginated") \/ call.op = "project_delete" => call.cursor \in SUBSET CursorFields
      /\ NeededOK(call) /\ PassedOK(call, cluster, inside, steady)
      /\ PagesOK(call, cluster, steady) /\ AppliedOK(call)
  BY <1>1, RunningIs
<1>4. steady \subseteq Ids
  BY DEF IInv, StateOK, WorldOK
<1>5. /\ guard => Applies("contents", call) /\ call.op = "project_delete"
      /\ ~guard => Has(call.op, "paginated")
  BY <1>1, <1>3 DEF NeededOK, Applies
<1>6. all = ListedIn(call.project, cluster) /\ all \subseteq Ids /\ IsFiniteSet(all) /\ all \subseteq Nat
  <2>1. all = ListedIn(call.project, cluster)
    BY DEF Listed, ListedIn, There
  <2>2. all \in SUBSET Ids
    BY DEF Listed
  <2> QED BY <2>1, <2>2, IdsAre, FS_Subset DEF Assumed
<1>7. call.list \in Lists /\ call.foreign \in BOOLEAN /\ call.list.page \in Nat \ {0}
      /\ call.list.count \in Nat /\ call.list.total \in Nat \union {Unknown}
  BY <1>3 DEF CallRecords, Lists
<1>8. /\ call.list.count <= (call.list.page - 1) * PerPage
      /\ \A i \in all \intersect steady :
           /\ Position(i, all) <= (call.list.page - 1) * PerPage => Seen(call, cluster, i)
           /\ call.list.total # Unknown => Position(i, all) <= call.list.total
  BY <1>1, <1>3, <1>6 DEF PagesOK
<1> HIDE DEF all
<1>9. /\ list \in Lists /\ list.page = call.list.page /\ list.items = call.list.items \union page
      /\ list.count <= call.list.page * PerPage
      /\ "total" \in call.cursor => list.total \in Nat
      /\ list.total = IF call.list.total = Unknown /\ "total" \in call.cursor
                      THEN Cardinality(all) ELSE call.list.total
  BY <1>6, <1>7, <1>8, ReadIs
<1> HIDE DEF list
<1>10. \A i \in all : /\ Position(i, all) \in Nat /\ Position(i, all) <= Cardinality(all)
  BY <1>6, UpToIs
<1>11. \A i \in all \intersect steady : list.total # Unknown => Position(i, all) <= list.total
  BY <1>8, <1>9, <1>10
<1>12. (call.list.page - 1) * PerPage \in Nat /\ call.list.page * PerPage \in Nat
  BY <1>7, PagesMeet DEF Assumed
<1>13. \A i \in all : (call.list.page - 1) * PerPage < Position(i, all)
                      /\ Position(i, all) <= call.list.page * PerPage => i \in page
  <2> HIDE DEF more, full, guard, foreign
  <2> TAKE i \in all
  <2> DEFINE lo == (call.list.page - 1) * PerPage
             hi == call.list.page * PerPage
  <2>1. page = {j \in all : lo < Position(j, all) /\ Position(j, all) <= hi}
    BY DEF Chunk
  <2> HIDE DEF page, lo, hi
  <2>2. lo < Position(i, all) /\ Position(i, all) <= hi => i \in page
    BY <2>1
  <2> QED BY <2>2 DEF lo, hi
<1>14. \A i \in all \intersect steady : Position(i, all) <= call.list.page * PerPage =>
         IF guard THEN ForeignIn(cluster, i) => foreign ELSE i \in list.items
  <2> SUFFICES ASSUME NEW i \in all \intersect steady, Position(i, all) <= call.list.page * PerPage
               PROVE  IF guard THEN ForeignIn(cluster, i) => foreign ELSE i \in list.items
    OBVIOUS
  <2>1. Seen(call, cluster, i) \/ i \in page
    <3>1. Position(i, all) \in Nat
      BY <1>10
    <3>2. CASE Position(i, all) <= (call.list.page - 1) * PerPage
      BY <1>8, <3>2
    <3>3. CASE (call.list.page - 1) * PerPage < Position(i, all)
      BY <1>13, <3>3
    <3> QED BY <1>12, <3>1, <3>2, <3>3
  <2>2. ForeignIn(cluster, i) <=> Foreign(i)
    BY DEF ForeignIn, Foreign
  <2> HIDE DEF page
  <2> QED BY <1>9, <2>1, <2>2 DEF Seen
<1> HIDE DEF page
<1>15. seen \in Lists /\ seen.items = items /\ seen.count = list.count /\ seen.total = list.total
       /\ seen.page = IF more THEN call.list.page + 1 ELSE call.list.page
  <2>1. more => NextPage(call.list.page, Ids) = call.list.page + 1
    <3>1. more => Chunk(all, list.page) # {}
      BY DEF GoesOn
    <3> QED BY <1>6, <1>7, <1>9, <3>1, NextPageIs
  <2>2. seen = [list EXCEPT !.page = IF more THEN call.list.page + 1 ELSE call.list.page,
                            !.items = items]
    BY <1>9, <2>1 DEF Lists
  <2>3. items \subseteq Ids
    BY <1>6, <1>7, <1>9 DEF FirstOf, Chunk, Lists
  <2> DEFINE next == IF more THEN call.list.page + 1 ELSE call.list.page
  <2>4. next \in Nat \ {0}
    BY <1>7
  <2>5. seen = [list EXCEPT !.page = next, !.items = items]
    BY <2>2
  <2> HIDE DEF seen, items, next
  <2>6. /\ seen \in Lists /\ seen.items = items /\ seen.count = list.count
        /\ seen.total = list.total /\ seen.page = next
    BY <1>9, <2>3, <2>4, <2>5 DEF Lists
  <2> QED BY <2>6 DEF next
<1>16. pc \in {call.pc, "answered", "refused", "send"}
  BY DEF pc
<1>17. /\ more => pc = call.pc
       /\ ~more /\ ~guard => pc = "answered"
       /\ ~more /\ guard /\ foreign => pc = "refused"
       /\ ~more /\ guard /\ ~foreign => pc = "send"
  <2> HIDE DEF more, guard, foreign
  <2>1. more => pc = call.pc
    BY DEF pc
  <2>2. ~more /\ ~guard => pc = "answered"
    BY DEF pc
  <2>3. ~more /\ guard /\ foreign => pc = "refused"
    BY DEF pc
  <2>4. ~more /\ guard /\ ~foreign => pc = "send"
    BY DEF pc
  <2> QED BY <2>1, <2>2, <2>3, <2>4
<1>18. ~more /\ ~full /\ call.cursor # {} =>
         \A i \in all \intersect steady : Position(i, all) <= call.list.page * PerPage
  <2> SUFFICES ASSUME ~more, ~full, call.cursor # {}, NEW i \in all \intersect steady
               PROVE  Position(i, all) <= call.list.page * PerPage
    OBVIOUS
  <2>1. ~GoesOn(list, all, call.cursor)
    OBVIOUS
  <2>2. call.cursor \in SUBSET CursorFields
    BY <1>3, <1>5
  <2> HIDE DEF more, full
  <2> QED BY <1>6, <1>9, <1>11, <2>1, <2>2, NothingBeyond
<1> HIDE DEF seen, pc, items
<1>19. d \in CallRecords /\ SameCall(d, call) /\ d.pc = pc /\ d.list = seen /\ d.attempt = 1
       /\ d.body = call.body /\ d.applied = call.applied /\ (d.foreign <=> guard /\ foreign)
       /\ d.foreign \in BOOLEAN
  <2>1. 1 \in 1..MaxAttempts /\ pc \in PCs /\ call.pc \in PCs
    BY <1>3, <1>16 DEF Assumed, ClientAssumption, PCs, StepNames, CallRecords
  <2>2. (guard /\ foreign) \in BOOLEAN
    OBVIOUS
  <2> HIDE DEF guard, foreign
  <2> QED BY <1>3, <1>15, <2>1, <2>2 DEF CallRecords, SameCall
<1>20. /\ d.op = call.op /\ d.project = call.project /\ d.id = call.id /\ d.other = call.other
       /\ d.cap = call.cap /\ d.cursor = call.cursor
  BY <1>19 DEF SameCall
<1> HIDE DEF d
<1>21. call.applied = 0
  BY <1>1, <1>3 DEF AppliedOK
<1>22. NeededOK(d)
  <2>1. Applies("contents", d) <=> Applies("contents", call)
    BY <1>20 DEF Applies
  <2>2. guard => ~Has(call.op, "paginated")
    BY <1>3, <1>5, OpIs
  <2>3. pc = "send" => guard
    BY <1>1, <1>17
  <2>4. d.pc \in {"own", "target", "contents", "name", "marker"} => d.pc = "contents" /\ guard
    BY <1>1, <1>16, <1>19
  <2>5. d.pc = "pages" => ~guard
    BY <1>1, <1>16, <1>19
  <2> HIDE DEF guard
  <2> QED BY <1>3, <1>5, <1>19, <1>20, <2>1, <2>2, <2>3, <2>4, <2>5 DEF NeededOK
<1>23. AppliedOK(d)
  BY <1>19, <1>21 DEF AppliedOK
<1>24. PassedOK(d, cluster, inside, steady)
  <2>1. CASE pc \in {"contents", "send"}
    <3>1. guard
      BY <1>1, <1>17, <2>1
    <3>2. ~Applies("own", d) /\ ~Applies("target", d)
      BY <1>3, <1>5, <1>20, <3>1, OpIs DEF Applies, WritesElsewhere
    <3>3. d.op \notin NameChecked /\ d.op \notin MarkerPreserving
      BY <1>5, <1>20, <3>1 DEF NameChecked, MarkerPreserving
    <3>4. pc = "send" /\ d.cursor # {} => NoneForeign(d.project, cluster, steady)
      <4> SUFFICES ASSUME pc = "send", call.cursor # {}, NEW i \in steady, cluster[i] # Absent,
                          cluster[i].project = call.project
                   PROVE  NameAllowed(cluster[i].name) /\ ~IsProtected(i, cluster[i].name)
        BY <1>20 DEF NoneForeign
      <4>1. i \in all \intersect steady
        BY <1>4, <1>6 DEF ListedIn
      <4>2. ~more /\ ~foreign
        BY <1>1, <1>17, <3>1
      <4>3. ~full
        BY <3>1
      <4>4. ~ForeignIn(cluster, i)
        BY <1>14, <1>18, <3>1, <4>1, <4>2, <4>3
      <4> QED BY <4>4 DEF ForeignIn
    <3> QED BY <1>19, <2>1, <3>2, <3>3, <3>4 DEF PassedOK
  <2>2. CASE pc \notin {"contents", "send"}
    <3>1. d.pc \in {"pages", "answered", "refused"}
      BY <1>1, <1>16, <1>19, <2>2
    <3> QED BY <3>1 DEF PassedOK
  <2> QED BY <2>1, <2>2
<1>25. PagesOK(d, cluster, steady)
  <2> SUFFICES ASSUME d.pc \in {"contents", "pages"} PROVE PagesOK(d, cluster, steady)
    BY DEF PagesOK
  <2>1. more /\ d.pc = call.pc
    BY <1>1, <1>17, <1>19
  <2>2. d.list.page = call.list.page + 1 /\ (d.list.page - 1) * PerPage = call.list.page * PerPage
    <3>1. d.list.page = call.list.page + 1
      BY <1>15, <1>19, <2>1
    <3>2. \A q : q = call.list.page + 1 => (q - 1) * PerPage = call.list.page * PerPage
      BY <1>7, PagesMeet DEF Assumed
    <3> QED BY <3>1, <3>2
  <2>3. d.list.count <= (d.list.page - 1) * PerPage
    BY <1>9, <1>15, <1>19, <2>2
  <2>4. ListedIn(d.project, cluster) = all
    BY <1>6, <1>20
  <2>5. \A i \in all \intersect steady : Position(i, all) <= call.list.page * PerPage => Seen(d, cluster, i)
    BY <1>14, <1>15, <1>19, <2>1 DEF Seen, items
  <2>6. \A i \in all \intersect steady :
          d.list.total # Unknown => Position(i, all) <= d.list.total
    BY <1>11, <1>15, <1>19
  <2> QED BY <2>2, <2>3, <2>4, <2>5, <2>6 DEF PagesOK
<1>26. EndOK'
  <2>1. cluster' = cluster /\ steady' = steady /\ outside' = outside /\ call' = d
    BY <1>1, <1>2 DEF worldVars
  <2>2. RefusalsAreOwed'
    <3>1. d.pc = "refused" => d.op = "project_delete" /\ d.foreign
      BY <1>1, <1>5, <1>17, <1>19, <1>20
    <3> QED BY <2>1, <3>1 DEF RefusalsAreOwed
  <2>3. ListsAreComplete'
    <3> SUFFICES ASSUME d.pc = "answered", Has(d.op, "paginated"), d.cursor # {},
                        ~Truncated(d.list, d.cap), NEW i \in Listed' \intersect steady
                 PROVE  i \in d.list.items
      BY <2>1 DEF ListsAreComplete
    <3>1. Listed' = all
      BY <1>6, <1>20, <2>1 DEF Listed, ListedIn, There
    <3>2. i \in all \intersect steady /\ Position(i, all) \in Nat
      BY <1>10, <3>1
    <3>3. ~more /\ ~guard
      BY <1>1, <1>17, <1>19
    <3>0. full => Position(i, all) <= call.cap /\ call.cap \in Int
      <4> SUFFICES ASSUME full PROVE Position(i, all) <= call.cap /\ call.cap \in Int
        OBVIOUS
      <4>1. call.cap \in Int /\ list.total \in Nat \union {Unknown}
        BY <1>3, <1>5, <1>9, <3>3 DEF Lists
      <4>2. list.count >= call.cap
        BY DEF Full
      <4>3. list.total # Unknown /\ ~ (list.total > call.cap)
        BY <1>15, <1>19, <1>20, <4>2 DEF Truncated, Full
      <4>4. Position(i, all) <= list.total
        BY <1>11, <3>2, <4>3
      <4> HIDE DEF more, full
      <4> QED BY <3>2, <4>1, <4>3, <4>4 DEF Unknown
    <3>4. Position(i, all) <= call.list.page * PerPage
      <4>1. CASE ~full
        BY <1>18, <1>20, <3>2, <3>3, <4>1
      <4>2. CASE full
        <5>1. list.count \in Nat /\ list.count >= call.cap
          BY <1>9, <4>2 DEF Full, Lists
        <5>2. list.count <= call.list.page * PerPage
          BY <1>9
        <5> HIDE DEF more, full
        <5> QED BY <1>12, <3>0, <3>2, <4>2, <5>1, <5>2
      <4> QED BY <4>1, <4>2
    <3>5. i \in list.items
      BY <1>14, <3>2, <3>3, <3>4
    <3>6. CASE ~full
      BY <1>15, <1>19, <3>5, <3>6 DEF items
    <3>7. CASE full
      <4>1. i \in call.list.items \union page
        BY <1>9, <3>5
      <4>2. i \in call.list.items \union Chunk(all, call.list.page)
        BY <4>1 DEF page
      <4>3. Position(i, all) <= call.cap /\ call.cap \in Int
        BY <3>0, <3>7
      <4>4. i \in FirstOf(call.list, all, call.cap)
        BY <1>6, <1>7, <1>8, <3>2, <4>2, <4>3, FirstHas
      <4> QED BY <1>15, <1>19, <3>7, <4>4 DEF items
    <3> QED BY <3>6, <3>7
  <2> QED BY <2>2, <2>3 DEF EndOK
<1> QED BY <1>1, <1>2, <1>19, <1>20, <1>22, <1>23, <1>24, <1>25, <1>26, CallKeeps
--------------------------------------------------------------------------------
(* What an accepted request does, to clusters the guardrails let it reach. *)

LEMMA UpdatedIs ==
  ASSUME NEW object \in Objects, NEW body \in Bodies
  PROVE  /\ Updated(object, body) \in Objects
         /\ Updated(object, body).name = IF body.name = Absent THEN object.name ELSE body.name
         /\ Updated(object, body).marker =
              IF body.description = Absent THEN object.marker ELSE body.description
         /\ Updated(object, body).project = object.project
<1> DEFINE name == IF body.name = Absent THEN object.name ELSE body.name
           marker == IF body.description = Absent THEN object.marker ELSE body.description
<1>1. name \in Names /\ marker \in Markers
  BY DEF Objects, Bodies
<1>2. Updated(object, body) = [object EXCEPT !.name = name, !.marker = marker]
  BY DEF Updated, Objects
<1> HIDE DEF name, marker
<1>3. /\ Updated(object, body) \in Objects /\ Updated(object, body).name = name
      /\ Updated(object, body).marker = marker /\ Updated(object, body).project = object.project
  BY <1>1, <1>2 DEF Objects
<1> QED BY <1>3 DEF name, marker

LEMMA NoHarm ==
  ASSUME Assumed, IInv, call.pc = "send"
  PROVE  Harm = {}
<1>1. call.op \in OpNames /\ PassedOK(call, cluster, inside, steady)
  BY RunningIs
<1>2. CASE call.op = "project_delete"
  <2>1. call.cursor # {} => NoneForeign(call.project, cluster, steady)
    BY <1>1, <1>2 DEF PassedOK
  <2>2. Reached = In(call.project)
    BY <1>2 DEF Reached, WrittenByBody
  <2>3. \A id \in Reached \intersect steady : ~ (call.cursor # {} /\ Foreign(id))
    BY <2>1, <2>2 DEF NoneForeign, In, There, Foreign
  <2>4. Harm = {id \in Reached \intersect steady : call.cursor # {} /\ Foreign(id)}
    BY <1>2 DEF Harm
  <2> QED BY <2>3, <2>4
<1>3. CASE call.op # "project_delete" /\ ~ReadOnly(call.op) /\ call.op \notin Additive
  <2>1. Harm = Reached \ inside
    BY <1>3 DEF Harm
  <2>2. CASE call.op \in WritesElsewhere
    <3>1. call.other \in inside
      BY <1>1, <2>2 DEF PassedOK, Applies
    <3>2. Reached = {call.other}
      BY <2>2 DEF Reached, WritesElsewhere, WrittenByBody
    <3> QED BY <2>1, <3>1, <3>2
  <2>3. CASE call.op \notin WritesElsewhere /\ Place(call.op) = "cluster"
    <3>1. Guarded(call.op)
      BY <1>1, <1>3, <2>3, OpIs
    <3>2. call.id \in inside
      BY <1>1, <2>3, <3>1 DEF PassedOK, Applies
    <3>3. Reached = {call.id}
      BY <1>3, <2>3 DEF Reached, WritesElsewhere, WrittenByBody
    <3> QED BY <2>1, <3>2, <3>3
  <2>4. CASE call.op \notin WritesElsewhere /\ Place(call.op) # "cluster"
    <3>1. Reached = {}
      BY <1>3, <2>4 DEF Reached, WritesElsewhere, WrittenByBody
    <3> QED BY <2>1, <3>1
  <2> QED BY <2>2, <2>3, <2>4
<1>4. CASE call.op # "project_delete" /\ (ReadOnly(call.op) \/ call.op \in Additive)
  BY <1>4 DEF Harm
<1> QED BY <1>2, <1>3, <1>4

LEMMA ApplyIs ==
  ASSUME Assumed, IInv, call.pc = "send", Accepted, Apply
  PROVE  /\ cluster' \in [Ids -> Objects \union {Absent}]
         /\ harmed' = {} /\ steady' = steady /\ edits' = edits
         /\ inside' \subseteq Ids /\ outside' \subseteq Ids
         /\ Inside(call.op, cluster') \subseteq inside' /\ Outside(call.op, cluster') \subseteq outside'
         /\ PassedOK(call, cluster', inside', steady)
         /\ \A id \in Ids :
              There(cluster, id) /\ There(cluster', id) /\ id \in steady =>
                /\ HasMarker(cluster[id].marker) => HasMarker(cluster'[id].marker)
                /\ NameAllowed(cluster[id].name) => NameAllowed(cluster'[id].name)
<1>1. /\ call \in CallRecords /\ call.op \in OpNames /\ PassedOK(call, cluster, inside, steady)
      /\ cluster \in [Ids -> Objects \union {Absent}]
      /\ inside \subseteq Ids /\ outside \subseteq Ids /\ steady \subseteq Ids
  BY RunningIs DEF IInv, StateOK, WorldOK
<1>2. /\ cluster' = Effect /\ harmed' = harmed \union Harm
      /\ inside' = inside \union Inside(call.op, cluster')
      /\ outside' = outside \union Outside(call.op, cluster')
      /\ steady' = steady /\ edits' = edits
  BY DEF Apply
<1>3. harmed' = {}
  BY <1>2, NoHarm DEF IInv
<1>4. Inside(call.op, cluster') \subseteq Ids /\ Outside(call.op, cluster') \subseteq Ids
  BY DEF Inside, Outside
<1>5. PassedOK(call, cluster, inside', steady)
  BY <1>1, <1>2 DEF PassedOK
<1>6. ASSUME call.op \in {"cluster_delete", "project_delete"}
      PROVE  cluster' \in [Ids -> Objects \union {Absent}]
             /\ \A id \in Ids : cluster'[id] \in {Absent, cluster[id]}
  <2>1. cluster' = [id \in Ids |-> IF id \in Reached THEN Absent ELSE cluster[id]]
    BY <1>2, <1>6 DEF Effect
  <2> QED BY <1>1, <2>1
<1>7. ASSUME call.op = "cluster_update"
      PROVE  /\ cluster' \in [Ids -> Objects \union {Absent}]
             /\ \A id \in Ids : id # call.id => cluster'[id] = cluster[id]
             /\ call.id \in Ids => /\ cluster[call.id] \in Objects
                                   /\ cluster'[call.id] = Updated(cluster[call.id], call.body)
  <2>1. cluster' = [cluster EXCEPT ![call.id] = Updated(@, call.body)]
    BY <1>2, <1>7 DEF Effect
  <2>2. Absent \notin Ids /\ call.body \in Bodies
    BY <1>1 DEF Assumed, PrimitivesAssumption, CallRecords
  <2>3. call.id \in Ids => cluster[call.id] \in Objects
    BY <1>1, <2>2 DEF Accepted, In, There
  <2>4. call.id \in Ids => Updated(cluster[call.id], call.body) \in Objects
    BY <2>2, <2>3, UpdatedIs
  <2> QED BY <1>1, <2>1, <2>3, <2>4
<1>8. ASSUME call.op \notin {"cluster_delete", "project_delete", "cluster_update"}
      PROVE  cluster' = cluster
  BY <1>2, <1>8 DEF Effect
<1>9. cluster' \in [Ids -> Objects \union {Absent}]
  BY <1>1, <1>6, <1>7, <1>8
<1>10. call.op = "project_delete" /\ call.cursor # {} =>
         NoneForeign(call.project, cluster', steady)
  <2> SUFFICES ASSUME call.op = "project_delete", call.cursor # {}
               PROVE  NoneForeign(call.project, cluster', steady)
    OBVIOUS
  <2>1. NoneForeign(call.project, cluster, steady)
    BY <1>1 DEF PassedOK
  <2>2. \A id \in steady : cluster'[id] \in {Absent, cluster[id]}
    BY <1>1, <1>6
  <2> QED BY <2>1, <2>2 DEF NoneForeign
<1>11. ASSUME call.op \in MarkerPreserving, call.id \in steady, cluster'[call.id] # Absent,
              HasMarker(cluster'[call.id].marker)
       PROVE  call.body.description = Absent \/ HasMarker(call.body.description)
  <2>1. call.op = "cluster_update" /\ call.id \in Ids /\ call.body \in Bodies
    BY <1>1, <1>11 DEF MarkerPreserving, CallRecords
  <2>2. cluster'[call.id].marker =
          IF call.body.description = Absent THEN cluster[call.id].marker ELSE call.body.description
    BY <1>7, <2>1, UpdatedIs
  <2> QED BY <1>11, <2>2
<1>12. PassedOK(call, cluster', inside', steady)
  BY <1>5, <1>10, <1>11 DEF PassedOK
<1>13. ASSUME NEW id \in Ids, There(cluster, id), There(cluster', id), id \in steady
       PROVE  /\ HasMarker(cluster[id].marker) => HasMarker(cluster'[id].marker)
              /\ NameAllowed(cluster[id].name) => NameAllowed(cluster'[id].name)
  <2>1. CASE call.op \in {"cluster_delete", "project_delete"}
    BY <1>6, <1>13, <2>1 DEF There
  <2>2. CASE call.op = "cluster_update" /\ id = call.id
    <3>1. call.body \in Bodies /\ call.op \in NameChecked /\ call.op \in MarkerPreserving
      BY <1>1, <2>2 DEF CallRecords, NameChecked, MarkerPreserving
    <3>2. /\ call.body.name # Absent => NameAllowed(call.body.name)
          /\ HasMarker(cluster[id].marker) =>
               call.body.description = Absent \/ HasMarker(call.body.description)
      BY <1>1, <1>13, <2>2, <3>1 DEF PassedOK, There
    <3>3. /\ cluster'[id].name = IF call.body.name = Absent THEN cluster[id].name ELSE call.body.name
          /\ cluster'[id].marker =
               IF call.body.description = Absent THEN cluster[id].marker ELSE call.body.description
      BY <1>7, <2>2, <3>1, UpdatedIs
    <3> QED BY <3>2, <3>3
  <2>3. CASE call.op = "cluster_update" /\ id # call.id
    BY <1>7, <2>3
  <2>4. CASE call.op \notin {"cluster_delete", "project_delete", "cluster_update"}
    BY <1>8, <2>4
  <2> QED BY <2>1, <2>2, <2>3, <2>4
<1> QED BY <1>1, <1>2, <1>3, <1>4, <1>9, <1>12, <1>13

\* The invariant in the next state, part by part.
LEMMA TogetherKeeps ==
  ASSUME cluster' \in [Ids -> Objects \union {Absent}], faults' \in 0..MaxFaults, edits' \in 0..MaxEdits,
         inside' \subseteq Ids, outside' \subseteq Ids, steady' \subseteq Ids, harmed' = {},
         call' \in CallRecords, SeenOK', NeededOK(call'), PassedOK(call', cluster', inside', steady'),
         PagesOK(call', cluster', steady'), AppliedOK(call'), EndOK'
  PROVE  IInv'
  BY DEF IInv, StateOK, WorldOK

LEMMA SeenPrime ==
  ASSUME call'.op \in OpNames, Inside(call'.op, cluster') \subseteq inside',
         Outside(call'.op, cluster') \subseteq outside'
  PROVE  SeenOK'
<1>1. /\ (Inside(call.op, cluster))' = Inside(call'.op, cluster')
      /\ (Outside(call.op, cluster))' = Outside(call'.op, cluster')
  BY DEF Inside, Outside
<1> QED BY <1>1 DEF SeenOK

LEMMA SendKeeps == ASSUME Assumed, IInv, Send PROVE IInv'
<1>1. /\ call.pc = "send" /\ call.pc # "idle" /\ call \in CallRecords /\ call.op \in OpNames
      /\ NeededOK(call) /\ AppliedOK(call) /\ faults \in 0..MaxFaults /\ edits \in 0..MaxEdits
      /\ steady \subseteq Ids
  BY RunningIs DEF Send, IInv, StateOK, WorldOK
<1>2. CASE Accepted /\ Apply /\ call' = [call EXCEPT !.pc = "answered", !.applied = @ + 1]
           /\ UNCHANGED faults
  <2>1. call.applied \in Nat /\ call.attempt \in 1..MaxAttempts /\ MaxAttempts \in Nat
    BY <1>1 DEF CallRecords, Assumed, ClientAssumption
  <2>2. /\ call.applied < call.attempt
        /\ Method(call.op) = "POST" => call.applied = 0
    BY <1>1 DEF AppliedOK
  <2>3. call.applied + 1 \in 0..MaxAttempts /\ "answered" \in PCs
    BY <2>1, <2>2 DEF PCs
  <2>4. /\ call' \in CallRecords /\ SameCall(call', call) /\ call'.pc = "answered"
        /\ call'.applied = call.applied + 1
    BY <1>1, <1>2, <2>3 DEF CallRecords, SameCall
  <2>5. call'.op = call.op
    BY <2>4 DEF SameCall
  <2>6. Method(call'.op) = "POST" => call'.applied <= 1
    BY <2>2, <2>4, <2>5
  <2>7. /\ cluster' \in [Ids -> Objects \union {Absent}]
        /\ harmed' = {} /\ steady' = steady /\ edits' = edits
        /\ inside' \subseteq Ids /\ outside' \subseteq Ids
        /\ Inside(call.op, cluster') \subseteq inside' /\ Outside(call.op, cluster') \subseteq outside'
    BY <1>1, <1>2, ApplyIs
  <2>8. /\ NeededOK(call') /\ PassedOK(call', cluster', inside', steady')
        /\ PagesOK(call', cluster', steady') /\ AppliedOK(call')
    BY <1>1, <2>4, <2>6, EndFits
  <2>9. SeenOK'
    BY <1>1, <2>5, <2>7, SeenPrime
  <2>10. EndOK'
    <3>1. ~Has(call'.op, "paginated")
      BY <1>1, <2>5 DEF NeededOK
    <3> QED BY <2>4, <3>1 DEF EndOK, RefusalsAreOwed, ListsAreComplete
  <2> QED BY <1>1, <1>2, <2>4, <2>7, <2>8, <2>9, <2>10, TogetherKeeps
<1>3. CASE Goto("failed") /\ UNCHANGED worldVars
  BY <1>1, <1>3, EndKeeps
<1> QED BY <1>2, <1>3 DEF Send

LEMMA FailsKeeps == ASSUME Assumed, IInv, NEW fault \in Faults, Fails(fault) PROVE IInv'
<1> DEFINE method == IF call.pc = "send" THEN Method(call.op) ELSE "GET"
           again == Repeats(fault, method, call.attempt)
           ended == IF again THEN [call EXCEPT !.attempt = @ + 1] ELSE [call EXCEPT !.pc = "failed"]
           unseen == call' = ended /\ UNCHANGED <<cluster, edits, inside, outside, steady, harmed>>
           applied == /\ call.pc = "send" /\ MayHaveApplied(fault) /\ Accepted /\ Apply
                      /\ call' = [ended EXCEPT !.applied = @ + 1]
<1>1. /\ call.pc \in {"own", "target", "contents", "marker", "pages", "send"} /\ call.pc # "idle"
      /\ faults > 0 /\ faults' = faults - 1 /\ (unseen \/ applied)
  BY DEF Fails
<1>2. /\ call \in CallRecords /\ call.op \in OpNames /\ NeededOK(call)
      /\ PassedOK(call, cluster, inside, steady) /\ PagesOK(call, cluster, steady) /\ AppliedOK(call)
      /\ faults \in 0..MaxFaults /\ edits \in 0..MaxEdits /\ harmed = {}
      /\ cluster \in [Ids -> Objects \union {Absent}]
      /\ inside \subseteq Ids /\ outside \subseteq Ids /\ steady \subseteq Ids
      /\ Inside(call.op, cluster) \subseteq inside /\ Outside(call.op, cluster) \subseteq outside
  BY <1>1, RunningIs DEF IInv, StateOK, WorldOK, SeenOK
<1>3. /\ call.applied \in 0..MaxAttempts /\ call.attempt \in 1..MaxAttempts /\ MaxAttempts \in Nat
      /\ MaxFaults \in Nat
  BY <1>2 DEF CallRecords, Assumed, ClientAssumption, PrimitivesAssumption
<1>4. faults' \in 0..MaxFaults
  BY <1>1, <1>2, <1>3
<1>5. again => call.attempt < MaxAttempts
  BY DEF Repeats
<1>6. again /\ MayHaveApplied(fault) /\ call.pc = "send" => Method(call.op) # "POST"
  BY DEF Repeats, Retryable, MayHaveApplied, IdempotentMethods
<1> HIDE DEF again
<1>7. /\ ended \in CallRecords /\ SameCall(ended, call) /\ ended.body = call.body
      /\ ended.list = call.list /\ ended.foreign = call.foreign /\ ended.applied = call.applied
      /\ again => ended.pc = call.pc /\ ended.attempt = call.attempt + 1
      /\ ~again => ended.pc = "failed"
  <2>1. CASE again
    <3>1. call.attempt + 1 \in 1..MaxAttempts
      BY <1>3, <1>5, <2>1
    <3> QED BY <1>2, <2>1, <3>1 DEF CallRecords, SameCall
  <2>2. CASE ~again
    BY <1>2, <2>2 DEF CallRecords, SameCall, PCs
  <2> QED BY <2>1, <2>2
<1> HIDE DEF ended
<1>8. /\ call.pc = "send" => call.applied < call.attempt
      /\ call.pc # "send" => call.applied = 0
      /\ Method(call.op) = "POST" => call.applied <= 1 /\ (call.pc = "send" => call.applied = 0)
  BY <1>1, <1>2 DEF AppliedOK
<1>9. /\ call' \in CallRecords /\ SameCall(call', call) /\ call'.body = call.body
      /\ call'.list = call.list /\ call'.foreign = call.foreign /\ call'.pc = ended.pc
      /\ call'.attempt = ended.attempt
      /\ unseen => call'.applied = call.applied
      /\ applied => call'.applied = call.applied + 1
  <2>1. CASE unseen
    <3>1. call' = ended
      BY <2>1
    <3>2. applied => call'.applied = call.applied + 1
      <4> SUFFICES ASSUME applied PROVE call'.applied = call.applied + 1
        OBVIOUS
      <4>1. call.applied + 1 \in 0..MaxAttempts
        BY <1>3, <1>8
      <4> QED BY <1>7, <4>1 DEF CallRecords
    <3> QED BY <1>7, <3>1, <3>2
  <2>2. CASE applied
    <3>1. call.applied + 1 \in 0..MaxAttempts
      BY <1>3, <1>8, <2>2
    <3>2. call' = [ended EXCEPT !.applied = @ + 1]
      BY <2>2
    <3>3. /\ call' \in CallRecords /\ SameCall(call', ended) /\ call'.body = ended.body
          /\ call'.list = ended.list /\ call'.foreign = ended.foreign /\ call'.pc = ended.pc
          /\ call'.attempt = ended.attempt /\ call'.applied = call.applied + 1
      BY <1>7, <3>1, <3>2 DEF CallRecords, SameCall
    <3>4. unseen => call'.applied = call.applied
      BY <1>7
    <3> QED BY <1>7, <3>3, <3>4 DEF SameCall
  <2> QED BY <1>1, <2>1, <2>2
<1>10. /\ call'.op = call.op /\ call'.project = call.project /\ call'.id = call.id
       /\ call'.other = call.other /\ call'.cap = call.cap /\ call'.cursor = call.cursor
  BY <1>9 DEF SameCall
<1>11. call'.pc \in {call.pc, "failed"}
  BY <1>7, <1>9
<1>12. NeededOK(call')
  <2>1. \A step : Applies(step, call') <=> Applies(step, call)
    BY <1>9, <1>10 DEF Applies
  <2> QED BY <1>1, <1>2, <1>9, <1>10, <1>11, <2>1 DEF NeededOK
<1>13. AppliedOK(call')
  <2>1. call'.pc = "send" => again /\ call.pc = "send" /\ call'.attempt = call.attempt + 1
    BY <1>1, <1>7, <1>9
  <2>2. CASE unseen
    <3>1. call'.applied = call.applied
      BY <1>9, <2>2
    <3>2. call'.pc # "send" /\ call'.pc # "failed" => call'.applied = 0
      BY <1>8, <1>11, <3>1
    <3>3. call'.pc = "send" => call'.applied < call'.attempt
      BY <1>3, <1>8, <2>1, <3>1
    <3>4. Method(call'.op) = "POST" => call'.applied <= 1 /\ (call'.pc = "send" => call'.applied = 0)
      BY <1>8, <1>10, <2>1, <3>1
    <3> QED BY <3>2, <3>3, <3>4 DEF AppliedOK
  <2>3. CASE applied
    <3>1. call'.applied = call.applied + 1 /\ call.pc = "send" /\ MayHaveApplied(fault)
      BY <1>9, <2>3
    <3>2. call'.pc \in {"send", "failed"}
      BY <1>11, <3>1
    <3>3. call'.pc = "send" => call'.applied < call'.attempt
      BY <1>3, <1>8, <2>1, <3>1
    <3>4. Method(call'.op) = "POST" => call'.applied <= 1 /\ call'.pc # "send"
      BY <1>3, <1>6, <1>8, <1>10, <2>1, <3>1
    <3> QED BY <3>2, <3>3, <3>4 DEF AppliedOK
  <2> QED BY <1>1, <2>2, <2>3
<1>14. /\ cluster' \in [Ids -> Objects \union {Absent}]
       /\ harmed' = {} /\ steady' = steady /\ edits' = edits
       /\ inside' \subseteq Ids /\ outside' \subseteq Ids
       /\ Inside(call.op, cluster') \subseteq inside' /\ Outside(call.op, cluster') \subseteq outside'
       /\ PassedOK(call, cluster', inside', steady)
       /\ call.pc # "send" => cluster' = cluster
  <2>1. CASE unseen
    <3>1. /\ cluster' = cluster /\ edits' = edits /\ inside' = inside /\ outside' = outside
          /\ steady' = steady /\ harmed' = harmed
      BY <2>1
    <3> QED BY <1>2, <3>1
  <2>2. CASE applied
    <3>1. call.pc = "send" /\ Accepted /\ Apply
      BY <2>2
    <3> QED BY <3>1, ApplyIs
  <2> QED BY <1>1, <2>1, <2>2
<1>15. PassedOK(call', cluster', inside', steady')
  <2>1. \A step : Applies(step, call') <=> Applies(step, call)
    BY <1>9, <1>10 DEF Applies
  <2>2. call'.pc = "failed" => PassedOK(call', cluster', inside', steady')
    BY DEF PassedOK
  <2>3. call'.pc = call.pc => PassedOK(call', cluster', inside', steady')
    BY <1>9, <1>10, <1>14, <2>1 DEF PassedOK
  <2> QED BY <1>11, <2>2, <2>3
<1>16. PagesOK(call', cluster', steady')
  <2> SUFFICES ASSUME call'.pc \in {"contents", "pages"} PROVE PagesOK(call', cluster', steady')
    BY DEF PagesOK
  <2>1. call'.pc = call.pc /\ cluster' = cluster /\ steady' = steady
    BY <1>11, <1>14
  <2> QED BY <1>2, <1>9, <1>10, <2>1 DEF PagesOK, Seen
<1>17. EndOK'
  BY <1>1, <1>11 DEF EndOK, RefusalsAreOwed, ListsAreComplete
<1>18. SeenOK'
  BY <1>2, <1>10, <1>14, SeenPrime
<1> QED BY <1>2, <1>4, <1>9, <1>12, <1>13, <1>14, <1>15, <1>16, <1>17, <1>18, TogetherKeeps
--------------------------------------------------------------------------------
(* The start and the end of a call, and what people do meanwhile. *)

LEMMA InitHolds == ASSUME Assumed, Init PROVE IInv
<1>1. /\ Idle \in CallRecords /\ Idle.pc = "idle" /\ Idle.applied = 0
      /\ Idle.attempt = 1 /\ Idle.list = NoPages /\ Idle.foreign = FALSE
  BY IdleIs
<1>2. /\ cluster \in [Ids -> StartingClusters \union {Absent}] /\ call = Idle
      /\ faults = MaxFaults /\ edits = MaxEdits
      /\ inside = {} /\ outside = {} /\ steady = {} /\ harmed = {}
  BY DEF Init
<1> HIDE DEF Idle
<1>3. StartingClusters \subseteq Objects /\ MaxFaults \in Nat /\ MaxEdits \in Nat
  BY DEF Assumed, PrimitivesAssumption, Objects
<1>4. cluster \in [Ids -> Objects \union {Absent}]
  BY <1>2, <1>3
<1>5. StateOK
  BY <1>1, <1>2, <1>3, <1>4 DEF StateOK, WorldOK
<1>6. SeenOK /\ NeededOK(call) /\ PassedOK(call, cluster, inside, steady)
  BY <1>1, <1>2 DEF SeenOK, NeededOK, PassedOK
<1>7. PagesOK(call, cluster, steady) /\ AppliedOK(call) /\ EndOK
  BY <1>1, <1>2 DEF PagesOK, AppliedOK, EndOK, RefusalsAreOwed, ListsAreComplete
<1> QED BY <1>2, <1>5, <1>6, <1>7 DEF IInv

LEMMA ReturnKeeps == ASSUME Assumed, IInv, Return PROVE IInv'
<1>1. /\ Idle \in CallRecords /\ Idle.pc = "idle" /\ Idle.applied = 0
      /\ Idle.attempt = 1 /\ Idle.list = NoPages /\ Idle.foreign = FALSE
  BY IdleIs
<1>2. /\ call' = Idle /\ inside' = {} /\ outside' = {} /\ steady' = {}
      /\ cluster' = cluster /\ faults' = faults /\ edits' = edits /\ harmed' = harmed
  BY DEF Return
<1> HIDE DEF Idle
<1>3. SeenOK' /\ NeededOK(call') /\ PassedOK(call', cluster', inside', steady')
  BY <1>1, <1>2 DEF SeenOK, NeededOK, PassedOK
<1>4. PagesOK(call', cluster', steady') /\ AppliedOK(call') /\ EndOK'
  BY <1>1, <1>2 DEF PagesOK, AppliedOK, EndOK, RefusalsAreOwed, ListsAreComplete
<1> QED BY <1>1, <1>2, <1>3, <1>4 DEF IInv, StateOK, WorldOK

LEMMA BeginKeeps == ASSUME Assumed, IInv, NEW op \in Calls, Begin(op) PROVE IInv'
<1> DEFINE Refuses(c) == Guarded(op) /\ c.project # Absent /\ ~ProjectAllowed(c.project)
           Capless(c) == Has(op, "paginated") /\ c.cap <= 0
           Pc(c) == IF Refuses(c) THEN "refused" ELSE IF Capless(c) THEN "failed" ELSE After(1, c)
<1>1. PICK c \in Made(op) : call' = [c EXCEPT !.pc = Pc(c)]
  BY DEF Begin
<1>2. /\ inside' = Inside(op, cluster) /\ outside' = Outside(op, cluster) /\ steady' = Ids
      /\ cluster' = cluster /\ faults' = faults /\ edits' = edits /\ harmed' = harmed
  BY DEF Begin
<1>3. /\ c \in CallRecords /\ c.op = op /\ op \in OpNames /\ c.list = NoPages
      /\ c.applied = 0 /\ c.attempt = 1 /\ c.foreign = FALSE
      /\ Has(op, "paginated") => c.cap \in Int
      /\ Has(op, "paginated") \/ op = "project_delete" => c.cursor \in SUBSET CursorFields
  BY MadeIs
<1>4. 1 \in 1..5 /\ 1 \in 1..6 /\ After(1, c) \in StepNames \union {"pages"}
  BY AfterIs
<1>5. Pc(c) \in PCs
  BY <1>4 DEF PCs
<1>6. Pc(c) = "refused" => Refuses(c)
  BY <1>4 DEF StepNames
<1>7. Pc(c) \in {"refused", "failed"} \/ Pc(c) = After(1, c)
  OBVIOUS
<1>8. Pc(c) # "answered"
  BY <1>4 DEF StepNames
<1> DEFINE pc == Pc(c)
<1> HIDE DEF pc, Refuses, Capless, NoPages
<1>9. /\ call' \in CallRecords /\ call'.pc = pc /\ call'.op = op /\ call'.project = c.project
      /\ call'.body = c.body /\ call'.list = NoPages /\ call'.applied = 0 /\ call'.attempt = 1
      /\ call'.cap = c.cap /\ call'.cursor = c.cursor
  BY <1>1, <1>3, <1>5 DEF CallRecords, pc
<1>10. /\ NeededOK(call') /\ PassedOK(call', cluster', inside', steady')
       /\ PagesOK(call', cluster', steady') /\ AppliedOK(call')
  <2>1. CASE pc \in {"refused", "failed"}
    BY <1>3, <1>9, <2>1 DEF NeededOK, PassedOK, PagesOK, AppliedOK
  <2>2. CASE pc = After(1, c)
    BY <1>3, <1>4, <1>9, <2>2, Arrives
  <2> QED BY <1>7, <2>1, <2>2 DEF pc
<1>11. inside' \subseteq Ids /\ outside' \subseteq Ids
  BY <1>2 DEF Inside, Outside
<1>12. SeenOK'
  BY <1>2, <1>3, <1>9, SeenPrime
<1>13. EndOK'
  <2>1. call'.pc = "refused" => call'.project # Absent /\ ~ProjectAllowed(call'.project)
    BY <1>6, <1>9 DEF Refuses, pc
  <2>2. call'.pc # "answered"
    BY <1>8, <1>9 DEF pc
  <2> QED BY <2>1, <2>2 DEF EndOK, RefusalsAreOwed, ListsAreComplete
<1> QED BY <1>2, <1>9, <1>10, <1>11, <1>12, <1>13, TogetherKeeps DEF IInv, StateOK, WorldOK

\* An edit moves none of the clusters that still count as steady.
LEMMA EditIs ==
  ASSUME Assumed, IInv, NEW id \in Ids, HumanEdit(id)
  PROVE  /\ cluster' \in [Ids -> Objects \union {Absent}] /\ steady' \subseteq steady
         /\ \A i \in steady' : i # id
         /\ \A i \in Ids : i # id => cluster'[i] = cluster[i]
         /\ \A p : \A i \in ListedIn(p, cluster') \intersect steady' :
              /\ i \in ListedIn(p, cluster)
              /\ Position(i, ListedIn(p, cluster')) = Position(i, ListedIn(p, cluster))
<1>1. PICK object \in StartingClusters \union {Absent} :
        /\ Absent \notin {object, cluster[id]} => object.project = cluster[id].project
        /\ cluster' = [cluster EXCEPT ![id] = object]
        /\ steady' = IF Absent \in {object, cluster[id]} THEN {i \in steady : i < id}
                                                        ELSE steady \ {id}
  BY DEF HumanEdit
<1>2. cluster \in [Ids -> Objects \union {Absent}] /\ steady \subseteq Ids
  BY DEF IInv, StateOK, WorldOK
<1>3. object \in Objects \union {Absent}
  BY DEF Assumed, PrimitivesAssumption, Objects
<1>4. \A i \in Ids : i \in Nat
  BY IdsAre DEF Assumed
<1>5. /\ cluster' \in [Ids -> Objects \union {Absent}] /\ cluster'[id] = object
      /\ \A i \in Ids : i # id => cluster'[i] = cluster[i]
  BY <1>1, <1>2, <1>3
<1>6. steady' \subseteq steady /\ \A i \in steady' : i # id
  BY <1>1, <1>2, <1>4
<1>7. ASSUME NEW p, NEW i \in ListedIn(p, cluster') \intersect steady'
      PROVE  /\ i \in ListedIn(p, cluster)
             /\ Position(i, ListedIn(p, cluster')) = Position(i, ListedIn(p, cluster))
  <2>1. i \in Ids /\ i # id /\ cluster'[i] = cluster[i]
    BY <1>5, <1>6 DEF ListedIn
  <2>2. i \in ListedIn(p, cluster)
    BY <2>1 DEF ListedIn
  <2>3. {j \in ListedIn(p, cluster') : j <= i} = {j \in ListedIn(p, cluster) : j <= i}
    <3>1. CASE Absent \in {object, cluster[id]}
      <4>1. i < id /\ i \in Nat /\ id \in Nat
        BY <1>1, <1>4, <2>1, <3>1
      <4>2. \A j \in Ids : j <= i => j # id /\ cluster'[j] = cluster[j]
        BY <1>4, <1>5, <4>1
      <4> QED BY <4>2 DEF ListedIn
    <3>2. CASE Absent \notin {object, cluster[id]}
      <4>1. object # Absent /\ cluster[id] # Absent /\ object.project = cluster[id].project
        BY <1>1, <3>2
      <4>2. \A j \in Ids : j \in ListedIn(p, cluster') <=> j \in ListedIn(p, cluster)
        BY <1>5, <4>1 DEF ListedIn
      <4>3. ListedIn(p, cluster') \subseteq Ids /\ ListedIn(p, cluster) \subseteq Ids
        BY DEF ListedIn
      <4>4. ListedIn(p, cluster') = ListedIn(p, cluster)
        BY <4>2, <4>3
      <4> QED BY <4>4
    <3> QED BY <3>1, <3>2
  <2> QED BY <2>2, <2>3 DEF Position
<1> QED BY <1>5, <1>6, <1>7

LEMMA HumanEditKeeps == ASSUME Assumed, IInv, NEW id \in Ids, HumanEdit(id) PROVE IInv'
<1>1. /\ edits > 0 /\ edits' = edits - 1 /\ call.op # Absent
      /\ inside' = inside \union Inside(call.op, cluster')
      /\ outside' = outside \union Outside(call.op, cluster')
      /\ call' = call /\ faults' = faults /\ harmed' = harmed
  BY DEF HumanEdit
<1>2. /\ cluster' \in [Ids -> Objects \union {Absent}] /\ steady' \subseteq steady
      /\ \A i \in steady' : i # id
      /\ \A i \in Ids : i # id => cluster'[i] = cluster[i]
  BY EditIs
<1>3. \A p : \A i \in ListedIn(p, cluster') \intersect steady' :
        /\ i \in ListedIn(p, cluster)
        /\ Position(i, ListedIn(p, cluster')) = Position(i, ListedIn(p, cluster))
  BY EditIs
<1>4. /\ call \in CallRecords /\ NeededOK(call) /\ PassedOK(call, cluster, inside, steady)
      /\ PagesOK(call, cluster, steady) /\ AppliedOK(call) /\ harmed = {} /\ EndOK
      /\ faults \in 0..MaxFaults /\ edits \in 0..MaxEdits /\ MaxEdits \in Nat
      /\ inside \subseteq Ids /\ outside \subseteq Ids /\ steady \subseteq Ids
  BY DEF IInv, StateOK, WorldOK, Assumed, PrimitivesAssumption
<1>5. call.op \in OpNames
  BY <1>1, <1>4 DEF CallRecords
<1>6. Inside(call.op, cluster') \subseteq Ids /\ Outside(call.op, cluster') \subseteq Ids
  BY DEF Inside, Outside
<1>7. edits' \in 0..MaxEdits
  BY <1>1, <1>4
<1>8. SeenOK'
  BY <1>1, <1>5, SeenPrime
<1>9. \A i \in steady' : cluster'[i] = cluster[i] /\ i \in steady
  BY <1>2, <1>4
<1>10. PassedOK(call, cluster', inside', steady')
  <2>1. \A p : NoneForeign(p, cluster, steady) => NoneForeign(p, cluster', steady')
    BY <1>9 DEF NoneForeign
  <2> QED BY <1>1, <1>4, <1>9, <2>1 DEF PassedOK
<1>11. PagesOK(call, cluster', steady')
  <2> SUFFICES ASSUME call.pc \in {"contents", "pages"} PROVE PagesOK(call, cluster', steady')
    BY DEF PagesOK
  <2> DEFINE now == ListedIn(call.project, cluster')
             then == ListedIn(call.project, cluster)
  <2>1. \A i \in then \intersect steady :
          /\ Position(i, then) <= (call.list.page - 1) * PerPage => Seen(call, cluster, i)
          /\ call.list.total # Unknown => Position(i, then) <= call.list.total
    BY <1>4 DEF PagesOK
  <2>2. \A i \in now \intersect steady' : i \in then /\ i \in steady
                                          /\ Position(i, now) = Position(i, then)
    BY <1>3, <1>9
  <2>3. \A i \in steady' : Seen(call, cluster, i) => Seen(call, cluster', i)
    BY <1>9 DEF Seen, ForeignIn
  <2>4. call.list.count <= (call.list.page - 1) * PerPage
    BY <1>4 DEF PagesOK
  <2> HIDE DEF now, then
  <2>5. \A i \in now \intersect steady' :
          /\ Position(i, now) <= (call.list.page - 1) * PerPage => Seen(call, cluster', i)
          /\ call.list.total # Unknown => Position(i, now) <= call.list.total
    BY <2>1, <2>2, <2>3
  <2> QED BY <2>4, <2>5 DEF PagesOK, now
<1>12. EndOK'
  <2>1. RefusalsAreOwed'
    BY <1>1, <1>4 DEF EndOK, RefusalsAreOwed
  <2>2. ListsAreComplete'
    <3>1. Listed = ListedIn(call.project, cluster) /\ Listed' = ListedIn(call.project, cluster')
      BY <1>1 DEF Listed, ListedIn, There
    <3>2. Listed' \intersect steady' \subseteq Listed \intersect steady
      BY <1>3, <1>9, <3>1
    <3> QED BY <1>1, <1>4, <3>2 DEF EndOK, ListsAreComplete
  <2> QED BY <2>1, <2>2 DEF EndOK
<1> QED BY <1>1, <1>2, <1>4, <1>6, <1>7, <1>8, <1>10, <1>11, <1>12, TogetherKeeps
--------------------------------------------------------------------------------
LEMMA AssumptionsHold == Assumed
  BY PolicyAssumption, ClientAssumption, PrimitivesAssumption DEF Assumed

LEMMA StutterKeeps == ASSUME IInv, UNCHANGED vars PROVE IInv'
<1>1. /\ cluster' = cluster /\ call' = call /\ faults' = faults /\ edits' = edits
      /\ inside' = inside /\ outside' = outside /\ steady' = steady /\ harmed' = harmed
  BY DEF vars
<1>2. /\ Inside(call.op, cluster)' = Inside(call.op, cluster)
      /\ Outside(call.op, cluster)' = Outside(call.op, cluster) /\ Listed' = Listed
  BY <1>1 DEF Inside, Outside, Listed, There
<1>3. StateOK' /\ SeenOK' /\ EndOK'
  BY <1>1, <1>2 DEF IInv, StateOK, WorldOK, SeenOK, EndOK, RefusalsAreOwed, ListsAreComplete
<1> QED BY <1>1, <1>3 DEF IInv

LEMMA NextKeeps == ASSUME IInv, [Next]_vars PROVE IInv'
<1>1. ASSUME NEW op \in Calls, Begin(op) PROVE IInv'
  BY <1>1, AssumptionsHold, BeginKeeps
<1>2. ASSUME Step PROVE IInv'
  BY <1>2, AssumptionsHold, CheckOwnKeeps, CheckTargetKeeps, CheckNameKeeps, PreserveMarkerKeeps,
     ListPageKeeps, SendKeeps DEF Step
<1>3. ASSUME Return PROVE IInv'
  BY <1>3, AssumptionsHold, ReturnKeeps
<1>4. ASSUME NEW fault \in Faults, Fails(fault) PROVE IInv'
  BY <1>4, AssumptionsHold, FailsKeeps
<1>5. ASSUME NEW id \in Ids, HumanEdit(id) PROVE IInv'
  BY <1>5, AssumptionsHold, HumanEditKeeps
<1>6. CASE UNCHANGED vars
  BY <1>6, StutterKeeps
<1> QED BY <1>1, <1>2, <1>3, <1>4, <1>5, <1>6 DEF Next

\* The invariant holds of every behaviour of a primitive call, with other people's
\* edits between any two of its requests.
THEOREM CallsKeepTheInvariant == Spec => []IInv
<1>1. Init => IInv
  BY AssumptionsHold, InitHolds
<1>2. IInv /\ [Next]_vars => IInv'
  BY NextKeeps
<1> QED BY <1>1, <1>2, PTL DEF Spec

LEMMA TypesFit == IInv => TypeOK
<1> SUFFICES ASSUME IInv PROVE TypeOK
  OBVIOUS
<1>1. /\ cluster \in [Ids -> Objects \union {Absent}] /\ call \in CallRecords
      /\ faults \in 0..MaxFaults /\ edits \in 0..MaxEdits
      /\ inside \subseteq Ids /\ outside \subseteq Ids /\ steady \subseteq Ids /\ harmed = {}
  BY DEF IInv, StateOK, WorldOK
<1>2. \A id \in Ids : There(cluster, id) =>
        cluster[id].project \in Projects /\ cluster[id].name \in Names /\ cluster[id].marker \in Markers
  BY <1>1 DEF There, Objects
<1>3. call.attempt \in 1..MaxAttempts /\ call.applied \in 0..MaxAttempts /\ call.pc \in PCs
  BY <1>1 DEF CallRecords
<1>4. StepNames \subseteq {Steps[i] : i \in DOMAIN Steps}
  <2>1. 1 \in 1..6 /\ 2 \in 1..6 /\ 3 \in 1..6 /\ 4 \in 1..6 /\ 5 \in 1..6 /\ 6 \in 1..6
    OBVIOUS
  <2> QED BY <2>1, StepsAre DEF StepNames
<1>5. call.pc \in {"idle", "pages", "answered", "refused", "failed"} \union {Steps[i] : i \in DOMAIN Steps}
  BY <1>3, <1>4 DEF PCs
<1>6. inside \union outside \union steady \union harmed \subseteq Ids
  BY <1>1
<1> QED BY <1>1, <1>2, <1>3, <1>5, <1>6 DEF TypeOK

\* _handle_primitive, check_cluster_ownership and _preserve_ownership_marker: an
\* accepted write of any tool of the registry reaches only clusters the guardrails let
\* it touch while it ran, and a refusal is always owed to one they keep it from.
THEOREM WritesStayInside == Spec => []SandboxInv
<1>1. IInv => OnlySandboxWritten /\ RefusalsAreOwed
  BY DEF IInv, EndOK, OnlySandboxWritten
<1>2. IInv => SandboxInv
  BY <1>1, TypesFit DEF SandboxInv
<1> QED BY <1>2, CallsKeepTheInvariant, PTL

\* capella_request and capella_list: no POST takes effect twice, however its answers are
\* lost, and a listing not marked truncated holds all that stood still while it was read.
THEOREM ClientIsHonest == Spec => []ClientInv
<1>1. IInv => CreatedOnce
  <2> SUFFICES ASSUME IInv, call.op # Absent, Method(call.op) = "POST" PROVE call.applied <= 1
    BY DEF CreatedOnce
  <2>1. call.op \in OpNames /\ AppliedOK(call)
    BY DEF IInv, StateOK, CallRecords
  <2> QED BY <2>1 DEF AppliedOK
<1>2. IInv => ClientInv
  BY <1>1 DEF IInv, EndOK, ClientInv
<1> QED BY <1>2, CallsKeepTheInvariant, PTL

LEMMA StepsLaunderNothing ==
  ASSUME IInv, [Next]_vars, NEW id \in Ids, There(cluster, id), There(cluster', id),
         edits' = edits, id \in steady
  PROVE  /\ HasMarker(cluster[id].marker) => HasMarker(cluster'[id].marker)
         /\ NameAllowed(cluster[id].name) => NameAllowed(cluster'[id].name)
<1>1. ASSUME call.pc = "send", Accepted, Apply
      PROVE  /\ HasMarker(cluster[id].marker) => HasMarker(cluster'[id].marker)
             /\ NameAllowed(cluster[id].name) => NameAllowed(cluster'[id].name)
  BY <1>1, AssumptionsHold, ApplyIs
<1>2. CASE cluster' = cluster
  BY <1>2
<1>3. ASSUME NEW op \in Calls, Begin(op) PROVE cluster' = cluster
  BY <1>3 DEF Begin
<1>4. CASE CheckOwn \/ CheckTarget \/ CheckName \/ PreserveMarker \/ ListPage
  <2>1. UNCHANGED worldVars
    BY <1>4 DEF CheckOwn, CheckTarget, CheckName, PreserveMarker, ListPage
  <2> QED BY <1>2, <2>1 DEF worldVars
<1>5. CASE Send
  <2>1. CASE Accepted /\ Apply
    BY <1>1, <1>5, <2>1 DEF Send
  <2>2. CASE UNCHANGED worldVars
    BY <1>2, <2>2 DEF worldVars
  <2> QED BY <1>5, <2>1, <2>2 DEF Send
<1>6. CASE Return
  BY <1>2, <1>6 DEF Return
<1>7. ASSUME NEW fault \in Faults, Fails(fault)
      PROVE  cluster' = cluster \/ (call.pc = "send" /\ Accepted /\ Apply)
  BY <1>7 DEF Fails
<1>8. ASSUME NEW i \in Ids, HumanEdit(i) PROVE FALSE
  <2>1. edits \in Nat /\ edits' = edits - 1
    BY <1>8 DEF HumanEdit, IInv, StateOK, WorldOK
  <2> QED BY <2>1
<1>9. CASE UNCHANGED vars
  BY <1>2, <1>9 DEF vars
<1> QED BY <1>1, <1>2, <1>3, <1>4, <1>5, <1>6, <1>7, <1>8, <1>9 DEF Next, Step

\* _preserve_ownership_marker and the name check on a renaming: no tool's write takes a
\* steady cluster's marker off it or its name out of the prefix.
THEOREM NothingIsLaundered == Spec => NeverLaundered
<1>1. IInv /\ [Next]_vars =>
        [\A id \in Ids :
           There(cluster, id) /\ There(cluster', id) /\ edits' = edits /\ id \in steady =>
             /\ HasMarker(cluster[id].marker) => HasMarker(cluster'[id].marker)
             /\ NameAllowed(cluster[id].name) => NameAllowed(cluster'[id].name)]_vars
  BY StepsLaunderNothing
<1> QED BY <1>1, CallsKeepTheInvariant, PTL DEF Spec, NeverLaundered
================================================================================
