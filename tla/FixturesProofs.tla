---------------------------- MODULE FixturesProofs ----------------------------
(* For any number of keyspaces, documents, pages, calls and faults: a fixture    *)
(* directory is a FixtureStore (what verifies is what one finished export wrote, *)
(* and only the end of an export puts something new there), an export records    *)
(* every document that stands still exactly once, an import that reports no      *)
(* problem has loaded every recorded document and asked for its own builds, and  *)
(* an import during which nothing fails reports none, whatever it finds.         *)
EXTENDS Fixtures, FiniteSetTheorems, SequenceTheorems, TLAPS

Fields == {"pc", "data", "wanted", "warned", "structure", "indexes", "todo", "matched",
           "now", "last", "files"}

\* The directory and the call are what they are built as.
ShapesOK ==
  /\ DOMAIN export = Fields
  /\ DOMAIN dir = {"data", "manifest"} /\ DOMAIN dir.data = Keyspaces

\* What an export has recorded stays on disk: it comes back to no file.
RecordedOK ==
  /\ export.todo \subseteq Keyspaces
  /\ export.pc = "structure" => export.files = {}
  /\ export.pc = "page" => export.now \in Keyspaces \ export.todo
  /\ \A r \in export.files :
       /\ r.keyspace \in Keyspaces \ export.todo
       /\ dir.data[r.keyspace] = r.sha256
       /\ export.pc = "page" => r.keyspace # export.now

\* The content a manifest speaks of, and that it was finished.
Recorded(manifest) == {[keyspace |-> r.keyspace, file |-> r.sha256] : r \in manifest.files}
ManifestOK == Readable(dir) => Recorded(dir.manifest) \in finished

IInv == ShapesOK /\ RecordedOK /\ ManifestOK
--------------------------------------------------------------------------------
LEMMA IdleShape ==
  /\ DOMAIN Idle = Fields
  /\ Idle.todo = {} /\ Idle.files = {} /\ Idle.pc = "idle"
BY DEF Idle, Fields

LEMMA InitOK == Init => IInv
<1> SUFFICES ASSUME Init PROVE IInv
  OBVIOUS
<1>1. ShapesOK
  BY IdleShape DEF Init, ExportInit, EmptyDir, ShapesOK
<1>2. RecordedOK
  BY IdleShape DEF Init, ExportInit, RecordedOK
<1>3. ManifestOK
  BY DEF Init, EmptyDir, ManifestOK, Readable
<1> QED BY <1>1, <1>2, <1>3 DEF IInv

\* Only the steps of an export touch the files and what is recorded of them.
LEMMA StillOK ==
  ASSUME IInv, UNCHANGED <<dir, export>>, finished \subseteq finished'
  PROVE  IInv'
<1>1. ManifestOK'
  BY DEF IInv, ManifestOK, Readable, Recorded
<1> QED BY <1>1 DEF IInv, ShapesOK, RecordedOK

\* An export that ends, or begins, has nothing recorded.
LEMMA FreshOK ==
  ASSUME IInv, UNCHANGED <<dir, finished>>,
         DOMAIN export' = Fields, export'.todo = {}, export'.files = {},
         export'.pc # "page"
  PROVE  IInv'
<1>1. ManifestOK'
  BY DEF IInv, ManifestOK, Readable, Recorded
<1> QED BY <1>1 DEF IInv, ShapesOK, RecordedOK

LEMMA RefuseOK ==
  ASSUME IInv, UNCHANGED <<dir, finished>>, Refuse
  PROVE  IInv'
BY FreshOK DEF Refuse, Idle, Fields

LEMMA StartExportOK == ASSUME IInv, StartExport PROVE IInv'
BY FreshOK DEF StartExport, Idle, Fields

LEMMA DiesOK ==
  ASSUME IInv, UNCHANGED <<dir, finished>>, ExportDies
  PROVE  IInv'
BY FreshOK, IdleShape DEF ExportDies

LEMMA ReadOK ==
  ASSUME IInv, NEW structure \in SUBSET Keyspaces, NEW got, NEW warned,
         export.pc = "structure", Read(structure, got, warned), UNCHANGED <<dir, finished>>
  PROVE  IInv'
<1>1. /\ DOMAIN export' = Fields /\ export'.files = {}
      /\ export'.todo \subseteq Keyspaces /\ export'.pc \in {"open", "manifest"}
  BY DEF Read, Goes, Edited, IInv, ShapesOK, RecordedOK, Fields
<1>2. ManifestOK'
  BY DEF IInv, ManifestOK, Readable, Recorded
<1> QED BY <1>1, <1>2 DEF IInv, ShapesOK, RecordedOK

LEMMA ReadStructureOK == ASSUME IInv, ReadStructure PROVE IInv'
<1>1. InWantedBuckets \subseteq Keyspaces
  BY DEF InWantedBuckets
<1>2. CASE Refuse
  BY <1>2, RefuseOK DEF ReadStructure
<1>3. CASE ~Refuse
  <2>1. PICK structure \in SUBSET Keyspaces : \E got, warned : Read(structure, got, warned)
    BY <1>1, <1>3 DEF ReadStructure
  <2> QED BY <2>1, ReadOK DEF ReadStructure
<1> QED BY <1>2, <1>3

\* A write of one data file leaves the manifest, and so what it speaks of.
LEMMA DataWriteOK ==
  ASSUME IInv, NEW k \in Keyspaces, NEW content,
         dir' = [dir EXCEPT !.data[k] = content], UNCHANGED finished
  PROVE  /\ DOMAIN dir' = {"data", "manifest"} /\ DOMAIN dir'.data = Keyspaces
         /\ \A j \in Keyspaces : dir'.data[j] = IF j = k THEN content ELSE dir.data[j]
         /\ ManifestOK'
<1>1. dir'.manifest = dir.manifest /\ dir'.data = [dir.data EXCEPT ![k] = content]
      /\ DOMAIN dir' = {"data", "manifest"}
  BY DEF IInv, ShapesOK
<1>2. ManifestOK'
  BY <1>1 DEF IInv, ManifestOK, Readable, Recorded
<1> QED BY <1>1, <1>2 DEF IInv, ShapesOK

LEMMA OpenFileOK == ASSUME IInv, OpenFile PROVE IInv'
<1>1. PICK k \in export.todo :
         /\ Goes([pc |-> "page", now |-> k, last |-> 0, todo |-> export.todo \ {k},
                  matched |-> export.matched \union {k}])
         /\ dir' = [dir EXCEPT !.data[k] = <<>>]
  BY DEF OpenFile
<1>2. k \in Keyspaces
  BY DEF IInv, RecordedOK
<1>3. /\ DOMAIN export' = Fields /\ export'.pc = "page" /\ export'.now = k
      /\ export'.todo = export.todo \ {k} /\ export'.files = export.files
  BY <1>1 DEF Goes, Edited, IInv, ShapesOK, Fields
<1>4. /\ DOMAIN dir' = {"data", "manifest"} /\ DOMAIN dir'.data = Keyspaces
      /\ \A j \in Keyspaces \ {k} : dir'.data[j] = dir.data[j]
      /\ ManifestOK'
  BY <1>1, <1>2, DataWriteOK DEF OpenFile
<1>5. RecordedOK'
  BY <1>1, <1>2, <1>3, <1>4 DEF IInv, RecordedOK
<1> QED BY <1>3, <1>4, <1>5 DEF IInv, ShapesOK

LEMMA WritePageOK == ASSUME IInv, WritePage PROVE IInv'
<1> DEFINE k == export.now
           file == dir.data[k] \o InKeyOrder(k, PageOf(k, export.last))
<1>1. export.pc = "page" /\ k \in Keyspaces \ export.todo
  BY DEF WritePage, IInv, RecordedOK
<1>2. CASE Refuse /\ UNCHANGED dir
  BY <1>2, RefuseOK DEF WritePage
<1>3. ASSUME NEW content, dir' = [dir EXCEPT !.data[k] = content]
      PROVE  /\ DOMAIN dir' = {"data", "manifest"} /\ DOMAIN dir'.data = Keyspaces
             /\ \A j \in Keyspaces : dir'.data[j] = IF j = k THEN content ELSE dir.data[j]
             /\ ManifestOK'
  BY <1>1, <1>3, DataWriteOK DEF WritePage
<1>4. ASSUME NEW content, dir' = [dir EXCEPT !.data[k] = content],
             DOMAIN export' = Fields, export'.todo = export.todo,
             export'.pc \in {"open", "page"}, export'.pc = "page" => export'.now = k,
             \/ export'.files = export.files
             \/ /\ export'.pc = "open"
                /\ \E r : /\ export'.files = export.files \union {r}
                          /\ r.keyspace = k /\ r.sha256 = content
      PROVE  IInv'
  <2>1. RecordedOK'
    BY <1>1, <1>3, <1>4 DEF IInv, RecordedOK
  <2> QED BY <1>3, <1>4, <2>1 DEF IInv, ShapesOK
<1>5. CASE CloseFile(k, file)
  <2>1. CASE file = <<>>
    <3>1. dir' = [dir EXCEPT !.data[k] = NoFile] /\ Goes([pc |-> "open"])
      BY <1>5, <2>1 DEF CloseFile
    <3>2. /\ DOMAIN export' = Fields /\ export'.todo = export.todo
          /\ export'.pc = "open" /\ export'.files = export.files
      BY <3>1 DEF Goes, Edited, IInv, ShapesOK, Fields
    <3> QED BY <1>4, <3>1, <3>2
  <2>2. CASE file # <<>>
    <3> DEFINE r == [keyspace |-> k, sha256 |-> Sha256File(file), document_count |-> Len(file)]
    <3>1. /\ dir' = [dir EXCEPT !.data[k] = file]
          /\ Goes([pc |-> "open", files |-> export.files \union {r}])
      BY <1>5, <2>2 DEF CloseFile
    <3>2. r.keyspace = k /\ r.sha256 = file
      BY DEF Sha256File
    <3> HIDE DEF r, file
    <3>3. /\ DOMAIN export' = Fields /\ export'.todo = export.todo
          /\ export'.pc = "open" /\ export'.files = export.files \union {r}
      BY <3>1 DEF Goes, Edited, IInv, ShapesOK, Fields
    <3> QED BY <1>4, <3>1, <3>2, <3>3
  <2> QED BY <2>1, <2>2
<1>6. CASE /\ dir' = [dir EXCEPT !.data[k] = file]
           /\ Goes([last |-> file[Len(file)].key])
  <2> HIDE DEF file
  <2>1. /\ DOMAIN export' = Fields /\ export'.todo = export.todo /\ export'.pc = "page"
        /\ export'.files = export.files /\ export'.now = k
    BY <1>1, <1>6 DEF Goes, Edited, IInv, ShapesOK, Fields
  <2> QED BY <1>4, <1>6, <2>1
<1> QED BY <1>2, <1>5, <1>6 DEF WritePage

\* On to the manifest, with what was recorded.
LEMMA GoesOK ==
  ASSUME IInv, NEW l \in {"manifest", "write", "done"}, Goes([pc |-> l])
  PROVE  /\ DOMAIN export' = Fields /\ export'.pc = l
         /\ export'.todo = export.todo /\ export'.files = export.files
BY DEF Goes, Edited, IInv, ShapesOK, Fields

LEMMA EndDataOK == ASSUME IInv, EndData PROVE IInv'
<1>1. CASE Refuse
  BY <1>1, RefuseOK DEF EndData
<1>2. CASE Goes([pc |-> "manifest"])
  <2>1. RecordedOK'
    BY <1>2, GoesOK DEF EndData, IInv, RecordedOK
  <2>2. ManifestOK'
    BY DEF EndData, IInv, ManifestOK, Readable, Recorded
  <2> QED BY <1>2, <2>1, <2>2, GoesOK DEF EndData, IInv, ShapesOK
<1> QED BY <1>1, <1>2 DEF EndData

LEMMA OpenManifestOK == ASSUME IInv, OpenManifest PROVE IInv'
<1>1. CASE Refuse /\ UNCHANGED dir
  BY <1>1, RefuseOK DEF OpenManifest
<1>2. CASE dir' = [dir EXCEPT !.manifest = Torn] /\ Goes([pc |-> "write"])
  <2>1. dir'.data = dir.data /\ dir'.manifest = Torn /\ DOMAIN dir' = {"data", "manifest"}
    BY <1>2 DEF IInv, ShapesOK
  <2>2. RecordedOK'
    BY <1>2, <2>1, GoesOK DEF IInv, RecordedOK
  <2>3. ManifestOK'
    BY <2>1 DEF ManifestOK, Readable
  <2> QED BY <1>2, <2>1, <2>2, <2>3, GoesOK DEF IInv, ShapesOK
<1> QED BY <1>1, <1>2 DEF OpenManifest

\* What the manifest records is what lies on disk when it is written.
LEMMA WriteManifestOK == ASSUME IInv, WriteManifest PROVE IInv'
<1>1. CASE Refuse /\ UNCHANGED <<dir, finished>>
  BY <1>1, RefuseOK DEF WriteManifest
<1>2. CASE /\ dir' = [dir EXCEPT !.manifest = Manifest]
           /\ Goes([pc |-> "done"])
           /\ finished' = finished \union {Payload(dir, Manifest)}
  <2>1. dir'.data = dir.data /\ dir'.manifest = Manifest /\ DOMAIN dir' = {"data", "manifest"}
    BY <1>2 DEF IInv, ShapesOK
  <2>2. RecordedOK'
    BY <1>2, <2>1, GoesOK DEF IInv, RecordedOK
  <2>3. Recorded(Manifest) = Payload(dir, Manifest)
    <3>1. Manifest.files = export.files
      BY DEF Manifest
    <3>2. \A r \in export.files : dir.data[r.keyspace] = r.sha256
      BY DEF IInv, RecordedOK
    <3> QED BY <3>1, <3>2 DEF Recorded, Payload
  <2>4. ManifestOK'
    BY <1>2, <2>1, <2>3 DEF ManifestOK, Recorded
  <2> QED BY <1>2, <2>1, <2>2, <2>4, GoesOK DEF IInv, ShapesOK
<1> QED BY <1>1, <1>2 DEF WriteManifest
--------------------------------------------------------------------------------
LEMMA ImportStepStill == ImportStep => UNCHANGED dir
BY DEF ImportStep, StartImport, PlanBuckets, PlanFiles, CreateBucket, CreateCollection,
       StartDocuments, StartFile, PutDocument, EndFile, StartIndexes, CreateIndex,
       EndIndexes, BuildKeyspace, EndBuild, BuildBuckets

LEMMA StepOK == IInv /\ [Next]_vars => IInv'
<1> SUFFICES ASSUME IInv, [Next]_vars PROVE IInv'
  OBVIOUS
<1>1. CASE ExportStep
  BY <1>1, StartExportOK, ReadStructureOK, OpenFileOK, WritePageOK, EndDataOK,
     OpenManifestOK, WriteManifestOK DEF ExportStep
<1>2. CASE Write
  BY <1>2, StillOK DEF Write
<1>3. CASE Importing
  BY <1>3, StillOK, ImportStepStill DEF Importing, exportVars
<1>4. CASE Online
  BY <1>4, StillOK DEF Online, exportVars
<1>5. CASE Restart
  BY <1>5, DiesOK DEF Restart
<1>6. CASE UNCHANGED vars
  BY <1>6, StillOK DEF vars, exportVars
<1> QED BY <1>1, <1>2, <1>3, <1>4, <1>5, <1>6 DEF Next, Exporting

\* The invariant that carries the theorem below.
THEOREM FilesAccounted == Spec => []IInv
BY InitOK, StepOK, PTL DEF Spec

\* fixture_integrity and the order of writing, the manifest last: whatever fails and
\* dies in between, and however many exports come after one another, a directory that
\* verifies holds exactly the files one finished export recorded.
THEOREM OnlyFinishedVerifies == Spec => []Store!OnlyFinished
<1>1. IInv => Store!OnlyFinished
  <2> SUFFICES ASSUME IInv, Verifies(dir) PROVE Payload(dir, dir.manifest) \in finished
    BY DEF Store!OnlyFinished
  <2>1. Recorded(dir.manifest) \in finished
    BY DEF IInv, ManifestOK, Verifies
  <2>2. \A r \in dir.manifest.files : dir.data[r.keyspace] = r.sha256
    BY DEF Verifies, FixtureIntegrity, Sha256File
  <2> QED BY <2>1, <2>2 DEF Recorded, Payload
<1> QED BY <1>1, FilesAccounted, PTL

\* A file whose keys ascend, and the record of one.
Sorted(file) == \A i, j \in DOMAIN file : i < j => file[i].key < file[j].key
Records == {r \in Files : Sorted(r.sha256) /\ r.document_count = Len(r.sha256)}
Indexes == {IndexOf(k) : k \in Keyspaces}

\* The directory and the source.
DirOK ==
  /\ dir.data \in [Keyspaces -> Written \union {NoFile, <<>>}]
  /\ \A k \in Keyspaces : dir.data[k] # NoFile => Sorted(dir.data[k])
  /\ Readable(dir) => /\ dir.manifest.files \subseteq Records
                      /\ dir.manifest.structure \subseteq Keyspaces
                      /\ dir.manifest.indexes \subseteq Indexes
SourceOK ==
  /\ source \in [Keyspaces -> [Keys -> {0} \union Versions]]
  /\ stable \in [Keyspaces -> SUBSET Keys]

\* The call that exports.
ExportOK ==
  /\ export.structure \subseteq Keyspaces /\ export.indexes \subseteq Indexes
  /\ export.files \subseteq Records /\ export.last \in {0} \union Keys
  /\ export.pc = "page" =>
       /\ export.now \notin Carried
       /\ dir.data[export.now] # NoFile
       /\ \A i \in DOMAIN dir.data[export.now] : dir.data[export.now][i].key <= export.last

\* A file has the documents among these keys that nobody writes.
Complete(k, file, keys) ==
  \A key \in stable[k] :
    /\ source[k][key] # 0 /\ key \in keys =>
         \E i \in DOMAIN file : file[i].key = key /\ file[i].version = source[k][key]
    /\ \A i \in DOMAIN file : file[i].key = key => file[i].version = source[k][key]
FileOf(k) == IF k \in Carried THEN dir.data[k] ELSE <<>>

GatheredOK ==
  /\ export.pc = "page" =>
       Complete(export.now, dir.data[export.now], {key \in Keys : key <= export.last})
  /\ export.data /\ export.pc \in {"open", "page", "manifest", "write", "done"} =>
       /\ \A k \in export.structure \ export.todo :
            Wanted(k) => \/ export.pc = "page" /\ export.now = k
                         \/ Complete(k, FileOf(k), Keys)
       /\ export.pc \in {"manifest", "write", "done"} =>
            \A k \in export.todo : ~ Wanted(k)
       /\ export.warned \/ InWantedBuckets \subseteq export.structure

\* The call that imports.
ImportFields == {"pc", "map", "build", "manifest", "known", "todo", "problem", "made", "now",
                 "line", "loaded", "failed"}
TargetOK ==
  /\ DOMAIN target = {"buckets", "collections", "documents", "indexes"}
  /\ target.documents \in [TargetKeyspaces -> [Keys -> {0} \union Versions]]
  /\ target.indexes \in [TargetKeyspaces -> {"none", "deferred", "building", "online"}]
  /\ target.collections \subseteq {k \in TargetKeyspaces \union {DefaultOf(b) : b \in Buckets} :
                                     k[1] \in target.buckets}
ImportOK ==
  /\ DOMAIN import = ImportFields
  /\ import.map \in {<<>>} \union Maps
  /\ import.manifest.files \subseteq Records
  /\ import.manifest.structure \subseteq Keyspaces
  /\ import.manifest.indexes \subseteq Indexes
  /\ import.line \in Nat /\ import.loaded \in Nat /\ import.failed \in Nat
  /\ import.failed + import.loaded = import.line
  /\ import.pc = "buckets" => /\ import.todo \subseteq RecordedBuckets
                              /\ import.made \subseteq import.manifest.structure
  /\ import.pc = "structure" => import.todo \subseteq Keyspaces
  /\ import.pc = "documents" => import.todo \subseteq import.manifest.files
  /\ import.pc = "lines" => /\ import.todo \subseteq import.manifest.files
                            /\ import.now \in import.manifest.files
  /\ import.pc = "indexes" => import.todo \subseteq import.manifest.indexes
  /\ import.pc = "build" => import.todo \subseteq import.made

\* A recorded file the import has still to end with, the places it has put documents.
Due(r) == \/ import.pc \in {"documents", "lines"} /\ r \in import.todo
          \/ import.pc = "lines" /\ r = import.now
Loading == {"documents", "lines", "indexes", "build", "done"}
Put(k, r, n) == \A i \in 1..n : target.documents[k][r.sha256[i].key] = r.sha256[i].version

\* Of every file that is not due, all documents are there, unless a problem is noted:
\* this needs that a keyspace is recorded once, that the checked files stay as they
\* are, and how far the file under way has come.
DistinctOK == \A r, s \in import.manifest.files : r.keyspace = s.keyspace => r = s
CheckedOK == ~ raced /\ import.pc \notin Ended => FixtureIntegrity(dir, import.manifest)
ArrivedOK ==
  ~ raced /\ import.pc \in Loading /\ ~ import.problem =>
    \A r \in import.manifest.files : Due(r) \/ Has(To(r.keyspace), r)
ProgressOK ==
  ~ raced /\ import.pc = "lines" =>
    /\ import.line <= Len(import.now.sha256)
    /\ import.failed = 0 => Put(To(import.now.keyspace), import.now, import.line)

\* On a target that held nothing, all there is comes from the fixture.
KeysOf(r) == {r.sha256[i].key : i \in DOMAIN r.sha256}
CleanOK ==
  clean /\ ~ raced /\ import.pc \notin {"idle", "refused", "incomplete"} =>
    \A t \in TargetKeyspaces, key \in Keys : target.documents[t][key] # 0 =>
      \E r \in import.manifest.files : To(r.keyspace) = t /\ key \in KeysOf(r)

\* Each index the call made is where the map sends it, and its build is asked for or due.
BuiltOK ==
  edition = "ee" /\ import.pc \in {"indexes", "build", "done"} =>
    \A made \in import.made :
      /\ made[2] = To(made[1].keyspace) /\ made[1].keyspace \in Keyspaces
      /\ target.indexes[made[2]] # "none"
      /\ \/ import.pc = "indexes"
         \/ import.pc = "build" /\ made \in import.todo
         \/ import.problem
         \/ target.indexes[made[2]] \in {"building", "online"}
--------------------------------------------------------------------------------
\* Paging: the place of a key among the keys of a finite set.
Rank(S, x) == Cardinality({j \in S : j <= x})

LEMMA RankOK ==
  ASSUME NEW S \in SUBSET Nat, IsFiniteSet(S)
  PROVE  /\ Cardinality(S) \in Nat
         /\ \A x \in S : Rank(S, x) \in 1..Cardinality(S)
         /\ \A x, y \in S : x < y => Rank(S, x) < Rank(S, y)
         /\ \A i \in 1..Cardinality(S) : \E x \in S : Rank(S, x) = i
<1> DEFINE upto(x) == {j \in S : j <= x}
<1>1. Cardinality(S) \in Nat
  BY FS_CardinalityType
<1>2. \A x \in S : /\ IsFiniteSet(upto(x)) /\ Cardinality(upto(x)) \in Nat
                   /\ Cardinality(upto(x)) <= Cardinality(S)
  <2> TAKE x \in S
  <2>1. upto(x) \in SUBSET S
    OBVIOUS
  <2> QED BY <2>1, FS_Subset, FS_CardinalityType
<1>3. \A x \in S : Cardinality(upto(x)) # 0
  <2> TAKE x \in S
  <2>1. x \in upto(x)
    OBVIOUS
  <2>2. upto(x) # {}
    BY <2>1
  <2> HIDE DEF upto
  <2> QED BY <1>2, <2>2, FS_EmptySet
<1>4. ASSUME NEW x \in S, NEW y \in S, x < y
      PROVE  Cardinality(upto(x)) < Cardinality(upto(y))
  <2>0. /\ \A j \in S : j <= x => j <= y
        /\ y <= y /\ ~ (y <= x)
    <3>1. x \in Nat /\ y \in Nat /\ S \subseteq Nat
      OBVIOUS
    <3> QED BY <1>4, <3>1
  <2>1. upto(x) \in SUBSET upto(y) /\ y \in upto(y) /\ y \notin upto(x)
    BY <2>0
  <2>2. upto(x) # upto(y)
    BY <2>1
  <2> HIDE DEF upto
  <2>3. Cardinality(upto(x)) <= Cardinality(upto(y))
        /\ Cardinality(upto(x)) # Cardinality(upto(y))
    BY <1>2, <2>1, <2>2, FS_Subset
  <2> QED BY <1>2, <2>3
<1>5. PICK f : f = [x \in S |-> Cardinality(upto(x))]
  OBVIOUS
<1> HIDE DEF upto
<1>6. f \in [S -> 1..Cardinality(S)]
  BY <1>1, <1>2, <1>3, <1>5
<1>7. \A x, y \in S : f[x] = f[y] => x = y
  <2> TAKE x, y \in S
  <2>1. x < y \/ y < x \/ x = y
    OBVIOUS
  <2> QED BY <1>2, <1>4, <1>5, <2>1
<1>8. f \in Injection(S, 1..Cardinality(S))
  BY <1>6, <1>7 DEF Injection, IsInjective
<1>9. IsFiniteSet(1..Cardinality(S)) /\ Cardinality(1..Cardinality(S)) = Cardinality(S)
  <2>1. 1 \in Int /\ Cardinality(S) \in Int
    BY <1>1
  <2>2. Cardinality(1..Cardinality(S)) = IF 1 > Cardinality(S) THEN 0 ELSE Cardinality(S)-1+1
    BY <2>1, FS_Interval
  <2> QED BY <1>1, <2>1, <2>2, FS_Interval
<1>10. f \in Surjection(S, 1..Cardinality(S))
  BY <1>8, <1>9, FS_Injection
<1>11. \A i \in 1..Cardinality(S) : \E x \in S : f[x] = i
  BY <1>10 DEF Surjection
<1>12. \A x \in S : Rank(S, x) = f[x]
  BY <1>5 DEF Rank, upto
<1>13. \A x, y \in S : x < y => f[x] < f[y]
  BY <1>4, <1>5
<1> QED BY <1>1, <1>6, <1>11, <1>12, <1>13

\* The documents of a set of keys, in their order.
LEMMA InKeyOrderOK ==
  ASSUME NEW k \in Keyspaces, NEW S \in SUBSET Keys,
         source \in [Keyspaces -> [Keys -> {0} \union Versions]],
         \A key \in S : source[k][key] # 0,
         NEW f, f = InKeyOrder(k, S)
  PROVE  /\ Cardinality(S) \in Nat /\ f \in [1..Cardinality(S) -> Documents]
         /\ \A i \in 1..Cardinality(S) :
              f[i].key \in S /\ f[i].version = source[k][f[i].key]
         /\ \A i, j \in 1..Cardinality(S) : i < j => f[i].key < f[j].key
         /\ \A key \in S : \E i \in 1..Cardinality(S) : f[i].key = key
<1> DEFINE n == Cardinality(S)
           nth(i) == CHOOSE key \in S : Rank(S, key) = i
<1>1. S \in SUBSET Nat /\ IsFiniteSet(S)
  BY FS_Subset, FixtureFilesAssumption
<1>2. /\ n \in Nat
      /\ \A x \in S : Rank(S, x) \in 1..n
      /\ \A x, y \in S : x < y => Rank(S, x) < Rank(S, y)
      /\ \A i \in 1..n : \E x \in S : Rank(S, x) = i
  BY <1>1, RankOK
<1>3. f = [i \in 1..n |-> [key |-> nth(i), version |-> source[k][nth(i)]]]
  BY DEF InKeyOrder, Rank
<1>4. \A i \in 1..n : nth(i) \in S /\ Rank(S, nth(i)) = i
  BY <1>2
<1> HIDE DEF nth, n
<1>5. \A i \in 1..n : f[i] = [key |-> nth(i), version |-> source[k][nth(i)]]
  BY <1>3
<1>6. ASSUME NEW i \in 1..n PROVE f[i].key = nth(i) /\ f[i].version = source[k][nth(i)]
  <2>1. PICK x, v : x = nth(i) /\ v = source[k][nth(i)]
    OBVIOUS
  <2>2. f[i] = [key |-> x, version |-> v]
    BY <1>5, <2>1, Zenon
  <2> QED BY <2>1, <2>2
<1>7. f \in [1..n -> Documents]
  <2>1. ASSUME NEW i \in 1..n PROVE f[i] \in Documents
    <3>1. PICK x \in Keys : x = nth(i) /\ source[k][x] \in Versions
      BY <1>4
    <3>2. f[i] = [key |-> x, version |-> source[k][x]]
      BY <1>5, <3>1, Zenon
    <3> QED BY <3>1, <3>2 DEF Documents
  <2> QED BY <1>3, <2>1
<1>8. \A i, j \in 1..n : i < j => nth(i) < nth(j)
  <2> SUFFICES ASSUME NEW i \in 1..n, NEW j \in 1..n, i < j PROVE nth(i) < nth(j)
    OBVIOUS
  <2>1. PICK x \in S : x = nth(i) /\ Rank(S, x) = i
    BY <1>4
  <2>2. PICK y \in S : y = nth(j) /\ Rank(S, y) = j
    BY <1>4
  <2>3. ~ (y < x) /\ x # y
    BY <1>2, <2>1, <2>2
  <2> QED BY <1>1, <2>1, <2>2, <2>3
<1>9. \A x \in S : \E i \in 1..n : nth(i) = x
  <2> TAKE x \in S
  <2>1. PICK i \in 1..n : i = Rank(S, x)
    BY <1>2
  <2>2. PICK y \in S : y = nth(i) /\ Rank(S, y) = i
    BY <1>4
  <2>3. ~ (x < y) /\ ~ (y < x)
    BY <1>2, <2>1, <2>2
  <2>4. x = y
    BY <1>1, <2>3
  <2> QED BY <2>2, <2>4
<1> QED BY <1>2, <1>4, <1>6, <1>7, <1>8, <1>9 DEF n

\* A page is the beginning of what is left, and all of it when it is not full.
LEMMA PageOfOK ==
  ASSUME NEW k, NEW last, NEW page, page = PageOf(k, last)
  PROVE  /\ page \subseteq Rest(k, last) /\ Rest(k, last) \subseteq Keys
         /\ \A x \in Rest(k, last), y \in page : x <= y => x \in page
         /\ Cardinality(page) < PageSize => page = Rest(k, last)
<1> DEFINE R == Rest(k, last)
<1>1. PICK S \in SUBSET Keys : S = R
  BY DEF Rest
<1>2. S \in SUBSET Nat /\ IsFiniteSet(S) /\ PageSize \in Nat \ {0}
  BY FS_Subset, FixtureFilesAssumption, FixtureExportAssumption
<1>3. page = {x \in S : Rank(S, x) <= PageSize}
  BY <1>1 DEF PageOf, Rank
<1>4. /\ Cardinality(S) \in Nat
      /\ \A x \in S : Rank(S, x) \in 1..Cardinality(S)
      /\ \A x, y \in S : x < y => Rank(S, x) < Rank(S, y)
      /\ \A i \in 1..Cardinality(S) : \E x \in S : Rank(S, x) = i
  BY <1>2, RankOK
<1>5. \A x \in S, y \in page : x <= y => x \in page
  <2> SUFFICES ASSUME NEW x \in S, NEW y \in page, x <= y PROVE x \in page
    OBVIOUS
  <2>1. x = y \/ Rank(S, x) < Rank(S, y)
    BY <1>2, <1>3, <1>4
  <2> QED BY <1>2, <1>3, <1>4, <2>1
<1>6. ASSUME Cardinality(page) < PageSize PROVE page = S
  <2>1. SUFFICES ASSUME NEW x \in S, x \notin page PROVE FALSE
    BY <1>3
  <2>2. PageSize < Cardinality(S)
    BY <1>2, <1>3, <1>4, <2>1
  <2>3. page \in SUBSET S
    BY <1>3
  <2>4. IsFiniteSet(page) /\ Cardinality(page) \in Nat
    BY <1>2, <2>3, FS_Subset, FS_CardinalityType
  <2>5. PICK g : g = [y \in page |-> Rank(S, y)]
    OBVIOUS
  <2>6. g \in Surjection(page, 1..PageSize)
    <3>1. g \in [page -> 1..PageSize]
      <4>1. \A y \in page : Rank(S, y) \in 1..PageSize
        BY <1>2, <1>3, <1>4
      <4> QED BY <2>5, <4>1
    <3>2. ASSUME NEW i \in 1..PageSize PROVE \E y \in page : g[y] = i
      <4>1. PICK y \in S : Rank(S, y) = i
        BY <1>2, <1>4, <2>2
      <4>2. y \in page
        BY <1>2, <1>3, <4>1
      <4> QED BY <2>5, <4>1, <4>2
    <3> QED BY <3>1, <3>2 DEF Surjection
  <2>7. Cardinality(1..PageSize) <= Cardinality(page)
    BY <2>4, <2>6, FS_Surjection
  <2>8. Cardinality(1..PageSize) = PageSize
    <3>1. Cardinality(1..PageSize) = IF 1 > PageSize THEN 0 ELSE PageSize - 1 + 1
      BY <1>2, FS_Interval
    <3> QED BY <1>2, <3>1
  <2> QED BY <1>2, <1>6, <2>4, <2>7, <2>8
<1> QED BY <1>1, <1>3, <1>5, <1>6
--------------------------------------------------------------------------------
\* A file is empty, or as long as its ascending keys allow.
LEMMA KeysFacts ==
  /\ Keys \subseteq Nat /\ 0 \notin Keys /\ 0 \notin Versions /\ IsFiniteSet(Keys)
  /\ Cardinality(Keys) \in Nat
BY FS_CardinalityType, FixtureFilesAssumption

LEMMA WrittenIsSeq ==
  ASSUME NEW f \in Written \union {<<>>}
  PROVE  /\ f \in Seq(Documents) /\ Len(f) \in 0..Cardinality(Keys)
         /\ f \in Written => f # <<>> /\ Len(f) \in 1..Cardinality(Keys)
<1>1. CASE f = <<>>
  <2>1. f \notin Written
    <3> SUFFICES ASSUME NEW n \in 1..Cardinality(Keys), f \in [1..n -> Documents] PROVE FALSE
      BY DEF Written
    <3> QED BY <1>1, KeysFacts
  <2> QED BY <1>1, <2>1, KeysFacts
<1>2. CASE f \in Written
  <2>1. PICK n \in 1..Cardinality(Keys) : f \in [1..n -> Documents]
    BY <1>2 DEF Written
  <2>2. f \in Seq(Documents) /\ Len(f) = n
    BY <2>1, KeysFacts
  <2> QED BY <2>1, <2>2, KeysFacts
<1> QED BY <1>1, <1>2

LEMMA NoFileIsNone == NoFile \notin Written /\ NoFile # <<>>
<1>1. NoFile[1].key = 0 /\ Len(NoFile) = 1
  BY DEF NoFile
<1>2. \A f \in Written : f[1] \in Documents
  BY WrittenIsSeq
<1> QED BY <1>1, <1>2, KeysFacts DEF Documents

LEMMA SortedIsWritten ==
  ASSUME NEW f \in Seq(Documents), Sorted(f), f # <<>>
  PROVE  f \in Written
<1>1. Len(f) \in Nat /\ DOMAIN f = 1..Len(f) /\ f \in [1..Len(f) -> Documents] /\ Len(f) # 0
  OBVIOUS
<1>2. PICK g : g = [i \in 1..Len(f) |-> f[i].key]
  OBVIOUS
<1>3. g \in [1..Len(f) -> Keys]
  BY <1>1, <1>2 DEF Documents
<1>4. \A i, j \in 1..Len(f) : g[i] = g[j] => i = j
  <2> TAKE i, j \in 1..Len(f)
  <2>1. i < j \/ j < i \/ i = j
    BY <1>1
  <2>2. \A m, n \in 1..Len(f) : m < n => g[m] < g[n]
    BY <1>1, <1>2 DEF Sorted
  <2>3. g[i] \in Nat /\ g[j] \in Nat
    BY <1>3, KeysFacts
  <2> QED BY <2>1, <2>2, <2>3
<1>5. g \in Injection(1..Len(f), Keys)
  BY <1>3, <1>4 DEF Injection, IsInjective
<1>6. Cardinality(1..Len(f)) = Len(f)
  <2>1. Cardinality(1..Len(f)) = IF 1 > Len(f) THEN 0 ELSE Len(f) - 1 + 1
    BY <1>1, FS_Interval
  <2> QED BY <1>1, <2>1
<1>7. Len(f) <= Cardinality(Keys)
  BY <1>5, <1>6, KeysFacts, FS_Injection
<1> QED BY <1>1, <1>7, KeysFacts DEF Written

\* A page goes behind what the file holds, when its keys are later.
Ascends(h, n) == \A i, j \in 1..n : i < j => h[i].key < h[j].key
Behind(f, h, n) == \A i \in DOMAIN f, j \in 1..n : f[i].key < h[j].key
Joins(file, f, h, n) ==
  /\ file \in Seq(Documents) /\ Sorted(file)
  /\ Len(f) + n \in Nat /\ Len(file) = Len(f) + n /\ DOMAIN file = 1..(Len(f) + n)
  /\ \A i \in DOMAIN file : file[i] \in Documents
  /\ \A i \in DOMAIN file :
       \/ i \in DOMAIN f /\ file[i] = f[i]
       \/ \E j \in 1..n : i = Len(f) + j /\ file[i] = h[j]
  /\ \A i \in DOMAIN f : i \in DOMAIN file /\ file[i] = f[i]
  /\ \A j \in 1..n : Len(f) + j \in DOMAIN file /\ file[Len(f) + j] = h[j]

LEMMA AppendOK ==
  ASSUME NEW f \in Seq(Documents), Sorted(f),
         NEW n \in Nat, NEW h \in [1..n -> Documents], Ascends(h, n), Behind(f, h, n)
  PROVE  Joins(f \o h, f, h, n)
<1>0. PICK file : file = f \o h
  OBVIOUS
<1>1. h \in Seq(Documents) /\ Len(h) = n /\ Len(f) \in Nat /\ DOMAIN f = 1..Len(f)
  OBVIOUS
<1>2. /\ file \in Seq(Documents) /\ Len(file) = Len(f) + n
      /\ DOMAIN file = 1..(Len(f) + n)
      /\ \A i \in 1..(Len(f) + n) : file[i] = IF i <= Len(f) THEN f[i] ELSE h[i - Len(f)]
  <2>1. PICK g \in Seq(Documents) : g = h
    BY <1>1
  <2>2. file = f \o g /\ Len(g) = n
    BY <1>0, <1>1, <2>1
  <2>3. /\ file \in Seq(Documents) /\ Len(file) = Len(f) + n
        /\ \A i \in 1..(Len(f) + n) : file[i] = IF i <= Len(f) THEN f[i] ELSE g[i - Len(f)]
    <3>1. /\ f \o g \in Seq(Documents) /\ Len(f \o g) = Len(f) + Len(g)
          /\ \A i \in 1..(Len(f) + Len(g)) :
               (f \o g)[i] = IF i <= Len(f) THEN f[i] ELSE g[i - Len(f)]
      BY ConcatProperties, Zenon
    <3> QED BY <2>2, <3>1, Zenon
  <2> QED BY <2>1, <2>3
<1>3. \A i \in DOMAIN f : i \in DOMAIN file /\ file[i] = f[i]
  <2> TAKE i \in DOMAIN f
  <2>1. i \in 1..(Len(f) + n) /\ i <= Len(f)
    BY <1>1
  <2> QED BY <1>2, <2>1
<1>4. \A j \in 1..n : Len(f) + j \in DOMAIN file /\ file[Len(f) + j] = h[j]
  <2> TAKE j \in 1..n
  <2>1. PICK m \in Nat : m = Len(f)
    BY <1>1
  <2>2. m + j \in 1..(m + n) /\ ~ (m + j <= m) /\ (m + j) - m = j
    OBVIOUS
  <2> QED BY <1>2, <2>1, <2>2
<1>5. \A i \in DOMAIN file :
        \/ i \in DOMAIN f /\ file[i] = f[i]
        \/ \E j \in 1..n : i = Len(f) + j /\ file[i] = h[j]
  <2> TAKE i \in DOMAIN file
  <2>1. CASE i <= Len(f)
    BY <1>1, <1>2, <2>1
  <2>2. CASE ~ (i <= Len(f))
    <3>1. i - Len(f) \in 1..n /\ i = Len(f) + (i - Len(f))
      BY <1>1, <1>2, <2>2
    <3> QED BY <1>2, <2>2, <3>1
  <2> QED BY <2>1, <2>2
<1>6. Len(f) + n \in Nat /\ \A i \in DOMAIN file : file[i] \in Documents
  BY <1>1, <1>2, <1>5
<1>7. Sorted(file)
  <2> SUFFICES ASSUME NEW i \in DOMAIN file, NEW j \in DOMAIN file, i < j
               PROVE  file[i].key < file[j].key
    BY DEF Sorted
  <2>1. CASE i \in DOMAIN f /\ j \in DOMAIN f
    BY <1>3, <2>1 DEF Sorted
  <2>2. CASE i \in DOMAIN f /\ j \notin DOMAIN f
    BY <1>3, <1>5, <2>2 DEF Behind
  <2>3. CASE i \notin DOMAIN f
    <3>1. PICK a \in 1..n : i = Len(f) + a /\ file[i] = h[a]
      BY <1>5, <2>3
    <3>2. j \notin DOMAIN f
      BY <1>1, <1>2, <2>3
    <3>3. PICK b \in 1..n : j = Len(f) + b /\ file[j] = h[b]
      BY <1>5, <3>2
    <3>4. a < b
      BY <1>1, <3>1, <3>3
    <3> QED BY <3>1, <3>3, <3>4 DEF Ascends
  <2> QED BY <2>1, <2>2, <2>3
<1> QED BY <1>0, <1>2, <1>3, <1>4, <1>5, <1>6, <1>7 DEF Joins
--------------------------------------------------------------------------------
\* What an export gathers.
ExportIInv == DirOK /\ SourceOK /\ ExportOK /\ GatheredOK

LEMMA DirStill ==
  ASSUME DirOK, UNCHANGED <<dir, edition>>
  PROVE  DirOK'
BY DEF DirOK, Readable, Indexes, IndexOf

LEMMA IndexesStill == UNCHANGED edition => Indexes' = Indexes
BY DEF Indexes, IndexOf

LEMMA GathersStill ==
  ASSUME ExportIInv, UNCHANGED <<dir, export, source, stable, edition>>
  PROVE  ExportIInv'
<1>1. DirOK'
  BY DirStill DEF ExportIInv
<1>2. SourceOK'
  BY DEF ExportIInv, SourceOK
<1>3. ExportOK'
  BY IndexesStill DEF ExportIInv, ExportOK, Carried
<1>4. GatheredOK'
  BY DEF ExportIInv, GatheredOK, Complete, FileOf, Carried, Wanted, InWantedBuckets
<1> QED BY <1>1, <1>2, <1>3, <1>4 DEF ExportIInv

LEMMA GatheringStarts == Init => ExportIInv
<1> SUFFICES ASSUME Init PROVE ExportIInv
  OBVIOUS
<1>1. dir.data = [k \in Keyspaces |-> NoFile] /\ dir.manifest = NoManifest
  BY DEF Init, EmptyDir
<1>2. DirOK
  <2>1. ~ Readable(dir)
    BY <1>1 DEF Readable
  <2>2. dir.data \in [Keyspaces -> Written \union {NoFile, <<>>}]
        /\ \A k \in Keyspaces : dir.data[k] = NoFile
    BY <1>1
  <2> QED BY <2>1, <2>2 DEF DirOK
<1>3. SourceOK
  BY FixtureExportAssumption DEF Init, ExportInit, SourceOK
<1>4. export = Idle
  BY DEF Init, ExportInit
<1>5. /\ export.pc = "idle" /\ export.structure = {} /\ export.indexes = {}
      /\ export.files = {} /\ export.last = 0
  BY <1>4 DEF Idle
<1>6. ExportOK
  BY <1>5 DEF ExportOK
<1>7. GatheredOK
  BY <1>5 DEF GatheredOK
<1> QED BY <1>2, <1>3, <1>6, <1>7 DEF ExportIInv

LEMMA FreshGathers ==
  ASSUME ExportIInv, UNCHANGED <<dir, source, edition>>,
         stable' \in [Keyspaces -> SUBSET Keys],
         export'.structure = {}, export'.indexes = {}, export'.files = {},
         export'.last = 0, export'.pc \in {"idle", "failed", "structure"}
  PROVE  ExportIInv'
<1>1. DirOK'
  BY DirStill DEF ExportIInv
<1>2. SourceOK'
  BY DEF ExportIInv, SourceOK
<1>3. ExportOK'
  BY DEF ExportOK
<1>4. GatheredOK'
  BY DEF GatheredOK
<1> QED BY <1>1, <1>2, <1>3, <1>4 DEF ExportIInv

LEMMA RefuseGathers ==
  ASSUME ExportIInv, Refuse, UNCHANGED <<dir, source, stable, edition>>
  PROVE  ExportIInv'
<1>1. /\ export'.structure = {} /\ export'.indexes = {} /\ export'.files = {}
      /\ export'.last = 0 /\ export'.pc = "failed"
  BY DEF Refuse, Idle
<1> QED BY <1>1, FreshGathers DEF ExportIInv, SourceOK

LEMMA DiesGathers ==
  ASSUME ExportIInv, ExportDies, UNCHANGED <<dir, source, stable, edition>>
  PROVE  ExportIInv'
<1>1. /\ export'.structure = {} /\ export'.indexes = {} /\ export'.files = {}
      /\ export'.last = 0 /\ export'.pc = "idle"
  BY DEF ExportDies, Idle
<1> QED BY <1>1, FreshGathers DEF ExportIInv, SourceOK

LEMMA StartExportGathers == ASSUME ExportIInv, StartExport PROVE ExportIInv'
<1>1. /\ export'.structure = {} /\ export'.indexes = {} /\ export'.files = {}
      /\ export'.last = 0 /\ export'.pc = "structure"
  BY DEF StartExport, Idle
<1>2. stable' \in [Keyspaces -> SUBSET Keys]
  BY DEF StartExport
<1> QED BY <1>1, <1>2, FreshGathers DEF StartExport

LEMMA ReadGathers ==
  ASSUME IInv, ExportIInv, export.pc = "structure",
         NEW structure \in SUBSET Keyspaces, NEW got \in SUBSET Keyspaces, NEW warned \in BOOLEAN,
         warned \/ InWantedBuckets \subseteq structure,
         Read(structure, got, warned), UNCHANGED <<dir, source, stable, edition>>
  PROVE  ExportIInv'
<1>1. /\ export'.structure = structure /\ export'.warned = warned
      /\ export'.indexes = {IndexOf(k) : k \in got} /\ export'.files = export.files
      /\ export'.last = export.last /\ export'.wanted = export.wanted
      /\ export'.data = export.data
      /\ export'.pc = IF export.data THEN "open" ELSE "manifest"
      /\ export'.todo = IF export.data THEN structure ELSE {}
  BY DEF Read, Goes, Edited, IInv, ShapesOK, Fields
<1>2. DirOK'
  BY DirStill DEF ExportIInv
<1>3. SourceOK'
  BY DEF ExportIInv, SourceOK
<1>4. ExportOK'
  <2>1. export'.indexes \subseteq Indexes'
    BY <1>1, IndexesStill DEF Indexes
  <2>2. export'.pc # "page"
    BY <1>1
  <2> QED BY <1>1, <2>1, <2>2 DEF ExportIInv, ExportOK
<1>5. GatheredOK'
  <2>1. CASE export.data
    <3>1. export'.pc = "open" /\ export'.structure \ export'.todo = {}
      BY <1>1, <2>1
    <3>2. export'.warned \/ InWantedBuckets' \subseteq export'.structure
      BY <1>1 DEF InWantedBuckets
    <3> QED BY <3>1, <3>2 DEF GatheredOK
  <2>2. CASE ~ export.data
    <3>1. ~ export'.data /\ export'.pc # "page"
      BY <1>1, <2>2
    <3> QED BY <3>1 DEF GatheredOK
  <2> QED BY <2>1, <2>2
<1> QED BY <1>2, <1>3, <1>4, <1>5 DEF ExportIInv

LEMMA ReadStructureGathers == ASSUME IInv, ExportIInv, ReadStructure PROVE ExportIInv'
<1>1. InWantedBuckets \subseteq Keyspaces
  BY DEF InWantedBuckets
<1>2. \A structure \in SUBSET Keyspaces : Asked(structure) \subseteq Keyspaces
  BY FixtureExportAssumption DEF Asked
<1>3. CASE Refuse
  BY <1>3, RefuseGathers DEF ReadStructure
<1>4. CASE ~Refuse
  <2>1. PICK structure \in SUBSET Keyspaces, got \in SUBSET Keyspaces, warned \in BOOLEAN :
          /\ Read(structure, got, warned)
          /\ warned \/ InWantedBuckets \subseteq structure
    <3>1. CASE Read(InWantedBuckets, Asked(InWantedBuckets), FALSE)
      BY <1>1, <1>2, <3>1
    <3>2. ASSUME NEW b, Read({k \in InWantedBuckets : k[1] # b},
                             Asked({k \in InWantedBuckets : k[1] # b}), TRUE)
          PROVE  \E structure \in SUBSET Keyspaces, got \in SUBSET Keyspaces, warned \in BOOLEAN :
                   /\ Read(structure, got, warned)
                   /\ warned \/ InWantedBuckets \subseteq structure
      <4> DEFINE others == {k \in InWantedBuckets : k[1] # b}
      <4>1. others \in SUBSET Keyspaces /\ Asked(others) \in SUBSET Keyspaces
        BY <1>1, <1>2
      <4> HIDE DEF others
      <4> QED BY <3>2, <4>1 DEF others
    <3>3. ASSUME NEW lost, Read(InWantedBuckets, Asked(InWantedBuckets) \ {lost}, TRUE)
          PROVE  \E structure \in SUBSET Keyspaces, got \in SUBSET Keyspaces, warned \in BOOLEAN :
                   /\ Read(structure, got, warned)
                   /\ warned \/ InWantedBuckets \subseteq structure
      BY <1>1, <1>2, <3>3
    <3> QED BY <1>4, <3>1, <3>2, <3>3 DEF ReadStructure
  <2>2. export.pc = "structure" /\ UNCHANGED <<dir, source, stable, edition>>
    BY DEF ReadStructure
  <2> QED BY <2>1, <2>2, ReadGathers
<1> QED BY <1>3, <1>4

\* One data file is opened, written or taken away.
LEMMA DirWritten ==
  ASSUME IInv, DirOK, UNCHANGED edition, NEW k \in Keyspaces, NEW content,
         content \in Written \union {NoFile, <<>>}, content # NoFile => Sorted(content),
         dir' = [dir EXCEPT !.data[k] = content]
  PROVE  /\ DirOK'
         /\ \A j \in Keyspaces : dir'.data[j] = IF j = k THEN content ELSE dir.data[j]
<1>1. dir'.manifest = dir.manifest /\ dir'.data = [dir.data EXCEPT ![k] = content]
  BY DEF IInv, ShapesOK
<1>2. /\ dir'.data \in [Keyspaces -> Written \union {NoFile, <<>>}]
      /\ \A j \in Keyspaces : dir'.data[j] = IF j = k THEN content ELSE dir.data[j]
  BY <1>1 DEF DirOK
<1>3. \A j \in Keyspaces : dir'.data[j] # NoFile => Sorted(dir'.data[j])
  BY <1>2 DEF DirOK
<1>4. Readable(dir)' => /\ dir'.manifest.files \subseteq Records
                        /\ dir'.manifest.structure \subseteq Keyspaces
                        /\ dir'.manifest.indexes \subseteq Indexes'
  BY <1>1, IndexesStill DEF DirOK, Readable
<1>5. DirOK'
  BY <1>2, <1>3, <1>4 DEF DirOK, Sorted
<1> QED BY <1>2, <1>5

LEMMA OpenFileGathers == ASSUME IInv, ExportIInv, OpenFile PROVE ExportIInv'
<1>1. PICK k \in export.todo :
         /\ Wanted(k)
         /\ Goes([pc |-> "page", now |-> k, last |-> 0, todo |-> export.todo \ {k},
                  matched |-> export.matched \union {k}])
         /\ dir' = [dir EXCEPT !.data[k] = <<>>]
  BY DEF OpenFile
<1>2. /\ export'.pc = "page" /\ export'.now = k /\ export'.last = 0
      /\ export'.todo = export.todo \ {k} /\ export'.files = export.files
      /\ export'.structure = export.structure /\ export'.indexes = export.indexes
      /\ export'.data = export.data /\ export'.wanted = export.wanted
      /\ export'.warned = export.warned
  BY <1>1 DEF Goes, Edited, IInv, ShapesOK, Fields
<1>3. export.pc = "open" /\ UNCHANGED <<source, stable, edition>> /\ k \in Keyspaces
  BY DEF OpenFile, IInv, RecordedOK
<1>4. /\ DirOK'
      /\ \A j \in Keyspaces : dir'.data[j] = IF j = k THEN <<>> ELSE dir.data[j]
  <2>1. Sorted(<<>>)
    BY DEF Sorted
  <2> QED BY <1>1, <1>3, <2>1, DirWritten DEF ExportIInv
<1>5. SourceOK'
  BY <1>3 DEF ExportIInv, SourceOK
<1>6. Carried' = Carried /\ k \notin Carried /\ Carried \subseteq Keyspaces
  BY <1>1, <1>2 DEF Carried, IInv, RecordedOK
<1>7. ExportOK'
  <2>1. <<>> # NoFile /\ DOMAIN dir'.data[k] = {}
    BY <1>3, <1>4, NoFileIsNone
  <2> QED BY <1>2, <1>3, <1>4, <1>6, <2>1, IndexesStill DEF ExportIInv, ExportOK
<1>8. GatheredOK'
  <2>1. Complete(k, <<>>, {})
    BY DEF Complete
  <2>2. {key \in Keys : key <= 0} = {}
    <3>1. \A key \in Keys : ~ (key <= 0)
      BY KeysFacts
    <3> QED BY <3>1
  <2>3. Complete(k, dir.data[k], {key \in Keys : key <= export.last})'
    BY <1>2, <1>3, <1>4, <2>1, <2>2 DEF Complete
  <2>4. ASSUME export.data, NEW j \in export.structure \ export.todo, Wanted(j), j \in Keyspaces
        PROVE  Complete(j, FileOf(j), Keys)'
    <3>1. Complete(j, FileOf(j), Keys)
      BY <1>3, <2>4 DEF ExportIInv, GatheredOK
    <3>2. FileOf(j)' = FileOf(j)
      BY <1>4, <1>6 DEF FileOf
    <3> QED BY <1>3, <3>1, <3>2 DEF Complete
  <2>5. ASSUME export'.data
        PROVE  /\ \A j \in export'.structure \ export'.todo :
                    Wanted(j)' => \/ export'.pc = "page" /\ export'.now = j
                                  \/ Complete(j, FileOf(j), Keys)'
               /\ export'.warned \/ InWantedBuckets' \subseteq export'.structure
    <3>1. export.structure \subseteq Keyspaces
      BY DEF ExportIInv, ExportOK
    <3>2. export'.warned \/ InWantedBuckets' \subseteq export'.structure
      BY <1>2, <1>3, <2>5 DEF ExportIInv, GatheredOK, InWantedBuckets
    <3>3. \A j : Wanted(j)' <=> Wanted(j)
      BY <1>2 DEF Wanted
    <3> QED BY <1>2, <2>4, <2>5, <3>1, <3>2, <3>3
  <2> QED BY <1>2, <2>3, <2>5 DEF GatheredOK
<1> QED BY <1>4, <1>5, <1>7, <1>8 DEF ExportIInv

\* On to the manifest: nothing gathered changes.
LEMMA GoesGathers ==
  ASSUME IInv, ExportIInv, NEW l \in {"manifest", "write", "done"}, Goes([pc |-> l]),
         export.pc \in {"open", "manifest", "write"},
         export.data => \A k \in export.todo : ~ Wanted(k),
         dir'.data = dir.data, DirOK', UNCHANGED <<source, stable, edition>>
  PROVE  ExportIInv'
<1>1. /\ export'.pc = l /\ export'.todo = export.todo /\ export'.files = export.files
      /\ export'.structure = export.structure /\ export'.indexes = export.indexes
      /\ export'.data = export.data /\ export'.wanted = export.wanted
      /\ export'.warned = export.warned /\ export'.last = export.last
  BY DEF Goes, Edited, IInv, ShapesOK, Fields
<1>2. SourceOK'
  BY DEF ExportIInv, SourceOK
<1>3. ExportOK'
  BY <1>1, IndexesStill DEF ExportIInv, ExportOK
<1>4. GatheredOK'
  <2>1. Carried' = Carried /\ InWantedBuckets' = InWantedBuckets
        /\ \A j : Wanted(j)' <=> Wanted(j)
    BY <1>1 DEF Carried, Wanted, InWantedBuckets
  <2>2. \A j : Complete(j, FileOf(j), Keys)' <=> Complete(j, FileOf(j), Keys)
    BY <2>1 DEF Complete, FileOf
  <2> QED BY <1>1, <2>1, <2>2 DEF ExportIInv, GatheredOK
<1> QED BY <1>2, <1>3, <1>4 DEF ExportIInv

LEMMA EndDataGathers == ASSUME IInv, ExportIInv, EndData PROVE ExportIInv'
<1>1. CASE Refuse
  BY <1>1, RefuseGathers DEF EndData
<1>2. CASE Goes([pc |-> "manifest"])
  <2>1. DirOK'
    BY DirStill DEF EndData, ExportIInv
  <2> QED BY <1>2, <2>1, GoesGathers DEF EndData
<1> QED BY <1>1, <1>2 DEF EndData

LEMMA OpenManifestGathers == ASSUME IInv, ExportIInv, OpenManifest PROVE ExportIInv'
<1>1. CASE Refuse /\ UNCHANGED dir
  BY <1>1, RefuseGathers DEF OpenManifest
<1>2. CASE dir' = [dir EXCEPT !.manifest = Torn] /\ Goes([pc |-> "write"])
  <2>1. dir'.data = dir.data /\ dir'.manifest = Torn
    BY <1>2 DEF IInv, ShapesOK
  <2>2. DirOK'
    BY <2>1 DEF ExportIInv, DirOK, Readable, Sorted
  <2>3. export.data => \A k \in export.todo : ~ Wanted(k)
    BY DEF OpenManifest, ExportIInv, GatheredOK, ExportOK
  <2> QED BY <1>2, <2>1, <2>2, <2>3, GoesGathers DEF OpenManifest
<1> QED BY <1>1, <1>2 DEF OpenManifest

LEMMA WriteManifestGathers == ASSUME IInv, ExportIInv, WriteManifest PROVE ExportIInv'
<1>1. CASE Refuse /\ UNCHANGED <<dir, finished>>
  BY <1>1, RefuseGathers DEF WriteManifest
<1>2. CASE dir' = [dir EXCEPT !.manifest = Manifest] /\ Goes([pc |-> "done"])
  <2>1. dir'.data = dir.data /\ dir'.manifest = Manifest
    BY <1>2 DEF IInv, ShapesOK
  <2>2. /\ Manifest.files = export.files /\ Manifest.structure = export.structure
        /\ Manifest.indexes \subseteq export.indexes
    BY DEF Manifest
  <2>3. DirOK'
    BY <2>1, <2>2, IndexesStill DEF WriteManifest, ExportIInv, DirOK, ExportOK, Sorted
  <2>4. export.data => \A k \in export.todo : ~ Wanted(k)
    BY DEF WriteManifest, ExportIInv, GatheredOK
  <2> QED BY <1>2, <2>1, <2>3, <2>4, GoesGathers DEF WriteManifest
<1> QED BY <1>1, <1>2 DEF WriteManifest

\* What an application writes is not stable any more.
LEMMA WriteGathers == ASSUME IInv, ExportIInv, Write PROVE ExportIInv'
<1>1. PICK k \in Keyspaces, key \in Keys, v \in {0} \union Versions :
        /\ source' = [source EXCEPT ![k][key] = v]
        /\ stable' = [stable EXCEPT ![k] = @ \ {key}]
  BY DEF Write
<1>2. UNCHANGED <<export, dir, edition>>
  BY DEF Write
<1>3. SourceOK'
  BY <1>1 DEF ExportIInv, SourceOK
<1>4. \A j \in Keyspaces :
        /\ stable'[j] \subseteq stable[j]
        /\ \A x \in stable'[j] : source'[j][x] = source[j][x]
  BY <1>1 DEF ExportIInv, SourceOK
<1>5. DirOK'
  BY <1>2, DirStill DEF ExportIInv
<1>6. ExportOK'
  BY <1>2, IndexesStill DEF ExportIInv, ExportOK, Carried
<1>7. ASSUME NEW j \in Keyspaces, NEW file, NEW keys, Complete(j, file, keys)
      PROVE  Complete(j, file, keys)'
  BY <1>4, <1>7 DEF Complete
<1>8. GatheredOK'
  <2>1. export.pc = "page" => export.now \in Keyspaces
    BY DEF IInv, RecordedOK
  <2>2. export.structure \subseteq Keyspaces
    BY DEF ExportIInv, ExportOK
  <2>3. export.pc = "page" =>
          Complete(export.now, dir.data[export.now], {x \in Keys : x <= export.last})'
    <3> SUFFICES ASSUME export.pc = "page"
                 PROVE  Complete(export.now, dir.data[export.now],
                                 {x \in Keys : x <= export.last})'
      OBVIOUS
    <3>1. PICK j, file, keys :
            /\ j \in Keyspaces /\ j = export.now /\ file = dir.data[export.now]
            /\ keys = {x \in Keys : x <= export.last}
      BY <2>1
    <3>2. Complete(j, file, keys)'
      BY <1>7, <3>1 DEF ExportIInv, GatheredOK
    <3>3. /\ j = export'.now /\ file = dir'.data[export'.now]
          /\ keys = {x \in Keys : x <= export'.last}
      BY <1>2, <3>1
    <3> QED BY <3>2, <3>3 DEF Complete
  <2>4. \A j \in Keyspaces : Complete(j, FileOf(j), Keys) => Complete(j, FileOf(j), Keys)'
    <3> SUFFICES ASSUME NEW j \in Keyspaces, Complete(j, FileOf(j), Keys)
                 PROVE  Complete(j, FileOf(j), Keys)'
      OBVIOUS
    <3>1. PICK file : file = FileOf(j)
      OBVIOUS
    <3>2. FileOf(j)' = file
      BY <1>2, <3>1 DEF FileOf, Carried
    <3>3. Complete(j, file, Keys)'
      BY <1>7, <3>1
    <3> QED BY <3>2, <3>3 DEF Complete
  <2>5. InWantedBuckets' = InWantedBuckets /\ \A j : Wanted(j)' <=> Wanted(j)
    BY <1>2 DEF Wanted, InWantedBuckets
  <2> QED BY <1>2, <2>2, <2>3, <2>4, <2>5 DEF ExportIInv, GatheredOK
<1> QED BY <1>3, <1>5, <1>6, <1>8 DEF ExportIInv

\* A file with a page behind it has of the stable documents what both have.
Pages(page, h, n, k) ==
  /\ n \in Nat /\ h \in [1..n -> Documents] /\ Ascends(h, n)
  /\ \A j \in 1..n : h[j].key \in page /\ h[j].version = source[k][h[j].key]
  /\ \A x \in page : \E j \in 1..n : h[j].key = x
Reaches(k, page, file, last) ==
  /\ (\A x \in Keys : source[k][x] # 0 => x <= last \/ x \in page)
       => Complete(k, file, Keys)
  /\ page # {} =>
       /\ file # <<>> /\ file[Len(file)].key \in page
       /\ \A i \in DOMAIN file : file[i].key <= file[Len(file)].key
       /\ (\A x \in Keys : source[k][x] # 0 /\ x <= file[Len(file)].key
                              => x <= last \/ x \in page)
            => Complete(k, file, {x \in Keys : x <= file[Len(file)].key})

LEMMA Gathered ==
  ASSUME SourceOK, NEW k \in Keyspaces, NEW last \in {0} \union Keys,
         NEW f \in Seq(Documents), Complete(k, f, {x \in Keys : x <= last}),
         NEW page \in SUBSET Keys, NEW n, NEW h, Pages(page, h, n, k),
         NEW file, Joins(file, f, h, n)
  PROVE  Reaches(k, page, file, last)
<1> USE DEF Pages, Joins
<1>1. \A x \in stable[k] :
         /\ \A i \in DOMAIN file : file[i].key = x => file[i].version = source[k][x]
         /\ source[k][x] # 0 /\ (x <= last \/ x \in page) =>
              \E i \in DOMAIN file : file[i].key = x /\ file[i].version = source[k][x]
  <2> TAKE x \in stable[k]
  <2>1. ASSUME NEW i \in DOMAIN file, file[i].key = x PROVE file[i].version = source[k][x]
    <3>1. CASE i \in DOMAIN f /\ file[i] = f[i]
      BY <2>1, <3>1 DEF Complete
    <3>2. CASE \E j \in 1..n : file[i] = h[j]
      BY <2>1, <3>2
    <3> QED BY <3>1, <3>2
  <2>2. ASSUME source[k][x] # 0, x <= last
        PROVE  \E i \in DOMAIN file : file[i].key = x /\ file[i].version = source[k][x]
    <3>1. PICK i \in DOMAIN f : f[i].key = x /\ f[i].version = source[k][x]
      BY <2>2 DEF Complete, SourceOK
    <3>2. i \in DOMAIN file /\ file[i] = f[i]
      OBVIOUS
    <3> QED BY <3>1, <3>2
  <2>3. ASSUME source[k][x] # 0, x \in page
        PROVE  \E i \in DOMAIN file : file[i].key = x /\ file[i].version = source[k][x]
    <3>0. PICK j \in 1..n : h[j].key = x
      BY <2>3
    <3>1. h[j].key = x /\ h[j].version = source[k][x]
      BY <3>0
    <3>2. Len(f) + j \in DOMAIN file /\ file[Len(f) + j] = h[j]
      OBVIOUS
    <3> QED BY <3>1, <3>2
  <2> QED BY <2>1, <2>2, <2>3
<1>2. stable[k] \subseteq Keys
  BY DEF SourceOK
<1>3. ASSUME \A x \in Keys : source[k][x] # 0 => x <= last \/ x \in page
      PROVE  Complete(k, file, Keys)
  BY <1>1, <1>2, <1>3 DEF Complete
<1>4. ASSUME page # {}
      PROVE  /\ file # <<>> /\ file[Len(file)].key \in page
             /\ \A i \in DOMAIN file : file[i].key <= file[Len(file)].key
             /\ (\A x \in Keys : source[k][x] # 0 /\ x <= file[Len(file)].key
                                    => x <= last \/ x \in page)
                  => Complete(k, file, {x \in Keys : x <= file[Len(file)].key})
  <2>0. n \in 1..n
    BY <1>4
  <2>1. Len(f) + n = Len(file) /\ Len(file) \in DOMAIN file /\ file[Len(file)] = h[n]
    BY <2>0
  <2>2. PICK end \in page : end = file[Len(file)].key
    BY <2>0, <2>1
  <2>3. \A i \in DOMAIN file : file[i].key \in Keys
    BY DEF Documents
  <2>4. \A i \in DOMAIN file : file[i].key <= end
    <3> TAKE i \in DOMAIN file
    <3>0. PICK m \in Nat : m = Len(file) /\ DOMAIN file = 1..m
      OBVIOUS
    <3>1. i = Len(file) \/ i < Len(file)
      BY ONLY <3>0
    <3>2. i < Len(file) => file[i].key < file[Len(file)].key
      BY <2>1 DEF Sorted
    <3>3. PICK x \in Keys : x = file[i].key
      BY <2>3
    <3>4. x = end \/ x < end
      BY <2>2, <3>1, <3>2, <3>3
    <3>5. x \in Nat /\ end \in Nat
      BY KeysFacts
    <3>6. x <= end
      BY <3>4, <3>5
    <3> QED BY <3>3, <3>6
  <2>5. ASSUME \A x \in Keys : source[k][x] # 0 /\ x <= end => x <= last \/ x \in page
        PROVE  Complete(k, file, {x \in Keys : x <= end})
    BY <1>1, <1>2, <2>5 DEF Complete
  <2>6. file # <<>>
    BY <2>1
  <2> QED BY <2>2, <2>4, <2>5, <2>6
<1> QED BY <1>3, <1>4 DEF Reaches

\* A page read behind the last key: the file ascends, and nobody's documents but
\* those that were written meanwhile can be missing from it.
LEMMA PageGathered ==
  ASSUME IInv, ExportIInv, export.pc = "page", NEW k, k = export.now,
         NEW page, page = PageOf(k, export.last),
         NEW file, file = dir.data[k] \o InKeyOrder(k, page)
  PROVE  /\ k \in Keyspaces /\ k \notin Carried /\ file \in Seq(Documents) /\ Sorted(file)
         /\ Cardinality(page) < PageSize => Complete(k, file, Keys)
         /\ Cardinality(page) = PageSize =>
              /\ file # <<>> /\ file[Len(file)].key \in Keys
              /\ \A i \in DOMAIN file : file[i].key <= file[Len(file)].key
              /\ Complete(k, file, {x \in Keys : x <= file[Len(file)].key})
<1>1. PICK f, last : f = dir.data[k] /\ last = export.last
  OBVIOUS
<1>2. /\ k \in Keyspaces /\ k \notin Carried /\ f \in Written \union {<<>>}
      /\ last \in {0} \union Keys
      /\ Sorted(f) /\ \A i \in DOMAIN f : f[i].key <= last
      /\ Complete(k, f, {x \in Keys : x <= last})
      /\ source[k] \in [Keys -> {0} \union Versions] /\ stable[k] \subseteq Keys
  BY <1>1 DEF IInv, RecordedOK, ExportIInv, ExportOK, GatheredOK, DirOK, SourceOK
<1>3. f \in Seq(Documents) /\ Len(f) \in Nat /\ DOMAIN f = 1..Len(f)
  BY <1>2, WrittenIsSeq
<1>4. PICK rest : rest = Rest(k, last)
  OBVIOUS
<1>5. /\ page \subseteq rest /\ rest \subseteq Keys
      /\ \A x \in rest, y \in page : x <= y => x \in page
      /\ Cardinality(page) < PageSize => page = rest
  BY <1>1, <1>4, PageOfOK
<1>6. \A x \in Keys : x \in rest <=> x > last /\ source[k][x] # 0
  BY <1>4 DEF Rest
<1>7. PICK h, n : h = InKeyOrder(k, page) /\ n = Cardinality(page)
  OBVIOUS
<1>8. Pages(page, h, n, k)
  <2>1. \A x \in page : source[k][x] # 0
    BY <1>5, <1>6
  <2>2. page \in SUBSET Keys
    BY <1>5
  <2> QED BY <1>2, <1>7, <2>1, <2>2, InKeyOrderOK DEF ExportIInv, SourceOK, Pages, Ascends
<1>9. Behind(f, h, n)
  <2> SUFFICES ASSUME NEW i \in DOMAIN f, NEW j \in 1..n PROVE f[i].key < h[j].key
    BY DEF Behind
  <2>1. f[i].key \in Keys /\ f[i].key <= last /\ h[j].key \in Keys /\ h[j].key > last
    <3>1. f[i] \in Documents /\ f[i].key <= last
      BY <1>2, <1>3
    <3>2. h[j].key \in page /\ h[j].key \in rest /\ h[j].key \in Keys
      BY <1>5, <1>8 DEF Pages
    <3> QED BY <1>6, <3>1, <3>2 DEF Documents
  <2>2. PICK x \in Keys, y \in Keys : x = f[i].key /\ y = h[j].key
    BY <2>1
  <2>3. x <= last /\ y > last /\ x \in Nat /\ y \in Nat /\ last \in Nat
    BY <1>2, <2>1, <2>2, KeysFacts
  <2>4. x < y
    BY <2>3
  <2> QED BY <2>2, <2>4
<1>10. n \in Nat /\ h \in [1..n -> Documents] /\ Ascends(h, n)
  BY <1>8 DEF Pages
<1>11. Joins(f \o h, f, h, n)
  BY <1>2, <1>3, <1>9, <1>10, AppendOK
<1>12. Joins(file, f, h, n)
  BY <1>1, <1>7, <1>11
<1>13. Reaches(k, page, file, last)
  <2>1. SourceOK /\ page \in SUBSET Keys
    BY <1>5 DEF ExportIInv
  <2> QED BY <1>2, <1>3, <1>8, <1>12, <2>1, Gathered
<1>14. \A x \in Keys : x <= last \/ x > last
  BY <1>2, KeysFacts
<1>15. ASSUME Cardinality(page) < PageSize PROVE Complete(k, file, Keys)
  BY <1>5, <1>6, <1>13, <1>14, <1>15 DEF Reaches
<1>16. ASSUME Cardinality(page) = PageSize
       PROVE  /\ file # <<>> /\ file[Len(file)].key \in Keys
              /\ \A i \in DOMAIN file : file[i].key <= file[Len(file)].key
              /\ Complete(k, file, {x \in Keys : x <= file[Len(file)].key})
  <2>1. page # {}
    BY <1>16, FS_EmptySet, FixtureExportAssumption
  <2>2. file[Len(file)].key \in page
    BY <1>13, <2>1 DEF Reaches
  <2>3. \A x \in Keys : source[k][x] # 0 /\ x <= file[Len(file)].key => x <= last \/ x \in page
    BY <1>5, <1>6, <1>14, <2>2
  <2> QED BY <1>5, <1>13, <2>1, <2>2, <2>3 DEF Reaches
<1>17. file \in Seq(Documents) /\ Sorted(file)
  BY <1>12 DEF Joins
<1> QED BY <1>2, <1>15, <1>16, <1>17

\* A page goes on, or is the last one: the file is recorded, or taken away again.
LEMMA PageGathers ==
  ASSUME IInv, ExportIInv, export.pc = "page", UNCHANGED <<source, stable, edition>>,
         NEW k, k = export.now, k \in Keyspaces, k \notin Carried,
         NEW content, content \in Written \union {NoFile, <<>>},
         content # NoFile => Sorted(content),
         dir' = [dir EXCEPT !.data[k] = content],
         export'.structure = export.structure, export'.indexes = export.indexes,
         export'.data = export.data, export'.wanted = export.wanted,
         export'.warned = export.warned, export'.todo = export.todo,
         export'.files \subseteq Records, export'.last \in {0} \union Keys,
         Carried' \in {Carried, Carried \union {k}},
         \/ /\ export'.pc = "open"
            /\ Complete(k, IF k \in Carried' THEN content ELSE <<>>, Keys)
         \/ /\ export'.pc = "page" /\ export'.now = k /\ k \notin Carried'
            /\ content # NoFile
            /\ \A i \in DOMAIN content : content[i].key <= export'.last
            /\ Complete(k, content, {x \in Keys : x <= export'.last})
  PROVE  ExportIInv'
<1>1. /\ DirOK'
      /\ \A j \in Keyspaces : dir'.data[j] = IF j = k THEN content ELSE dir.data[j]
  BY DirWritten DEF ExportIInv
<1>2. SourceOK'
  BY DEF ExportIInv, SourceOK
<1>3. ExportOK'
  BY <1>1, IndexesStill DEF ExportIInv, ExportOK
<1>4. ASSUME NEW j \in Keyspaces, j # k, Complete(j, FileOf(j), Keys)
      PROVE  Complete(j, FileOf(j), Keys)'
  <2>1. PICK file : file = FileOf(j)
    OBVIOUS
  <2>2. FileOf(j)' = file
    BY <1>1, <1>4, <2>1 DEF FileOf
  <2> QED BY <1>4, <2>1, <2>2 DEF Complete
<1>5. ASSUME export'.pc = "open" PROVE Complete(k, FileOf(k), Keys)'
  <2>1. PICK file : file = IF k \in Carried' THEN content ELSE <<>>
    OBVIOUS
  <2>2. FileOf(k)' = file
    BY <1>1, <2>1 DEF FileOf
  <2>3. Complete(k, file, Keys)
    BY <1>5, <2>1
  <2> QED BY <2>2, <2>3 DEF Complete
<1>6. ASSUME export'.pc = "page"
      PROVE  Complete(export.now, dir.data[export.now], {x \in Keys : x <= export.last})'
  <2>1. PICK keys : keys = {x \in Keys : x <= export'.last}
    OBVIOUS
  <2>2. Complete(k, content, keys)
    BY <1>6, <2>1
  <2>3. export'.now = k /\ dir'.data[k] = content
    BY <1>1, <1>6
  <2> QED BY <2>1, <2>2, <2>3 DEF Complete
<1>7. GatheredOK'
  <2>1. export.structure \subseteq Keyspaces
    BY DEF ExportIInv, ExportOK
  <2>2. InWantedBuckets' = InWantedBuckets /\ \A j : Wanted(j)' <=> Wanted(j)
    BY DEF Wanted, InWantedBuckets
  <2>3. ASSUME export'.data
        PROVE  /\ \A j \in export'.structure \ export'.todo :
                    Wanted(j)' => \/ export'.pc = "page" /\ export'.now = j
                                  \/ Complete(j, FileOf(j), Keys)'
               /\ export'.warned \/ InWantedBuckets' \subseteq export'.structure
    BY <1>4, <1>5, <2>1, <2>2, <2>3 DEF ExportIInv, GatheredOK
  <2> QED BY <1>6, <2>3 DEF GatheredOK
<1> QED BY <1>1, <1>2, <1>3, <1>7 DEF ExportIInv

LEMMA WritePageGathers == ASSUME IInv, ExportIInv, WritePage PROVE ExportIInv'
<1>1. PICK k, page, file : /\ k = export.now /\ page = PageOf(k, export.last)
                           /\ file = dir.data[k] \o InKeyOrder(k, page)
  OBVIOUS
<1>2. export.pc = "page" /\ UNCHANGED <<source, stable, edition>>
  BY DEF WritePage
<1>3. /\ k \in Keyspaces /\ k \notin Carried /\ file \in Seq(Documents) /\ Sorted(file)
      /\ Cardinality(page) < PageSize => Complete(k, file, Keys)
      /\ Cardinality(page) = PageSize =>
           /\ file # <<>> /\ file[Len(file)].key \in Keys
           /\ \A i \in DOMAIN file : file[i].key <= file[Len(file)].key
           /\ Complete(k, file, {x \in Keys : x <= file[Len(file)].key})
  BY <1>1, <1>2, PageGathered
<1>4. file # <<>> => file \in Written
  BY <1>3, SortedIsWritten
<1>5. \/ Refuse /\ UNCHANGED dir
      \/ Cardinality(page) < PageSize /\ CloseFile(k, file)
      \/ /\ Cardinality(page) = PageSize
         /\ dir' = [dir EXCEPT !.data[k] = file] /\ Goes([last |-> file[Len(file)].key])
  BY <1>1 DEF WritePage
<1>6. CASE Refuse /\ UNCHANGED dir
  BY <1>2, <1>6, RefuseGathers
<1>7. CASE Cardinality(page) < PageSize /\ CloseFile(k, file) /\ file = <<>>
  <2>1. dir' = [dir EXCEPT !.data[k] = NoFile] /\ Goes([pc |-> "open"])
    BY <1>7 DEF CloseFile
  <2>2. /\ export'.pc = "open" /\ export'.todo = export.todo /\ export'.files = export.files
        /\ export'.structure = export.structure /\ export'.indexes = export.indexes
        /\ export'.data = export.data /\ export'.wanted = export.wanted
        /\ export'.warned = export.warned /\ export'.last = export.last
    BY <2>1 DEF Goes, Edited, IInv, ShapesOK, Fields
  <2>3. Carried' = Carried
    BY <2>2 DEF Carried
  <2>4. Complete(k, <<>>, Keys)
    BY <1>3, <1>7
  <2>5. export.files \subseteq Records /\ export.last \in {0} \union Keys
    BY DEF ExportIInv, ExportOK
  <2> QED BY <1>1, <1>2, <1>3, <2>1, <2>2, <2>3, <2>4, <2>5, PageGathers
<1>8. CASE Cardinality(page) < PageSize /\ CloseFile(k, file) /\ file # <<>>
  <2> DEFINE r == [keyspace |-> k, sha256 |-> Sha256File(file), document_count |-> Len(file)]
  <2>1. dir' = [dir EXCEPT !.data[k] = file]
        /\ Goes([pc |-> "open", files |-> export.files \union {r}])
    BY <1>8 DEF CloseFile
  <2>2. r.keyspace = k /\ r \in Records
    <3>1. Len(file) \in 1..Cardinality(Keys)
      BY <1>4, <1>8, WrittenIsSeq
    <3>2. r \in Files
      BY <1>3, <1>4, <1>8, <3>1 DEF Files, Sha256File
    <3> QED BY <1>3, <3>2 DEF Records, Sha256File
  <2> HIDE DEF r
  <2>3. /\ export'.pc = "open" /\ export'.todo = export.todo
        /\ export'.files = export.files \union {r}
        /\ export'.structure = export.structure /\ export'.indexes = export.indexes
        /\ export'.data = export.data /\ export'.wanted = export.wanted
        /\ export'.warned = export.warned /\ export'.last = export.last
    BY <2>1 DEF Goes, Edited, IInv, ShapesOK, Fields
  <2>4. Carried' = Carried \union {k}
    BY <2>2, <2>3 DEF Carried
  <2>5. export'.files \subseteq Records /\ export.last \in {0} \union Keys
    BY <2>2, <2>3 DEF ExportIInv, ExportOK
  <2>6. Complete(k, file, Keys)
    BY <1>3, <1>8
  <2> QED BY <1>1, <1>2, <1>3, <1>4, <1>8, <2>1, <2>3, <2>4, <2>5, <2>6, PageGathers
<1>9. CASE /\ Cardinality(page) = PageSize
           /\ dir' = [dir EXCEPT !.data[k] = file] /\ Goes([last |-> file[Len(file)].key])
  <2>1. /\ export'.pc = "page" /\ export'.todo = export.todo /\ export'.files = export.files
        /\ export'.structure = export.structure /\ export'.indexes = export.indexes
        /\ export'.data = export.data /\ export'.wanted = export.wanted
        /\ export'.warned = export.warned /\ export'.last = file[Len(file)].key
        /\ export'.now = k
    BY <1>1, <1>2, <1>9 DEF Goes, Edited, IInv, ShapesOK, Fields
  <2>2. Carried' = Carried
    BY <2>1 DEF Carried
  <2>3. export.files \subseteq Records
    BY DEF ExportIInv, ExportOK
  <2>4. file \in Written /\ file # NoFile
    BY <1>3, <1>4, <1>9, NoFileIsNone
  <2> QED BY <1>1, <1>2, <1>3, <1>9, <2>1, <2>2, <2>3, <2>4, PageGathers
<1> QED BY <1>5, <1>6, <1>7, <1>8, <1>9

LEMMA EditionStays == ImportStep => UNCHANGED edition
BY DEF ImportStep, StartImport, PlanBuckets, PlanFiles, CreateBucket, CreateCollection,
       StartDocuments, StartFile, PutDocument, EndFile, StartIndexes, CreateIndex,
       EndIndexes, BuildKeyspace, EndBuild, BuildBuckets

LEMMA StepGathers == IInv /\ ExportIInv /\ [Next]_vars => ExportIInv'
<1> SUFFICES ASSUME IInv, ExportIInv, [Next]_vars PROVE ExportIInv'
  OBVIOUS
<1>1. CASE ExportStep
  BY <1>1, StartExportGathers, ReadStructureGathers, OpenFileGathers, WritePageGathers,
     EndDataGathers, OpenManifestGathers, WriteManifestGathers DEF ExportStep
<1>2. CASE Write
  BY <1>2, WriteGathers
<1>3. CASE Importing
  BY <1>3, GathersStill, ImportStepStill, EditionStays DEF Importing, exportVars
<1>4. CASE Online
  BY <1>4, GathersStill DEF Online, exportVars
<1>5. CASE Restart
  BY <1>5, DiesGathers DEF Restart
<1>6. CASE UNCHANGED vars
  BY <1>6, GathersStill DEF vars, exportVars
<1> QED BY <1>1, <1>2, <1>3, <1>4, <1>5, <1>6 DEF Next, Exporting

\* What an export that is done has recorded of a keyspace it was asked for.
LEMMA DoneIsComplete ==
  ASSUME IInv, ExportIInv, export.pc = "done", export.data,
         NEW k \in export.structure, Wanted(k)
  PROVE  /\ k \in Keyspaces /\ Complete(k, FileOf(k), Keys)
         /\ \A r \in export.files : r.keyspace = k => r.sha256 = FileOf(k)
         /\ k \notin Carried => FileOf(k) = <<>>
         /\ FileOf(k) \in Seq(Documents) /\ Sorted(FileOf(k))
<1>1. k \in Keyspaces /\ Complete(k, FileOf(k), Keys)
  BY DEF ExportIInv, GatheredOK, ExportOK
<1>2. \A r \in export.files : r.keyspace = k => r.sha256 = FileOf(k) /\ r \in Records
  BY DEF IInv, RecordedOK, ExportIInv, ExportOK, FileOf, Carried
<1>3. k \notin Carried => FileOf(k) = <<>>
  BY DEF FileOf
<1>4. CASE k \in Carried
  <2>1. PICK r \in export.files : r.keyspace = k
    BY <1>4 DEF Carried
  <2>2. FileOf(k) \in Written /\ Sorted(FileOf(k))
    BY <1>2, <2>1 DEF Records, Files
  <2> QED BY <1>1, <1>2, <1>3, <2>2, WrittenIsSeq
<1>5. CASE k \notin Carried
  BY <1>1, <1>2, <1>3, <1>5 DEF Sorted
<1> QED BY <1>4, <1>5

LEMMA CompleteIsExact ==
  ASSUME SourceOK, NEW k \in Keyspaces, NEW file \in Seq(Documents), Sorted(file),
         Complete(k, file, Keys)
  PROVE  /\ \A key \in stable[k] :
              {i \in DOMAIN file :
                 file[i].key = key /\ file[i].version = source[k][key]} # {}
              <=> source[k][key] # 0
         /\ \A i, j \in DOMAIN file : file[i].key = file[j].key => i = j
<1>1. \A i \in DOMAIN file : file[i].key \in Nat /\ file[i].version # 0
  <2> TAKE i \in DOMAIN file
  <2>1. file[i] \in Documents
    OBVIOUS
  <2> QED BY <2>1, KeysFacts DEF Documents
<1>2. \A i, j \in DOMAIN file : i < j \/ j < i \/ i = j
  <2>1. DOMAIN file \subseteq Nat
    OBVIOUS
  <2> QED BY <2>1
<1>3. \A i, j \in DOMAIN file : file[i].key = file[j].key => i = j
  <2> TAKE i, j \in DOMAIN file
  <2>1. PICK x \in Nat, y \in Nat : x = file[i].key /\ y = file[j].key
    BY <1>1
  <2>2. (i < j => x < y) /\ (j < i => y < x)
    BY <2>1 DEF Sorted
  <2> QED BY <1>2, <2>1, <2>2
<1>4. ASSUME NEW key \in stable[k]
      PROVE  (\E i \in DOMAIN file : file[i].key = key /\ file[i].version = source[k][key])
             <=> source[k][key] # 0
  <2>1. key \in Keys
    BY DEF SourceOK
  <2> QED BY <1>1, <2>1 DEF Complete
<1> QED BY <1>3, <1>4

LEMMA StableAreExported == ASSUME IInv, ExportIInv PROVE StableDocumentsExported
<1> DEFINE F(k) == IF \E r \in export.files : r.keyspace = k
                   THEN (CHOOSE r \in export.files : r.keyspace = k).sha256 ELSE <<>>
           Exact(k, file) ==
             /\ \A key \in stable[k] :
                  {i \in DOMAIN file :
                     file[i].key = key /\ file[i].version = source[k][key]} # {}
                  <=> source[k][key] # 0
             /\ \A i, j \in DOMAIN file : file[i].key = file[j].key => i = j
<1>1. ASSUME export.pc = "done", export.data, NEW k \in export.structure, Wanted(k)
      PROVE  Exact(k, F(k))
  <2>1. /\ k \in Keyspaces /\ Complete(k, FileOf(k), Keys)
        /\ \A r \in export.files : r.keyspace = k => r.sha256 = FileOf(k)
        /\ k \notin Carried => FileOf(k) = <<>>
        /\ FileOf(k) \in Seq(Documents) /\ Sorted(FileOf(k))
    BY <1>1, DoneIsComplete
  <2>2. F(k) = FileOf(k)
    BY <2>1 DEF Carried
  <2> HIDE DEF F
  <2> QED BY <2>1, <2>2, CompleteIsExact DEF ExportIInv
<1> HIDE DEF F, Exact
<1>2. export.pc = "done" /\ export.data =>
        \A k \in {k \in export.structure : Wanted(k)} : Exact(k, F(k))
  BY <1>1
<1> QED BY <1>2, Zenon DEF StableDocumentsExported, F, Exact

LEMMA NoneLost == ASSUME IInv, ExportIInv PROVE NothingLostSilently
<1> SUFFICES ASSUME export.pc = "done", export.data, ~ export.warned, NEW k \in Keyspaces,
                    Wanted(k), NEW key \in stable[k], source[k][key] # 0, k \notin Carried
             PROVE  FALSE
  BY DEF NothingLostSilently
<1>1. k \in export.structure
  BY DEF ExportIInv, GatheredOK, InWantedBuckets, Wanted
<1>2. Complete(k, <<>>, Keys) /\ key \in Keys
  BY <1>1, DoneIsComplete DEF ExportIInv, SourceOK
<1> QED BY <1>2 DEF Complete
--------------------------------------------------------------------------------
\* The types of a target and of the call that imports.
TypeIInv == TargetOK /\ ImportOK

LEMMA MapsInside ==
  ASSUME NEW map \in {<<>>} \union Maps, NEW k \in Keyspaces
  PROVE  /\ RemapKeyspace(k, map) \in Keyspaces \union Named
         /\ RemapBuckets(k[1], map) \subseteq Buckets
         /\ \A b \in RemapBuckets(k[1], map) : <<b, k[2], k[3]>> \in TargetKeyspaces
<1>1. \A j \in DOMAIN map : map[j] \in Named
  BY DEF Named
<1>2. RemapKeyspace(k, map) \in Keyspaces \union Named
  BY <1>1 DEF RemapKeyspace
<1>3. \A b \in RemapBuckets(k[1], map) : \E to \in Keyspaces \union Named : b = to[1]
  <2> TAKE b \in RemapBuckets(k[1], map)
  <2>1. CASE b = k[1]
    BY <2>1
  <2>2. CASE \E j \in DOMAIN map : b = map[j][1]
    BY <1>1, <2>2
  <2> QED BY <2>1, <2>2 DEF RemapBuckets
<1> QED BY <1>2, <1>3 DEF Buckets, TargetKeyspaces

LEMMA SetsOK ==
  ASSUME DOMAIN import = ImportFields, NEW fields, Sets(fields)
  PROVE  /\ DOMAIN import' = ImportFields
         /\ \A f \in ImportFields :
              import'[f] = IF f \in DOMAIN fields THEN fields[f] ELSE import[f]
BY DEF Sets

\* Of the call, and of the target, only what an action names changes.
Settled == /\ DOMAIN import' = ImportFields
           /\ import'.map = import.map /\ import'.manifest = import.manifest
           /\ import'.build = import.build
Counted0 == /\ import'.line = import.line /\ import'.loaded = import.loaded
            /\ import'.failed = import.failed /\ import'.now = import.now
TargetShape == DOMAIN target' = {"buckets", "collections", "documents", "indexes"}

\* What comes before the documents touches neither documents nor indexes.
Before(pcs) ==
  /\ Settled /\ Counted0 /\ import'.pc \in pcs /\ UNCHANGED <<dir, edition, importHistory>>
  /\ target'.documents = target.documents /\ target'.indexes = target.indexes
  /\ import'.pc = "buckets" => /\ import'.todo \subseteq RecordedBuckets
                               /\ import'.made \subseteq import.manifest.structure
  /\ import'.pc = "structure" => import'.todo \subseteq Keyspaces

LEMMA TargetStill == TargetOK /\ UNCHANGED target => TargetOK'
BY DEF TargetOK

LEMMA BeforeTypes ==
  ASSUME TypeIInv, NEW pcs \in SUBSET {"buckets", "structure", "refused"}, Before(pcs)
  PROVE  ImportOK'
<1>1. Indexes' = Indexes
  BY IndexesStill DEF Before
<1> QED BY <1>1 DEF TypeIInv, ImportOK, Before, Settled, Counted0, RecordedBuckets

LEMMA AddBucketTypes ==
  ASSUME TargetOK, NEW b \in Buckets, AddBucket(b)
  PROVE  /\ TargetOK' /\ target'.documents = target.documents
         /\ target'.indexes = target.indexes
<1>1. /\ TargetShape /\ target'.documents = target.documents /\ target'.indexes = target.indexes
      /\ target'.buckets = target.buckets \union {b}
      /\ target'.collections = target.collections \union {DefaultOf(b)}
  BY DEF AddBucket, TargetOK, TargetShape
<1>2. DefaultOf(b)[1] = b
  BY DEF DefaultOf
<1> QED BY <1>1, <1>2 DEF TargetOK, TargetShape

LEMMA AddCollectionTypes ==
  ASSUME TargetOK, NEW to \in TargetKeyspaces, to[1] \in target.buckets, AddCollection(to)
  PROVE  /\ TargetOK' /\ target'.documents = target.documents
         /\ target'.indexes = target.indexes
<1>1. /\ TargetShape /\ target'.documents = target.documents /\ target'.indexes = target.indexes
      /\ target'.buckets = target.buckets
      /\ target'.collections = target.collections \union {to}
  BY DEF AddCollection, TargetOK, TargetShape
<1> QED BY <1>1 DEF TargetOK, TargetShape

LEMMA BucketWorkIs ==
  ASSUME NEW rest, NEW made
  PROVE  /\ DOMAIN BucketWork(rest, made) = {"pc", "todo", "made"}
         /\ BucketWork(rest, made).pc \in {"buckets", "structure"}
         /\ BucketWork(rest, made).pc = "structure" => BucketWork(rest, made).todo = made
         /\ BucketWork(rest, made).pc = "buckets" =>
              /\ BucketWork(rest, made).todo = rest /\ BucketWork(rest, made).made = made
BY DEF BucketWork

LEMMA WithIs ==
  ASSUME NEW f, NEW g
  PROVE  /\ DOMAIN With(f, g) = DOMAIN f \union DOMAIN g
         /\ \A x \in DOMAIN f : With(f, g)[x] = f[x]
         /\ \A x \in DOMAIN g \ DOMAIN f : With(f, g)[x] = g[x]
BY DEF With

LEMMA WorkSets ==
  ASSUME DOMAIN import = ImportFields, NEW rest, NEW made,
         NEW h, DOMAIN h \subseteq {"known", "problem"},
         Sets(With(h, BucketWork(rest, made)))
  PROVE  /\ Settled /\ Counted0 /\ import'.pc \in {"buckets", "structure"}
         /\ import'.pc = "structure" => import'.todo = made
         /\ import'.pc = "buckets" => import'.todo = rest /\ import'.made = made
<1>1. PICK w, g : w = BucketWork(rest, made) /\ g = With(h, w)
  OBVIOUS
<1>2. /\ DOMAIN w = {"pc", "todo", "made"} /\ w.pc \in {"buckets", "structure"}
      /\ w.pc = "structure" => w.todo = made
      /\ w.pc = "buckets" => w.todo = rest /\ w.made = made
  BY <1>1, BucketWorkIs
<1>3. /\ DOMAIN import' = ImportFields
      /\ \A f \in ImportFields : import'[f] = IF f \in DOMAIN g THEN g[f] ELSE import[f]
  BY <1>1, SetsOK
<1>4. DOMAIN g \subseteq {"known", "problem", "pc", "todo", "made"}
  <2>1. DOMAIN With(h, w) = DOMAIN h \union DOMAIN w
    BY WithIs
  <2> QED BY <1>1, <1>2, <2>1
<1>5. ASSUME NEW x \in {"pc", "todo", "made"} PROVE x \in DOMAIN g /\ g[x] = w[x]
  <2>1. /\ DOMAIN With(h, w) = DOMAIN h \union DOMAIN w
        /\ \A y \in DOMAIN w \ DOMAIN h : With(h, w)[y] = w[y]
    BY WithIs
  <2>2. x \in DOMAIN w \ DOMAIN h
    BY <1>2
  <2> QED BY <1>1, <2>1, <2>2
<1>6. Settled /\ Counted0
  BY <1>3, <1>4 DEF Settled, Counted0, ImportFields
<1>7. import'.pc = w.pc /\ import'.todo = w.todo /\ import'.made = w.made
  BY <1>3, <1>5 DEF ImportFields
<1> QED BY <1>2, <1>6, <1>7

LEMMA PlanBucketsDoes ==
  ASSUME TypeIInv, PlanBuckets
  PROVE  UNCHANGED target /\ Before({"buckets", "structure", "refused"})
<1>1. DOMAIN import = ImportFields /\ UNCHANGED <<target, dir, edition, importHistory>>
  BY DEF TypeIInv, ImportOK, PlanBuckets
<1>2. CASE Refused
  BY <1>1, <1>2 DEF Refused, Before, Settled, Counted0, ImportFields
<1>3. CASE Sets(With([known |-> target.buckets], BucketWork(RecordedBuckets, {})))
  <2>1. PICK h : h = [known |-> target.buckets]
    OBVIOUS
  <2>2. DOMAIN h \subseteq {"known", "problem"}
    BY <2>1
  <2>3. Sets(With(h, BucketWork(RecordedBuckets, {})))
    BY <1>3, <2>1
  <2> QED BY <1>1, <2>2, <2>3, WorkSets DEF Before
<1> QED BY <1>2, <1>3 DEF PlanBuckets

LEMMA PlanFilesDoes ==
  ASSUME TypeIInv, PlanFiles
  PROVE  UNCHANGED target /\ Before({"structure"})
<1>1. DOMAIN import = ImportFields /\ UNCHANGED <<target, dir, edition, importHistory>>
  BY DEF TypeIInv, ImportOK, PlanFiles
<1>2. /\ Settled /\ Counted0 /\ import'.pc = "structure"
      /\ import'.todo = {r.keyspace : r \in import.manifest.files}
  BY <1>1 DEF PlanFiles, Sets, Settled, Counted0, ImportFields
<1>3. \A r \in import.manifest.files : r.keyspace \in Keyspaces
  BY DEF TypeIInv, ImportOK, Records, Files
<1> QED BY <1>1, <1>2, <1>3 DEF Before

LEMMA CreateBucketDoes ==
  ASSUME TypeIInv, CreateBucket
  PROVE  /\ UNCHANGED target \/ \E b \in Buckets : AddBucket(b)
         /\ Settled /\ Counted0 /\ import'.pc \in {"buckets", "structure"}
         /\ UNCHANGED <<dir, edition, importHistory>>
         /\ import'.pc = "buckets" => /\ import'.todo \subseteq RecordedBuckets
                                      /\ import'.made \subseteq import.manifest.structure
         /\ import'.pc = "structure" => import'.todo \subseteq Keyspaces
<1>1. /\ DOMAIN import = ImportFields /\ UNCHANGED <<dir, edition, importHistory>>
      /\ import.manifest.structure \subseteq Keyspaces /\ import.todo \subseteq RecordedBuckets
      /\ import.made \subseteq import.manifest.structure /\ import.map \in {<<>>} \union Maps
  BY DEF TypeIInv, ImportOK, CreateBucket
<1>2. PICK recorded, b :
        /\ recorded \in import.todo /\ b \in TargetBuckets(recorded)
        /\ LET rest == import.todo \ {recorded}
               more == Sets(BucketWork(rest, import.made \union CollectionsOf(recorded)))
           IN IF b \in import.known
              THEN more /\ UNCHANGED <<target, faults>>
              ELSE Creates(b \notin target.buckets, AddBucket(b), more,
                           Sets(With([problem |-> TRUE], BucketWork(rest, import.made))))
  BY DEF CreateBucket
<1>3. b \in Buckets
  <2>1. recorded \in RecordedBuckets /\ b \in RemapBuckets(recorded, import.map)
    BY <1>1, <1>2 DEF TargetBuckets
  <2>2. PICK k \in import.manifest.structure : recorded = k[1]
    BY <2>1 DEF RecordedBuckets
  <2>3. k \in Keyspaces
    BY <1>1
  <2> QED BY <1>1, <2>1, <2>2, <2>3, MapsInside
<1>4. UNCHANGED target \/ AddBucket(b)
  BY <1>2 DEF Creates
<1>5. PICK rest, made : /\ rest = import.todo \ {recorded}
                        /\ \/ /\ made = import.made \union CollectionsOf(recorded)
                              /\ Sets(BucketWork(rest, made))
                           \/ /\ made = import.made
                              /\ Sets(With([problem |-> TRUE], BucketWork(rest, made)))
  BY <1>2 DEF Creates
<1>6. /\ rest \subseteq RecordedBuckets /\ made \subseteq import.manifest.structure
  BY <1>1, <1>5 DEF CollectionsOf
<1>7. PICK h : /\ DOMAIN h \subseteq {"known", "problem"}
               /\ Sets(With(h, BucketWork(rest, made)))
  <2>1. CASE Sets(BucketWork(rest, made))
    <3>1. PICK h : h = [x \in {} |-> x]
      OBVIOUS
    <3>2. DOMAIN h = {}
      BY <3>1
    <3>3. PICK w : w = BucketWork(rest, made) /\ w = [x \in DOMAIN w |-> w[x]]
      BY DEF BucketWork
    <3>4. With(h, w) = w
      BY <3>2, <3>3 DEF With
    <3> QED BY <2>1, <3>2, <3>3, <3>4
  <2>2. CASE Sets(With([problem |-> TRUE], BucketWork(rest, made)))
    <3>1. PICK h : h = [problem |-> TRUE]
      OBVIOUS
    <3>2. DOMAIN h \subseteq {"known", "problem"}
      BY <3>1
    <3> QED BY <2>2, <3>1, <3>2
  <2> QED BY <1>5, <2>1, <2>2
<1>8. /\ Settled /\ Counted0 /\ import'.pc \in {"buckets", "structure"}
      /\ import'.pc = "structure" => import'.todo = made
      /\ import'.pc = "buckets" => import'.todo = rest /\ import'.made = made
  BY <1>1, <1>7, WorkSets
<1> QED BY <1>1, <1>3, <1>4, <1>6, <1>8

LEMMA CreateCollectionDoes ==
  ASSUME TypeIInv, CreateCollection
  PROVE  /\ TargetOK' /\ Before({"structure"})
<1>1. /\ DOMAIN import = ImportFields /\ UNCHANGED <<dir, edition, importHistory>>
      /\ import.todo \subseteq Keyspaces /\ import.map \in {<<>>} \union Maps
  BY DEF TypeIInv, ImportOK, CreateCollection
<1>2. PICK k, b, to :
       /\ k \in import.todo /\ b \in TargetBuckets(k[1]) /\ to = Retarget(k, b)
       /\ \/ /\ Belongs(to, b) /\ to \in target.collections
             /\ Sets([todo |-> import.todo \ {k}]) /\ UNCHANGED <<target, faults>>
          \/ /\ ~(Belongs(to, b) /\ to \in target.collections)
             /\ Creates(Belongs(to, b) /\ to[1] \in target.buckets, AddCollection(to),
                        Sets([todo |-> import.todo \ {k}]),
                        Sets([todo |-> import.todo \ {k}, problem |-> TRUE]))
  BY DEF CreateCollection
<1>3. to \in TargetKeyspaces
  <2>1. k \in Keyspaces
    BY <1>1, <1>2
  <2>2. CASE to = RemapKeyspace(k, import.map)
    BY <1>1, <2>1, <2>2, MapsInside DEF TargetKeyspaces
  <2>3. CASE to = <<b, k[2], k[3]>>
    BY <1>1, <1>2, <2>1, <2>3, MapsInside DEF TargetBuckets
  <2> QED BY <1>2, <2>2, <2>3 DEF Retarget
<1>4. /\ TargetOK' /\ target'.documents = target.documents
      /\ target'.indexes = target.indexes
  <2>1. UNCHANGED target \/ (to[1] \in target.buckets /\ AddCollection(to))
    BY <1>2 DEF Creates
  <2> QED BY <1>3, <2>1, TargetStill, AddCollectionTypes DEF TypeIInv
<1>5. \/ Sets([todo |-> import.todo \ {k}])
      \/ Sets([todo |-> import.todo \ {k}, problem |-> TRUE])
  BY <1>2 DEF Creates
<1>6. Settled /\ Counted0 /\ import'.pc = import.pc /\ import'.todo = import.todo \ {k}
  BY <1>1, <1>5 DEF Sets, Settled, Counted0, ImportFields
<1> QED BY <1>1, <1>4, <1>6 DEF Before, CreateCollection

\* From the documents on.
Quiet == UNCHANGED <<dir, edition, importHistory>>
LEMMA StartDocumentsDoes ==
  ASSUME ImportOK, StartDocuments
  PROVE  /\ Settled /\ Counted0 /\ Quiet /\ UNCHANGED target
         /\ import'.problem = import.problem
         /\ \/ import'.pc = "documents" /\ import'.todo = import.manifest.files
            \/ import'.pc = "incomplete"
BY DEF ImportOK, StartDocuments, Sets, Settled, Counted0, Quiet, ImportFields

LEMMA StartFileDoes ==
  ASSUME ImportOK, StartFile
  PROVE  /\ Settled /\ Quiet /\ UNCHANGED target
         /\ \E r \in import.todo :
              /\ r \in import.manifest.files /\ import'.todo = import.todo \ {r}
              /\ \/ /\ dir.data[r.keyspace] = NoFile /\ import'.pc = "documents"
                    /\ import'.problem = TRUE /\ Counted0
                 \/ /\ dir.data[r.keyspace] # NoFile /\ import'.pc = "lines"
                    /\ import'.now = r /\ import'.problem = import.problem
                    /\ import'.line = 0 /\ import'.loaded = 0 /\ import'.failed = 0
<1>1. DOMAIN import = ImportFields /\ import.pc = "documents" /\ Quiet /\ UNCHANGED target
      /\ import.todo \subseteq import.manifest.files
  BY DEF ImportOK, StartFile, Quiet
<1>2. PICK r \in import.todo :
        IF dir.data[r.keyspace] = NoFile
        THEN Sets([todo |-> import.todo \ {r}, problem |-> TRUE])
        ELSE Sets([pc |-> "lines", now |-> r, todo |-> import.todo \ {r},
                   line |-> 0, loaded |-> 0, failed |-> 0])
  BY DEF StartFile
<1>3. CASE dir.data[r.keyspace] = NoFile
  <2>1. /\ Settled /\ Counted0 /\ import'.pc = import.pc /\ import'.problem = TRUE
        /\ import'.todo = import.todo \ {r}
    BY <1>1, <1>2, <1>3 DEF Sets, Settled, Counted0, ImportFields
  <2> QED BY <1>1, <1>3, <2>1
<1>4. CASE dir.data[r.keyspace] # NoFile
  <2>1. /\ Settled /\ import'.pc = "lines" /\ import'.todo = import.todo \ {r}
        /\ import'.now = r /\ import'.problem = import.problem
        /\ import'.line = 0 /\ import'.loaded = 0 /\ import'.failed = 0
    BY <1>1, <1>2, <1>4 DEF Sets, Settled, ImportFields
  <2> QED BY <1>1, <1>4, <2>1
<1> QED BY <1>3, <1>4

LEMMA LinesOK ==
  ASSUME ImportOK, DirOK, import.pc = "lines"
  PROVE  /\ Lines \in Seq(Documents) /\ import.now \in Records
         /\ import.now.keyspace \in Keyspaces
<1>1. import.now \in Records
  BY DEF ImportOK
<1>2. import.now.keyspace \in Keyspaces
  BY <1>1 DEF Records, Files
<1>3. Lines \in Written \union {<<>>}
  BY <1>2 DEF Lines, DirOK
<1> QED BY <1>1, <1>2, <1>3, WrittenIsSeq

LEMMA PutDocumentDoes ==
  ASSUME TypeIInv, DirOK, PutDocument
  PROVE  /\ Settled /\ Quiet /\ import'.pc = "lines" /\ import'.todo = import.todo
         /\ import'.now = import.now /\ import'.problem = import.problem
         /\ import.line + 1 \in 1..Len(Lines) /\ import'.line = import.line + 1
         /\ TargetShape /\ target'.indexes = target.indexes
         /\ target'.buckets = target.buckets /\ target'.collections = target.collections
         /\ LET document == Lines[import.line + 1]
                to == RemapKeyspace(import.now.keyspace, import.map)
                done == target'.documents =
                          [target.documents EXCEPT ![to][document.key] = document.version]
            IN  \/ done /\ import'.loaded = import.loaded + 1 /\ import'.failed = import.failed
                \/ /\ done \/ target'.documents = target.documents
                   /\ import'.loaded = import.loaded /\ import'.failed = import.failed + 1
<1>1. PICK document, to : /\ document = Lines[import.line + 1]
                          /\ to = RemapKeyspace(import.now.keyspace, import.map)
  OBVIOUS
<1>2. /\ DOMAIN import = ImportFields /\ import.pc = "lines" /\ import.line < Len(Lines)
      /\ Quiet /\ import.line \in Nat
      /\ Creates(to \in target.collections,
             target' = [target EXCEPT !.documents[to][document.key] = document.version],
             Sets([line |-> import.line + 1, loaded |-> import.loaded + 1]),
             Sets([line |-> import.line + 1, failed |-> import.failed + 1]))
  BY <1>1 DEF TypeIInv, ImportOK, PutDocument, Quiet
<1>3. \/ /\ target' = [target EXCEPT !.documents[to][document.key] = document.version]
         /\ Sets([line |-> import.line + 1, loaded |-> import.loaded + 1])
      \/ /\ \/ target' = [target EXCEPT !.documents[to][document.key] = document.version]
            \/ UNCHANGED target
         /\ Sets([line |-> import.line + 1, failed |-> import.failed + 1])
  BY <1>2 DEF Creates
<1>4. ASSUME target' = [target EXCEPT !.documents[to][document.key] = document.version]
      PROVE  /\ TargetShape /\ target'.indexes = target.indexes
             /\ target'.buckets = target.buckets /\ target'.collections = target.collections
             /\ target'.documents =
                  [target.documents EXCEPT ![to][document.key] = document.version]
  BY <1>4 DEF TypeIInv, TargetOK, TargetShape
<1>5. ASSUME UNCHANGED target PROVE TargetShape
  BY <1>5 DEF TypeIInv, TargetOK, TargetShape
<1>6. ASSUME Sets([line |-> import.line + 1, loaded |-> import.loaded + 1])
      PROVE  /\ Settled /\ import'.pc = import.pc /\ import'.todo = import.todo
             /\ import'.now = import.now /\ import'.problem = import.problem
             /\ import'.line = import.line + 1
             /\ import'.loaded = import.loaded + 1 /\ import'.failed = import.failed
  BY <1>2, <1>6 DEF Sets, Settled, ImportFields
<1>7. ASSUME Sets([line |-> import.line + 1, failed |-> import.failed + 1])
      PROVE  /\ Settled /\ import'.pc = import.pc /\ import'.todo = import.todo
             /\ import'.now = import.now /\ import'.problem = import.problem
             /\ import'.line = import.line + 1
             /\ import'.loaded = import.loaded /\ import'.failed = import.failed + 1
  BY <1>2, <1>7 DEF Sets, Settled, ImportFields
<1>8. import.line + 1 \in 1..Len(Lines)
  <2>1. PICK lines \in Seq(Documents) : lines = Lines
    BY <1>2, LinesOK DEF TypeIInv
  <2>2. Len(lines) \in Nat
    BY <2>1
  <2> QED BY <1>2, <2>1, <2>2
<1> QED BY <1>1, <1>2, <1>3, <1>4, <1>5, <1>6, <1>7, <1>8

LEMMA EndFileDoes ==
  ASSUME ImportOK, EndFile
  PROVE  /\ Settled /\ Counted0 /\ Quiet /\ UNCHANGED target
         /\ import.pc = "lines" /\ import'.pc = "documents" /\ import'.todo = import.todo
         /\ import'.problem = \/ import.problem \/ import.failed > 0
                              \/ import.loaded # import.now.document_count
         /\ import.line >= Len(Lines) \/ GivenUp
<1>1. DOMAIN import = ImportFields
  BY DEF ImportOK
<1> DEFINE problem == \/ import.problem \/ import.failed > 0
                      \/ import.loaded # import.now.document_count
<1>2. Sets([pc |-> "documents", problem |-> problem])
  BY DEF EndFile
<1> HIDE DEF problem
<1>3. /\ Settled /\ Counted0 /\ import'.pc = "documents" /\ import'.todo = import.todo
      /\ import'.problem = problem
  BY <1>1, <1>2 DEF Sets, Settled, Counted0, ImportFields
<1> QED BY <1>3 DEF EndFile, Quiet, problem

LEMMA StartIndexesDoes ==
  ASSUME ImportOK, StartIndexes
  PROVE  /\ Settled /\ Counted0 /\ Quiet /\ UNCHANGED target
         /\ import.pc = "documents" /\ import.todo = {} /\ import'.pc = "indexes"
         /\ import'.problem = import.problem /\ import'.made = {}
         /\ import'.todo \subseteq import.manifest.indexes
<1>1. PICK todo : /\ todo \subseteq import.manifest.indexes
                  /\ Sets([pc |-> "indexes", made |-> {}, todo |-> todo])
  BY DEF StartIndexes
<1>2. DOMAIN import = ImportFields
  BY DEF ImportOK
<1>3. /\ Settled /\ Counted0 /\ import'.pc = "indexes" /\ import'.todo = todo
      /\ import'.problem = import.problem /\ import'.made = {}
  BY <1>1, <1>2 DEF Sets, Settled, Counted0, ImportFields
<1> QED BY <1>1, <1>3 DEF StartIndexes, Quiet

\* Indexes are made and built; documents and collections stay.
OnlyIndexes == /\ TargetShape /\ target'.buckets = target.buckets
               /\ target'.collections = target.collections
               /\ target'.documents = target.documents

LEMMA BuildDoes ==
  ASSUME TargetOK, NEW places, Build(places)
  PROVE  /\ OnlyIndexes
         /\ target'.indexes = [k \in TargetKeyspaces |->
                IF k \in places /\ target.indexes[k] = "deferred"
                THEN "building" ELSE target.indexes[k]]
BY DEF TargetOK, Build, OnlyIndexes, TargetShape

LEMMA CreateIndexDoes ==
  ASSUME TypeIInv, CreateIndex
  PROVE  /\ Settled /\ Counted0 /\ Quiet /\ OnlyIndexes /\ import'.pc = "indexes"
         /\ \E i, to :
              /\ i \in import.todo /\ i \in import.manifest.indexes
              /\ import'.todo = import.todo \ {i}
              /\ LET done == target'.indexes = [target.indexes EXCEPT ![to] = "deferred"]
                 IN  \/ /\ done \/ target'.indexes = target.indexes
                        /\ import'.problem = TRUE /\ import'.made = import.made
                     \/ /\ target'.indexes = target.indexes
                        /\ import'.problem = import.problem /\ import'.made = import.made
                     \/ /\ done /\ to \in RewriteIndexKeyspace(i, import.map)
                        /\ import'.problem = import.problem
                        /\ import'.made = import.made \union {<<i, to>>}
<1>1. DOMAIN import = ImportFields /\ import.pc = "indexes" /\ Quiet
      /\ import.todo \subseteq import.manifest.indexes
  BY DEF TypeIInv, ImportOK, CreateIndex, Quiet
<1>2. PICK i \in import.todo :
        LET rest == import.todo \ {i}
            failing == Sets([todo |-> rest, problem |-> TRUE])
            places == RewriteIndexKeyspace(i, import.map)
        IN IF places = {} THEN failing /\ UNCHANGED <<target, faults>>
           ELSE \E to \in places :
                  IF target.indexes[to] # "none" /\ to \in target.collections
                  THEN Sets([todo |-> rest]) /\ UNCHANGED <<target, faults>>
                  ELSE Creates(to \in target.collections,
                               target' = [target EXCEPT !.indexes[to] = "deferred"],
                               Sets([todo |-> rest, made |-> import.made \union {<<i, to>>}]),
                               failing)
  BY DEF CreateIndex
<1>3. PICK to :
        \/ /\ target' = [target EXCEPT !.indexes[to] = "deferred"] \/ UNCHANGED target
           /\ Sets([todo |-> import.todo \ {i}, problem |-> TRUE])
        \/ UNCHANGED target /\ Sets([todo |-> import.todo \ {i}])
        \/ /\ target' = [target EXCEPT !.indexes[to] = "deferred"]
           /\ to \in RewriteIndexKeyspace(i, import.map)
           /\ Sets([todo |-> import.todo \ {i}, made |-> import.made \union {<<i, to>>}])
  BY <1>2 DEF Creates
<1>4. ASSUME target' = [target EXCEPT !.indexes[to] = "deferred"]
      PROVE  OnlyIndexes /\ target'.indexes = [target.indexes EXCEPT ![to] = "deferred"]
  BY <1>4 DEF TypeIInv, TargetOK, OnlyIndexes, TargetShape
<1>5. ASSUME UNCHANGED target PROVE OnlyIndexes /\ target'.indexes = target.indexes
  BY <1>5 DEF TypeIInv, TargetOK, OnlyIndexes, TargetShape
<1>6. ASSUME Sets([todo |-> import.todo \ {i}, problem |-> TRUE])
      PROVE  /\ Settled /\ Counted0 /\ import'.pc = import.pc
             /\ import'.todo = import.todo \ {i}
             /\ import'.problem = TRUE /\ import'.made = import.made
  BY <1>1, <1>6 DEF Sets, Settled, Counted0, ImportFields
<1>7. ASSUME Sets([todo |-> import.todo \ {i}])
      PROVE  /\ Settled /\ Counted0 /\ import'.pc = import.pc
             /\ import'.todo = import.todo \ {i}
             /\ import'.problem = import.problem /\ import'.made = import.made
  BY <1>1, <1>7 DEF Sets, Settled, Counted0, ImportFields
<1>8. ASSUME Sets([todo |-> import.todo \ {i}, made |-> import.made \union {<<i, to>>}])
      PROVE  /\ Settled /\ Counted0 /\ import'.pc = import.pc
             /\ import'.todo = import.todo \ {i} /\ import'.problem = import.problem
             /\ import'.made = import.made \union {<<i, to>>}
  BY <1>1, <1>8 DEF Sets, Settled, Counted0, ImportFields
<1>9. i \in import.todo /\ i \in import.manifest.indexes
  BY <1>1
<1>10. CASE /\ target' = [target EXCEPT !.indexes[to] = "deferred"] \/ UNCHANGED target
            /\ Sets([todo |-> import.todo \ {i}, problem |-> TRUE])
  BY <1>1, <1>4, <1>5, <1>6, <1>9, <1>10
<1>11. CASE UNCHANGED target /\ Sets([todo |-> import.todo \ {i}])
  BY <1>1, <1>5, <1>7, <1>9, <1>11
<1>12. CASE /\ target' = [target EXCEPT !.indexes[to] = "deferred"]
            /\ to \in RewriteIndexKeyspace(i, import.map)
            /\ Sets([todo |-> import.todo \ {i}, made |-> import.made \union {<<i, to>>}])
  BY <1>1, <1>4, <1>8, <1>9, <1>12
<1> QED BY <1>3, <1>10, <1>11, <1>12

LEMMA EndIndexesDoes ==
  ASSUME ImportOK, EndIndexes
  PROVE  /\ Settled /\ Counted0 /\ Quiet /\ UNCHANGED target
         /\ import.pc = "indexes" /\ import'.pc = "build" /\ import'.todo = import.made
         /\ import'.problem = import.problem /\ import'.made = import.made
BY DEF ImportOK, EndIndexes, Sets, Settled, Counted0, Quiet, ImportFields

LEMMA EndBuildDoes ==
  ASSUME ImportOK, EndBuild
  PROVE  /\ Settled /\ Counted0 /\ Quiet /\ UNCHANGED target
         /\ import.pc = "build" /\ import'.pc = "done" /\ import.todo = {}
         /\ import'.todo = import.todo
         /\ import'.problem = import.problem /\ import'.made = import.made
BY DEF ImportOK, EndBuild, Sets, Settled, Counted0, Quiet, ImportFields

LEMMA BuildKeyspaceDoes ==
  ASSUME TypeIInv, BuildKeyspace
  PROVE  /\ Settled /\ Counted0 /\ Quiet
         /\ import.pc = "build" /\ import'.pc = "build" /\ import'.made = import.made
         /\ \E made \in import.todo :
              LET named == RemapKeyspace(made[1].keyspace, import.map)
              IN  /\ import'.todo = import.todo \ {made}
                  /\ \/ Build({named}) /\ import'.problem = import.problem
                     \/ /\ Build({named}) \/ UNCHANGED target
                        /\ import'.problem = TRUE
<1>1. DOMAIN import = ImportFields /\ import.pc = "build" /\ Quiet
  BY DEF TypeIInv, ImportOK, BuildKeyspace, Quiet
<1>2. PICK made \in import.todo :
        \/ /\ Build({RemapKeyspace(made[1].keyspace, import.map)})
           /\ Sets([todo |-> import.todo \ {made}])
        \/ /\ \/ Build({RemapKeyspace(made[1].keyspace, import.map)})
              \/ UNCHANGED target
           /\ Sets([todo |-> import.todo \ {made}, problem |-> TRUE])
  BY DEF BuildKeyspace, Creates
<1>3. ASSUME Sets([todo |-> import.todo \ {made}])
      PROVE  /\ Settled /\ Counted0 /\ import'.pc = import.pc
             /\ import'.todo = import.todo \ {made}
             /\ import'.problem = import.problem /\ import'.made = import.made
  BY <1>1, <1>3 DEF Sets, Settled, Counted0, ImportFields
<1>4. ASSUME Sets([todo |-> import.todo \ {made}, problem |-> TRUE])
      PROVE  /\ Settled /\ Counted0 /\ import'.pc = import.pc
             /\ import'.todo = import.todo \ {made}
             /\ import'.problem = TRUE /\ import'.made = import.made
  BY <1>1, <1>4 DEF Sets, Settled, Counted0, ImportFields
<1> QED BY <1>1, <1>2, <1>3, <1>4

LEMMA BuildBucketsDoes ==
  ASSUME TypeIInv, BuildBuckets
  PROVE  /\ Settled /\ Counted0 /\ Quiet /\ edition = "capella"
         /\ import.pc = "indexes" /\ import'.pc = "done"
         /\ import'.problem \in {import.problem, TRUE}
         /\ UNCHANGED target \/ \E places : Build(places)
<1>1. DOMAIN import = ImportFields
  BY DEF TypeIInv, ImportOK
<1>2. /\ \/ Sets([pc |-> "done"])
         \/ Sets([pc |-> "done", problem |-> TRUE])
      /\ UNCHANGED target \/ \E places : Build(places)
      /\ import.pc = "indexes" /\ edition = "capella" /\ Quiet
  BY DEF BuildBuckets, Creates, Quiet
<1>3. ASSUME Sets([pc |-> "done"])
      PROVE  Settled /\ Counted0 /\ import'.pc = "done" /\ import'.problem = import.problem
  BY <1>1, <1>3 DEF Sets, Settled, Counted0, ImportFields
<1>4. ASSUME Sets([pc |-> "done", problem |-> TRUE])
      PROVE  Settled /\ Counted0 /\ import'.pc = "done" /\ import'.problem = TRUE
  BY <1>1, <1>4 DEF Sets, Settled, Counted0, ImportFields
<1> QED BY <1>2, <1>3, <1>4
--------------------------------------------------------------------------------
\* Types, over every step.
LEMMA FreshTypes ==
  ASSUME UNCHANGED edition, DOMAIN import' = ImportFields,
         import'.pc \in {"idle", "refused", "plan"}, import'.map \in {<<>>} \union Maps,
         import'.manifest.files \subseteq Records,
         import'.manifest.structure \subseteq Keyspaces,
         import'.manifest.indexes \subseteq Indexes,
         import'.line = 0, import'.loaded = 0, import'.failed = 0
  PROVE  ImportOK'
BY IndexesStill DEF ImportOK

LEMMA LaterTypes ==
  ASSUME ImportOK, Settled, UNCHANGED edition,
         import'.pc \notin {"buckets", "structure"},
         import'.line \in Nat, import'.loaded \in Nat, import'.failed \in Nat,
         import'.failed + import'.loaded = import'.line,
         import'.pc = "documents" => import'.todo \subseteq import.manifest.files,
         import'.pc = "lines" => /\ import'.todo \subseteq import.manifest.files
                                 /\ import'.now \in import.manifest.files,
         import'.pc = "indexes" => import'.todo \subseteq import.manifest.indexes,
         import'.pc = "build" => import'.todo \subseteq import'.made
  PROVE  ImportOK'
BY IndexesStill DEF ImportOK, Settled

LEMMA FreeIs ==
  /\ DOMAIN Free = ImportFields /\ Free.pc = "idle" /\ Free.map = <<>>
  /\ Free.manifest = NoManifestRead
  /\ Free.line = 0 /\ Free.loaded = 0 /\ Free.failed = 0
BY DEF Free, ImportFields

LEMMA FreeTypes == UNCHANGED edition /\ import' = Free => ImportOK'
<1> SUFFICES ASSUME UNCHANGED edition, import' = Free PROVE ImportOK'
  OBVIOUS
<1>1. /\ import'.manifest.files = {} /\ import'.manifest.structure = {}
      /\ import'.manifest.indexes = {}
  BY FreeIs DEF NoManifestRead
<1> QED BY <1>1, FreeIs, FreshTypes

LEMMA StartImportDoes ==
  ASSUME DirOK, StartImport
  PROVE  /\ UNCHANGED <<target, dir, edition>> /\ DOMAIN import' = ImportFields
         /\ raced' = FALSE /\ import.pc \in Ended
         /\ clean' = \A k \in TargetKeyspaces : target.documents[k] = NoDocuments
         /\ import'.map \in {<<>>} \union Maps
         /\ import'.line = 0 /\ import'.loaded = 0 /\ import'.failed = 0
         /\ import'.manifest.files \subseteq Records
         /\ import'.manifest.structure \subseteq Keyspaces
         /\ import'.manifest.indexes \subseteq Indexes
         /\ \/ import'.pc = "refused"
            \/ /\ import'.pc = "plan" /\ FixtureIntegrity(dir, import'.manifest)
               /\ \E call \in ImportCalls : import'.map = call[1]
<1>1. /\ UNCHANGED <<target, dir, edition>> /\ raced' = FALSE /\ import.pc \in Ended
      /\ clean' = \A k \in TargetKeyspaces : target.documents[k] = NoDocuments
  BY DEF StartImport
<1>2. CASE Verifies(dir)
  <2>1. PICK call \in ImportCalls :
          import' = [Free EXCEPT !.pc = "plan", !.map = call[1], !.build = call[2],
                                 !.manifest = dir.manifest]
    BY <1>2 DEF StartImport
  <2>2. /\ DOMAIN import' = ImportFields /\ import'.pc = "plan" /\ import'.map = call[1]
        /\ import'.manifest = dir.manifest
        /\ import'.line = 0 /\ import'.loaded = 0 /\ import'.failed = 0
    BY <2>1 DEF Free, ImportFields
  <2>3. /\ dir.manifest.files \subseteq Records
        /\ dir.manifest.structure \subseteq Keyspaces
        /\ dir.manifest.indexes \subseteq Indexes
    BY <1>2 DEF DirOK, Verifies
  <2>4. FixtureIntegrity(dir, dir.manifest)
    BY <1>2 DEF Verifies
  <2>5. call[1] \in Maps
    BY DEF Maps
  <2> QED BY <1>1, <2>2, <2>3, <2>4, <2>5
<1>3. CASE ~ Verifies(dir)
  <2>1. import' = [Free EXCEPT !.pc = "refused"]
    BY <1>3 DEF StartImport
  <2>2. /\ DOMAIN import' = ImportFields /\ import'.pc = "refused" /\ import'.map = <<>>
        /\ import'.manifest = NoManifestRead
        /\ import'.line = 0 /\ import'.loaded = 0 /\ import'.failed = 0
    BY <2>1 DEF Free, ImportFields
  <2>3. /\ NoManifestRead.files = {} /\ NoManifestRead.structure = {}
        /\ NoManifestRead.indexes = {}
    BY DEF NoManifestRead
  <2> QED BY <1>1, <2>2, <2>3
<1> QED BY <1>2, <1>3

LEMMA StartImportTypes == ASSUME TypeIInv, DirOK, StartImport PROVE TypeIInv'
BY StartImportDoes, FreshTypes, TargetStill DEF TypeIInv

LEMMA CreateBucketTypes ==
  ASSUME TypeIInv, CreateBucket
  PROVE  TypeIInv' /\ Before({"buckets", "structure"})
<1>1. /\ TargetOK' /\ target'.documents = target.documents
      /\ target'.indexes = target.indexes
  <2>1. UNCHANGED target \/ \E b \in Buckets : AddBucket(b)
    BY CreateBucketDoes
  <2> QED BY <2>1, TargetStill, AddBucketTypes DEF TypeIInv
<1>2. Before({"buckets", "structure"})
  BY <1>1, CreateBucketDoes DEF Before
<1>3. ImportOK'
  BY <1>2, BeforeTypes
<1> QED BY <1>1, <1>2, <1>3 DEF TypeIInv

LEMMA EarlyTypes ==
  ASSUME TypeIInv, PlanBuckets \/ PlanFiles \/ CreateCollection
  PROVE  TypeIInv'
<1>1. CASE PlanBuckets
  BY <1>1, PlanBucketsDoes, BeforeTypes, TargetStill DEF TypeIInv
<1>2. CASE PlanFiles
  BY <1>2, PlanFilesDoes, BeforeTypes, TargetStill DEF TypeIInv
<1>3. CASE CreateCollection
  BY <1>3, CreateCollectionDoes, BeforeTypes DEF TypeIInv
<1> QED BY <1>1, <1>2, <1>3

LEMMA CountsOK ==
  ASSUME ImportOK, Counted0
  PROVE  /\ import'.line \in Nat /\ import'.loaded \in Nat /\ import'.failed \in Nat
         /\ import'.failed + import'.loaded = import'.line
BY DEF ImportOK, Counted0

LEMMA StartDocumentsTypes == ASSUME TypeIInv, StartDocuments PROVE TypeIInv'
<1>1. ImportOK
  BY DEF TypeIInv
<1>2. ImportOK'
  BY <1>1, StartDocumentsDoes, CountsOK, LaterTypes DEF Quiet
<1> QED BY <1>1, <1>2, StartDocumentsDoes, TargetStill DEF TypeIInv

LEMMA StartFileTypes == ASSUME TypeIInv, StartFile PROVE TypeIInv'
<1>1. ImportOK /\ import.todo \subseteq import.manifest.files
  BY DEF TypeIInv, ImportOK, StartFile
<1>2. ImportOK'
  <2>1. PICK r \in import.todo :
              /\ r \in import.manifest.files /\ import'.todo = import.todo \ {r}
              /\ \/ /\ dir.data[r.keyspace] = NoFile /\ import'.pc = "documents"
                    /\ import'.problem = TRUE /\ Counted0
                 \/ /\ dir.data[r.keyspace] # NoFile /\ import'.pc = "lines"
                    /\ import'.now = r /\ import'.problem = import.problem
                    /\ import'.line = 0 /\ import'.loaded = 0 /\ import'.failed = 0
    BY <1>1, StartFileDoes
  <2>2. Settled /\ UNCHANGED edition
    BY <1>1, StartFileDoes DEF Quiet
  <2>3. CASE import'.pc = "documents" /\ Counted0
    BY <1>1, <2>1, <2>2, <2>3, CountsOK, LaterTypes
  <2>4. CASE /\ import'.pc = "lines" /\ import'.now = r
             /\ import'.line = 0 /\ import'.loaded = 0 /\ import'.failed = 0
    BY <1>1, <2>1, <2>2, <2>4, LaterTypes
  <2> QED BY <2>1, <2>3, <2>4
<1> QED BY <1>1, <1>2, StartFileDoes, TargetStill DEF TypeIInv

\* The bodies a target holds are those of the source, or none.
LEMMA PutTypes ==
  ASSUME NEW documents \in [TargetKeyspaces -> [Keys -> {0} \union Versions]],
         NEW to, NEW document \in Documents
  PROVE  [documents EXCEPT ![to][document.key] = document.version]
           \in [TargetKeyspaces -> [Keys -> {0} \union Versions]]
BY DEF Documents

LEMMA PutDocumentTypes == ASSUME TypeIInv, DirOK, PutDocument PROVE TypeIInv'
<1>1. /\ ImportOK /\ TargetOK /\ import.pc = "lines"
      /\ import.line \in Nat /\ import.loaded \in Nat /\ import.failed \in Nat
      /\ import.failed + import.loaded = import.line
      /\ import.todo \subseteq import.manifest.files /\ import.now \in import.manifest.files
  BY DEF TypeIInv, ImportOK, PutDocument
<1>2. PICK document, to : /\ document = Lines[import.line + 1]
                          /\ to = RemapKeyspace(import.now.keyspace, import.map)
  OBVIOUS
<1>3. document \in Documents
  <2>1. PICK lines \in Seq(Documents) : lines = Lines
    BY <1>1, LinesOK
  <2>2. import.line + 1 \in 1..Len(lines)
    BY <2>1, PutDocumentDoes
  <2> QED BY <1>2, <2>1, <2>2
<1>4. ImportOK'
  <2>1. /\ Settled /\ UNCHANGED edition /\ import'.pc = "lines" /\ import'.todo = import.todo
        /\ import'.now = import.now /\ import'.line = import.line + 1
        /\ \/ import'.loaded = import.loaded + 1 /\ import'.failed = import.failed
           \/ import'.loaded = import.loaded /\ import'.failed = import.failed + 1
    BY PutDocumentDoes DEF Quiet
  <2>2. /\ import'.line \in Nat /\ import'.loaded \in Nat /\ import'.failed \in Nat
        /\ import'.failed + import'.loaded = import'.line
    BY <1>1, <2>1
  <2> QED BY <1>1, <2>1, <2>2, LaterTypes
<1>5. TargetOK'
  <2>1. /\ TargetShape /\ target'.indexes = target.indexes
        /\ target'.buckets = target.buckets /\ target'.collections = target.collections
        /\ \/ target'.documents =
                [target.documents EXCEPT ![to][document.key] = document.version]
           \/ target'.documents = target.documents
    BY <1>2, PutDocumentDoes
  <2>2. target.documents \in [TargetKeyspaces -> [Keys -> {0} \union Versions]]
    BY <1>1 DEF TargetOK
  <2>3. target'.documents \in [TargetKeyspaces -> [Keys -> {0} \union Versions]]
    <3>1. PICK documents \in [TargetKeyspaces -> [Keys -> {0} \union Versions]] :
            documents = target.documents
      BY <2>2
    <3>2. [documents EXCEPT ![to][document.key] = document.version]
            \in [TargetKeyspaces -> [Keys -> {0} \union Versions]]
      BY <1>3, PutTypes
    <3> QED BY <2>1, <3>1, <3>2
  <2> QED BY <1>1, <2>1, <2>3 DEF TargetOK, TargetShape
<1> QED BY <1>4, <1>5 DEF TypeIInv

LEMMA EndFileTypes == ASSUME TypeIInv, EndFile PROVE TypeIInv'
<1>1. ImportOK /\ (import.pc = "lines" => import.todo \subseteq import.manifest.files)
  BY DEF TypeIInv, ImportOK
<1>2. ImportOK'
  BY <1>1, EndFileDoes, CountsOK, LaterTypes DEF Quiet
<1> QED BY <1>1, <1>2, EndFileDoes, TargetStill DEF TypeIInv

LEMMA StartIndexesTypes == ASSUME TypeIInv, StartIndexes PROVE TypeIInv'
<1>1. ImportOK
  BY DEF TypeIInv
<1>2. ImportOK'
  BY <1>1, StartIndexesDoes, CountsOK, LaterTypes DEF Quiet
<1> QED BY <1>1, <1>2, StartIndexesDoes, TargetStill DEF TypeIInv

\* The indexes of a target keep their states.
LEMMA IndexTypes ==
  ASSUME TargetOK, OnlyIndexes,
         target'.indexes \in [TargetKeyspaces -> {"none", "deferred", "building", "online"}]
  PROVE  TargetOK'
BY DEF TargetOK, OnlyIndexes, TargetShape

LEMMA CreateIndexTypes == ASSUME TypeIInv, CreateIndex PROVE TypeIInv'
<1>1. /\ ImportOK /\ TargetOK /\ import.pc = "indexes"
      /\ import.todo \subseteq import.manifest.indexes
  BY DEF TypeIInv, ImportOK, CreateIndex
<1>2. /\ Settled /\ Counted0 /\ Quiet /\ OnlyIndexes /\ import'.pc = "indexes"
      /\ \E i, to : /\ i \in import.todo /\ import'.todo = import.todo \ {i}
                    /\ \/ target'.indexes = [target.indexes EXCEPT ![to] = "deferred"]
                       \/ target'.indexes = target.indexes
  BY CreateIndexDoes, Zenon
<1>3. target'.indexes \in [TargetKeyspaces -> {"none", "deferred", "building", "online"}]
  BY <1>1, <1>2 DEF TargetOK
<1>4. import'.todo \subseteq import.manifest.indexes
  BY <1>1, <1>2
<1>5. ImportOK'
  BY <1>1, <1>2, <1>4, CountsOK, LaterTypes DEF Quiet
<1> QED BY <1>1, <1>2, <1>3, <1>5, IndexTypes DEF TypeIInv

LEMMA BuildTypes == ASSUME TargetOK, NEW places, Build(places) PROVE TargetOK'
<1> DEFINE States == {"none", "deferred", "building", "online"}
<1>1. target.indexes \in [TargetKeyspaces -> States]
  BY DEF TargetOK
<1>2. target'.indexes = [k \in TargetKeyspaces |->
                IF k \in places /\ target.indexes[k] = "deferred"
                THEN "building" ELSE target.indexes[k]]
  BY BuildDoes
<1>3. \A k \in TargetKeyspaces : target.indexes[k] \in States
  BY <1>1
<1>4. target'.indexes \in [TargetKeyspaces -> States]
  BY <1>2, <1>3
<1> QED BY <1>4, BuildDoes, IndexTypes

LEMMA EndIndexesTypes == ASSUME TypeIInv, EndIndexes PROVE TypeIInv'
<1>1. ImportOK
  BY DEF TypeIInv
<1>2. ImportOK'
  BY <1>1, EndIndexesDoes, CountsOK, LaterTypes DEF Quiet
<1> QED BY <1>1, <1>2, EndIndexesDoes, TargetStill DEF TypeIInv

LEMMA BuildKeyspaceTypes == ASSUME TypeIInv, BuildKeyspace PROVE TypeIInv'
<1>1. ImportOK /\ TargetOK /\ import.pc = "build" /\ import.todo \subseteq import.made
  BY DEF TypeIInv, ImportOK, BuildKeyspace
<1>2. /\ Settled /\ Counted0 /\ Quiet /\ import'.pc = "build" /\ import'.made = import.made
      /\ import'.todo \subseteq import.todo
      /\ UNCHANGED target \/ \E places : Build(places)
  BY BuildKeyspaceDoes
<1>3. ImportOK'
  BY <1>1, <1>2, CountsOK, LaterTypes DEF Quiet
<1> QED BY <1>1, <1>2, <1>3, TargetStill, BuildTypes DEF TypeIInv

LEMMA EndBuildTypes == ASSUME TypeIInv, EndBuild PROVE TypeIInv'
<1>1. ImportOK
  BY DEF TypeIInv
<1>2. ImportOK'
  BY <1>1, EndBuildDoes, CountsOK, LaterTypes DEF Quiet
<1> QED BY <1>1, <1>2, EndBuildDoes, TargetStill DEF TypeIInv

LEMMA BuildBucketsTypes == ASSUME TypeIInv, BuildBuckets PROVE TypeIInv'
<1>1. ImportOK /\ TargetOK
  BY DEF TypeIInv
<1>2. ImportOK'
  BY <1>1, BuildBucketsDoes, CountsOK, LaterTypes DEF Quiet
<1> QED BY <1>1, <1>2, BuildBucketsDoes, TargetStill, BuildTypes DEF TypeIInv

LEMMA ImportStepTypes == ASSUME TypeIInv, DirOK, ImportStep PROVE TypeIInv'
BY StartImportTypes, EarlyTypes, CreateBucketTypes, StartDocumentsTypes, StartFileTypes,
   PutDocumentTypes, EndFileTypes, StartIndexesTypes, CreateIndexTypes, EndIndexesTypes,
   BuildKeyspaceTypes, EndBuildTypes, BuildBucketsTypes DEF ImportStep

LEMMA ImportStill ==
  ASSUME TypeIInv, UNCHANGED <<import, edition>>, UNCHANGED target
  PROVE  TypeIInv'
BY IndexesStill, TargetStill DEF TypeIInv, ImportOK, RecordedBuckets

LEMMA OnlineDoes ==
  ASSUME TypeIInv, Online
  PROVE  /\ OnlyIndexes /\ UNCHANGED <<import, edition, dir, importHistory>>
         /\ \E k \in TargetKeyspaces :
              /\ target.indexes[k] = "building"
              /\ target'.indexes = [target.indexes EXCEPT ![k] = "online"]
<1>1. PICK k \in TargetKeyspaces : /\ target.indexes[k] = "building"
                                   /\ target' = [target EXCEPT !.indexes[k] = "online"]
  BY DEF Online
<1>2. OnlyIndexes /\ target'.indexes = [target.indexes EXCEPT ![k] = "online"]
  BY <1>1 DEF TypeIInv, TargetOK, OnlyIndexes, TargetShape
<1> QED BY <1>1, <1>2 DEF Online, importHistory

LEMMA OnlineTypes == ASSUME TypeIInv, Online PROVE TypeIInv'
<1>1. target'.indexes \in [TargetKeyspaces -> {"none", "deferred", "building", "online"}]
  BY OnlineDoes DEF TypeIInv, TargetOK
<1>2. ImportOK'
  BY OnlineDoes, IndexesStill DEF TypeIInv, ImportOK, RecordedBuckets
<1> QED BY <1>1, <1>2, OnlineDoes, IndexTypes DEF TypeIInv

LEMMA ExportingStill ==
  ASSUME Exporting
  PROVE  /\ UNCHANGED <<target, import, imports, clean, faultsBefore, edition>>
         /\ raced' = (raced \/ (dir' # dir /\ import.pc \notin Ended))
BY DEF Exporting, ExportStep, StartExport, ReadStructure, OpenFile, WritePage, EndData,
       OpenManifest, WriteManifest, Write

LEMMA TypesStart == Init => TypeIInv
<1> SUFFICES ASSUME Init PROVE TypeIInv
  OBVIOUS
<1>1. PICK buckets \in TargetStarts :
        target = [buckets |-> buckets,
                  collections |-> {DefaultOf(b) : b \in buckets},
                  documents |-> [k \in TargetKeyspaces |-> NoDocuments],
                  indexes |-> [k \in TargetKeyspaces |-> "none"]]
  BY DEF Init, ImportInit
<1>2. import = Free
  BY DEF Init, ImportInit
<1>3. buckets \subseteq Buckets
  BY TargetAssumption
<1>4. \A b \in buckets : DefaultOf(b)[1] = b
  BY DEF DefaultOf
<1>5. /\ DOMAIN target = {"buckets", "collections", "documents", "indexes"}
      /\ target.buckets = buckets /\ target.collections = {DefaultOf(b) : b \in buckets}
      /\ target.documents = [k \in TargetKeyspaces |-> NoDocuments]
      /\ target.indexes = [k \in TargetKeyspaces |-> "none"]
  BY <1>1
<1>6. NoDocuments \in [Keys -> {0} \union Versions]
  BY DEF NoDocuments
<1>7. target.documents \in [TargetKeyspaces -> [Keys -> {0} \union Versions]]
  BY <1>5, <1>6
<1>8. target.indexes \in [TargetKeyspaces -> {"none", "deferred", "building", "online"}]
  BY <1>5
<1>9. target.collections \subseteq {k \in TargetKeyspaces \union {DefaultOf(b) : b \in Buckets} :
                                     k[1] \in target.buckets}
  BY <1>3, <1>4, <1>5
<1>10. TargetOK
  BY <1>5, <1>7, <1>8, <1>9 DEF TargetOK
<1>11. /\ import.manifest.files = {} /\ import.manifest.structure = {}
       /\ import.manifest.indexes = {}
  BY <1>2, FreeIs DEF NoManifestRead
<1>12. ImportOK
  BY <1>2, <1>11, FreeIs DEF ImportOK
<1> QED BY <1>10, <1>12 DEF TypeIInv

LEMMA StepTypes == TypeIInv /\ DirOK /\ [Next]_vars => TypeIInv'
<1> SUFFICES ASSUME TypeIInv, DirOK, [Next]_vars PROVE TypeIInv'
  OBVIOUS
<1>1. CASE Exporting
  BY <1>1, ExportingStill, ImportStill
<1>2. CASE Importing
  BY <1>2, ImportStepTypes DEF Importing
<1>3. CASE Online
  BY <1>3, OnlineTypes
<1>4. CASE Restart
  BY <1>4, FreeTypes, TargetStill DEF Restart, TypeIInv
<1>5. CASE UNCHANGED vars
  BY <1>5, ImportStill DEF vars, importVars
<1> QED BY <1>1, <1>2, <1>3, <1>4, <1>5 DEF Next

LEMMA TypesHold ==
  ASSUME ExportIInv, TypeIInv
  PROVE  TypeOK
<1>1. Readable(dir) => dir.manifest.files \subseteq Files
  BY DEF ExportIInv, DirOK, Records
<1>2. export.files \subseteq Files /\ export.last \in {0} \union Keys
  BY DEF ExportIInv, ExportOK, Records
<1>3. import.failed + import.loaded <= import.line
  BY DEF TypeIInv, ImportOK
<1> QED BY <1>1, <1>2, <1>3 DEF TypeOK, ExportIInv, DirOK, SourceOK, TypeIInv, TargetOK

\* The invariants that carry the theorem below.
THEOREM FixturesTyped == Spec => [](IInv /\ ExportIInv /\ TypeIInv)
<1>1. Init => ExportIInv /\ TypeIInv
  BY GatheringStarts, TypesStart
<1>2. IInv /\ ExportIInv /\ TypeIInv /\ [Next]_vars => (ExportIInv /\ TypeIInv)'
  BY StepGathers, StepTypes DEF ExportIInv
<1> QED BY <1>1, <1>2, InitOK, StepOK, PTL DEF Spec

\* capella_fixture_export and admin_fixture_export over a source that keeps changing:
\* the types hold, every document nobody wrote meanwhile is in the file of its
\* collection once and at its version, and without a warning no such document's
\* collection is missing, for any page size, number of documents, writes and faults.
THEOREM ExportsAreExact == Spec => []ExportInv
<1>1. IInv /\ ExportIInv /\ TypeIInv => ExportInv
  BY TypesHold, StableAreExported, NoneLost DEF ExportInv
<1> QED BY <1>1, FixturesTyped, PTL
--------------------------------------------------------------------------------
\* What an import has loaded.  A map that sends two keyspaces to one place would let
\* the documents of one overwrite those of the other.
OneToOne ==
  \A call \in ImportCalls : \A j, k \in Keyspaces :
    RemapKeyspace(j, call[1]) = RemapKeyspace(k, call[1]) => j = k

LoadIInv == DistinctOK /\ CheckedOK /\ ArrivedOK /\ ProgressOK

LEMMA ToIs ==
  ASSUME OneToOne, ImportOK
  PROVE  /\ \A k \in Keyspaces : To(k) \in TargetKeyspaces
         /\ \A j, k \in Keyspaces : To(j) = To(k) => j = k
<1>1. import.map \in {<<>>} \union Maps
  BY DEF ImportOK
<1>2. \A k \in Keyspaces : To(k) \in TargetKeyspaces
  BY <1>1, MapsInside DEF To, TargetKeyspaces
<1>3. CASE import.map = <<>>
  <2>1. \A k \in Keyspaces : To(k) = k
    BY <1>3 DEF To, RemapKeyspace
  <2> QED BY <1>2, <2>1
<1>4. CASE import.map \in Maps
  <2>1. PICK call \in ImportCalls : import.map = call[1]
    BY <1>4 DEF Maps
  <2> QED BY <1>2, <2>1 DEF OneToOne, To
<1> QED BY <1>1, <1>3, <1>4

\* What was checked stays as it was, while no export interferes.
LEMMA CheckStays ==
  ASSUME DistinctOK, CheckedOK, Settled, Quiet, import.pc \notin Ended
  PROVE  DistinctOK' /\ CheckedOK'
<1>1. DistinctOK'
  BY DEF DistinctOK, Settled
<1>2. CheckedOK'
  BY DEF CheckedOK, Settled, Quiet, importHistory, FixtureIntegrity
<1> QED BY <1>1, <1>2

LEMMA ArrivedStays ==
  ASSUME ArrivedOK, Settled, Quiet, target'.documents = target.documents,
         import.pc \in Loading, ~ import'.problem => ~ import.problem,
         \A r \in import.manifest.files : Due(r) => Due(r)'
  PROVE  ArrivedOK'
<1> SUFFICES ASSUME ~ raced', import'.pc \in Loading, ~ import'.problem,
                    NEW r \in import'.manifest.files
             PROVE  Due(r)' \/ Has(To(r.keyspace), r)'
  BY DEF ArrivedOK
<1>1. Due(r) \/ Has(To(r.keyspace), r)
  BY DEF ArrivedOK, Settled, Quiet, importHistory
<1>2. Has(To(r.keyspace), r) => Has(To(r.keyspace), r)'
  BY DEF Has, To, Settled
<1> QED BY <1>1, <1>2 DEF Settled

\* Outside the documents the call says nothing of them.
LEMMA LoadsNothing ==
  ASSUME DistinctOK, CheckedOK, Settled, Quiet, import.pc \notin Ended,
         import'.pc \notin Loading
  PROVE  LoadIInv'
BY CheckStays DEF LoadIInv, ArrivedOK, ProgressOK, Loading

\* After the documents they stay.
LEMMA LoadsNoMore ==
  ASSUME LoadIInv, Settled, Quiet, target'.documents = target.documents,
         import.pc \in {"indexes", "build"}, import'.pc \in {"indexes", "build", "done"},
         ~ import'.problem => ~ import.problem
  PROVE  LoadIInv'
<1>1. import.pc \notin Ended /\ import.pc \in Loading
  BY DEF Ended, Loading
<1>2. DistinctOK' /\ CheckedOK'
  BY <1>1, CheckStays DEF LoadIInv
<1>3. \A r \in import.manifest.files : ~ Due(r)
  BY DEF Due
<1>4. ArrivedOK'
  BY <1>1, <1>3, ArrivedStays DEF LoadIInv
<1>5. ProgressOK'
  BY DEF ProgressOK
<1> QED BY <1>2, <1>4, <1>5 DEF LoadIInv

LEMMA StartImportLoads == ASSUME DirOK, StartImport PROVE LoadIInv'
<1>1. import'.pc \in {"plan", "refused"} /\ UNCHANGED dir
      /\ (import'.pc = "plan" => FixtureIntegrity(dir, import'.manifest))
      /\ import'.manifest.files \subseteq Records
  BY StartImportDoes
<1>2. CheckedOK'
  BY <1>1 DEF CheckedOK, Ended, FixtureIntegrity
<1>3. ArrivedOK' /\ ProgressOK'
  BY <1>1 DEF ArrivedOK, ProgressOK, Loading
<1>4. DistinctOK'
  <2>1. CASE import'.pc = "plan"
    <3> SUFFICES ASSUME NEW r \in import'.manifest.files, NEW s \in import'.manifest.files,
                        r.keyspace = s.keyspace
                 PROVE  r = s
      BY DEF DistinctOK
    <3>1. r.sha256 = s.sha256 /\ r.document_count = s.document_count
      BY <1>1, <2>1 DEF FixtureIntegrity, Sha256File, CountLines
    <3>2. /\ r \in [keyspace : Keyspaces, sha256 : Written, document_count : 1..Cardinality(Keys)]
          /\ s \in [keyspace : Keyspaces, sha256 : Written, document_count : 1..Cardinality(Keys)]
      BY <1>1 DEF Records, Files
    <3> QED BY <3>1, <3>2
  <2>2. CASE import'.pc = "refused"
    <3>1. import'.manifest.files = {}
      <4>1. ~ Verifies(dir)
        <5> SUFFICES ASSUME Verifies(dir) PROVE FALSE
          OBVIOUS
        <5>1. PICK call \in ImportCalls :
                import' = [Free EXCEPT !.pc = "plan", !.map = call[1], !.build = call[2],
                                       !.manifest = dir.manifest]
          BY DEF StartImport
        <5> QED BY <2>2, <5>1 DEF Free
      <4>2. import'.manifest = NoManifestRead
        BY <4>1 DEF StartImport, Free
      <4> QED BY <4>2 DEF NoManifestRead
    <3> QED BY <3>1 DEF DistinctOK
  <2> QED BY <1>1, <2>1, <2>2
<1> QED BY <1>2, <1>3, <1>4 DEF LoadIInv

LEMMA EarlyLoads ==
  ASSUME TypeIInv, LoadIInv, PlanBuckets \/ PlanFiles \/ CreateBucket \/ CreateCollection
  PROVE  LoadIInv'
<1>1. Before({"buckets", "structure", "refused"})
  <2>1. CASE PlanBuckets
    BY <2>1, PlanBucketsDoes
  <2>2. CASE PlanFiles
    BY <2>2, PlanFilesDoes DEF Before
  <2>3. CASE CreateBucket
    BY <2>3, CreateBucketTypes DEF Before
  <2>4. CASE CreateCollection
    BY <2>4, CreateCollectionDoes DEF Before
  <2> QED BY <2>1, <2>2, <2>3, <2>4
<1>2. import.pc \notin Ended
  BY DEF PlanBuckets, PlanFiles, CreateBucket, CreateCollection, Ended
<1>3. Settled /\ Quiet /\ import'.pc \notin Loading
  BY <1>1 DEF Before, Quiet, Loading
<1> QED BY <1>2, <1>3, LoadsNothing DEF LoadIInv

LEMMA StartDocumentsLoads == ASSUME TypeIInv, LoadIInv, StartDocuments PROVE LoadIInv'
<1>1. /\ Settled /\ Quiet /\ target'.documents = target.documents
      /\ \/ import'.pc = "documents" /\ import'.todo = import.manifest.files
         \/ import'.pc = "incomplete"
  BY StartDocumentsDoes DEF TypeIInv
<1>2. import.pc \notin Ended
  BY DEF StartDocuments, Ended
<1>3. CASE import'.pc = "incomplete"
  BY <1>1, <1>2, <1>3, LoadsNothing DEF LoadIInv, Loading
<1>4. CASE import'.pc = "documents" /\ import'.todo = import.manifest.files
  <2>1. \A r \in import'.manifest.files : Due(r)'
    BY <1>1, <1>4 DEF Due, Settled
  <2>2. ArrivedOK' /\ ProgressOK'
    BY <1>4, <2>1 DEF ArrivedOK, ProgressOK
  <2> QED BY <1>1, <1>2, <2>2, CheckStays DEF LoadIInv
<1> QED BY <1>1, <1>3, <1>4

LEMMA StartFileLoads == ASSUME TypeIInv, LoadIInv, StartFile PROVE LoadIInv'
<1>1. /\ Settled /\ Quiet /\ target'.documents = target.documents
      /\ ImportOK /\ import.pc = "documents" /\ import.pc \notin Ended
  BY StartFileDoes DEF TypeIInv, StartFile, Ended
<1>2. PICK r \in import.todo :
              /\ r \in import.manifest.files /\ import'.todo = import.todo \ {r}
              /\ \/ /\ dir.data[r.keyspace] = NoFile /\ import'.pc = "documents"
                    /\ import'.problem = TRUE /\ Counted0
                 \/ /\ dir.data[r.keyspace] # NoFile /\ import'.pc = "lines"
                    /\ import'.now = r /\ import'.problem = import.problem
                    /\ import'.line = 0 /\ import'.loaded = 0 /\ import'.failed = 0
  BY <1>1, StartFileDoes
<1>3. DistinctOK' /\ CheckedOK'
  BY <1>1, CheckStays DEF LoadIInv
<1>4. CASE import'.problem = TRUE /\ import'.pc = "documents"
  BY <1>3, <1>4 DEF LoadIInv, ArrivedOK, ProgressOK
<1>5. CASE /\ import'.pc = "lines" /\ import'.now = r /\ import'.problem = import.problem
           /\ import'.line = 0
  <2>1. \A s \in import.manifest.files : Due(s) => Due(s)'
    BY <1>1, <1>2, <1>5 DEF Due
  <2>2. ArrivedOK'
    BY <1>1, <1>5, <2>1, ArrivedStays DEF LoadIInv, Loading
  <2>3. r.sha256 \in Seq(Documents)
    BY <1>1, <1>2, WrittenIsSeq DEF ImportOK, Records, Files
  <2>4. import'.line <= Len(import'.now.sha256)
    BY <1>5, <2>3
  <2>5. Put(To(import.now.keyspace), import.now, import.line)'
    BY <1>5 DEF Put
  <2> QED BY <1>3, <2>2, <2>4, <2>5 DEF LoadIInv, ProgressOK
<1> QED BY <1>2, <1>4, <1>5

\* One more line of an ordered file is put at one place.
PutsLine(documents, to, file, n, after) ==
  /\ documents \in [TargetKeyspaces -> [Keys -> {0} \union Versions]]
  /\ to \in TargetKeyspaces /\ file \in Seq(Documents) /\ Sorted(file)
  /\ n \in Nat /\ n + 1 \in 1..Len(file)
  /\ after = [documents EXCEPT ![to][file[n + 1].key] = file[n + 1].version]
LEMMA PutOne ==
  ASSUME NEW documents, NEW to, NEW file, NEW n, NEW after,
         PutsLine(documents, to, file, n, after)
  PROVE  /\ \A t \in TargetKeyspaces : t # to => after[t] = documents[t]
         /\ \A key \in Keys : key # file[n + 1].key => after[to][key] = documents[to][key]
         /\ (\A i \in 1..n : documents[to][file[i].key] = file[i].version) =>
              \A i \in 1..(n + 1) : after[to][file[i].key] = file[i].version
<1> USE DEF PutsLine
<1>1. /\ Len(file) \in Nat /\ DOMAIN file = 1..Len(file)
      /\ \A i \in 1..Len(file) : file[i] \in Documents
  OBVIOUS
<1>2. \A i \in 1..Len(file) : file[i].key \in Keys /\ file[i].key \in Nat
  BY <1>1, KeysFacts DEF Documents
<1>3. PICK key, version : key = file[n + 1].key /\ version = file[n + 1].version
  OBVIOUS
<1>4. key \in Keys /\ after = [documents EXCEPT ![to][key] = version]
  BY <1>1, <1>2, <1>3
<1>5. /\ \A t \in TargetKeyspaces : t # to => after[t] = documents[t]
      /\ \A other \in Keys : other # key => after[to][other] = documents[to][other]
      /\ after[to][key] = version
  BY <1>4
<1>6. \A i \in 1..n : i \in 1..Len(file) /\ file[i].key # key
  <2> TAKE i \in 1..n
  <2>1. i \in 1..Len(file) /\ i < n + 1
    BY <1>1
  <2>2. file[i].key < file[n + 1].key
    BY <1>1, <2>1 DEF Sorted
  <2> QED BY <1>2, <1>3, <2>1, <2>2
<1>7. ASSUME \A i \in 1..n : documents[to][file[i].key] = file[i].version,
             NEW i \in 1..(n + 1)
      PROVE  after[to][file[i].key] = file[i].version
  <2>1. CASE i = n + 1
    BY <1>3, <1>5, <2>1
  <2>2. CASE i # n + 1
    <3>1. i \in 1..n
      BY <2>2
    <3> QED BY <1>2, <1>5, <1>6, <1>7, <3>1
  <2> QED BY <2>1, <2>2
<1> QED BY <1>3, <1>5, <1>7

\* The line that is put is the line that was checked.
LEMMA LineIsChecked ==
  ASSUME ImportOK, CheckedOK, ~ raced, import.pc = "lines"
  PROVE  /\ Lines = import.now.sha256 /\ import.now \in Records
         /\ import.now \in import.manifest.files
         /\ import.now.sha256 \in Seq(Documents) /\ Sorted(import.now.sha256)
         /\ import.now.document_count = Len(import.now.sha256)
         /\ import.now.keyspace \in Keyspaces
<1>1. import.now \in import.manifest.files /\ import.now \in Records
  BY DEF ImportOK
<1>2. FixtureIntegrity(dir, import.manifest)
  BY DEF CheckedOK, Ended
<1>3. /\ dir.data[import.now.keyspace] # NoFile
      /\ dir.data[import.now.keyspace] = import.now.sha256
  BY <1>1, <1>2 DEF FixtureIntegrity, Sha256File
<1> QED BY <1>1, <1>3, WrittenIsSeq DEF Lines, Records, Files

LEMMA PutDocumentLoads ==
  ASSUME OneToOne, TypeIInv, DirOK, LoadIInv, PutDocument
  PROVE  LoadIInv'
<1>1. /\ ImportOK /\ import.pc = "lines" /\ import.pc \notin Ended /\ import.line \in Nat
      /\ import.failed \in Nat
  BY DEF TypeIInv, ImportOK, PutDocument, Ended
<1>2. /\ Settled /\ Quiet /\ import'.pc = "lines" /\ import'.todo = import.todo
      /\ import'.now = import.now /\ import'.problem = import.problem
      /\ import.line + 1 \in 1..Len(Lines) /\ import'.line = import.line + 1
  BY PutDocumentDoes
<1>3. DistinctOK' /\ CheckedOK'
  BY <1>1, <1>2, CheckStays DEF LoadIInv
<1>4. CASE raced
  <2>1. raced'
    BY <1>2, <1>4 DEF Quiet, importHistory
  <2> QED BY <1>3, <2>1 DEF LoadIInv, ArrivedOK, ProgressOK
<1>5. CASE ~ raced
  <2>1. PICK file, to, n : /\ file = import.now.sha256 /\ n = import.line
                           /\ to = RemapKeyspace(import.now.keyspace, import.map)
    OBVIOUS
  <2>2. /\ Lines = file /\ file \in Seq(Documents) /\ Sorted(file)
        /\ import.now.keyspace \in Keyspaces /\ import.now \in import.manifest.files
        /\ n \in Nat /\ n + 1 \in 1..Len(file)
    BY <1>1, <1>2, <1>5, <2>1, LineIsChecked DEF LoadIInv
  <2>3. to \in TargetKeyspaces /\ to = To(import.now.keyspace)
    BY <1>1, <2>1, <2>2, ToIs DEF To
  <2>4. PICK documents \in [TargetKeyspaces -> [Keys -> {0} \union Versions]] :
          documents = target.documents
    BY DEF TypeIInv, TargetOK
  <2>9. PICK done : done = [documents EXCEPT ![to][file[n + 1].key] = file[n + 1].version]
    OBVIOUS
  <2>5. \/ target'.documents = done /\ import'.failed = import.failed
        \/ /\ target'.documents \in {done, documents}
           /\ import'.failed = import.failed + 1
    BY <2>1, <2>2, <2>4, <2>9, PutDocumentDoes
  <2>6. /\ \A t \in TargetKeyspaces : t # to => done[t] = documents[t]
        /\ (\A i \in 1..n : documents[to][file[i].key] = file[i].version) =>
             \A i \in 1..(n + 1) : done[to][file[i].key] = file[i].version
    <3>1. PutsLine(documents, to, file, n, done)
      BY <2>2, <2>3, <2>9 DEF PutsLine
    <3> QED BY <3>1, PutOne
  <2>7. ProgressOK'
    <3>1. import'.line <= Len(import'.now.sha256)
      BY <1>2, <2>1, <2>2
    <3>2. ASSUME import'.failed = 0
          PROVE  Put(To(import.now.keyspace), import.now, import.line)'
      <4>1. target'.documents = done /\ import.failed = 0
        BY <1>1, <2>5, <3>2
      <4>2. Put(To(import.now.keyspace), import.now, import.line)
        BY <1>1, <1>5, <4>1 DEF LoadIInv, ProgressOK
      <4>3. \A i \in 1..n : documents[to][file[i].key] = file[i].version
        BY <2>1, <2>3, <2>4, <4>2 DEF Put
      <4>4. \A i \in 1..(n + 1) : done[to][file[i].key] = file[i].version
        BY <2>6, <4>3
      <4>5. To(import.now.keyspace)' = to
        BY <1>2, <2>1 DEF To, Settled
      <4> QED BY <1>2, <2>1, <4>1, <4>4, <4>5 DEF Put
    <3> QED BY <3>1, <3>2 DEF ProgressOK
  <2>8. ArrivedOK'
    <3> SUFFICES ASSUME ~ import'.problem, NEW r \in import.manifest.files
                 PROVE  Due(r)' \/ Has(To(r.keyspace), r)'
      BY <1>2 DEF ArrivedOK, Settled
    <3>1. Due(r) \/ Has(To(r.keyspace), r)
      BY <1>1, <1>2, <1>5 DEF LoadIInv, ArrivedOK, Loading
    <3>2. CASE Due(r)
      BY <1>1, <1>2, <3>2 DEF Due
    <3>3. CASE ~ Due(r)
      <4>1. r # import.now
        BY <1>1, <3>3 DEF Due
      <4>2. r.keyspace \in Keyspaces /\ r.keyspace # import.now.keyspace
        BY <1>1, <2>2, <4>1 DEF LoadIInv, DistinctOK, ImportOK, Records, Files
      <4>3. To(r.keyspace) # to /\ To(r.keyspace) \in TargetKeyspaces
        BY <1>1, <2>2, <2>3, <4>2, ToIs
      <4>4. target'.documents[To(r.keyspace)] = target.documents[To(r.keyspace)]
        BY <2>4, <2>5, <2>6, <4>3
      <4>5. To(r.keyspace)' = To(r.keyspace)
        BY <1>2 DEF To, Settled
      <4> QED BY <3>1, <3>3, <4>4, <4>5 DEF Has
    <3> QED BY <3>2, <3>3
  <2> QED BY <1>3, <2>7, <2>8 DEF LoadIInv
<1> QED BY <1>4, <1>5

LEMMA EndFileLoads == ASSUME TypeIInv, LoadIInv, EndFile PROVE LoadIInv'
<1>1. /\ ImportOK /\ import.pc = "lines" /\ import.pc \notin Ended
      /\ import.failed \in Nat /\ import.loaded \in Nat /\ import.line \in Nat
      /\ import.failed + import.loaded = import.line
  BY DEF TypeIInv, ImportOK, EndFile, Ended
<1>2. /\ Settled /\ Counted0 /\ Quiet /\ target'.documents = target.documents
      /\ import'.pc = "documents" /\ import'.todo = import.todo
      /\ import'.problem = \/ import.problem \/ import.failed > 0
                           \/ import.loaded # import.now.document_count
  BY <1>1, EndFileDoes
<1>3. DistinctOK' /\ CheckedOK'
  BY <1>1, <1>2, CheckStays DEF LoadIInv
<1>4. ProgressOK'
  BY <1>2 DEF ProgressOK
<1>5. ArrivedOK'
  <2> SUFFICES ASSUME ~ raced', ~ import'.problem, NEW r \in import.manifest.files
               PROVE  Due(r)' \/ Has(To(r.keyspace), r)'
    BY <1>2 DEF ArrivedOK, Settled
  <2>1. /\ ~ raced /\ ~ import.problem /\ import.failed = 0
        /\ import.loaded = import.now.document_count
    BY <1>1, <1>2 DEF Quiet, importHistory
  <2>2. Due(r) \/ Has(To(r.keyspace), r)
    BY <1>1, <2>1 DEF LoadIInv, ArrivedOK, Loading
  <2>3. Has(To(r.keyspace), r) => Has(To(r.keyspace), r)'
    BY <1>2 DEF Has, To, Settled
  <2>4. r = import.now => Has(To(r.keyspace), r)
    <3>1. Put(To(import.now.keyspace), import.now, import.line)
      BY <1>1, <2>1 DEF LoadIInv, ProgressOK
    <3>2. /\ import.line = Len(import.now.sha256)
          /\ import.now.sha256 \in Seq(Documents)
      BY <1>1, <2>1, LineIsChecked DEF LoadIInv
    <3>3. DOMAIN import.now.sha256 = 1..import.line
      BY <3>2
    <3> QED BY <3>1, <3>3 DEF Put, Has
  <2>5. r \in import.todo => Due(r)'
    BY <1>2 DEF Due
  <2> QED BY <1>1, <2>2, <2>3, <2>4, <2>5 DEF Due
<1> QED BY <1>3, <1>4, <1>5 DEF LoadIInv

LEMMA StartIndexesLoads == ASSUME TypeIInv, LoadIInv, StartIndexes PROVE LoadIInv'
<1>1. /\ Settled /\ Quiet /\ target'.documents = target.documents
      /\ import.pc = "documents" /\ import.todo = {} /\ import'.pc = "indexes"
      /\ import'.problem = import.problem
  BY StartIndexesDoes DEF TypeIInv
<1>2. import.pc \notin Ended /\ import.pc \in Loading
  BY <1>1 DEF Ended, Loading
<1>3. \A r \in import.manifest.files : ~ Due(r)
  BY <1>1 DEF Due
<1>4. DistinctOK' /\ CheckedOK' /\ ArrivedOK'
  BY <1>1, <1>2, <1>3, CheckStays, ArrivedStays DEF LoadIInv
<1> QED BY <1>1, <1>4 DEF LoadIInv, ProgressOK

LEMMA IndexesLoad ==
  ASSUME TypeIInv, LoadIInv,
         CreateIndex \/ EndIndexes \/ BuildKeyspace \/ EndBuild \/ BuildBuckets
  PROVE  LoadIInv'
<1>1. CASE CreateIndex
  <2>1. /\ Settled /\ Quiet /\ target'.documents = target.documents
        /\ import'.pc = "indexes" /\ (~ import'.problem => ~ import.problem)
    BY <1>1, CreateIndexDoes DEF OnlyIndexes
  <2> QED BY <1>1, <2>1, LoadsNoMore DEF CreateIndex
<1>2. CASE EndIndexes
  BY <1>2, EndIndexesDoes, LoadsNoMore DEF TypeIInv
<1>3. CASE BuildKeyspace
  <2>1. /\ Settled /\ Quiet /\ target'.documents = target.documents
        /\ import'.pc = "build" /\ import.pc = "build"
        /\ (~ import'.problem => ~ import.problem)
    BY <1>3, BuildKeyspaceDoes, BuildDoes DEF OnlyIndexes, TypeIInv
  <2> QED BY <2>1, LoadsNoMore
<1>4. CASE EndBuild
  BY <1>4, EndBuildDoes, LoadsNoMore DEF TypeIInv
<1>5. CASE BuildBuckets
  <2>1. /\ Settled /\ Quiet /\ target'.documents = target.documents
        /\ import'.pc = "done" /\ import.pc = "indexes"
        /\ (~ import'.problem => ~ import.problem)
    BY <1>5, BuildBucketsDoes, BuildDoes DEF OnlyIndexes, TypeIInv
  <2> QED BY <2>1, LoadsNoMore
<1> QED BY <1>1, <1>2, <1>3, <1>4, <1>5

LEMMA ImportStepLoads ==
  ASSUME OneToOne, TypeIInv, DirOK, LoadIInv, ImportStep
  PROVE  LoadIInv'
BY StartImportLoads, EarlyLoads, StartDocumentsLoads, StartFileLoads, PutDocumentLoads,
   EndFileLoads, StartIndexesLoads, IndexesLoad DEF ImportStep

LEMMA ExportingLoads == ASSUME LoadIInv, Exporting PROVE LoadIInv'
<1>1. /\ UNCHANGED <<target, import>>
      /\ ~ raced' => /\ ~ raced
                     /\ dir' = dir \/ import.pc \in Ended
  BY ExportingStill
<1>2. CheckedOK'
  BY <1>1 DEF LoadIInv, CheckedOK, FixtureIntegrity
<1>3. ArrivedOK' /\ ProgressOK' /\ DistinctOK'
  BY <1>1 DEF LoadIInv, ArrivedOK, ProgressOK, DistinctOK, Due, Has, Put, To
<1> QED BY <1>2, <1>3 DEF LoadIInv

LEMMA StillLoads ==
  ASSUME LoadIInv, UNCHANGED <<import, dir, raced>>, target'.documents = target.documents
  PROVE  LoadIInv'
<1>1. CheckedOK'
  BY DEF LoadIInv, CheckedOK, FixtureIntegrity
<1>2. ArrivedOK' /\ ProgressOK' /\ DistinctOK'
  BY DEF LoadIInv, ArrivedOK, ProgressOK, DistinctOK, Due, Has, Put, To
<1> QED BY <1>1, <1>2 DEF LoadIInv

LEMMA FreeLoads == import' = Free => LoadIInv'
<1> SUFFICES ASSUME import' = Free PROVE LoadIInv'
  OBVIOUS
<1>1. import'.pc = "idle" /\ import'.manifest.files = {}
  BY FreeIs DEF NoManifestRead
<1> QED BY <1>1 DEF LoadIInv, CheckedOK, ArrivedOK, ProgressOK, DistinctOK, Ended, Loading

LEMMA StepLoads ==
  ASSUME OneToOne, TypeIInv, DirOK, LoadIInv, [Next]_vars
  PROVE  LoadIInv'
<1>1. CASE Exporting
  BY <1>1, ExportingLoads
<1>2. CASE Importing
  BY <1>2, ImportStepLoads DEF Importing
<1>3. CASE Online
  BY <1>3, OnlineDoes, StillLoads DEF OnlyIndexes, importHistory
<1>4. CASE Restart
  BY <1>4, FreeLoads DEF Restart
<1>5. CASE UNCHANGED vars
  BY <1>5, StillLoads DEF vars, importVars
<1> QED BY <1>1, <1>2, <1>3, <1>4, <1>5 DEF Next
--------------------------------------------------------------------------------
\* A target that held no documents holds those of the fixture only.
LEMMA CleanStays ==
  ASSUME CleanOK, Settled, Quiet, target'.documents = target.documents,
         import.pc \notin {"idle", "refused", "incomplete"}
  PROVE  CleanOK'
BY DEF CleanOK, Settled, Quiet, importHistory, To

LEMMA CleanElsewhere == import'.pc \in {"idle", "refused", "incomplete"} => CleanOK'
BY DEF CleanOK

LEMMA StartImportClean == ASSUME DirOK, StartImport PROVE CleanOK'
<1>1. /\ clean' = \A k \in TargetKeyspaces : target.documents[k] = NoDocuments
      /\ target' = target
  BY StartImportDoes
<1>2. ASSUME clean' PROVE \A t \in TargetKeyspaces, key \in Keys : target'.documents[t][key] = 0
  BY <1>1, <1>2 DEF NoDocuments
<1> QED BY <1>2 DEF CleanOK

LEMMA PutDocumentClean ==
  ASSUME OneToOne, TypeIInv, DirOK, LoadIInv, CleanOK, PutDocument
  PROVE  CleanOK'
<1>1. /\ ImportOK /\ import.pc = "lines"
  BY DEF TypeIInv, PutDocument
<1>2. /\ Settled /\ Quiet /\ import'.pc = "lines"
      /\ import.line + 1 \in 1..Len(Lines)
  BY PutDocumentDoes
<1> SUFFICES ASSUME clean', ~ raced',
                    NEW t \in TargetKeyspaces, NEW key \in Keys, target'.documents[t][key] # 0
             PROVE  \E r \in import.manifest.files : To(r.keyspace) = t /\ key \in KeysOf(r)
  BY <1>2 DEF CleanOK, Settled, To
<1>3. clean /\ ~ raced
  BY <1>2 DEF Quiet, importHistory
<1>4. PICK file, to, document :
        /\ file = import.now.sha256 /\ to = RemapKeyspace(import.now.keyspace, import.map)
        /\ document = Lines[import.line + 1]
  OBVIOUS
<1>5. /\ Lines = file /\ import.now.keyspace \in Keyspaces
      /\ import.now \in import.manifest.files /\ file \in Seq(Documents)
  BY <1>1, <1>3, <1>4, LineIsChecked DEF LoadIInv
<1>6. import.line + 1 \in DOMAIN file
  BY <1>2, <1>5
<1>7. to = To(import.now.keyspace) /\ document.key \in KeysOf(import.now)
  BY <1>4, <1>5, <1>6 DEF To, KeysOf
<1>8. \/ target'.documents = [target.documents EXCEPT ![to][document.key] = document.version]
      \/ target'.documents = target.documents
  BY <1>4, PutDocumentDoes
<1>9. CASE t = to /\ key = document.key
  BY <1>5, <1>7, <1>9
<1>10. CASE ~ (t = to /\ key = document.key)
  <2>1. PICK documents \in [TargetKeyspaces -> [Keys -> {0} \union Versions]] :
          documents = target.documents
    BY DEF TypeIInv, TargetOK
  <2>2. target'.documents[t][key] = target.documents[t][key]
    BY <1>8, <1>10, <2>1
  <2> QED BY <1>1, <1>3, <2>2 DEF CleanOK
<1> QED BY <1>9, <1>10

LEMMA ImportStepClean ==
  ASSUME OneToOne, TypeIInv, DirOK, LoadIInv, CleanOK, ImportStep
  PROVE  CleanOK'
<1>1. CASE StartImport
  BY <1>1, StartImportClean
<1>2. CASE PlanBuckets \/ PlanFiles \/ CreateBucket \/ CreateCollection
  <2>1. Settled /\ Quiet /\ target'.documents = target.documents
    BY <1>2, PlanBucketsDoes, PlanFilesDoes, CreateBucketTypes, CreateCollectionDoes
       DEF Before, Quiet
  <2>2. import.pc \notin {"idle", "refused", "incomplete"}
    BY <1>2 DEF PlanBuckets, PlanFiles, CreateBucket, CreateCollection
  <2> QED BY <2>1, <2>2, CleanStays
<1>3. CASE StartDocuments \/ StartFile \/ EndFile \/ StartIndexes \/ EndIndexes \/ EndBuild
  <2>1. Settled /\ Quiet /\ target'.documents = target.documents
    BY <1>3, StartDocumentsDoes, StartFileDoes, EndFileDoes, StartIndexesDoes,
       EndIndexesDoes, EndBuildDoes DEF TypeIInv
  <2>2. import.pc \notin {"idle", "refused", "incomplete"}
    BY <1>3 DEF StartDocuments, StartFile, EndFile, StartIndexes, EndIndexes, EndBuild
  <2> QED BY <2>1, <2>2, CleanStays
<1>4. CASE CreateIndex \/ BuildKeyspace \/ BuildBuckets
  <2>1. Settled /\ Quiet /\ target'.documents = target.documents
    <3>1. CASE CreateIndex
      BY <3>1, CreateIndexDoes DEF OnlyIndexes
    <3>2. CASE BuildKeyspace
      BY <3>2, BuildKeyspaceDoes, BuildDoes DEF OnlyIndexes, TypeIInv
    <3>3. CASE BuildBuckets
      BY <3>3, BuildBucketsDoes, BuildDoes DEF OnlyIndexes, TypeIInv
    <3> QED BY <1>4, <3>1, <3>2, <3>3
  <2>2. import.pc \notin {"idle", "refused", "incomplete"}
    BY <1>4 DEF CreateIndex, BuildKeyspace, BuildBuckets
  <2> QED BY <2>1, <2>2, CleanStays
<1>5. CASE PutDocument
  BY <1>5, PutDocumentClean
<1> QED BY <1>1, <1>2, <1>3, <1>4, <1>5 DEF ImportStep

LEMMA StillClean ==
  ASSUME CleanOK, UNCHANGED <<import, clean>>, ~ raced' => ~ raced,
         target'.documents = target.documents
  PROVE  CleanOK'
BY DEF CleanOK, To

LEMMA StepClean ==
  ASSUME OneToOne, TypeIInv, DirOK, LoadIInv, CleanOK, [Next]_vars
  PROVE  CleanOK'
<1>1. CASE Exporting
  BY <1>1, ExportingStill, StillClean
<1>2. CASE Importing
  BY <1>2, ImportStepClean DEF Importing
<1>3. CASE Online
  BY <1>3, OnlineDoes, StillClean DEF OnlyIndexes, importHistory
<1>4. CASE Restart
  BY <1>4, FreeIs, CleanElsewhere DEF Restart
<1>5. CASE UNCHANGED vars
  BY <1>5, StillClean DEF vars, importVars
<1> QED BY <1>1, <1>2, <1>3, <1>4, <1>5 DEF Next
--------------------------------------------------------------------------------
\* What Enterprise Edition created it builds.
LEMMA BuiltElsewhere ==
  import'.pc \notin {"indexes", "build", "done"} \/ edition' # "ee" => BuiltOK'
BY DEF BuiltOK

\* One created index: where it is, and how far.
States == {"none", "deferred", "building", "online"}
Further(state, next) ==
  /\ state # "none" => next # "none"
  /\ state \in {"building", "online"} => next \in {"building", "online"}

LEMMA BuiltStays ==
  ASSUME BuiltOK, Settled, UNCHANGED edition, import'.made = import.made,
         import.pc \in {"indexes", "build", "done"},
         import'.pc = import.pc, import'.todo = import.todo,
         import.problem => import'.problem,
         \A t \in TargetKeyspaces : Further(target.indexes[t], target'.indexes[t]),
         \A k \in Keyspaces : To(k) \in TargetKeyspaces
  PROVE  BuiltOK'
<1> SUFFICES ASSUME edition = "ee", NEW made \in import.made
             PROVE  /\ made[2] = To(made[1].keyspace)' /\ made[1].keyspace \in Keyspaces
                    /\ target'.indexes[made[2]] # "none"
                    /\ \/ import.pc = "indexes"
                       \/ import.pc = "build" /\ made \in import.todo
                       \/ import'.problem
                       \/ target'.indexes[made[2]] \in {"building", "online"}
  BY DEF BuiltOK
<1>1. /\ made[2] = To(made[1].keyspace) /\ made[1].keyspace \in Keyspaces
      /\ target.indexes[made[2]] # "none"
      /\ \/ import.pc = "indexes"
         \/ import.pc = "build" /\ made \in import.todo
         \/ import.problem
         \/ target.indexes[made[2]] \in {"building", "online"}
  BY DEF BuiltOK
<1>2. made[2] = To(made[1].keyspace)' /\ made[2] \in TargetKeyspaces
  BY <1>1 DEF To, Settled
<1>3. Further(target.indexes[made[2]], target'.indexes[made[2]])
  BY <1>2
<1> QED BY <1>1, <1>2, <1>3 DEF Further

LEMMA CreateIndexBuilt == ASSUME TypeIInv, BuiltOK, CreateIndex PROVE BuiltOK'
<1>1. /\ ImportOK /\ import.pc = "indexes"
      /\ \A k \in Keyspaces : To(k) \in TargetKeyspaces
      /\ import.manifest.indexes \subseteq Indexes
  BY MapsInside DEF TypeIInv, ImportOK, CreateIndex, To, TargetKeyspaces
<1>2. /\ Settled /\ UNCHANGED edition /\ import'.pc = "indexes"
      /\ \E i, to :
           /\ i \in import.manifest.indexes
           /\ \/ target'.indexes = [target.indexes EXCEPT ![to] = "deferred"]
              \/ target'.indexes = target.indexes
           /\ \/ import'.made = import.made
              \/ /\ import'.made = import.made \union {<<i, to>>}
                 /\ target'.indexes = [target.indexes EXCEPT ![to] = "deferred"]
                 /\ to \in RewriteIndexKeyspace(i, import.map)
  BY CreateIndexDoes DEF Quiet
<1>3. PICK i, to :
           /\ i \in import.manifest.indexes
           /\ \/ target'.indexes = [target.indexes EXCEPT ![to] = "deferred"]
              \/ target'.indexes = target.indexes
           /\ \/ import'.made = import.made
              \/ /\ import'.made = import.made \union {<<i, to>>}
                 /\ target'.indexes = [target.indexes EXCEPT ![to] = "deferred"]
                 /\ to \in RewriteIndexKeyspace(i, import.map)
  BY <1>2
<1>4. PICK indexes \in [TargetKeyspaces -> States] : indexes = target.indexes
  BY DEF TypeIInv, TargetOK, States
<1>5. \A t \in TargetKeyspaces : indexes[t] # "none" => target'.indexes[t] # "none"
  BY <1>3, <1>4
<1> SUFFICES ASSUME edition = "ee", NEW made \in import'.made
             PROVE  /\ made[2] = To(made[1].keyspace)' /\ made[1].keyspace \in Keyspaces
                    /\ target'.indexes[made[2]] # "none"
  BY <1>2 DEF BuiltOK
<1>6. CASE made \in import.made
  <2>1. /\ made[2] = To(made[1].keyspace) /\ made[1].keyspace \in Keyspaces
        /\ target.indexes[made[2]] # "none"
    BY <1>1, <1>6 DEF BuiltOK
  <2>2. made[2] = To(made[1].keyspace)' /\ made[2] \in TargetKeyspaces
    BY <1>1, <1>2, <2>1 DEF To, Settled
  <2> QED BY <1>4, <1>5, <2>1, <2>2
<1>7. CASE made \notin import.made
  <2>1. /\ made = <<i, to>> /\ to \in RewriteIndexKeyspace(i, import.map)
        /\ target'.indexes = [indexes EXCEPT ![to] = "deferred"]
    BY <1>3, <1>4, <1>7
  <2>2. PICK k \in Keyspaces : i = IndexOf(k)
    BY <1>1, <1>3 DEF Indexes
  <2>3. i.keyspace = k /\ i.bare = FALSE
    BY <2>2 DEF IndexOf
  <2>4. to = To(k)
    BY <2>1, <2>3 DEF RewriteIndexKeyspace, To
  <2>5. to \in TargetKeyspaces /\ To(k)' = to
    BY <1>1, <1>2, <2>4 DEF To, Settled
  <2>6. target'.indexes[to] = "deferred"
    BY <1>4, <2>1, <2>5
  <2> QED BY <2>1, <2>3, <2>5, <2>6
<1> QED BY <1>6, <1>7

LEMMA BuildKeyspaceBuilt == ASSUME TypeIInv, BuiltOK, BuildKeyspace PROVE BuiltOK'
<1>1. /\ TargetOK /\ import.pc = "build" /\ import.todo \subseteq import.made
      /\ \A k \in Keyspaces : To(k) \in TargetKeyspaces
  BY MapsInside DEF TypeIInv, ImportOK, BuildKeyspace, To, TargetKeyspaces
<1>2. /\ Settled /\ UNCHANGED edition /\ import'.pc = "build" /\ import'.made = import.made
      /\ \E made \in import.todo :
              /\ import'.todo = import.todo \ {made}
              /\ \/ /\ Build({To(made[1].keyspace)}) /\ import'.problem = import.problem
                 \/ /\ Build({To(made[1].keyspace)}) \/ UNCHANGED target
                    /\ import'.problem = TRUE
  BY BuildKeyspaceDoes DEF Quiet, To
<1>3. PICK m \in import.todo :
              /\ import'.todo = import.todo \ {m}
              /\ \/ /\ Build({To(m[1].keyspace)}) /\ import'.problem = import.problem
                 \/ /\ Build({To(m[1].keyspace)}) \/ UNCHANGED target
                    /\ import'.problem = TRUE
  BY <1>2
<1> SUFFICES ASSUME edition = "ee", NEW made \in import.made
             PROVE  /\ made[2] = To(made[1].keyspace)' /\ made[1].keyspace \in Keyspaces
                    /\ target'.indexes[made[2]] # "none"
                    /\ \/ made \in import'.todo
                       \/ import'.problem
                       \/ target'.indexes[made[2]] \in {"building", "online"}
  BY <1>2 DEF BuiltOK
<1>4. /\ made[2] = To(made[1].keyspace) /\ made[1].keyspace \in Keyspaces
      /\ target.indexes[made[2]] # "none"
      /\ \/ made \in import.todo
         \/ import.problem
         \/ target.indexes[made[2]] \in {"building", "online"}
  BY <1>1 DEF BuiltOK
<1>5. made[2] = To(made[1].keyspace)' /\ made[2] \in TargetKeyspaces
  BY <1>1, <1>2, <1>4 DEF To, Settled
<1>6. PICK indexes \in [TargetKeyspaces -> States] : indexes = target.indexes
  BY <1>1 DEF TargetOK, States
<1>7. ASSUME Build({To(m[1].keyspace)})
      PROVE  target'.indexes = [k \in TargetKeyspaces |->
                IF k = To(m[1].keyspace) /\ indexes[k] = "deferred"
                THEN "building" ELSE indexes[k]]
  BY <1>1, <1>6, <1>7, BuildDoes
<1>8. indexes[made[2]] \in States /\ indexes[made[2]] # "none"
  BY <1>4, <1>5, <1>6
<1>9. CASE UNCHANGED target /\ import'.problem = TRUE
  BY <1>4, <1>5, <1>9
<1>10. CASE Build({To(m[1].keyspace)})
  <2>1. target'.indexes[made[2]] = IF made[2] = To(m[1].keyspace) /\ indexes[made[2]] = "deferred"
                                   THEN "building" ELSE indexes[made[2]]
    BY <1>5, <1>7, <1>10
  <2>2. made = m => target'.indexes[made[2]] \in {"building", "online"}
    BY <1>4, <1>8, <2>1 DEF States
  <2>3. target'.indexes[made[2]] # "none"
    BY <1>8, <2>1
  <2>4. indexes[made[2]] \in {"building", "online"} =>
          target'.indexes[made[2]] \in {"building", "online"}
    BY <2>1
  <2>5. import.problem => import'.problem
    BY <1>3
  <2> QED BY <1>3, <1>4, <1>5, <1>6, <2>2, <2>3, <2>4, <2>5
<1> QED BY <1>3, <1>9, <1>10

LEMMA ImportStepBuilt ==
  ASSUME TypeIInv, DirOK, BuiltOK, ImportStep
  PROVE  BuiltOK'
<1>1. CASE StartImport
  BY <1>1, StartImportDoes, BuiltElsewhere
<1>2. CASE PlanBuckets \/ PlanFiles \/ CreateBucket \/ CreateCollection
  <2>1. import'.pc \in {"buckets", "structure", "refused"}
    BY <1>2, PlanBucketsDoes, PlanFilesDoes, CreateBucketTypes, CreateCollectionDoes DEF Before
  <2> QED BY <2>1, BuiltElsewhere
<1>3. CASE StartDocuments \/ StartFile \/ EndFile \/ PutDocument
  <2>1. import'.pc \in {"documents", "lines", "incomplete"}
    BY <1>3, StartDocumentsDoes, StartFileDoes, EndFileDoes, PutDocumentDoes DEF TypeIInv
  <2> QED BY <2>1, BuiltElsewhere
<1>4. CASE StartIndexes
  <2>1. import'.made = {}
    BY <1>4, StartIndexesDoes DEF TypeIInv
  <2> QED BY <2>1 DEF BuiltOK
<1>5. CASE CreateIndex
  BY <1>5, CreateIndexBuilt
<1>6. CASE EndIndexes
  <2>1. /\ Settled /\ Quiet /\ UNCHANGED target /\ import.pc = "indexes"
        /\ import'.pc = "build" /\ import'.todo = import.made /\ import'.made = import.made
    BY <1>6, EndIndexesDoes DEF TypeIInv
  <2> QED BY <2>1 DEF BuiltOK, Settled, Quiet, To
<1>7. CASE BuildKeyspace
  BY <1>7, BuildKeyspaceBuilt
<1>8. CASE EndBuild
  <2>1. /\ Settled /\ Quiet /\ UNCHANGED target /\ import.pc = "build" /\ import.todo = {}
        /\ import'.pc = "done" /\ import'.problem = import.problem
        /\ import'.made = import.made
    BY <1>8, EndBuildDoes DEF TypeIInv
  <2> QED BY <2>1 DEF BuiltOK, Settled, Quiet, To
<1>9. CASE BuildBuckets
  BY <1>9, BuildBucketsDoes, BuiltElsewhere DEF Quiet
<1> QED BY <1>1, <1>2, <1>3, <1>4, <1>5, <1>6, <1>7, <1>8, <1>9 DEF ImportStep

LEMMA StillBuilt ==
  ASSUME BuiltOK, UNCHANGED <<import, edition>>, target'.indexes = target.indexes
  PROVE  BuiltOK'
BY DEF BuiltOK, To

LEMMA OnlineBuilt == ASSUME TypeIInv, BuiltOK, Online PROVE BuiltOK'
<1>1. PICK k \in TargetKeyspaces : /\ target.indexes[k] = "building"
                                   /\ target'.indexes = [target.indexes EXCEPT ![k] = "online"]
  BY OnlineDoes
<1>2. UNCHANGED <<import, edition>> /\ DOMAIN target.indexes = TargetKeyspaces
  BY OnlineDoes DEF TypeIInv, TargetOK
<1>3. \A t \in TargetKeyspaces : Further(target.indexes[t], target'.indexes[t])
  BY <1>1, <1>2 DEF Further
<1>4. \A j \in Keyspaces : To(j) \in TargetKeyspaces
  BY MapsInside DEF TypeIInv, ImportOK, To, TargetKeyspaces
<1>5. CASE import.pc \in {"indexes", "build", "done"}
  BY <1>2, <1>3, <1>4, <1>5, BuiltStays DEF Settled, TypeIInv, ImportOK
<1>6. CASE import.pc \notin {"indexes", "build", "done"}
  BY <1>2, <1>6, BuiltElsewhere
<1> QED BY <1>5, <1>6

LEMMA StepBuilt ==
  ASSUME TypeIInv, DirOK, BuiltOK, [Next]_vars
  PROVE  BuiltOK'
<1>1. CASE Exporting
  BY <1>1, ExportingStill, StillBuilt
<1>2. CASE Importing
  BY <1>2, ImportStepBuilt DEF Importing
<1>3. CASE Online
  BY <1>3, OnlineBuilt
<1>4. CASE Restart
  BY <1>4, FreeIs, BuiltElsewhere DEF Restart
<1>5. CASE UNCHANGED vars
  BY <1>5, StillBuilt DEF vars, importVars
<1> QED BY <1>1, <1>2, <1>3, <1>4, <1>5 DEF Next
--------------------------------------------------------------------------------
LEMMA LoadedWhenDone ==
  ASSUME LoadIInv, import.pc = "done", ~ import.problem, ~ raced,
         NEW r \in import.manifest.files
  PROVE  Has(To(r.keyspace), r)
<1>1. ~ Due(r)
  BY DEF Due
<1> QED BY <1>1 DEF LoadIInv, ArrivedOK, Loading

LEMMA ImportedIsLoaded == LoadIInv => ImportedMeansLoaded
BY LoadedWhenDone DEF ImportedMeansLoaded, Reported

\* A recorded file has as many keys as documents.
LEMMA KeysAreCounted ==
  ASSUME NEW r \in Records
  PROVE  KeysOf(r) \subseteq Keys /\ Cardinality(KeysOf(r)) = r.document_count
<1>1. PICK file \in Seq(Documents) :
        /\ file = r.sha256 /\ Sorted(file) /\ r.document_count = Len(file)
        /\ Len(file) \in Nat
  BY WrittenIsSeq DEF Records, Files
<1>2. DOMAIN file = 1..Len(file) /\ \A i \in 1..Len(file) : file[i] \in Documents
  BY <1>1
<1>3. \A i \in 1..Len(file) : file[i].key \in Keys /\ file[i].key \in Nat
  BY <1>2, KeysFacts DEF Documents
<1>4. PICK g : g = [i \in 1..Len(file) |-> file[i].key]
  OBVIOUS
<1>5. KeysOf(r) = {g[i] : i \in 1..Len(file)}
  BY <1>1, <1>2, <1>4 DEF KeysOf
<1>6. \A i, j \in 1..Len(file) : g[i] = g[j] => i = j
  <2> TAKE i, j \in 1..Len(file)
  <2>1. i < j \/ j < i \/ i = j
    BY <1>1
  <2>2. \A m, n \in 1..Len(file) : m < n => g[m] < g[n]
    BY <1>1, <1>2, <1>4 DEF Sorted
  <2>3. g[i] \in Nat /\ g[j] \in Nat
    BY <1>3, <1>4
  <2> QED BY <2>1, <2>2, <2>3
<1>7. g \in Bijection(1..Len(file), KeysOf(r))
  <2>1. g \in [1..Len(file) -> KeysOf(r)]
    BY <1>4, <1>5
  <2>2. \A t \in KeysOf(r) : \E i \in 1..Len(file) : g[i] = t
    BY <1>5
  <2> QED BY <1>6, <2>1, <2>2 DEF Bijection, Injection, IsInjective, Surjection
<1>8. IsFiniteSet(1..Len(file)) /\ Cardinality(1..Len(file)) = Len(file)
  <2>1. PICK n \in Nat : n = Len(file)
    BY <1>1
  <2>2. IsFiniteSet(1..n) /\ Cardinality(1..n) = IF 1 > n THEN 0 ELSE n - 1 + 1
    BY FS_Interval
  <2> QED BY <2>1, <2>2
<1>9. Cardinality(KeysOf(r)) = Cardinality(1..Len(file))
  BY <1>7, <1>8, FS_Bijection DEF ExistsBijection
<1> QED BY <1>1, <1>3, <1>4, <1>5, <1>8, <1>9

LEMMA CleanIsCounted ==
  ASSUME OneToOne, TypeIInv, LoadIInv, CleanOK
  PROVE  CleanImportVerifies
<1> SUFFICES ASSUME import.pc = "done", ~ import.problem, ~ raced, clean,
                    edition = "ee" \/ import.map = <<>>, NEW r \in import.manifest.files
             PROVE  Cardinality({key \in Keys : target.documents[Counted(r)][key] # 0})
                      = r.document_count
  BY DEF CleanImportVerifies, CountsMatch, Reported
<1>1. r \in Records /\ r.keyspace \in Keyspaces /\ ImportOK
  BY DEF TypeIInv, ImportOK, Records, Files
<1>2. Counted(r) = To(r.keyspace)
  BY DEF Counted, To, RemapKeyspace
<1>3. To(r.keyspace) \in TargetKeyspaces
  BY <1>1, ToIs
<1>4. Has(To(r.keyspace), r)
  BY LoadedWhenDone
<1>5. {key \in Keys : target.documents[To(r.keyspace)][key] # 0} = KeysOf(r)
  <2>1. ASSUME NEW key \in KeysOf(r)
        PROVE  key \in Keys /\ target.documents[To(r.keyspace)][key] # 0
    <3>1. PICK i \in DOMAIN r.sha256 : key = r.sha256[i].key
      BY DEF KeysOf
    <3>2. r.sha256 \in Seq(Documents)
      BY <1>1, WrittenIsSeq DEF Records, Files
    <3>3. r.sha256[i] \in Documents
      BY <3>1, <3>2
    <3>4. r.sha256[i].version \in Versions /\ key \in Keys
      BY <3>1, <3>3 DEF Documents
    <3>5. target.documents[To(r.keyspace)][key] = r.sha256[i].version
      BY <1>4, <3>1 DEF Has
    <3> QED BY <3>4, <3>5, KeysFacts
  <2>2. ASSUME NEW key \in Keys, target.documents[To(r.keyspace)][key] # 0
        PROVE  key \in KeysOf(r)
    <3>1. PICK s \in import.manifest.files :
            To(s.keyspace) = To(r.keyspace) /\ key \in KeysOf(s)
      BY <1>3, <2>2 DEF CleanOK
    <3>2. s.keyspace \in Keyspaces
      BY <1>1 DEF ImportOK, Records, Files
    <3>3. s.keyspace = r.keyspace
      BY <1>1, <3>1, <3>2, ToIs
    <3> QED BY <3>1, <3>3 DEF LoadIInv, DistinctOK
  <2> QED BY <2>1, <2>2
<1> QED BY <1>1, <1>2, <1>5, KeysAreCounted

LEMMA BuiltIsBuilt == ASSUME BuiltOK PROVE OwnIndexesBuilt
BY DEF BuiltOK, OwnIndexesBuilt, Reported

LEMMA ImportingStarts == Init => LoadIInv /\ CleanOK /\ BuiltOK
<1> SUFFICES ASSUME Init PROVE LoadIInv /\ CleanOK /\ BuiltOK
  OBVIOUS
<1>1. import.pc = "idle" /\ import.manifest.files = {}
  BY FreeIs DEF Init, ImportInit, NoManifestRead
<1> QED BY <1>1 DEF LoadIInv, CheckedOK, ArrivedOK, ProgressOK, DistinctOK, Ended, Loading,
                    CleanOK, BuiltOK

\* admin_fixture_import, whatever the maps: an import that reports no problem has asked
\* for the build of every index it created itself.
THEOREM OwnIndexesAreBuilt == Spec => []OwnIndexesBuilt
<1>1. Init => BuiltOK
  BY ImportingStarts
<1>2. TypeIInv /\ DirOK /\ BuiltOK /\ [Next]_vars => BuiltOK'
  BY StepBuilt
<1>3. ExportIInv => DirOK
  BY DEF ExportIInv
<1>4. BuiltOK => OwnIndexesBuilt
  BY BuiltIsBuilt
<1> QED BY <1>1, <1>2, <1>3, <1>4, FixturesTyped, PTL DEF Spec

\* capella_fixture_import and admin_fixture_import with maps that send no two keyspaces
\* to one place: an import that reports no problem has put every recorded document on
\* the target, unless an export rewrote the directory under it; on a target that held no
\* documents it passes the recount of _verify; and its own indexes are being built.
THEOREM ImportsKeepTheirWord == OneToOne => (Spec => []ImportInv)
<1> SUFFICES ASSUME OneToOne PROVE Spec => []ImportInv
  OBVIOUS
<1>1. Init => LoadIInv /\ CleanOK
  BY ImportingStarts
<1>2. /\ TypeIInv /\ DirOK /\ LoadIInv /\ CleanOK /\ [Next]_vars
      => (LoadIInv /\ CleanOK)'
  BY StepLoads, StepClean
<1>3. ExportIInv => DirOK
  BY DEF ExportIInv
<1>4. TypeIInv /\ LoadIInv /\ CleanOK /\ OwnIndexesBuilt => ImportInv
  BY ImportedIsLoaded, CleanIsCounted DEF ImportInv
<1> QED BY <1>1, <1>2, <1>3, <1>4, FixturesTyped, OwnIndexesAreBuilt, PTL DEF Spec
--------------------------------------------------------------------------------
\* That an import can be repeated.  The maps it takes move whole buckets, no two to
\* one place, and leave default collections default ones: Capella creates one bucket
\* per recorded bucket, from the list read at the start, and no collection of a
\* _default scope, so a fixture has no other collection there than the default one.
WholeBuckets ==
  \A call \in ImportCalls : \A j, k \in Keyspaces :
    LET to(x) == RemapKeyspace(x, call[1])
    IN  /\ RemapBuckets(k[1], call[1]) = {to(k)[1]}
        /\ to(j)[1] = to(k)[1] => j[1] = k[1]
        /\ k[2] = "_default" => to(k) = DefaultOf(to(k)[1])
DefaultScopes == \A k \in Keyspaces : k[2] = "_default" => k = DefaultOf(k[1])

LEMMA WholeIs ==
  ASSUME WholeBuckets, DefaultScopes, ImportOK
  PROVE  /\ \A k \in Keyspaces : TargetBuckets(k[1]) = {To(k)[1]}
         /\ \A j, k \in Keyspaces : To(j)[1] = To(k)[1] => j[1] = k[1]
         /\ \A k \in Keyspaces : k[2] = "_default" => To(k) = DefaultOf(To(k)[1])
<1>1. import.map \in {<<>>} \union Maps
  BY DEF ImportOK
<1>2. CASE import.map = <<>>
  <2>1. \A k \in Keyspaces : To(k) = k /\ TargetBuckets(k[1]) = {k[1]}
    BY <1>2 DEF To, RemapKeyspace, TargetBuckets, RemapBuckets
  <2> QED BY <2>1 DEF DefaultScopes
<1>3. CASE import.map \in Maps
  <2>1. PICK call \in ImportCalls : import.map = call[1]
    BY <1>3 DEF Maps
  <2> QED BY <2>1 DEF WholeBuckets, To, TargetBuckets
<1> QED BY <1>1, <1>2, <1>3

\* Every collection has one target, in the bucket its own bucket resolved to.
LEMMA TargetIs ==
  ASSUME WholeBuckets, DefaultScopes, ImportOK, NEW k \in Keyspaces,
         NEW b \in TargetBuckets(k[1])
  PROVE  Retarget(k, b) = To(k) /\ Belongs(To(k), b)
<1>1. b = To(k)[1]
  BY WholeIs
<1>2. k = <<k[1], k[2], k[3]>>
  BY FixtureFilesAssumption
<1>3. CASE edition = "ee" \/ k \in DOMAIN import.map
  BY <1>1, <1>3 DEF Retarget, To, Belongs
<1>4. CASE ~ (edition = "ee" \/ k \in DOMAIN import.map)
  <2>1. To(k) = k
    BY <1>4 DEF To, RemapKeyspace
  <2>2. Retarget(k, b) = <<b, k[2], k[3]>>
    BY <1>4 DEF Retarget
  <2> QED BY <1>1, <1>2, <2>1, <2>2 DEF Belongs
<1> QED BY <1>3, <1>4

\* What a fixture carries documents for is in its structure; the definitions of a
\* Capella fixture are too.
Listed(m) ==
  /\ \A r \in m.files : r.keyspace \in m.structure
  /\ edition # "ee" => \A i \in m.indexes : i.keyspace \in m.structure
ExportListed ==
  /\ export.todo \subseteq export.structure /\ Listed(export)
  /\ export.pc = "page" => export.now \in export.structure
DirListed == Readable(dir) => Listed(dir.manifest)
ListedOK == ExportListed /\ DirListed /\ Listed(import.manifest)

LEMMA DirListedStays ==
  ASSUME DirListed, UNCHANGED edition, dir'.manifest = dir.manifest
  PROVE  DirListed'
BY DEF DirListed, Readable, Listed

LEMMA FreshListed ==
  ASSUME export'.todo = {}, export'.structure = {}, export'.files = {},
         export'.indexes = {}, export'.pc \in {"idle", "failed", "structure"}
  PROVE  ExportListed'
BY DEF ExportListed, Listed

LEMMA FreshIs ==
  /\ Idle.todo = {} /\ Idle.structure = {} /\ Idle.files = {} /\ Idle.indexes = {}
  /\ Idle.pc = "idle" /\ DOMAIN Idle = Fields
BY DEF Idle, Fields

LEMMA RefuseListed == Refuse => ExportListed'
<1> SUFFICES ASSUME Refuse PROVE ExportListed'
  OBVIOUS
<1>1. /\ export'.todo = {} /\ export'.structure = {} /\ export'.files = {}
      /\ export'.indexes = {} /\ export'.pc = "failed"
  BY DEF Refuse, Idle
<1> QED BY <1>1, FreshListed

LEMMA ReadListed ==
  ASSUME IInv, export.pc = "structure", NEW structure \in SUBSET Keyspaces,
         NEW got \in SUBSET Asked(structure), NEW warned, Read(structure, got, warned),
         UNCHANGED edition
  PROVE  ExportListed'
<1>1. /\ export'.structure = structure /\ export'.files = {}
      /\ export'.indexes = {IndexOf(k) : k \in got}
      /\ export'.pc \in {"open", "manifest"} /\ export'.todo \subseteq structure
  BY DEF Read, Goes, Edited, IInv, ShapesOK, RecordedOK, Fields
<1>2. edition # "ee" => got \subseteq structure
  BY DEF Asked
<1>3. \A k : IndexOf(k).keyspace = k
  BY DEF IndexOf
<1> QED BY <1>1, <1>2, <1>3 DEF ExportListed, Listed

LEMMA ReadStructureListed ==
  ASSUME IInv, ReadStructure
  PROVE  ExportListed'
<1>1. InWantedBuckets \subseteq Keyspaces
  BY DEF InWantedBuckets
<1>2. export.pc = "structure" /\ UNCHANGED edition
  BY DEF ReadStructure
<1>3. CASE Refuse
  BY <1>3, RefuseListed
<1>4. CASE ~ Refuse
  <2>1. PICK structure \in SUBSET Keyspaces : \E got \in SUBSET Asked(structure) :
          Read(structure, got, TRUE) \/ Read(structure, got, FALSE)
    <3>1. CASE Read(InWantedBuckets, Asked(InWantedBuckets), FALSE)
      BY <1>1, <3>1
    <3>2. ASSUME NEW b, Read({k \in InWantedBuckets : k[1] # b},
                             Asked({k \in InWantedBuckets : k[1] # b}), TRUE)
          PROVE  \E structure \in SUBSET Keyspaces : \E got \in SUBSET Asked(structure) :
                   Read(structure, got, TRUE) \/ Read(structure, got, FALSE)
      <4> DEFINE others == {k \in InWantedBuckets : k[1] # b}
      <4>1. others \in SUBSET Keyspaces /\ Asked(others) \in SUBSET Asked(others)
        BY <1>1
      <4> HIDE DEF others
      <4> QED BY <3>2, <4>1 DEF others
    <3>3. ASSUME NEW lost, Read(InWantedBuckets, Asked(InWantedBuckets) \ {lost}, TRUE)
          PROVE  \E structure \in SUBSET Keyspaces : \E got \in SUBSET Asked(structure) :
                   Read(structure, got, TRUE) \/ Read(structure, got, FALSE)
      BY <1>1, <3>3
    <3> QED BY <1>4, <3>1, <3>2, <3>3 DEF ReadStructure
  <2> QED BY <1>2, <2>1, ReadListed
<1> QED BY <1>3, <1>4

LEMMA OpenFileListed == ASSUME IInv, ExportListed, OpenFile PROVE ExportListed'
<1>1. PICK k \in export.todo :
         Goes([pc |-> "page", now |-> k, last |-> 0, todo |-> export.todo \ {k},
               matched |-> export.matched \union {k}])
  BY DEF OpenFile
<1>2. /\ export'.now = k /\ export'.todo = export.todo \ {k} /\ export'.files = export.files
      /\ export'.structure = export.structure /\ export'.indexes = export.indexes
  BY <1>1 DEF Goes, Edited, IInv, ShapesOK, Fields
<1> QED BY <1>2 DEF OpenFile, ExportListed, Listed

LEMMA WritePageListed ==
  ASSUME IInv, ExportListed, WritePage
  PROVE  ExportListed'
<1>1. export.pc = "page" /\ UNCHANGED edition /\ DOMAIN export = Fields
  BY DEF WritePage, IInv, ShapesOK
<1>2. CASE Refuse
  BY <1>2, RefuseListed
<1>3. ASSUME NEW fields, Goes(fields), {"todo", "structure", "indexes"} \cap DOMAIN fields = {},
             "now" \notin DOMAIN fields,
             "files" \in DOMAIN fields =>
               \A r \in fields.files : r \in export.files \/ r.keyspace = export.now
      PROVE  ExportListed'
  <2>1. /\ export'.todo = export.todo /\ export'.structure = export.structure
        /\ export'.indexes = export.indexes /\ export'.now = export.now
        /\ export'.files = IF "files" \in DOMAIN fields THEN fields.files ELSE export.files
    BY <1>1, <1>3 DEF Goes, Edited, Fields
  <2> QED BY <1>1, <1>3, <2>1 DEF ExportListed, Listed
<1>4. ASSUME NEW file, CloseFile(export.now, file) PROVE ExportListed'
  <2>1. CASE Goes([pc |-> "open"])
    BY <1>3, <2>1
  <2>2. CASE Goes([pc |-> "open",
                   files |-> export.files \union
                     {[keyspace |-> export.now, sha256 |-> Sha256File(file),
                       document_count |-> Len(file)]}])
    BY <1>3, <2>2
  <2> QED BY <1>4, <2>1, <2>2 DEF CloseFile
<1>5. ASSUME NEW last, Goes([last |-> last]) PROVE ExportListed'
  BY <1>3, <1>5
<1> QED BY <1>2, <1>4, <1>5 DEF WritePage

LEMMA GoesOnListed ==
  ASSUME IInv, ExportListed, NEW l, l # "page", Goes([pc |-> l]), UNCHANGED edition
  PROVE  ExportListed'
<1>1. /\ export'.pc = l /\ export'.todo = export.todo /\ export'.files = export.files
      /\ export'.structure = export.structure /\ export'.indexes = export.indexes
  BY DEF Goes, Edited, IInv, ShapesOK, Fields
<1> QED BY <1>1 DEF ExportListed, Listed

LEMMA DirListedStep ==
  ASSUME IInv, ExportListed, DirListed, Exporting
  PROVE  DirListed'
<1>1. UNCHANGED edition /\ DOMAIN dir = {"data", "manifest"}
  BY ExportingStill DEF IInv, ShapesOK
<1>2. CASE dir'.manifest = dir.manifest
  BY <1>1, <1>2, DirListedStays
<1>3. CASE dir' = [dir EXCEPT !.manifest = Torn]
  <2>1. ~ Readable(dir)'
    BY <1>1, <1>3 DEF Readable
  <2> QED BY <2>1 DEF DirListed
<1>4. CASE dir' = [dir EXCEPT !.manifest = Manifest]
  <2>1. dir'.manifest = Manifest
    BY <1>1, <1>4
  <2>2. /\ Manifest.files = export.files /\ Manifest.structure = export.structure
        /\ Manifest.indexes \subseteq export.indexes
    BY DEF Manifest
  <2> QED BY <1>1, <2>1, <2>2 DEF DirListed, ExportListed, Listed
<1>5. \/ dir'.manifest = dir.manifest
      \/ dir' = [dir EXCEPT !.manifest = Torn] \/ dir' = [dir EXCEPT !.manifest = Manifest]
  <2>1. ASSUME OpenFile \/ WritePage PROVE dir'.manifest = dir.manifest
    <3>1. UNCHANGED dir \/ \E k, file : dir' = [dir EXCEPT !.data[k] = file]
      BY <2>1 DEF OpenFile, WritePage, CloseFile
    <3> QED BY <1>1, <3>1
  <2> QED BY <2>1 DEF Exporting, ExportStep, StartExport, ReadStructure, EndData,
                      OpenManifest, WriteManifest, Write
<1> QED BY <1>2, <1>3, <1>4, <1>5

LEMMA ExportListedStep == ASSUME IInv, ExportListed, Exporting PROVE ExportListed'
<1>1. CASE StartExport
  <2>1. /\ export'.todo = {} /\ export'.structure = {} /\ export'.files = {}
        /\ export'.indexes = {} /\ export'.pc = "structure"
    BY <1>1 DEF StartExport, Idle
  <2> QED BY <2>1, FreshListed
<1>2. CASE EndData \/ OpenManifest \/ WriteManifest
  BY <1>2, RefuseListed, GoesOnListed DEF EndData, OpenManifest, WriteManifest
<1>3. CASE Write
  BY <1>3 DEF Write, ExportListed, Listed
<1> QED BY <1>1, <1>2, <1>3, ReadStructureListed, OpenFileListed, WritePageListed
        DEF Exporting, ExportStep

LEMMA ImportSettles ==
  ASSUME TypeIInv, DirOK, ImportStep, ~ StartImport
  PROVE  Settled /\ Quiet
<1>1. ImportOK
  BY DEF TypeIInv
<1>2. CASE PlanBuckets \/ PlanFiles \/ CreateBucket \/ CreateCollection
  BY <1>2, PlanBucketsDoes, PlanFilesDoes, CreateBucketDoes, CreateCollectionDoes
     DEF Before, Quiet
<1> QED BY <1>1, <1>2, StartDocumentsDoes, StartFileDoes, PutDocumentDoes, EndFileDoes,
           StartIndexesDoes, CreateIndexDoes, EndIndexesDoes, BuildKeyspaceDoes,
           EndBuildDoes, BuildBucketsDoes DEF ImportStep

LEMMA StepListed == ASSUME IInv, TypeIInv, DirOK, ListedOK, [Next]_vars PROVE ListedOK'
<1>1. CASE Exporting
  <2>1. UNCHANGED <<import, edition>>
    BY <1>1, ExportingStill
  <2> QED BY <1>1, <2>1, DirListedStep, ExportListedStep DEF ListedOK, Listed
<1>2. CASE Importing
  <2>1. UNCHANGED <<export, dir, edition>>
    BY <1>2, EditionStays, ImportStepStill DEF Importing, exportVars
  <2>2. ExportListed' /\ DirListed'
    BY <2>1, DirListedStays DEF ListedOK, ExportListed, Listed
  <2>3. \/ import'.manifest \in {import.manifest, NoManifestRead}
        \/ Verifies(dir) /\ import'.manifest = dir.manifest
    <3>1. CASE StartImport
      BY <3>1 DEF StartImport, Free
    <3>2. CASE ~ StartImport
      BY <1>2, <3>2, ImportSettles DEF Importing, Settled
    <3> QED BY <3>1, <3>2
  <2>4. Listed(NoManifestRead)'
    BY DEF Listed, NoManifestRead
  <2>5. Listed(import.manifest)'
    BY <2>1, <2>3, <2>4 DEF ListedOK, DirListed, Verifies, Listed
  <2> QED BY <2>2, <2>5 DEF ListedOK, Listed
<1>3. CASE Online
  BY <1>3 DEF Online, exportVars, ListedOK, ExportListed, DirListed, Listed, Readable
<1>4. CASE Restart
  <2>1. /\ export'.todo = {} /\ export'.structure = {} /\ export'.files = {}
        /\ export'.indexes = {} /\ export'.pc = "idle"
    BY <1>4 DEF Restart, ExportDies, Idle
  <2>2. DirListed'
    BY <1>4, DirListedStays DEF Restart, ListedOK
  <2>3. import'.manifest = NoManifestRead
    BY <1>4, FreeIs DEF Restart
  <2> QED BY <2>1, <2>2, <2>3, FreshListed DEF ListedOK, Listed, NoManifestRead
<1>5. CASE UNCHANGED vars
  BY <1>5 DEF vars, exportVars, importVars, ListedOK, ExportListed, DirListed, Listed, Readable
<1> QED BY <1>1, <1>2, <1>3, <1>4, <1>5 DEF Next

\* Faults only grow, buckets come only with the first step of a Capella import, and a
\* bucket comes with its default collection.
PhaseOK ==
  /\ faults \in Nat /\ faultsBefore \in Nat /\ faultsBefore <= faults
  /\ \A b \in target.buckets : DefaultOf(b) \in target.collections
  /\ import.pc = "buckets" => edition = "capella"
  /\ import.pc = "build" => edition = "ee"

LEMMA ImportFaults ==
  ASSUME ImportStep
  PROVE  UNCHANGED faults \/ Fault
<1>1. CASE StartImport \/ PlanBuckets \/ PlanFiles \/ StartDocuments \/ StartFile
  BY <1>1 DEF StartImport, PlanBuckets, PlanFiles, StartDocuments, StartFile
<1>2. CASE CreateBucket
  BY <1>2 DEF CreateBucket, Creates
<1>3. CASE CreateCollection
  BY <1>3 DEF CreateCollection, Creates
<1>4. CASE PutDocument
  BY <1>4 DEF PutDocument, Creates
<1>5. CASE CreateIndex
  BY <1>5 DEF CreateIndex, Creates
<1>6. CASE BuildKeyspace
  BY <1>6 DEF BuildKeyspace, Creates
<1>7. CASE BuildBuckets
  BY <1>7 DEF BuildBuckets, Creates
<1>8. CASE EndFile \/ StartIndexes \/ EndIndexes \/ EndBuild
  BY <1>8 DEF EndFile, StartIndexes, EndIndexes, EndBuild
<1> QED BY <1>1, <1>2, <1>3, <1>4, <1>5, <1>6, <1>7, <1>8 DEF ImportStep

LEMMA FaultsGrow ==
  ASSUME Next
  PROVE  UNCHANGED faults \/ Fault
<1>1. CASE Exporting
  BY <1>1 DEF Exporting, ExportStep, StartExport, ReadStructure, OpenFile, WritePage, EndData,
              OpenManifest, WriteManifest, Write
<1>2. CASE Importing
  BY <1>2, ImportFaults DEF Importing
<1> QED BY <1>1, <1>2 DEF Next, Online, Restart

\* A step other than the creation of a bucket or a collection leaves both alone.
LEMMA PlacesStay ==
  ASSUME TypeIInv, DirOK, ImportStep, ~ CreateBucket, ~ CreateCollection
  PROVE  target'.buckets = target.buckets /\ target'.collections = target.collections
<1>1. ImportOK /\ TargetOK
  BY DEF TypeIInv
<1>2. CASE BuildKeyspace \/ BuildBuckets
  BY <1>1, <1>2, BuildKeyspaceDoes, BuildBucketsDoes, BuildDoes DEF OnlyIndexes
<1> QED BY <1>1, <1>2, StartImportDoes, PlanBucketsDoes, PlanFilesDoes, StartDocumentsDoes,
           StartFileDoes, PutDocumentDoes, EndFileDoes, StartIndexesDoes, CreateIndexDoes,
           EndIndexesDoes, EndBuildDoes DEF ImportStep, OnlyIndexes

LEMMA AddBucketIs ==
  ASSUME TargetOK, NEW b, AddBucket(b)
  PROVE  /\ target'.buckets = target.buckets \union {b}
         /\ target'.collections = target.collections \union {DefaultOf(b)}
BY DEF AddBucket, TargetOK

LEMMA AddCollectionIs ==
  ASSUME TargetOK, NEW to, AddCollection(to)
  PROVE  /\ target'.buckets = target.buckets
         /\ target'.collections = target.collections \union {to}
BY DEF AddCollection, TargetOK

LEMMA DefaultsStay ==
  ASSUME TypeIInv, DirOK, ImportStep, \A b \in target.buckets : DefaultOf(b) \in target.collections
  PROVE  \A b \in target'.buckets : DefaultOf(b) \in target'.collections
<1>1. CASE CreateBucket
  <2>1. UNCHANGED target \/ \E b \in Buckets : AddBucket(b)
    BY <1>1, CreateBucketDoes
  <2> QED BY <2>1, AddBucketIs DEF TypeIInv
<1>2. CASE CreateCollection
  <2>1. UNCHANGED target \/ \E to : AddCollection(to)
    BY <1>2 DEF CreateCollection, Creates
  <2> QED BY <2>1, AddCollectionIs DEF TypeIInv
<1> QED BY <1>1, <1>2, PlacesStay

LEMMA PhasesStay ==
  ASSUME TypeIInv, DirOK, PhaseOK, ImportStep
  PROVE  /\ import'.pc = "buckets" => edition = "capella"
         /\ import'.pc = "build" => edition = "ee"
<1>1. ImportOK
  BY DEF TypeIInv
<1>2. CASE StartImport
  BY <1>2, StartImportDoes
<1>3. CASE PlanBuckets \/ CreateBucket
  BY <1>3, PlanBucketsDoes, CreateBucketDoes DEF PlanBuckets, CreateBucket, Before, PhaseOK
<1>4. CASE PlanFiles \/ CreateCollection
  BY <1>4, PlanFilesDoes, CreateCollectionDoes DEF Before
<1>5. CASE EndIndexes \/ BuildKeyspace
  BY <1>1, <1>5, EndIndexesDoes, BuildKeyspaceDoes DEF EndIndexes, PhaseOK
<1> QED BY <1>1, <1>2, <1>3, <1>4, <1>5, StartDocumentsDoes, StartFileDoes, PutDocumentDoes,
           EndFileDoes, StartIndexesDoes, CreateIndexDoes, EndBuildDoes, BuildBucketsDoes
           DEF ImportStep

LEMMA StepPhases ==
  ASSUME TypeIInv, DirOK, PhaseOK, [Next]_vars
  PROVE  PhaseOK'
<1>1. CASE Next
  <2>1. faults' \in Nat /\ faults' >= faults
    BY <1>1, FaultsGrow DEF Fault, PhaseOK
  <2>2. CASE Exporting
    BY <2>1, <2>2, ExportingStill DEF PhaseOK
  <2>3. CASE Importing
    <3>1. faultsBefore' \in {faultsBefore, faults}
      <4>1. CASE StartImport
        BY <4>1 DEF StartImport
      <4>2. CASE ~ StartImport
        BY <2>3, <4>2, ImportSettles DEF Importing, Quiet, importHistory
      <4> QED BY <4>1, <4>2
    <3>2. UNCHANGED edition
      BY <2>3, EditionStays DEF Importing
    <3> QED BY <2>1, <2>3, <3>1, <3>2, DefaultsStay, PhasesStay DEF PhaseOK, Importing
  <2>4. CASE Online
    BY <2>4, OnlineDoes DEF Online, OnlyIndexes, PhaseOK, importHistory
  <2>5. CASE Restart
    BY <2>1, <2>5, FreeIs DEF Restart, PhaseOK, importHistory
  <2> QED BY <1>1, <2>2, <2>3, <2>4, <2>5 DEF Next
<1>2. CASE UNCHANGED vars
  BY <1>2 DEF vars, importVars, PhaseOK
<1> QED BY <1>1, <1>2

\* An import that nothing disturbs, from its start to its end.
Undisturbed == Possible /\ ~ raced /\ faults = faultsBefore
Under == {"plan", "buckets", "structure", "documents", "lines", "indexes", "build", "done"}

\* The collections an import needs on the target; Enterprise Edition makes those it
\* carries documents for, Capella the recorded ones.
Needed == IF edition = "ee" THEN {r.keyspace : r \in import.manifest.files}
          ELSE import.manifest.structure
Ready(k) == To(k) \in target.collections

\* The recorded buckets done with are there, and what is there of the others was
\* there when the list was read: no bucket is created twice.
BucketsGo ==
  /\ import.known \subseteq target.buckets
  /\ \A r \in RecordedBuckets :
       IF r \in import.todo THEN TargetBuckets(r) \intersect target.buckets \subseteq import.known
       ELSE /\ TargetBuckets(r) \subseteq target.buckets
            /\ CollectionsOf(r) \subseteq import.made
CollectionsGo ==
  /\ edition # "ee" => \A k \in import.manifest.structure : To(k)[1] \in target.buckets
  /\ import.todo \subseteq import.manifest.structure
  /\ \A k \in Needed : k \in import.todo \/ Ready(k)
SmoothOK ==
  Undisturbed /\ import.pc \in Under =>
    /\ ~ import.problem
    /\ import.pc = "buckets" => BucketsGo
    /\ import.pc = "structure" => CollectionsGo
    /\ import.pc \in Loading => \A k \in Needed : Ready(k)
    /\ import.pc = "lines" => import.failed = 0

\* A step of an undisturbed import starts undisturbed, and no request of it fails.
LEMMA UndisturbedBefore ==
  ASSUME TypeIInv, DirOK, PhaseOK, ImportStep, ~ StartImport, Undisturbed'
  PROVE  Undisturbed /\ ~ Fault /\ UNCHANGED faults
<1>1. Settled /\ Quiet /\ UNCHANGED edition
  BY ImportSettles DEF Quiet
<1>2. faults' = faults /\ ~ Fault /\ ~ raced /\ faults = faultsBefore
  BY <1>1, ImportFaults DEF Undisturbed, Quiet, importHistory, Fault, PhaseOK
<1>3. edition = "ee" => target'.buckets = target.buckets
  <2>1. CASE CreateBucket
    BY <2>1 DEF CreateBucket, PhaseOK
  <2>2. CASE CreateCollection
    <3>1. UNCHANGED target \/ \E to : AddCollection(to)
      BY <2>2 DEF CreateCollection, Creates
    <3> QED BY <3>1, AddCollectionIs DEF TypeIInv
  <2> QED BY <2>1, <2>2, PlacesStay
<1>4. Possible
  <2>1. \A k : To(k)' = To(k)
    BY <1>1 DEF To, Settled
  <2> QED BY <1>1, <1>3, <2>1 DEF Undisturbed, Possible, Settled
<1> QED BY <1>2, <1>4 DEF Undisturbed

\* What names the target of a collection stays with the call.
LEMMA NamesStay ==
  ASSUME Settled, Quiet
  PROVE  /\ Needed' = Needed /\ RecordedBuckets' = RecordedBuckets
         /\ \A k : To(k)' = To(k) /\ TargetBuckets(k)' = TargetBuckets(k)
                   /\ CollectionsOf(k)' = CollectionsOf(k)
BY DEF Settled, Quiet, Needed, RecordedBuckets, To, TargetBuckets, CollectionsOf

\* What has begun without a problem.
Smooth(pc) == /\ Undisturbed /\ import.pc = pc /\ ~ import.problem

LEMMA WorkGoes ==
  ASSUME DOMAIN import = ImportFields, NEW rest, NEW made, Sets(BucketWork(rest, made))
  PROVE  /\ import'.problem = import.problem /\ import'.known = import.known
         /\ \/ rest = {} /\ import'.pc = "structure" /\ import'.todo = made
            \/ /\ rest # {} /\ import'.pc = "buckets"
               /\ import'.todo = rest /\ import'.made = made
<1>1. CASE rest = {}
  <2>1. Sets([pc |-> "structure", todo |-> made, made |-> {}])
    BY <1>1 DEF BucketWork
  <2> QED BY <1>1, <2>1 DEF Sets, ImportFields
<1>2. CASE rest # {}
  <2>1. Sets([pc |-> "buckets", todo |-> rest, made |-> made])
    BY <1>2 DEF BucketWork
  <2> QED BY <1>2, <2>1 DEF Sets, ImportFields
<1> QED BY <1>1, <1>2

LEMMA PlanGoes ==
  ASSUME DOMAIN import = ImportFields, NEW known, NEW rest,
         Sets(With([known |-> known], BucketWork(rest, {})))
  PROVE  /\ import'.problem = import.problem
         /\ \/ rest = {} /\ import'.pc = "structure" /\ import'.todo = {}
            \/ /\ rest # {} /\ import'.pc = "buckets" /\ import'.known = known
               /\ import'.todo = rest /\ import'.made = {}
<1>1. PICK h, w, g : /\ h = [known |-> known] /\ w = BucketWork(rest, {}) /\ g = With(h, w)
  OBVIOUS
<1>2. DOMAIN h = {"known"} /\ h.known = known
  BY <1>1
<1>3. \/ rest = {} /\ w = [pc |-> "structure", todo |-> {}, made |-> {}]
      \/ rest # {} /\ w = [pc |-> "buckets", todo |-> rest, made |-> {}]
  BY <1>1 DEF BucketWork
<1>4. DOMAIN w = {"pc", "todo", "made"}
  BY <1>3
<1>5. /\ DOMAIN With(h, w) = DOMAIN h \union DOMAIN w
      /\ \A x \in DOMAIN h : With(h, w)[x] = h[x]
      /\ \A x \in DOMAIN w \ DOMAIN h : With(h, w)[x] = w[x]
  BY WithIs
<1>6. /\ DOMAIN g = {"known", "pc", "todo", "made"} /\ g.known = known
      /\ g.pc = w.pc /\ g.todo = w.todo /\ g.made = w.made
  BY <1>1, <1>2, <1>4, <1>5
<1>7. \A f \in ImportFields : import'[f] = IF f \in DOMAIN g THEN g[f] ELSE import[f]
  BY <1>1, SetsOK
<1>8. /\ import'.problem = import.problem /\ import'.known = known
      /\ import'.pc = w.pc /\ import'.todo = w.todo /\ import'.made = w.made
  BY <1>6, <1>7 DEF ImportFields
<1> QED BY <1>3, <1>8

LEMMA PlanBucketsSmooth ==
  ASSUME TypeIInv, Smooth("plan"), ~ Fault, PlanBuckets, import'.pc \in Under
  PROVE  /\ ~ import'.problem
         /\ import'.pc = "buckets" => BucketsGo'
         /\ import'.pc = "structure" => CollectionsGo'
         /\ import'.pc \in {"buckets", "structure"}
<1>1. /\ DOMAIN import = ImportFields /\ edition = "capella" /\ UNCHANGED target
  BY DEF TypeIInv, ImportOK, PlanBuckets
<1>2. Settled /\ Quiet
  BY PlanBucketsDoes DEF Before, Quiet
<1>3. Sets(With([known |-> target.buckets], BucketWork(RecordedBuckets, {})))
  <2>1. ~ Refused
    BY <1>1 DEF Refused, ImportFields, Under
  <2> QED BY <2>1 DEF PlanBuckets
<1>4. /\ import'.problem = import.problem
      /\ \/ /\ RecordedBuckets = {} /\ import'.pc = "structure" /\ import'.todo = {}
         \/ /\ RecordedBuckets # {} /\ import'.pc = "buckets" /\ import'.known = target.buckets
            /\ import'.todo = RecordedBuckets /\ import'.made = {}
  BY <1>1, <1>3, PlanGoes
<1>5. CASE import'.pc = "buckets"
  <2>1. BucketsGo'
    BY <1>1, <1>2, <1>4, <1>5, NamesStay DEF BucketsGo
  <2> QED BY <1>4, <1>5, <2>1 DEF Smooth
<1>6. CASE import'.pc = "structure"
  <2>1. import.manifest.structure = {}
    BY <1>4, <1>6 DEF RecordedBuckets
  <2>2. import'.manifest.structure = {} /\ edition' = "capella"
    BY <1>1, <1>2, <2>1 DEF Settled, Quiet
  <2>3. CollectionsGo'
    BY <1>4, <1>6, <2>2 DEF CollectionsGo, Needed
  <2> QED BY <1>4, <1>6, <2>3 DEF Smooth
<1> QED BY <1>4, <1>5, <1>6

LEMMA PlanFilesSmooth ==
  ASSUME TypeIInv, Smooth("plan"), Listed(import.manifest), PlanFiles
  PROVE  ~ import'.problem /\ CollectionsGo' /\ import'.pc = "structure"
<1>1. /\ DOMAIN import = ImportFields /\ edition = "ee"
      /\ Sets([pc |-> "structure", todo |-> {r.keyspace : r \in import.manifest.files}])
  BY DEF TypeIInv, ImportOK, PlanFiles
<1>2. /\ import'.problem = import.problem /\ import'.pc = "structure"
      /\ import'.todo = {r.keyspace : r \in import.manifest.files}
  BY <1>1 DEF Sets, ImportFields
<1>3. Settled /\ Quiet
  BY PlanFilesDoes DEF Before, Quiet
<1>4. CollectionsGo'
  BY <1>1, <1>2, <1>3, NamesStay DEF CollectionsGo, Needed, Listed, Settled, Quiet
<1> QED BY <1>2, <1>4 DEF Smooth

LEMMA CreateBucketSmooth ==
  ASSUME WholeBuckets, DefaultScopes, TypeIInv, Smooth("buckets"), BucketsGo, ~ Fault,
         edition = "capella", CreateBucket,
         \A b \in target'.buckets : DefaultOf(b) \in target'.collections
  PROVE  /\ ~ import'.problem
         /\ import'.pc = "buckets" => BucketsGo'
         /\ import'.pc = "structure" => CollectionsGo'
         /\ import'.pc \in {"buckets", "structure"}
<1>1. /\ DOMAIN import = ImportFields /\ import.manifest.structure \subseteq Keyspaces
      /\ import.todo \subseteq RecordedBuckets /\ ImportOK /\ TargetOK
      /\ import.made \subseteq import.manifest.structure
  BY DEF TypeIInv, ImportOK, Smooth
<1>2. Settled /\ Quiet
  BY CreateBucketDoes DEF Quiet
<1>3. \A r \in RecordedBuckets : \E k \in import.manifest.structure :
        k \in Keyspaces /\ r = k[1] /\ TargetBuckets(r) = {To(k)[1]}
  BY <1>1, WholeIs DEF RecordedBuckets
<1>4. PICK recorded, b :
        /\ recorded \in import.todo /\ b \in TargetBuckets(recorded)
        /\ LET rest == import.todo \ {recorded}
               more == Sets(BucketWork(rest, import.made \union CollectionsOf(recorded)))
           IN IF b \in import.known
              THEN more /\ UNCHANGED <<target, faults>>
              ELSE Creates(b \notin target.buckets, AddBucket(b), more,
                           Sets(With([problem |-> TRUE], BucketWork(rest, import.made))))
  BY DEF CreateBucket
<1>5. TargetBuckets(recorded) = {b}
  BY <1>1, <1>3, <1>4
<1>6. b \notin import.known => b \notin target.buckets
  BY <1>1, <1>4, <1>5 DEF BucketsGo
<1>7. /\ Sets(BucketWork(import.todo \ {recorded}, import.made \union CollectionsOf(recorded)))
      /\ \/ b \in import.known /\ UNCHANGED target
         \/ AddBucket(b)
  BY <1>4, <1>6 DEF Creates
<1>8. target'.buckets = target.buckets \union {b}
  BY <1>1, <1>7, AddBucketIs DEF BucketsGo
<1>9. PICK rest, made :
        /\ rest = import.todo \ {recorded} /\ made = import.made \union CollectionsOf(recorded)
        /\ Sets(BucketWork(rest, made))
  BY <1>7
<1>10. /\ import'.problem = import.problem /\ import'.known = import.known
       /\ \/ rest = {} /\ import'.pc = "structure" /\ import'.todo = made
          \/ /\ rest # {} /\ import'.pc = "buckets"
             /\ import'.todo = rest /\ import'.made = made
  BY <1>1, <1>9, WorkGoes
<1>11. \A r \in RecordedBuckets : r # recorded => b \notin TargetBuckets(r)
  BY <1>1, <1>3, <1>4, <1>5, WholeIs
<1>12. \A r \in RecordedBuckets :
         IF r \in rest THEN TargetBuckets(r) \intersect target'.buckets \subseteq import.known
         ELSE TargetBuckets(r) \subseteq target'.buckets /\ CollectionsOf(r) \subseteq made
  <2> TAKE r \in RecordedBuckets
  <2>1. CASE r = recorded
    BY <1>5, <1>8, <1>9, <2>1
  <2>2. CASE r # recorded
    BY <1>8, <1>9, <1>11, <2>2 DEF BucketsGo
  <2> QED BY <2>1, <2>2
<1>13. CASE import'.pc = "buckets"
  <2>1. BucketsGo'
    <3>1. import'.known \subseteq target'.buckets
      BY <1>8, <1>10 DEF BucketsGo
    <3> QED BY <1>2, <1>10, <1>12, <1>13, <3>1, NamesStay DEF BucketsGo
  <2> QED BY <1>10, <1>13, <2>1 DEF Smooth
<1>14. CASE import'.pc = "structure"
  <2>1. /\ rest = {} /\ import'.todo = made /\ edition' = "capella"
        /\ import'.manifest = import.manifest
    BY <1>2, <1>10, <1>14 DEF Quiet, Settled
  <2>2. \A k \in import.manifest.structure :
          /\ To(k)[1] \in target'.buckets
          /\ k[2] # "_default" => k \in made
    BY <1>1, <1>12, <2>1, WholeIs DEF RecordedBuckets, CollectionsOf
  <2>3. \A k \in import.manifest.structure : k \in made \/ To(k) \in target'.collections
    BY <1>1, <2>2, WholeIs
  <2>4. made \subseteq import.manifest.structure
    BY <1>1, <1>9 DEF CollectionsOf
  <2>5. CollectionsGo'
    BY <1>2, <2>1, <2>2, <2>3, <2>4, NamesStay DEF CollectionsGo, Needed, Ready
  <2> QED BY <1>10, <1>14, <2>5 DEF Smooth
<1> QED BY <1>10, <1>13, <1>14

LEMMA CreateCollectionSmooth ==
  ASSUME WholeBuckets, DefaultScopes, TypeIInv, Smooth("structure"), CollectionsGo, ~ Fault,
         CreateCollection
  PROVE  ~ import'.problem /\ CollectionsGo' /\ import'.pc = "structure"
<1>1. /\ DOMAIN import = ImportFields /\ import.manifest.structure \subseteq Keyspaces
      /\ ImportOK /\ TargetOK /\ import.todo \subseteq Keyspaces
  BY DEF TypeIInv, ImportOK, Smooth
<1>2. Settled /\ Quiet
  BY CreateCollectionDoes DEF Before, Quiet
<1>3. PICK k \in import.todo : \E b \in TargetBuckets(k[1]) :
         LET to == Retarget(k, b)
         IN  \/ /\ Belongs(to, b) /\ to \in target.collections
                /\ Sets([todo |-> import.todo \ {k}]) /\ UNCHANGED <<target, faults>>
             \/ /\ ~(Belongs(to, b) /\ to \in target.collections)
                /\ Creates(Belongs(to, b) /\ to[1] \in target.buckets, AddCollection(to),
                           Sets([todo |-> import.todo \ {k}]),
                           Sets([todo |-> import.todo \ {k}, problem |-> TRUE]))
  BY DEF CreateCollection
<1>4. PICK b \in TargetBuckets(k[1]) :
         LET to == Retarget(k, b)
         IN  \/ /\ Belongs(to, b) /\ to \in target.collections
                /\ Sets([todo |-> import.todo \ {k}]) /\ UNCHANGED <<target, faults>>
             \/ /\ ~(Belongs(to, b) /\ to \in target.collections)
                /\ Creates(Belongs(to, b) /\ to[1] \in target.buckets, AddCollection(to),
                           Sets([todo |-> import.todo \ {k}]),
                           Sets([todo |-> import.todo \ {k}, problem |-> TRUE]))
  BY <1>3
<1>5. Retarget(k, b) = To(k) /\ Belongs(To(k), b)
  BY <1>1, TargetIs
<1>6. To(k)[1] \in target.buckets
  BY <1>3 DEF CollectionsGo, Smooth, Undisturbed, Possible
<1>7. /\ Sets([todo |-> import.todo \ {k}])
      /\ \/ UNCHANGED target /\ To(k) \in target.collections
         \/ AddCollection(To(k))
  BY <1>4, <1>5, <1>6 DEF Creates
<1>8. /\ import'.problem = import.problem /\ import'.pc = import.pc
      /\ import'.todo = import.todo \ {k}
  BY <1>1, <1>7 DEF Sets, ImportFields
<1>9. /\ target'.buckets = target.buckets
      /\ target'.collections = target.collections \union {To(k)}
  BY <1>1, <1>7, AddCollectionIs
<1>10. CollectionsGo'
  BY <1>2, <1>8, <1>9, NamesStay DEF CollectionsGo, Ready, Settled, Quiet
<1> QED BY <1>8, <1>10 DEF Smooth

LEMMA StartDocumentsSmooth ==
  ASSUME TypeIInv, Smooth("structure"), CollectionsGo, ~ Fault, StartDocuments
  PROVE  ~ import'.problem /\ import'.pc = "documents" /\ \A k \in Needed' : Ready(k)'
<1>1. DOMAIN import = ImportFields /\ import.todo = {} /\ ImportOK /\ UNCHANGED target
  BY DEF TypeIInv, ImportOK, StartDocuments
<1>2. Sets([pc |-> "documents", todo |-> import.manifest.files])
  BY DEF StartDocuments
<1>3. import'.problem = import.problem /\ import'.pc = "documents"
  BY <1>1, <1>2 DEF Sets, ImportFields
<1>4. Settled /\ Quiet
  BY <1>1, StartDocumentsDoes
<1> QED BY <1>1, <1>3, <1>4, NamesStay DEF CollectionsGo, Ready, Smooth

LEMMA StartFileSmooth ==
  ASSUME TypeIInv, CheckedOK, Smooth("documents"), StartFile
  PROVE  ~ import'.problem /\ import'.pc = "lines" /\ import'.failed = 0
<1>1. ImportOK
  BY DEF TypeIInv
<1>2. PICK r \in import.todo :
        /\ r \in import.manifest.files
        /\ \/ dir.data[r.keyspace] = NoFile
           \/ /\ import'.pc = "lines" /\ import'.problem = import.problem
              /\ import'.failed = 0
  BY <1>1, StartFileDoes
<1>3. FixtureIntegrity(dir, import.manifest)
  BY DEF CheckedOK, Smooth, Undisturbed, Ended
<1>4. dir.data[r.keyspace] # NoFile
  BY <1>2, <1>3 DEF FixtureIntegrity
<1> QED BY <1>2, <1>4 DEF Smooth

\* What carries documents has its collection.
LEMMA FileIsReady ==
  ASSUME Listed(import.manifest), \A k \in Needed : Ready(k), NEW r \in import.manifest.files
  PROVE  To(r.keyspace) \in target.collections
BY DEF Listed, Needed, Ready

LEMMA PutDocumentSmooth ==
  ASSUME TypeIInv, DirOK, Listed(import.manifest), Smooth("lines"), ~ Fault,
         \A k \in Needed : Ready(k), import.failed = 0, PutDocument
  PROVE  ~ import'.problem /\ import'.pc = "lines" /\ import'.failed = 0
<1>1. DOMAIN import = ImportFields /\ import.now \in import.manifest.files
  BY DEF TypeIInv, ImportOK, Smooth
<1>2. To(import.now.keyspace) \in target.collections
  BY <1>1, FileIsReady
<1>3. Sets([line |-> import.line + 1, loaded |-> import.loaded + 1])
  BY <1>2 DEF PutDocument, Creates, To
<1>4. import'.problem = import.problem /\ import'.failed = import.failed /\ import'.pc = import.pc
  BY <1>1, <1>3 DEF Sets, ImportFields
<1> QED BY <1>4 DEF Smooth

LEMMA EndFileSmooth ==
  ASSUME TypeIInv, LoadIInv, Smooth("lines"), import.failed = 0, EndFile
  PROVE  ~ import'.problem /\ import'.pc = "documents"
<1>1. ImportOK /\ ~ raced /\ import.pc = "lines" /\ ~ import.problem
  BY DEF TypeIInv, Smooth, Undisturbed
<1>2. /\ import'.pc = "documents"
      /\ import'.problem = \/ import.problem \/ import.failed > 0
                           \/ import.loaded # import.now.document_count
      /\ import.line >= Len(Lines) \/ GivenUp
  BY <1>1, EndFileDoes
<1>3. ~ GivenUp
  BY FixtureImportAssumption DEF GivenUp
<1>4. /\ Lines = import.now.sha256 /\ import.now.document_count = Len(import.now.sha256)
      /\ import.now.sha256 \in Seq(Documents)
  BY <1>1, LineIsChecked DEF LoadIInv
<1>5. import.line <= Len(import.now.sha256) /\ import.line \in Nat /\ import.loaded \in Nat
      /\ import.failed + import.loaded = import.line
  BY <1>1 DEF LoadIInv, ProgressOK, ImportOK
<1>6. PICK n \in Nat : n = Len(import.now.sha256)
  BY <1>4
<1>7. import.loaded = import.now.document_count
  BY <1>2, <1>3, <1>4, <1>5, <1>6
<1> QED BY <1>1, <1>2, <1>7

LEMMA CreateIndexSmooth ==
  ASSUME WholeBuckets, DefaultScopes, TypeIInv, Listed(import.manifest), Smooth("indexes"),
         ~ Fault, \A k \in Needed : Ready(k), CreateIndex
  PROVE  ~ import'.problem /\ import'.pc = "indexes"
<1>1. DOMAIN import = ImportFields /\ ImportOK /\ import.pc = "indexes" /\ ~ import.problem
  BY DEF TypeIInv, ImportOK, Smooth
<1>2. PICK i \in import.todo :
        LET rest == import.todo \ {i}
            failing == Sets([todo |-> rest, problem |-> TRUE])
            places == RewriteIndexKeyspace(i, import.map)
        IN IF places = {} THEN failing /\ UNCHANGED <<target, faults>>
           ELSE \E to \in places :
                  IF target.indexes[to] # "none" /\ to \in target.collections
                  THEN Sets([todo |-> rest]) /\ UNCHANGED <<target, faults>>
                  ELSE Creates(to \in target.collections,
                               target' = [target EXCEPT !.indexes[to] = "deferred"],
                               Sets([todo |-> rest, made |-> import.made \union {<<i, to>>}]),
                               failing)
  BY DEF CreateIndex
<1>3. i \in import.manifest.indexes /\ i \in Indexes
  BY <1>1 DEF ImportOK
<1>4. PICK k \in Keyspaces : i = IndexOf(k)
  BY <1>3 DEF Indexes
<1>5. i.keyspace = k /\ (i.bare => k = DefaultOf(k[1]))
  BY <1>4 DEF IndexOf
<1>6. k \in Needed
  <2>1. CASE edition = "ee"
    BY <1>3, <1>5, <2>1 DEF Smooth, Undisturbed, Possible, Needed
  <2>2. CASE edition # "ee"
    BY <1>3, <1>5, <2>2 DEF Listed, Needed
  <2> QED BY <2>1, <2>2
<1>7. RewriteIndexKeyspace(i, import.map) = {To(k)}
  <2>1. CASE ~ i.bare
    BY <1>5, <2>1 DEF RewriteIndexKeyspace, To
  <2>2. CASE i.bare
    <3>1. RemapBuckets(k[1], import.map) = {To(k)[1]}
      BY <1>1, WholeIs DEF TargetBuckets
    <3>2. Cardinality({To(k)[1]}) = 1
      BY FS_Singleton
    <3>3. k[2] = "_default"
      BY <1>5, <2>2 DEF DefaultOf
    <3>4. To(k) = DefaultOf(To(k)[1])
      BY <1>1, <3>3, WholeIs
    <3> QED BY <1>5, <2>2, <3>1, <3>2, <3>4 DEF RewriteIndexKeyspace
  <2> QED BY <2>1, <2>2
<1>8. To(k) \in target.collections
  BY <1>6 DEF Ready
<1>9. \/ Sets([todo |-> import.todo \ {i}])
      \/ Sets([todo |-> import.todo \ {i}, made |-> import.made \union {<<i, To(k)>>}])
  BY <1>2, <1>7, <1>8 DEF Creates
<1> QED BY <1>1, <1>9 DEF Sets, ImportFields

LEMMA BuildKeyspaceSmooth ==
  ASSUME TypeIInv, BuiltOK, Smooth("build"), edition = "ee", ~ Fault, BuildKeyspace
  PROVE  ~ import'.problem /\ import'.pc = "build"
<1>1. /\ DOMAIN import = ImportFields /\ import.pc = "build" /\ ~ import.problem
      /\ import.todo \subseteq import.made
  BY DEF TypeIInv, ImportOK, Smooth
<1>2. PICK made \in import.todo :
       LET named == RemapKeyspace(made[1].keyspace, import.map)
       IN  Creates(target.indexes[named] # "none", Build({named}),
                   Sets([todo |-> import.todo \ {made}]),
                   Sets([todo |-> import.todo \ {made}, problem |-> TRUE]))
  BY DEF BuildKeyspace
<1>3. target.indexes[RemapKeyspace(made[1].keyspace, import.map)] # "none"
  BY <1>1 DEF BuiltOK, To
<1>4. Sets([todo |-> import.todo \ {made}])
  BY <1>2, <1>3 DEF Creates
<1> QED BY <1>1, <1>4 DEF Sets, ImportFields

LEMMA BuildBucketsSmooth ==
  ASSUME TypeIInv, Smooth("indexes"), ~ Fault, BuildBuckets
  PROVE  ~ import'.problem /\ import'.pc = "done"
<1>1. DOMAIN import = ImportFields /\ ~ import.problem
  BY DEF TypeIInv, ImportOK, Smooth
<1>2. Sets([pc |-> "done"])
  BY DEF BuildBuckets, Creates
<1> QED BY <1>1, <1>2 DEF Sets, ImportFields

LEMMA StartImportSmooth == ASSUME DirOK, StartImport PROVE SmoothOK'
<1>1. CASE Verifies(dir)
  <2>1. import'.pc = "plan" /\ import'.problem = FALSE
    BY <1>1 DEF StartImport, Free
  <2> QED BY <2>1 DEF SmoothOK, Loading
<1>2. CASE ~ Verifies(dir)
  <2>1. import'.pc = "refused"
    BY <1>2 DEF StartImport, Free
  <2> QED BY <2>1 DEF SmoothOK, Under
<1> QED BY <1>1, <1>2

LEMMA ImportStepSmooth ==
  ASSUME WholeBuckets, DefaultScopes, TypeIInv, DirOK, LoadIInv, BuiltOK,
         Listed(import.manifest), PhaseOK, SmoothOK, ImportStep
  PROVE  SmoothOK'
<1>1. CASE StartImport
  BY <1>1, StartImportSmooth
<1> SUFFICES ASSUME ~ StartImport, Undisturbed', import'.pc \in Under
             PROVE  /\ ~ import'.problem
                    /\ import'.pc = "buckets" => BucketsGo'
                    /\ import'.pc = "structure" => CollectionsGo'
                    /\ import'.pc \in Loading => \A k \in Needed' : Ready(k)'
                    /\ import'.pc = "lines" => import'.failed = 0
  BY <1>1 DEF SmoothOK
<1>2. /\ Undisturbed /\ ~ Fault /\ Settled /\ Quiet /\ ImportOK /\ CheckedOK
  BY UndisturbedBefore, ImportSettles DEF TypeIInv, LoadIInv
<1>3. /\ import.pc \in Under /\ Smooth(import.pc)
      /\ import.pc = "buckets" => BucketsGo /\ edition = "capella"
      /\ import.pc = "build" => edition = "ee"
      /\ import.pc = "structure" => CollectionsGo
      /\ import.pc \in Loading => \A k \in Needed : Ready(k)
      /\ import.pc = "lines" => import.failed = 0
  <2>1. import.pc \in Under
    BY DEF ImportStep, PlanBuckets, PlanFiles, CreateBucket, CreateCollection, StartDocuments,
           StartFile, PutDocument, EndFile, StartIndexes, CreateIndex, EndIndexes,
           BuildKeyspace, EndBuild, BuildBuckets, Under
  <2> QED BY <1>2, <2>1 DEF SmoothOK, PhaseOK, Smooth
<1>4. CASE PlanBuckets
  <2>1. import.pc = "plan"
    BY <1>4 DEF PlanBuckets
  <2> QED BY <1>2, <1>3, <1>4, <2>1, PlanBucketsSmooth DEF Loading
<1>5. CASE PlanFiles
  <2>1. import.pc = "plan"
    BY <1>5 DEF PlanFiles
  <2> QED BY <1>2, <1>3, <1>5, <2>1, PlanFilesSmooth DEF Loading
<1>6. CASE CreateBucket
  <2>1. import.pc = "buckets"
    BY <1>6 DEF CreateBucket
  <2>2. \A b \in target'.buckets : DefaultOf(b) \in target'.collections
    BY DefaultsStay DEF PhaseOK
  <2> QED BY <1>2, <1>3, <1>6, <2>1, <2>2, CreateBucketSmooth DEF Loading
<1>7. CASE CreateCollection
  <2>1. import.pc = "structure"
    BY <1>7 DEF CreateCollection
  <2> QED BY <1>2, <1>3, <1>7, <2>1, CreateCollectionSmooth DEF Loading
<1>8. CASE StartDocuments
  <2>1. import.pc = "structure"
    BY <1>8 DEF StartDocuments
  <2> QED BY <1>2, <1>3, <1>8, <2>1, StartDocumentsSmooth
<1>9. ASSUME ~ CreateBucket, ~ CreateCollection, import.pc \in Loading
      PROVE  \A k \in Needed' : Ready(k)'
  BY <1>2, <1>3, <1>9, PlacesStay, NamesStay DEF Ready
<1>10. CASE StartFile
  <2>1. import.pc = "documents"
    BY <1>10 DEF StartFile
  <2>2. ~ CreateBucket /\ ~ CreateCollection
    BY <2>1 DEF CreateBucket, CreateCollection
  <2> QED BY <1>2, <1>3, <1>9, <1>10, <2>1, <2>2, StartFileSmooth DEF Loading
<1>11. CASE PutDocument
  <2>1. import.pc = "lines"
    BY <1>11 DEF PutDocument
  <2>2. ~ CreateBucket /\ ~ CreateCollection
    BY <2>1 DEF CreateBucket, CreateCollection
  <2> QED BY <1>2, <1>3, <1>9, <1>11, <2>1, <2>2, PutDocumentSmooth DEF Loading
<1>12. CASE EndFile
  <2>1. import.pc = "lines"
    BY <1>12 DEF EndFile
  <2>2. ~ CreateBucket /\ ~ CreateCollection
    BY <2>1 DEF CreateBucket, CreateCollection
  <2> QED BY <1>2, <1>3, <1>9, <1>12, <2>1, <2>2, EndFileSmooth DEF Loading
<1>13. CASE StartIndexes
  <2>1. import.pc = "documents" /\ import'.pc = "indexes" /\ import'.problem = import.problem
    BY <1>2, <1>13, StartIndexesDoes
  <2>2. ~ CreateBucket /\ ~ CreateCollection
    BY <2>1 DEF CreateBucket, CreateCollection
  <2> QED BY <1>3, <1>9, <2>1, <2>2 DEF Loading, Smooth
<1>14. CASE CreateIndex
  <2>1. import.pc = "indexes"
    BY <1>14 DEF CreateIndex
  <2>2. ~ CreateBucket /\ ~ CreateCollection
    BY <2>1 DEF CreateBucket, CreateCollection
  <2> QED BY <1>2, <1>3, <1>9, <1>14, <2>1, <2>2, CreateIndexSmooth DEF Loading
<1>15. CASE EndIndexes \/ EndBuild
  <2>1. /\ import.pc \in {"indexes", "build"} /\ import'.pc \in {"build", "done"}
        /\ import'.problem = import.problem
    BY <1>2, <1>15, EndIndexesDoes, EndBuildDoes
  <2>2. ~ CreateBucket /\ ~ CreateCollection
    BY <2>1 DEF CreateBucket, CreateCollection
  <2> QED BY <1>3, <1>9, <2>1, <2>2 DEF Loading, Smooth
<1>16. CASE BuildKeyspace
  <2>1. import.pc = "build"
    BY <1>16 DEF BuildKeyspace
  <2>2. ~ CreateBucket /\ ~ CreateCollection
    BY <2>1 DEF CreateBucket, CreateCollection
  <2> QED BY <1>2, <1>3, <1>9, <1>16, <2>1, <2>2, BuildKeyspaceSmooth DEF Loading
<1>17. CASE BuildBuckets
  <2>1. import.pc = "indexes"
    BY <1>17 DEF BuildBuckets
  <2>2. ~ CreateBucket /\ ~ CreateCollection
    BY <2>1 DEF CreateBucket, CreateCollection
  <2> QED BY <1>2, <1>3, <1>9, <1>17, <2>1, <2>2, BuildBucketsSmooth DEF Loading
<1> QED BY <1>4, <1>5, <1>6, <1>7, <1>8, <1>10, <1>11, <1>12, <1>13, <1>14, <1>15, <1>16,
           <1>17 DEF ImportStep

\* Between the steps of the import nothing it relies on goes.
LEMMA StillSmooth ==
  ASSUME SmoothOK, PhaseOK, UNCHANGED <<import, edition, clean, faultsBefore>>,
         target'.buckets = target.buckets, target'.collections = target.collections,
         faults' >= faults, faults' \in Nat, raced => raced'
  PROVE  SmoothOK'
<1>1. Undisturbed' => Undisturbed
  BY DEF Undisturbed, Possible, To, PhaseOK
<1>2. /\ Needed' = Needed /\ \A k \in Needed : Ready(k) => Ready(k)'
  BY DEF Needed, Ready, To
<1>3. /\ BucketsGo => BucketsGo'
      /\ CollectionsGo => CollectionsGo'
  BY <1>2 DEF BucketsGo, CollectionsGo, RecordedBuckets, TargetBuckets, CollectionsOf, To
<1> QED BY <1>1, <1>2, <1>3 DEF SmoothOK

LEMMA StepSmooth ==
  ASSUME WholeBuckets, DefaultScopes, TypeIInv, DirOK, LoadIInv, BuiltOK,
         Listed(import.manifest), PhaseOK, SmoothOK, [Next]_vars
  PROVE  SmoothOK'
<1>1. [Next]_vars => PhaseOK'
  BY StepPhases
<1>2. CASE Exporting
  <2>1. faults' >= faults
    BY <1>2, FaultsGrow DEF Next, Fault, PhaseOK
  <2> QED BY <1>1, <1>2, <2>1, ExportingStill, StillSmooth DEF PhaseOK
<1>3. CASE Importing
  BY <1>3, ImportStepSmooth DEF Importing
<1>4. CASE Online
  BY <1>1, <1>4, OnlineDoes, StillSmooth DEF Online, OnlyIndexes, PhaseOK, importHistory
<1>5. CASE Restart
  BY <1>5, FreeIs DEF Restart, SmoothOK, Under
<1>6. CASE UNCHANGED vars
  BY <1>6, StillSmooth DEF vars, importVars, PhaseOK
<1> QED BY <1>2, <1>3, <1>4, <1>5, <1>6 DEF Next

LEMMA SmoothStarts == Init => ListedOK /\ PhaseOK /\ SmoothOK
<1> SUFFICES ASSUME Init PROVE ListedOK /\ PhaseOK /\ SmoothOK
  OBVIOUS
<1>1. /\ import.pc = "idle" /\ import.manifest = NoManifestRead
      /\ faults = 0 /\ faultsBefore = 0
  BY FreeIs DEF Init, ImportInit
<1>2. export = Idle /\ dir.manifest = NoManifest
  BY DEF Init, ExportInit, EmptyDir
<1>3. \A b \in target.buckets : DefaultOf(b) \in target.collections
  BY DEF Init, ImportInit
<1>4. ListedOK
  <2>1. ~ Readable(dir)
    BY <1>2 DEF Readable
  <2> QED BY <1>1, <1>2, <2>1, FreshIs DEF ListedOK, ExportListed, DirListed, Listed, NoManifestRead
<1> QED BY <1>1, <1>3, <1>4 DEF PhaseOK, SmoothOK, Under

\* capella_fixture_import and admin_fixture_import with maps that move whole buckets:
\* whatever earlier imports, lost answers and crashes left on the target, an import
\* during which no request fails and no export runs over the directory reports no
\* problem, once the buckets Enterprise Edition may not create exist.
THEOREM ImportsCanBeRepeated ==
  OneToOne /\ WholeBuckets /\ DefaultScopes => (Spec => []RepeatSucceeds)
<1> SUFFICES ASSUME OneToOne, WholeBuckets, DefaultScopes PROVE Spec => []RepeatSucceeds
  OBVIOUS
<1>1. Init => LoadIInv /\ BuiltOK /\ ListedOK /\ PhaseOK /\ SmoothOK
  BY ImportingStarts, SmoothStarts
<1>2. ExportIInv => DirOK
  BY DEF ExportIInv
<1>3. /\ IInv /\ TypeIInv /\ DirOK /\ LoadIInv /\ BuiltOK /\ ListedOK /\ PhaseOK /\ SmoothOK
      /\ [Next]_vars
      => (LoadIInv /\ BuiltOK /\ ListedOK /\ PhaseOK /\ SmoothOK)'
  BY StepLoads, StepBuilt, StepListed, StepPhases, StepSmooth DEF ListedOK
<1>4. SmoothOK => RepeatSucceeds
  BY DEF SmoothOK, RepeatSucceeds, Undisturbed, Under
<1> QED BY <1>1, <1>2, <1>3, <1>4, FixturesTyped, PTL DEF Spec
--------------------------------------------------------------------------------
\* What a reader of the directory finds.
Found == IF Verifies(dir) THEN Payload(dir, dir.manifest) ELSE Nothing

LEMMA FoundIsRecorded ==
  ASSUME Verifies(dir)
  PROVE  Found = Recorded(dir.manifest) /\ Readable(dir)
<1>1. \A r \in dir.manifest.files : dir.data[r.keyspace] = r.sha256
  BY DEF Verifies, FixtureIntegrity, Sha256File
<1> QED BY <1>1 DEF Found, Recorded, Payload, Verifies

LEMMA FoundIsFinished == IInv /\ Found # Nothing => Verifies(dir) /\ Found \in finished
<1> SUFFICES ASSUME IInv, Found # Nothing PROVE Verifies(dir) /\ Found \in finished
  OBVIOUS
<1>1. Verifies(dir)
  BY DEF Found
<1> QED BY <1>1, FoundIsRecorded DEF IInv, ManifestOK

\* A step that finishes no export leaves what is found, spoils it, or restores what an
\* earlier export wrote.
LEMMA NothingNew ==
  ASSUME IInv, IInv', UNCHANGED finished,
         \/ UNCHANGED dir
         \/ dir'.manifest = dir.manifest
         \/ dir'.manifest = Torn
  PROVE  [Store!Next]_<<Found, finished>>
<1>1. CASE UNCHANGED dir
  <2>1. Found' = Found
    BY <1>1 DEF Found, Verifies, Readable, FixtureIntegrity, Payload
  <2> QED BY <2>1
<1>2. CASE ~ Verifies(dir)'
  <2>1. Found' = Nothing
    BY <1>2 DEF Found
  <2> QED BY <2>1 DEF Store!Next, Store!Spoil, Found
<1>3. CASE Verifies(dir)' /\ ~ Verifies(dir)
  <2>1. Found = Nothing
    BY <1>3 DEF Found
  <2>2. (IInv /\ Found # Nothing => Verifies(dir) /\ Found \in finished)'
    BY FoundIsFinished, PTL
  <2> QED BY <2>1, <2>2 DEF Store!Next, Store!Restore, Found
<1>4. CASE Verifies(dir)' /\ Verifies(dir) /\ ~ UNCHANGED dir
  <2>1. dir'.manifest = dir.manifest
    <3>1. Readable(dir)'
      BY <1>4 DEF Verifies
    <3> QED BY <1>4, <3>1 DEF Readable
  <2>2. (Verifies(dir) => Found = Recorded(dir.manifest))'
    BY FoundIsRecorded, PTL
  <2>3. Found' = Found
    BY <1>4, <2>1, <2>2, FoundIsRecorded DEF Recorded
  <2> QED BY <2>3
<1> QED BY <1>1, <1>2, <1>3, <1>4

LEMMA NoManifestIsUnreadable == Torn # NoManifest /\ Manifest \notin {NoManifest, Torn}
BY DEF Torn, NoManifest, Manifest

\* The manifest that is written is true of the files, which are as an export wrote them.
LEMMA WriteManifestFinishes ==
  ASSUME IInv, ExportIInv, WriteManifest
  PROVE  \/ UNCHANGED <<dir, finished>>
         \/ Store!Finish
<1>1. CASE UNCHANGED <<dir, finished>>
  BY <1>1
<1>2. CASE /\ dir' = [dir EXCEPT !.manifest = Manifest]
           /\ finished' = finished \union {Payload(dir, Manifest)}
  <2>1. dir'.data = dir.data /\ dir'.manifest = Manifest
    BY <1>2 DEF IInv, ShapesOK
  <2>2. Manifest.files = export.files
    BY DEF Manifest
  <2>3. ASSUME NEW r \in export.files
        PROVE  /\ r.keyspace \in Keyspaces /\ dir.data[r.keyspace] = r.sha256
               /\ r.sha256 \in Written /\ r.sha256 # NoFile
               /\ Len(r.sha256) = r.document_count
    <3>1. r \in Records /\ dir.data[r.keyspace] = r.sha256
      BY DEF IInv, RecordedOK, ExportIInv, ExportOK
    <3> QED BY <3>1, NoFileIsNone DEF Records, Files
  <2>4. Verifies(dir)'
    BY <2>1, <2>2, <2>3, NoManifestIsUnreadable
       DEF Verifies, Readable, FixtureIntegrity, Sha256File, CountLines
  <2>5. Found' = Payload(dir, Manifest)
    BY <2>1, <2>4 DEF Found, Payload
  <2>6. Payload(dir, Manifest) \in SUBSET [keyspace : Keyspaces, file : Seq(Documents)]
    <3> SUFFICES ASSUME NEW r \in export.files
                 PROVE  [keyspace |-> r.keyspace, file |-> dir.data[r.keyspace]]
                          \in [keyspace : Keyspaces, file : Seq(Documents)]
      BY <2>2 DEF Payload
    <3> QED BY <2>3, WrittenIsSeq
  <2> QED BY <1>2, <2>5, <2>6 DEF Store!Finish, Found
<1> QED BY <1>1, <1>2 DEF WriteManifest

\* The other steps of an export do not finish one.
LEMMA ExportWrites ==
  ASSUME IInv, ExportIInv, ExportStep, ~ WriteManifest
  PROVE  /\ UNCHANGED finished
         /\ \/ UNCHANGED dir
            \/ dir'.manifest = dir.manifest
            \/ dir'.manifest = Torn
<1>1. UNCHANGED finished
  BY DEF ExportStep, StartExport, ReadStructure, OpenFile, WritePage, EndData, OpenManifest
<1>2. DOMAIN dir = {"data", "manifest"}
  BY DEF IInv, ShapesOK
<1>3. CASE StartExport \/ ReadStructure \/ EndData
  BY <1>1, <1>3 DEF StartExport, ReadStructure, EndData
<1>4. CASE OpenFile
  <2>1. PICK k : dir' = [dir EXCEPT !.data[k] = <<>>]
    BY <1>4 DEF OpenFile
  <2> QED BY <1>1, <1>2, <2>1
<1>5. CASE WritePage
  <2>1. UNCHANGED dir \/ \E k, content : dir' = [dir EXCEPT !.data[k] = content]
    BY <1>5 DEF WritePage, CloseFile
  <2> QED BY <1>1, <1>2, <2>1
<1>6. CASE OpenManifest
  BY <1>1, <1>2, <1>6 DEF OpenManifest
<1> QED BY <1>3, <1>4, <1>5, <1>6 DEF ExportStep

LEMMA StepStores ==
  IInv /\ IInv' /\ ExportIInv /\ [Next]_vars => [Store!Next]_<<Found, finished>>
<1> SUFFICES ASSUME IInv, IInv', ExportIInv, [Next]_vars
             PROVE  [Store!Next]_<<Found, finished>>
  OBVIOUS
<1>1. CASE ExportStep /\ ~ WriteManifest
  BY <1>1, ExportWrites, NothingNew
<1>2. CASE WriteManifest
  <2>1. CASE Store!Finish
    BY <2>1 DEF Store!Next
  <2> QED BY <1>2, <2>1, WriteManifestFinishes, NothingNew
<1>3. CASE Write
  BY <1>3, NothingNew DEF Write
<1>4. CASE Importing
  BY <1>4, ImportStepStill, NothingNew DEF Importing, exportVars
<1>5. CASE Online
  BY <1>5, NothingNew DEF Online, exportVars
<1>6. CASE Restart
  BY <1>6, NothingNew DEF Restart
<1>7. CASE UNCHANGED vars
  BY <1>7, NothingNew DEF vars, exportVars
<1> QED BY <1>1, <1>2, <1>3, <1>4, <1>5, <1>6, <1>7 DEF Next, Exporting

LEMMA StoreStarts == Init => Store!Init
<1> SUFFICES ASSUME Init PROVE Store!Init
  OBVIOUS
<1>1. dir.manifest = NoManifest /\ finished = {}
  BY DEF Init, EmptyDir, ExportInit
<1>2. ~ Verifies(dir)
  BY <1>1 DEF Verifies, Readable
<1> QED BY <1>1, <1>2 DEF Store!Init

\* The two export tools implement the abstract store: the directory is, at any moment,
\* nothing a reader would accept or the files of one finished export, and only an export
\* that finishes, or one that writes the same bytes again, puts something there.
THEOREM ExportsAreAStore == Spec => StoreSpec
<1>1. Init => Store!Init
  BY StoreStarts
<1>2. /\ IInv /\ IInv' /\ ExportIInv /\ [Next]_vars
      => [Store!Next]_<<IF Verifies(dir) THEN Payload(dir, dir.manifest) ELSE Nothing, finished>>
  BY StepStores DEF Found
<1> QED BY <1>1, <1>2, FixturesTyped, PTL DEF Spec, StoreSpec, Store!Spec
================================================================================
