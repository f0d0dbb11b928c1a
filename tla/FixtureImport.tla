----------------------------- MODULE FixtureImport -----------------------------
(* capella_fixture_import and admin_fixture_import: check the fixture, then    *)
(* create what is missing on the target, write the documents, create the       *)
(* indexes and ask for their build.  Every step reports its own failures and   *)
(* goes on; running the import again is the repair.                            *)
EXTENDS FixtureFiles

CONSTANTS
  ImportCalls,    \* arguments of an import: <<keyspace_map, build or create indexes>>
  TargetStarts,   \* the sets of buckets the target may have at first
  PrefixedBuckets,\* bucket names the guardrails let this server create
  FailureLimit,   \* failed documents of one file before it is given up (20)
  BatchSize,      \* Capella: documents in flight, and the step of its limit (8)
  MaxImports      \* bound: imports of a behaviour

ASSUME FixtureImportAssumption ==
  FailureLimit \in Nat \ {0} /\ BatchSize \in Nat \ {0} /\ MaxImports \in Nat

VARIABLES
  target,         \* the target cluster: [buckets, collections, documents, indexes]
  import,         \* the call that runs
  imports,        \* imports started so far
  raced,          \* (history) the directory changed since the import read it
  clean,          \* (history) this import started on a target without documents
  faultsBefore    \* (history) the failures before this import

importVars == <<target, import, imports, raced, clean, faultsBefore>>

importHistory == <<imports, raced, clean, faultsBefore>>

\* The collections an import can come to: the recorded ones, those the maps name,
\* and the recorded ones in the buckets the maps name.
Maps == {call[1] : call \in ImportCalls}
Named == UNION {{m[k] : k \in DOMAIN m} : m \in Maps}
TargetKeyspaces ==
  Keyspaces \union Named
    \union {<<to[1], k[2], k[3]>> : to \in Keyspaces \union Named, k \in Keyspaces}
Buckets == {k[1] : k \in Keyspaces \union Named}
\* Other buckets of the target are nobody's concern here.
ASSUME TargetAssumption == TargetStarts \subseteq SUBSET Buckets
NoDocuments == [key \in Keys |-> 0]

NoManifestRead == [files |-> {}, structure |-> {}, indexes |-> {}, state |-> "none"]
Free == [pc |-> "idle", map |-> <<>>, build |-> FALSE, manifest |-> NoManifestRead,
         known |-> {}, todo |-> {}, problem |-> FALSE, made |-> {}, now |-> <<>>,
         line |-> 0, loaded |-> 0, failed |-> 0]

Ended == {"idle", "refused", "incomplete", "done"}
Sets(fields) == import' = [f \in DOMAIN import |->
                             IF f \in DOMAIN fields THEN fields[f] ELSE import[f]]
\* Both records in one; the first decides what both have.
With(a, b) == [f \in DOMAIN a \union DOMAIN b |-> IF f \in DOMAIN a THEN a[f] ELSE b[f]]
Refused == import' = [import EXCEPT !.pc = "refused"]

ImportInit ==
  /\ \E buckets \in TargetStarts :
       target = [buckets |-> buckets,
                 collections |-> {DefaultOf(b) : b \in buckets},
                 documents |-> [k \in TargetKeyspaces |-> NoDocuments],
                 indexes |-> [k \in TargetKeyspaces |-> "none"]]
  /\ import = Free /\ imports = 0 /\ raced = FALSE /\ clean = TRUE /\ faultsBefore = 0

\* The manifest is read and every recorded file checked before any request.
StartImport ==
  /\ import.pc \in Ended /\ imports < MaxImports
  /\ imports' = imports + 1 /\ raced' = FALSE
  /\ faultsBefore' = faults
  /\ clean' = \A k \in TargetKeyspaces : target.documents[k] = NoDocuments
  /\ IF Verifies(dir)
     THEN \E call \in ImportCalls :
            import' = [Free EXCEPT !.pc = "plan", !.map = call[1], !.build = call[2],
                                   !.manifest = dir.manifest]
     ELSE import' = [Free EXCEPT !.pc = "refused"]
  /\ UNCHANGED <<target, dir, faults, edition>>

\* Capella: the target's buckets are listed once, and every bucket the import
\* would create has to carry the prefix before the first one is created.
TargetBuckets(bucket) == RemapBuckets(bucket, import.map)
RecordedBuckets == {k[1] : k \in import.manifest.structure}
Planned == UNION {TargetBuckets(b) : b \in RecordedBuckets}

\* made collects the recorded collections whose bucket is there.
BucketWork(rest, made) ==
  IF rest = {} THEN [pc |-> "structure", todo |-> made, made |-> {}]
               ELSE [pc |-> "buckets", todo |-> rest, made |-> made]

PlanBuckets ==
  /\ edition = "capella" /\ import.pc = "plan"
  /\ \/ /\ Planned \ target.buckets \subseteq PrefixedBuckets
        /\ Sets(With([known |-> target.buckets], BucketWork(RecordedBuckets, {})))
        /\ UNCHANGED faults
     \/ ~(Planned \ target.buckets \subseteq PrefixedBuckets) /\ Refused /\ UNCHANGED faults
     \/ Fault /\ Refused
  /\ UNCHANGED <<target, importHistory, dir, edition>>

\* Enterprise Edition creates only what the documents need, and no bucket.
PlanFiles ==
  /\ edition = "ee" /\ import.pc = "plan"
  /\ Sets([pc |-> "structure", todo |-> {r.keyspace : r \in import.manifest.files}])
  /\ UNCHANGED <<target, importHistory, dir, faults, edition>>

\* What a create request can come to: it is done and answered; it fails, always
\* when what it needs is missing; it is done and its answer is lost, which the
\* caller sees as a failure.  An answer "already exists" is no failure.
CreatesAnyway(possible, done, fine, failing) == done /\ fine /\ UNCHANGED faults
Creates(possible, done, fine, failing) ==
  \/ possible /\ done /\ fine /\ UNCHANGED faults
  \/ possible /\ done /\ failing /\ Fault
  \/ possible /\ UNCHANGED target /\ failing /\ Fault
  \/ ~possible /\ UNCHANGED target /\ failing /\ UNCHANGED faults

AddBucket(b) == target' = [target EXCEPT !.buckets = @ \union {b},
                                         !.collections = @ \union {DefaultOf(b)}]
AddCollection(k) == target' = [target EXCEPT !.collections = @ \union {k}]

\* Capella: one recorded bucket; its named collections become work only when the
\* bucket was there or could be created.  (_default and system scopes are Capella's
\* own and are left out.)
CollectionsOf(bucket) ==
  {k \in import.manifest.structure : k[1] = bucket /\ k[2] # "_default"}

CreateBucket ==
  /\ import.pc = "buckets" /\ UNCHANGED <<importHistory, dir, edition>>
  /\ \E recorded \in import.todo : \E b \in TargetBuckets(recorded) :
       LET rest == import.todo \ {recorded}
           more == Sets(BucketWork(rest, import.made \union CollectionsOf(recorded)))
       IN IF b \in import.known
          THEN more /\ UNCHANGED <<target, faults>>
          ELSE Creates(b \notin target.buckets, AddBucket(b), more,
                       Sets(With([problem |-> TRUE], BucketWork(rest, import.made))))

\* The target of one recorded collection whose bucket resolved to b: Capella falls
\* back to b for a collection the map does not name, Enterprise Edition does not.
\* Capella refuses a collection that the map sends to another bucket than b.
Retarget(k, b) ==
  IF edition = "ee" \/ k \in DOMAIN import.map THEN RemapKeyspace(k, import.map)
  ELSE <<b, k[2], k[3]>>
Belongs(to, b) == edition = "ee" \/ to[1] = b

CreateEveryCollection ==
  /\ import.pc = "structure" /\ UNCHANGED <<importHistory, dir, edition>>
  /\ \E k \in import.todo : \E b \in TargetBuckets(k[1]) :
       LET to == Retarget(k, b)
       IN  Creates(Belongs(to, b) /\ to[1] \in target.buckets /\ to \notin target.collections,
                   AddCollection(to),
                   Sets([todo |-> import.todo \ {k}]),
                   Sets([todo |-> import.todo \ {k}, problem |-> TRUE]))
CreateCollection ==
  /\ import.pc = "structure" /\ UNCHANGED <<importHistory, dir, edition>>
  /\ \E k \in import.todo : \E b \in TargetBuckets(k[1]) :
       LET to == Retarget(k, b)
       IN  \/ /\ Belongs(to, b) /\ to \in target.collections
              /\ Sets([todo |-> import.todo \ {k}]) /\ UNCHANGED <<target, faults>>
           \/ /\ ~(Belongs(to, b) /\ to \in target.collections)
              /\ Creates(Belongs(to, b) /\ to[1] \in target.buckets, AddCollection(to),
                         Sets([todo |-> import.todo \ {k}]),
                         Sets([todo |-> import.todo \ {k}, problem |-> TRUE]))

\* Capella asks for the Data API and its credential before the documents; the SDK
\* connection of Enterprise Edition fails at the same point.  Either ends the call.
StartDocuments ==
  /\ import.pc = "structure" /\ import.todo = {}
  /\ \/ /\ Sets([pc |-> "documents", todo |-> import.manifest.files])
        /\ UNCHANGED faults
     \/ Fault /\ Sets([pc |-> "incomplete"])
  /\ UNCHANGED <<target, importHistory, dir, edition>>

StartFile ==
  /\ import.pc = "documents"
  /\ \E r \in import.todo :
       IF dir.data[r.keyspace] = NoFile
       THEN Sets([todo |-> import.todo \ {r}, problem |-> TRUE])
       ELSE Sets([pc |-> "lines", now |-> r, todo |-> import.todo \ {r},
                  line |-> 0, loaded |-> 0, failed |-> 0])
  /\ UNCHANGED <<target, importHistory, dir, faults, edition>>

\* The file is streamed: what it holds now, not what was checked.
Lines == IF dir.data[import.now.keyspace] = NoFile THEN <<>>
         ELSE dir.data[import.now.keyspace]
GivenUp ==
  import.failed >= FailureLimit /\ (edition = "ee" \/ import.line % BatchSize = 0)

PutDocument ==
  LET document == Lines[import.line + 1]
      to == RemapKeyspace(import.now.keyspace, import.map)
  IN
  /\ import.pc = "lines" /\ import.line < Len(Lines) /\ ~GivenUp
  /\ Creates(to \in target.collections,
             target' = [target EXCEPT !.documents[to][document.key] = document.version],
             Sets([line |-> import.line + 1, loaded |-> import.loaded + 1]),
             Sets([line |-> import.line + 1, failed |-> import.failed + 1]))
  /\ UNCHANGED <<importHistory, dir, edition>>

EndFileTrusting ==
  /\ import.pc = "lines" /\ (import.line >= Len(Lines) \/ GivenUp)
  /\ Sets([pc |-> "documents"])
  /\ UNCHANGED <<target, importHistory, dir, faults, edition>>
EndFile ==
  /\ import.pc = "lines" /\ (import.line >= Len(Lines) \/ GivenUp)
  /\ Sets([pc |-> "documents",
           problem |-> \/ import.problem \/ import.failed > 0
                       \/ import.loaded # import.now.document_count])
  /\ UNCHANGED <<target, importHistory, dir, faults, edition>>

\* Enterprise Edition creates no index when told not to; Capella creates them
\* always and only skips the build.
StartIndexes ==
  /\ import.pc = "documents" /\ import.todo = {}
  /\ Sets([pc |-> "indexes", made |-> {},
           todo |-> IF edition = "ee" /\ ~import.build THEN {}
                    ELSE import.manifest.indexes])
  /\ UNCHANGED <<target, importHistory, dir, faults, edition>>

\* Enterprise Edition defers every index; the recorded Capella definitions of this
\* model are deferred ones.  An index that is there already is skipped.
CreateIndex ==
  /\ import.pc = "indexes" /\ UNCHANGED <<importHistory, dir, edition>>
  /\ \E i \in import.todo :
       LET rest == import.todo \ {i}
           failing == Sets([todo |-> rest, problem |-> TRUE])
           places == RewriteIndexKeyspace(i, import.map)
       IN IF places = {} THEN failing /\ UNCHANGED <<target, faults>>
          ELSE \E to \in places :
                 IF target.indexes[to] # "none" /\ to \in target.collections
                 THEN Sets([todo |-> rest]) /\ UNCHANGED <<target, faults>>
                 ELSE Creates(to \in target.collections,
                              target' = [target EXCEPT !.indexes[to] = "deferred"],
                              Sets([todo |-> rest, made |-> import.made \union {<<i, to>>}]),
                              failing)

\* Enterprise Edition: one BUILD INDEX per keyspace, named by the map.  Capella:
\* one per bucket, naming the bucket, that is its default collection, and all
\* created indexes; "not found" is passed over.
Build(places) == target' = [target EXCEPT !.indexes =
  [k \in TargetKeyspaces |->
     IF k \in places /\ target.indexes[k] = "deferred" THEN "building" ELSE target.indexes[k]]]

EndIndexes ==
  /\ import.pc = "indexes" /\ import.todo = {} /\ edition = "ee"
  /\ Sets([pc |-> "build", todo |-> import.made])
  /\ UNCHANGED <<target, importHistory, dir, faults, edition>>

BuildUnreported ==
  /\ import.pc = "build" /\ import.todo # {}
  /\ \E made \in import.todo :
       LET named == RemapKeyspace(made[1].keyspace, import.map)
           end == Sets([todo |-> import.todo \ {made}])
       IN  Creates(target.indexes[named] # "none", Build({named}), end, end)
  /\ UNCHANGED <<importHistory, dir, edition>>
BuildKeyspace ==
  /\ import.pc = "build" /\ import.todo # {}
  /\ \E made \in import.todo :
       LET named == RemapKeyspace(made[1].keyspace, import.map)
       IN  Creates(target.indexes[named] # "none", Build({named}),
                   Sets([todo |-> import.todo \ {made}]),
                   Sets([todo |-> import.todo \ {made}, problem |-> TRUE]))
  /\ UNCHANGED <<importHistory, dir, edition>>

EndBuild ==
  /\ import.pc = "build" /\ import.todo = {} /\ Sets([pc |-> "done"])
  /\ UNCHANGED <<target, importHistory, dir, faults, edition>>

BuildBuckets ==
  LET loaded == {RemapKeyspace(r.keyspace, import.map)[1] : r \in import.manifest.files}
      places == {made[2] : made \in import.made}
      found == {b \in IF loaded = {} THEN Planned ELSE loaded : places = {DefaultOf(b)}}
      end == Sets([pc |-> "done"])
  IN
  /\ import.pc = "indexes" /\ import.todo = {} /\ edition = "capella"
  /\ IF import.build /\ found # {}
     THEN Creates(TRUE, Build({DefaultOf(b) : b \in found}), end,
                  Sets([pc |-> "done", problem |-> TRUE]))
     ELSE end /\ UNCHANGED <<target, faults>>
  /\ UNCHANGED <<importHistory, dir, edition>>

ImportStep ==
  \/ StartImport
  \/ PlanBuckets \/ PlanFiles \/ CreateBucket \/ CreateCollection
  \/ StartDocuments \/ StartFile \/ PutDocument \/ EndFile
  \/ StartIndexes \/ CreateIndex \/ EndIndexes \/ BuildKeyspace \/ EndBuild \/ BuildBuckets
--------------------------------------------------------------------------------
Reported(ok) == import.pc = "done" /\ import.problem = ~ok
To(k) == RemapKeyspace(k, import.map)
Has(k, r) == \A i \in DOMAIN r.sha256 :
               target.documents[k][r.sha256[i].key] = r.sha256[i].version

\* An import that reports no problem has put every document of the fixture it read
\* on the target, unless an export rewrote the directory under it.
ImportedMeansLoaded ==
  Reported(TRUE) /\ ~raced => \A r \in import.manifest.files : Has(To(r.keyspace), r)

\* The count check of _verify: _cluster_counts follows keyspace_map, the Capella
\* _cluster_checks counts the keyspaces as they were recorded.
Counted(r) == IF edition = "ee" THEN To(r.keyspace) ELSE r.keyspace
CountsMatch ==
  \A r \in import.manifest.files :
    Cardinality({key \in Keys : target.documents[Counted(r)][key] # 0}) = r.document_count

\* What an import without problems left on a target that held no documents passes
\* the recount (for Capella when nothing is remapped).
CleanImportVerifies ==
  Reported(TRUE) /\ ~raced /\ clean /\ (edition = "ee" \/ import.map = <<>>) => CountsMatch

\* An Enterprise Edition import that reports no problem has asked for the build of
\* every index it created itself.
OwnIndexesBuilt ==
  Reported(TRUE) /\ edition = "ee" =>
    \A made \in import.made : target.indexes[made[2]] \in {"building", "online"}

\* "Every step of this tool is re-runnable": whatever earlier imports left half
\* done, an import during which no request fails reports no problem, once the
\* buckets it may not create exist and the fixture carries data for its indexes.
Possible ==
  /\ \A k \in import.manifest.structure :
       edition = "ee" => To(k)[1] \in target.buckets
  /\ \A i \in import.manifest.indexes :
       edition = "ee" => \E r \in import.manifest.files : r.keyspace = i.keyspace
RepeatSucceeds ==
  import.pc = "done" /\ Possible /\ ~raced /\ faults = faultsBefore => ~import.problem

================================================================================
