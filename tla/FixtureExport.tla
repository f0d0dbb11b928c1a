----------------------------- MODULE FixtureExport -----------------------------
(* capella_fixture_export and admin_fixture_export: read the structure, the    *)
(* index definitions and the documents of a cluster, and write the manifest    *)
(* last.  The source keeps serving its applications meanwhile.  One export at  *)
(* a time writes to the directory.                                             *)
EXTENDS FixtureFiles

CONSTANTS
  Indexed,        \* keyspaces of the source that have a GSI index
  Sources,        \* documents the source may hold at first
  PageSize,       \* documents per SQL++ page
  ExportCalls,    \* arguments of an export: <<include_data, keyspaces>>, {} for all
  MaxWrites,      \* bound: writes of the applications on the source
  MaxExports      \* bound: exports of a behaviour

ASSUME FixtureExportAssumption ==
  /\ Indexed \subseteq Keyspaces /\ Sources \subseteq [Keyspaces -> [Keys -> {0} \union Versions]]
  /\ PageSize \in Nat \ {0}
  /\ MaxWrites \in Nat /\ MaxExports \in Nat

VARIABLES
  source,         \* the documents of the source: keyspace -> key -> version
  writes,         \* application writes so far
  export,         \* the call that runs
  exports,        \* exports started so far
  stable,         \* (history) documents nobody wrote since the export started
  finished        \* (history) the payloads of the finished exports

exportVars == <<source, writes, export, exports, stable, finished>>

Idle == [pc |-> "idle", data |-> FALSE, wanted |-> {}, warned |-> FALSE,
         structure |-> {}, indexes |-> {}, todo |-> {}, matched |-> {},
         now |-> <<>>, last |-> 0, files |-> {}]

Edited(fields) == [f \in DOMAIN export |->
                     IF f \in DOMAIN fields THEN fields[f] ELSE export[f]]
Goes(fields) == export' = Edited(fields)
Refuse == export' = [Idle EXCEPT !.pc = "failed"]

ExportInit ==
  /\ source \in Sources
  /\ writes = 0 /\ exports = 0 /\ export = Idle
  /\ stable = [k \in Keyspaces |-> {}] /\ finished = {}

StartExport ==
  /\ export.pc \in {"idle", "failed", "done"} /\ exports < MaxExports
  /\ exports' = exports + 1
  /\ \E call \in ExportCalls :
       export' = [Idle EXCEPT !.pc = "structure", !.data = call[1], !.wanted = call[2]]
  /\ stable' = [k \in Keyspaces |-> Keys]
  /\ UNCHANGED <<source, writes, finished, dir, faults, edition>>

\* Buckets, and per bucket its scopes and collections.  A bucket list that cannot
\* be read ends the export; the scopes of one bucket that cannot be read are a
\* warning, and the bucket is recorded without them.
InWantedBuckets ==
  {k \in Keyspaces : export.wanted = {} \/ \E w \in export.wanted : w[1] = k[1]}

Wanted(k) == export.wanted = {} \/ k \in export.wanted
IndexOf(k) == [keyspace |-> k, bare |-> edition = "capella" /\ k = DefaultOf(k[1])]

\* Index definitions (and eventing functions): what cannot be read is a warning.
\* Enterprise Edition asks for the keyspaces it carries, which is no filter when it
\* carries none; it asks after the documents, but the definitions do not move here
\* and Manifest keeps what is carried.  A Capella definition of an index on a default
\* collection names its bucket only.
Asked(structure) ==
  LET covered == {k \in structure : Wanted(k)}
  IN  IF edition = "ee" /\ (export.data \/ covered = {}) THEN Indexed
      ELSE Indexed \intersect covered

ReadWithoutWarning(structure, got, warned) ==
  Goes([pc |-> IF export.data THEN "open" ELSE "manifest", structure |-> structure,
        todo |-> IF export.data THEN structure ELSE {},
        indexes |-> {IndexOf(k) : k \in got}])
Read(structure, got, warned) ==
  Goes([pc |-> IF export.data THEN "open" ELSE "manifest", structure |-> structure,
        todo |-> IF export.data THEN structure ELSE {},
        indexes |-> {IndexOf(k) : k \in got}, warned |-> warned])

ReadStructure ==
  /\ export.pc = "structure"
  /\ \/ Read(InWantedBuckets, Asked(InWantedBuckets), FALSE) /\ UNCHANGED faults
     \/ /\ Fault
        /\ \/ Refuse
           \/ \E b \in {k[1] : k \in InWantedBuckets} :
                LET others == {k \in InWantedBuckets : k[1] # b}
                IN  Read(others, Asked(others), TRUE)
           \/ \E lost \in Asked(InWantedBuckets) :
                Read(InWantedBuckets, Asked(InWantedBuckets) \ {lost}, TRUE)
  /\ UNCHANGED <<source, writes, exports, stable, finished, dir, edition>>

\* The next collection the filter lets through: its file is opened for writing,
\* which truncates what an earlier export left there.
OpenFile ==
  /\ export.pc = "open"
  /\ \E k \in {k \in export.todo : Wanted(k)} :
       /\ Goes([pc |-> "page", now |-> k, last |-> 0, todo |-> export.todo \ {k},
                matched |-> export.matched \union {k}])
       /\ dir' = [dir EXCEPT !.data[k] = <<>>]
  /\ UNCHANGED <<source, writes, exports, stable, finished, faults, edition>>

\* One page by key range: the first PageSize documents after the last key.
Rest(k, last) == {key \in Keys : key > last /\ source[k][key] # 0}
PageByOffset(k, last) ==
  {key \in Rest(k, 0) :
     Cardinality({j \in Rest(k, 0) : j <= key}) - Len(dir.data[k]) \in 1..PageSize}
PageOf(k, last) ==
  {key \in Rest(k, last) : Cardinality({j \in Rest(k, last) : j <= key}) <= PageSize}
InKeyOrder(k, keys) ==
  LET nth(i) == CHOOSE key \in keys : Cardinality({j \in keys : j <= key}) = i
  IN  [i \in 1..Cardinality(keys) |-> [key |-> nth(i), version |-> source[k][nth(i)]]]

CloseFile(k, file) ==
  IF file = <<>>
  THEN /\ dir' = [dir EXCEPT !.data[k] = NoFile]
       /\ Goes([pc |-> "open"])
  ELSE /\ dir' = [dir EXCEPT !.data[k] = file]
       /\ Goes([pc |-> "open",
                files |-> export.files \union
                  {[keyspace |-> k, sha256 |-> Sha256File(file),
                    document_count |-> Len(file)]}])

WritePage ==
  LET k == export.now
      page == PageOf(k, export.last)
      file == dir.data[k] \o InKeyOrder(k, page)
  IN
  /\ export.pc = "page"
  /\ \/ /\ Cardinality(page) < PageSize       \* the last page: close, record or unlink
        /\ CloseFile(k, file)
        /\ UNCHANGED faults
     \/ /\ Cardinality(page) = PageSize
        /\ dir' = [dir EXCEPT !.data[k] = file]
        /\ Goes([last |-> file[Len(file)].key])
        /\ UNCHANGED faults
     \/ Fault /\ Refuse /\ UNCHANGED dir      \* the partial file stays
  /\ UNCHANGED <<source, writes, exports, stable, finished, edition>>

\* Every collection is done.  A keyspace asked for and not found ends the export.
EndData ==
  /\ export.pc = "open" /\ {k \in export.todo : Wanted(k)} = {}
  /\ IF export.wanted \subseteq export.matched THEN Goes([pc |-> "manifest"]) ELSE Refuse
  /\ UNCHANGED <<source, writes, exports, stable, finished, dir, faults, edition>>

\* The manifest is written last, in place: opened (truncated), then written.  The
\* definitions kept are those of the keyspaces the fixture carries documents for;
\* when it carries none, all that were read.
Carried == {r.keyspace : r \in export.files}
Manifest ==
  [files |-> export.files, structure |-> export.structure,
   indexes |-> IF Carried = {} THEN export.indexes
               ELSE {i \in export.indexes : i.keyspace \in Carried},
   state |-> "json"]

OpenManifest ==
  /\ export.pc = "manifest"
  /\ \/ dir' = [dir EXCEPT !.manifest = Torn] /\ Goes([pc |-> "write"]) /\ UNCHANGED faults
     \/ Fault /\ Refuse /\ UNCHANGED dir
  /\ UNCHANGED <<source, writes, exports, stable, finished, edition>>

WriteManifest ==
  /\ export.pc = "write"
  /\ \/ /\ dir' = [dir EXCEPT !.manifest = Manifest]
        /\ Goes([pc |-> "done"])
        /\ finished' = finished \union {Payload(dir, Manifest)}
        /\ UNCHANGED faults
     \/ Fault /\ Refuse /\ UNCHANGED <<dir, finished>>
  /\ UNCHANGED <<source, writes, exports, stable, edition>>

\* An application writes or deletes one document of the source while an export runs
\* (bound: a write between two exports is the same as another first content).
Write ==
  /\ export.pc \notin {"idle", "failed", "done"} /\ writes < MaxWrites /\ writes' = writes + 1
  /\ \E k \in Keyspaces, key \in Keys, v \in {0} \union Versions :
       /\ v # source[k][key]
       /\ source' = [source EXCEPT ![k][key] = v]
       /\ stable' = [stable EXCEPT ![k] = @ \ {key}]
  /\ UNCHANGED <<export, exports, finished, dir, faults, edition>>

\* The server dies with the export half done; the files stay as they are.
ExportDies == export' = Idle

ExportStep ==
  \/ StartExport
  \/ ReadStructure \/ OpenFile \/ WritePage \/ EndData
  \/ OpenManifest \/ WriteManifest
--------------------------------------------------------------------------------
(* What a reader of the directory may rely on: see FixtureStore. *)
Nothing == {[none |-> TRUE]}
Store == INSTANCE FixtureStore
           WITH fixture <- IF Verifies(dir) THEN Payload(dir, dir.manifest) ELSE Nothing,
                None <- Nothing,
                Contents <- SUBSET [keyspace : Keyspaces, file : Seq(Documents)]

\* A finished export has, of every collection it was asked for and could list,
\* exactly the documents nobody wrote meanwhile at the version they have, and no
\* key twice: paging by key over a moving collection neither skips nor repeats.
StableDocumentsExported ==
  export.pc = "done" /\ export.data =>
    \A k \in {k \in export.structure : Wanted(k)} :
      LET file == IF \E r \in export.files : r.keyspace = k
                  THEN (CHOOSE r \in export.files : r.keyspace = k).sha256 ELSE <<>>
      IN  /\ \A key \in stable[k] :
               {i \in DOMAIN file : file[i].key = key /\ file[i].version = source[k][key]} # {}
               <=> source[k][key] # 0
          /\ \A i, j \in DOMAIN file : file[i].key = file[j].key => i = j

\* A finished export without warnings has lost no collection it was asked for.
NothingLostSilently ==
  export.pc = "done" /\ export.data /\ ~export.warned =>
    \A k \in Keyspaces : Wanted(k) /\ (\E key \in stable[k] : source[k][key] # 0) =>
      k \in Carried
================================================================================
