----------------------------- MODULE FixtureFiles -----------------------------
(* A fixture on disk, as both importers and both verifiers read it             *)
(* (handlers/fixture_core.py, shared by handlers/fixture.py and                *)
(* handlers/capella/fixture.py): a directory with one JSON Lines file per      *)
(* keyspace and a manifest.  A keyspace is <<bucket, scope, collection>>; a    *)
(* file is the sequence of its documents; its SHA-256 is its content.          *)
EXTENDS Integers, Sequences, FiniteSets

CONSTANTS
  Keyspaces,      \* the collections of the source cluster
  Keys,           \* document keys, 1..n in key order
  Versions,       \* the bodies a document can have (0 is an absent document)
  MaxFaults       \* bound: failed or unanswered requests and crashes of a behaviour

ASSUME FixtureFilesAssumption ==
  /\ \A k \in Keyspaces : k = <<k[1], k[2], k[3]>>
  /\ Keys \subseteq Nat \ {0} /\ IsFiniteSet(Keys) /\ Versions \subseteq Nat \ {0}
  /\ MaxFaults \in Nat

VARIABLES
  edition,        \* "capella" or "ee": the server whose tools are called
  dir,            \* the fixture directory: [data, manifest]
  faults          \* faults so far

NoFile == <<[key |-> 0, version |-> 0]>>
NoManifest == [state |-> "none"]
Torn == [state |-> "torn"]  \* opened for writing and not yet written: not JSON

Documents == [key : Keys, version : Versions]
EmptyDir == [data |-> [k \in Keyspaces |-> NoFile], manifest |-> NoManifest]

Sha256File(file) == file
CountLines(file) == Len(file)

\* read_manifest: what does not parse is reported as unreadable.
Readable(d) == d.manifest \notin {NoManifest, Torn}

IntegrityByPresence(d, manifest) == \A r \in manifest.files : d.data[r.keyspace] # NoFile
\* fixture_integrity, the check both _verify and _import run: every recorded
\* file exists, has the recorded hash and the recorded number of documents.
FixtureIntegrity(d, manifest) ==
  \A r \in manifest.files :
     /\ d.data[r.keyspace] # NoFile
     /\ Sha256File(d.data[r.keyspace]) = r.sha256
     /\ CountLines(d.data[r.keyspace]) = r.document_count

Verifies(d) == Readable(d) /\ FixtureIntegrity(d, d.manifest)

\* What an importer of this directory loads.
Payload(d, manifest) ==
  {[keyspace |-> r.keyspace, file |-> d.data[r.keyspace]] : r \in manifest.files}

\* remap_keyspace: a keyspace_map entry applies to exactly the keyspace it names.
RemapKeyspace(k, map) == IF k \in DOMAIN map THEN map[k] ELSE k

\* _remap_bucket: the bucket of any entry of the map under the recorded bucket.
RemapBuckets(bucket, map) ==
  LET under == {k \in DOMAIN map : k[1] = bucket}
  IN  IF under = {} THEN {bucket} ELSE {map[k][1] : k \in under}

DefaultOf(bucket) == <<bucket, "_default", "_default">>

\* rewrite_index_keyspace: an index whose statement names a whole keyspace follows
\* an exact entry; one that names a bucket alone follows the bucket when the map
\* sends it to one place.  The result is a set: empty when the rewrite is refused.
RewriteIndexKeyspace(index, map) ==
  LET buckets == RemapBuckets(index.keyspace[1], map)
  IN  CASE ~index.bare -> {RemapKeyspace(index.keyspace, map)}
        [] index.bare /\ Cardinality(buckets) = 1 -> {DefaultOf(b) : b \in buckets}
        [] OTHER -> {}

Fault == faults < MaxFaults /\ faults' = faults + 1
================================================================================
