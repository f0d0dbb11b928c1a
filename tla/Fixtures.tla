------------------------------- MODULE Fixtures -------------------------------
(* The fixture tools of one server on one directory: exports and imports run   *)
(* on worker threads, at most one of each here, and overlap freely; the source *)
(* keeps changing, requests fail, the server may die at any point.             *)
EXTENDS FixtureExport, FixtureImport

vars == <<edition, dir, faults, exportVars, importVars>>

Init ==
  /\ edition \in {"capella", "ee"} /\ dir = EmptyDir /\ faults = 0
  /\ ExportInit /\ ImportInit

Exporting ==
  /\ ExportStep \/ Write
  /\ raced' = (raced \/ (dir' # dir /\ import.pc \notin Ended))
  /\ UNCHANGED <<target, import, imports, clean, faultsBefore>>

Importing == ImportStep /\ UNCHANGED exportVars

\* The target finishes a build it accepted.
Online ==
  /\ \E k \in TargetKeyspaces :
       /\ target.indexes[k] = "building"
       /\ target' = [target EXCEPT !.indexes[k] = "online"]
  /\ UNCHANGED <<edition, dir, faults, exportVars, import, importHistory>>

\* The server dies and is started again: both calls are gone.
Restart ==
  /\ export.pc # "idle" \/ import.pc # "idle"
  /\ Fault /\ ExportDies /\ import' = Free
  /\ UNCHANGED <<edition, dir, source, writes, exports, stable, finished>>
  /\ UNCHANGED <<target, importHistory>>

Next == Exporting \/ Importing \/ Online \/ Restart

Spec == Init /\ [][Next]_vars

Written == UNION {[1..n -> Documents] : n \in 1..Cardinality(Keys)}
Files == [keyspace : Keyspaces, sha256 : Written, document_count : 1..Cardinality(Keys)]

TypeOK ==
  /\ dir.data \in [Keyspaces -> Written \union {NoFile, <<>>}]
  /\ Readable(dir) => dir.manifest.files \subseteq Files
  /\ export.files \subseteq Files /\ export.last \in {0} \union Keys
  /\ source \in [Keyspaces -> [Keys -> {0} \union Versions]]
  /\ target.documents \in [TargetKeyspaces -> [Keys -> {0} \union Versions]]
  /\ target.collections \subseteq {k \in TargetKeyspaces \union {DefaultOf(b) : b \in Buckets} :
                                     k[1] \in target.buckets}
  /\ import.failed + import.loaded <= import.line

StoreSpec == Store!Spec

\* What an export answers with: types, every document that stood still at its
\* version and once, and no collection lost without a warning.
ExportInv == TypeOK /\ StableDocumentsExported /\ NothingLostSilently

\* What an import that reports no problem has done: all documents are there, the
\* recount agrees, and the indexes it created are being built.
ImportInv == ImportedMeansLoaded /\ CleanImportVerifies /\ OwnIndexesBuilt
================================================================================
