-------------------------------- MODULE Catalog --------------------------------
(* What the backup catalogue promises (handlers/backup_catalog.py): entries that *)
(* point to a backup for as long as they stand.  A failing write costs the entry  *)
(* it writes, a crash those that were being written.                               *)
EXTENDS FiniteSets, Naturals

CONSTANTS
  Ids,         \* catalog_ids
  Backups,     \* what an entry points to
  Tags,        \* the tags an entry may have
  Absent,      \* no entry
  Lost,        \* an entry that can no longer be read
  MostAtOnce   \* how many entries are written at the same time, at most

VARIABLE entries  \* id -> Entry, Absent or Lost

Marks == {"unchecked", "present", "missing"}
Entry == [backup : Backups, tags : SUBSET Tags, sync : Marks]

CatalogInit == entries \in [Ids -> Entry \union {Absent, Lost}]

Put(id, entry) == entries' = [entries EXCEPT ![id] = entry]

\* An entry is made only where there is none.
Record(id) ==
  /\ entries[id] = Absent
  /\ \E entry \in Entry : entry.sync = "unchecked" /\ Put(id, entry)

\* The pointer and the mark stay.
Retag(id) ==
  /\ entries[id] \in Entry
  /\ \E tags \in SUBSET Tags : Put(id, [entries[id] EXCEPT !.tags = tags])

\* A reconciliation marks, and never removes.
Mark(id) ==
  /\ entries[id] \in Entry
  /\ \E mark \in Marks \ {"unchecked"} : Put(id, [entries[id] EXCEPT !.sync = mark])

Remove(id) == entries[id] # Absent /\ Put(id, Absent)

Lose(some) ==
  /\ Cardinality(some) <= MostAtOnce
  /\ entries' = [id \in Ids |-> IF id \in some THEN Lost ELSE entries[id]]

CatalogNext ==
  \/ \E id \in Ids : Record(id) \/ Retag(id) \/ Mark(id) \/ Remove(id)
  \/ \E some \in SUBSET Ids : Lose(some)

CatalogSpec == CatalogInit /\ [][CatalogNext]_entries
================================================================================
