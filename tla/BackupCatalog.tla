----------------------------- MODULE BackupCatalog -----------------------------
(* The backup catalogue (handlers/backup_catalog.py), one file per entry, as its *)
(* handlers use the file system: a file that is written is first emptied, a       *)
(* listing takes the names first and then reads one file after the other, and a   *)
(* handler may be ended, or fail, between two such steps.  Parsing of dates, the   *)
(* checks of catalog_id and catalog_root and the sorting of answers are left out.  *)
EXTENDS Naturals, FiniteSets

CONSTANTS
  Workers,        \* the threads that handle calls; bound: one call each until a crash
  Ids,            \* catalog_ids, in the order of their file names
  Backups,        \* backups, each with its plane
  Planes, Tags,
  StartingFiles,  \* what a file may hold at the start
  Absent,         \* no file, no backup, no plane
  Torn,           \* a file that does not parse
  Lost,           \* the entry it held
  Overlaps,       \* bound: may calls that change the same entry overlap?
  MaxFaults,      \* bound: file operations that fail
  MaxCrashes      \* bound: crashes of the process

Marks == {"unchecked", "present", "missing"}
Entry == [backup : Backups, tags : SUBSET Tags, sync : Marks]

ASSUME CatalogAssumption ==
  /\ IsFiniteSet(Ids) /\ Ids \subseteq Nat /\ IsFiniteSet(Workers)
  /\ \A b \in Backups : b.plane \in Planes
  /\ StartingFiles \subseteq Entry \union {Absent, Torn}
  /\ {Absent, Torn, Lost} \intersect Entry = {} /\ Cardinality({Absent, Torn, Lost}) = 3
  /\ Overlaps \in BOOLEAN /\ {MaxFaults, MaxCrashes} \subseteq Nat

VARIABLES
  file,             \* id -> what the file holds
  call,             \* worker -> the call it runs
  faults, crashes,  \* those still to come
  steady            \* (history) worker -> the files nobody changed since its call began

vars == <<file, call, faults, crashes, steady>>

Operations == {"record", "update", "delete", "get", "list", "sync"}
\* old: what the file held when this call emptied it.  linked: it still has a name.
\* overlaid: another call wrote to it meanwhile.
Idle == [pc |-> "idle", op |-> Absent, id |-> Absent, entry |-> Absent, tags |-> {},
         replace |-> FALSE, plane |-> Absent, listed |-> {}, todo |-> {}, read |-> <<>>,
         unreadable |-> {}, old |-> Absent, linked |-> FALSE, overlaid |-> FALSE, unmarked |-> {}]

Init ==
  /\ file \in [Ids -> StartingFiles] /\ call = [w \in Workers |-> Idle]
  /\ faults = MaxFaults /\ crashes = MaxCrashes /\ steady = [w \in Workers |-> {}]

First(ids) == CHOOSE i \in ids : \A j \in ids : i <= j
Goto(w, pc) == call' = [call EXCEPT ![w].pc = pc]
Unchanging == UNCHANGED <<file, steady, faults, crashes>>

\* A file changes: whoever runs is no longer sure of it.
Write(id, content) ==
  /\ file' = [file EXCEPT ![id] = content]
  /\ steady' = [w \in Workers |-> steady[w] \ {id}]
--------------------------------------------------------------------------------
Named(op) == op \in {"record", "update", "delete", "get"}
Fresh(backup, tags) == [backup |-> backup, tags |-> tags, sync |-> "unchecked"]

CallWith(op, i, e, t, r, p, l) ==
  [Idle EXCEPT !.op = op, !.id = i, !.entry = e, !.tags = t, !.replace = r, !.plane = p,
               !.listed = l, !.pc = IF Named(op) THEN "exists" ELSE "glob"]

\* The calls a client can make.
Made(op) ==
  {CallWith(op, i, e, t, r, p, l) :
     i \in IF Named(op) THEN Ids ELSE {Absent},
     e \in IF op = "record" THEN {Fresh(b, {}) : b \in Backups} ELSE {Absent},
     t \in IF op \in {"update", "list"} THEN SUBSET Tags ELSE {{}},
     r \in IF op = "update" THEN BOOLEAN ELSE {FALSE},
     p \in IF op \in {"list", "sync"} THEN Planes \union {Absent} ELSE {Absent},
     l \in IF op = "sync" THEN SUBSET Backups ELSE {{}}}

\* The entries a call may change.
Touched(c) ==
  CASE c.op \in {"record", "update", "delete"} -> {c.id}
    [] c.op = "sync"                            -> Ids
    [] OTHER                                    -> {}

Begin(w, op) ==
  /\ call[w].pc = "idle"
  /\ \E c \in Made(op) :
       /\ Overlaps \/ \A u \in Workers \ {w} : Touched(c) \intersect Touched(call[u]) = {}
       /\ call' = [call EXCEPT ![w] = c]
  /\ steady' = [steady EXCEPT ![w] = Ids]
  /\ UNCHANGED <<file, faults, crashes>>

\* Defect: a record does not look whether there is an entry.
LookUpUnchecked(w) ==
  LET c == call[w]
  IN
  /\ c.pc = "exists" /\ Unchanging
  /\ Goto(w, CASE c.op = "record" -> "open"
               [] c.op = "delete" -> IF file[c.id] = Absent THEN "answered" ELSE "unlink"
               [] OTHER           -> IF file[c.id] = Absent THEN "failed" ELSE "read")

\* path.exists or is_file: a record is made only where there is none, a delete of
\* what is not there is done.
LookUp(w) ==
  LET c == call[w]
  IN
  /\ c.pc = "exists" /\ Unchanging
  /\ Goto(w, CASE c.op = "record" -> IF file[c.id] = Absent THEN "open" ELSE "failed"
               [] c.op = "delete" -> IF file[c.id] = Absent THEN "answered" ELSE "unlink"
               [] OTHER           -> IF file[c.id] = Absent THEN "failed" ELSE "read")

Retagged(entry, c) ==
  [entry EXCEPT !.tags = IF c.replace THEN c.tags ELSE @ \union c.tags]

\* One entry is read; an update merges the tags into what it has read.
ReadEntry(w) ==
  LET c == call[w]
      content == file[c.id]
  IN
  /\ c.pc = "read" /\ Unchanging
  /\ IF content \notin Entry THEN Goto(w, "failed")
     ELSE IF c.op = "get" THEN Goto(w, "answered")
     ELSE call' = [call EXCEPT ![w].pc = "open", ![w].entry = Retagged(content, c)]

\* write_text, first half: the file is emptied, or made.
Open(w) ==
  /\ call[w].pc = "open"
  /\ Write(call[w].id, Torn)
  /\ call' = [call EXCEPT ![w].pc = "write", ![w].old = file[call[w].id],
                          ![w].linked = TRUE, ![w].overlaid = FALSE]
  /\ UNCHANGED <<faults, crashes>>

Afterwards(w) == IF call[w].op = "sync" THEN "next" ELSE "answered"
Writing(w, id) == call[w].pc = "write" /\ call[w].linked /\ call[w].id = id

\* Second half.  Two calls that write one file may leave a mixture.
Finish(w) ==
  LET c == call[w]
  IN
  /\ c.pc = "write" /\ UNCHANGED <<faults, crashes>>
  /\ call' = [u \in Workers |->
       IF u = w THEN [c EXCEPT !.pc = Afterwards(w)]
       ELSE [call[u] EXCEPT !.overlaid = @ \/ (c.linked /\ Writing(u, c.id))]]
  /\ \/ c.linked /\ Write(c.id, c.entry)
     \/ c.linked /\ c.overlaid /\ Write(c.id, Torn)
     \/ ~c.linked /\ UNCHANGED <<file, steady>>

\* What was being written when the file lost its name goes nowhere.
Unlink(w) ==
  LET c == call[w]
  IN
  /\ c.pc = "unlink" /\ UNCHANGED <<faults, crashes>>
  /\ \/ /\ file[c.id] # Absent /\ Write(c.id, Absent)
        /\ call' = [u \in Workers |->
             CASE u = w           -> [c EXCEPT !.pc = "answered"]
               [] Writing(u, c.id) -> [call[u] EXCEPT !.linked = FALSE]
               [] OTHER            -> call[u]]
     \/ file[c.id] = Absent /\ Goto(w, "failed") /\ UNCHANGED <<file, steady>>

--------------------------------------------------------------------------------
\* _read_entries: the names, then one file after the other.
Glob(w) ==
  /\ call[w].pc = "glob" /\ Unchanging
  /\ call' = [call EXCEPT ![w].pc = "reading", ![w].todo = {i \in Ids : file[i] # Absent}]

\* Defect: what cannot be read is left out.
ReadNextSilently(w) ==
  LET id == First(call[w].todo)
  IN
  /\ call[w].pc = "reading" /\ call[w].todo # {} /\ Unchanging
  /\ call' = [call EXCEPT ![w].todo = @ \ {id},
       ![w].read = IF file[id] \in Entry
                   THEN [i \in DOMAIN @ \union {id} |-> IF i = id THEN file[id] ELSE @[i]] ELSE @]

ReadNext(w) ==
  LET id == First(call[w].todo)
  IN
  /\ call[w].pc = "reading" /\ call[w].todo # {} /\ Unchanging
  /\ call' = [call EXCEPT ![w].todo = @ \ {id},
       ![w].unreadable = IF file[id] \in Entry THEN @ ELSE @ \union {id},
       ![w].read = IF file[id] \in Entry
                   THEN [i \in DOMAIN @ \union {id} |-> IF i = id THEN file[id] ELSE @[i]] ELSE @]

\* Defect: the plane is not looked at.
InAnyScope(c, entry) == TRUE

InScope(c, entry) == c.plane = Absent \/ entry.backup.plane = c.plane
Matches(c, entry) == InScope(c, entry) /\ c.tags \subseteq entry.tags
Matched(c) == {i \in DOMAIN c.read : Matches(c, c.read[i])}

\* All is read: a listing answers, a reconciliation goes through what is in scope.
ReadAll(w) ==
  LET c == call[w]
  IN
  /\ c.pc = "reading" /\ c.todo = {} /\ Unchanging
  /\ IF c.op = "list" THEN Goto(w, "answered")
     ELSE call' = [call EXCEPT ![w].pc = "next",
                               ![w].todo = {i \in DOMAIN c.read : InScope(c, c.read[i])}]

Status(c, entry) == IF entry.backup \in c.listed THEN "present" ELSE "missing"

\* Defect: the mark is written under the id of the backup.
MarkNextUnderBackup(w) ==
  LET c == call[w]
      id == First(c.todo)
  IN
  /\ c.pc = "next" /\ Unchanging
  /\ IF c.todo = {} THEN Goto(w, "answered")
     ELSE call' = [call EXCEPT ![w].pc = "open", ![w].id = c.read[id].backup, ![w].todo = @ \ {id},
                               ![w].entry = [c.read[id] EXCEPT !.sync = Status(c, c.read[id])]]

\* _sync: the entry as it was read is written back with its mark.
MarkNext(w) ==
  LET c == call[w]
      id == First(c.todo)
  IN
  /\ c.pc = "next" /\ Unchanging
  /\ IF c.todo = {} THEN Goto(w, "answered")
     ELSE call' = [call EXCEPT ![w].pc = "open", ![w].id = id, ![w].todo = @ \ {id},
                               ![w].entry = [c.read[id] EXCEPT !.sync = Status(c, c.read[id])]]

--------------------------------------------------------------------------------
\* Opening, writing or removing fails: a reconciliation only logs it.
Fails(w) ==
  LET c == call[w]
  IN
  /\ c.pc \in {"open", "write", "unlink"} /\ faults > 0 /\ faults' = faults - 1
  /\ call' = [call EXCEPT ![w].pc = IF c.op = "sync" THEN "next" ELSE "failed",
                          ![w].unmarked = IF c.op = "sync" THEN @ \union {c.id} ELSE @]
  /\ UNCHANGED <<file, crashes, steady>>

\* The process ends, with every call that runs.
Crash ==
  /\ crashes > 0 /\ crashes' = crashes - 1
  /\ \E w \in Workers : call[w] # Idle
  /\ call' = [w \in Workers |-> Idle] /\ steady' = [w \in Workers |-> {}]
  /\ UNCHANGED <<file, faults>>

Step(w) ==
  \/ LookUp(w) \/ ReadEntry(w) \/ Open(w) \/ Finish(w) \/ Unlink(w)
  \/ Glob(w) \/ ReadNext(w) \/ ReadAll(w) \/ MarkNext(w)

Next ==
  \/ \E w \in Workers :
       (\E op \in Operations : Begin(w, op)) \/ Step(w) \/ Fails(w)
  \/ Crash

Spec == Init /\ [][Next]_vars
--------------------------------------------------------------------------------
TypeOK ==
  /\ file \in [Ids -> Entry \union {Absent, Torn}]
  /\ \A w \in Workers :
       /\ call[w].op \in Operations \union {Absent} /\ call[w].id \in Ids \union {Absent}
       /\ call[w].entry \in Entry \union {Absent}
       /\ call[w].todo \union call[w].unreadable \union call[w].unmarked \subseteq Ids
       /\ DOMAIN call[w].read \subseteq Ids /\ steady[w] \subseteq Ids
  /\ faults \in 0..MaxFaults /\ crashes \in 0..MaxCrashes

\* What the catalogue is taken to hold: a file being written still counts as what it
\* held before, one that was left empty is lost.
Held == [id \in Ids |->
  IF file[id] # Torn THEN file[id]
  ELSE IF \E w \in Workers : Writing(w, id)
       THEN call[CHOOSE w \in Workers : Writing(w, id)].old ELSE Lost]

Promise == INSTANCE Catalog WITH entries <- Held, MostAtOnce <- Cardinality(Workers)

\* While no two calls change the same entry at once, the files implement the promise:
\* no pointer changes under its entry, tags and marks stand, nothing but a delete
\* removes, and a failure or a crash costs only the entries then being written.
Implements == Promise!CatalogSpec

\* A listing tells of every entry nobody changed while it ran: that matches, or as
\* one it could not read, whatever others did to their neighbours meanwhile.
ListTellsAll ==
  \A w \in Workers : call[w].op = "list" /\ call[w].pc = "answered" =>
    \A id \in steady[w] :
      /\ file[id] = Torn => id \in call[w].unreadable
      /\ file[id] \in Entry /\ Matches(call[w], file[id]) => id \in Matched(call[w])

\* When a reconciliation answers, every entry in its scope has the mark the listing
\* of the plane gives it, save those it failed to write, and no other was written.
MarksFit ==
  \A w \in Workers : call[w].op = "sync" /\ call[w].pc = "answered" /\ ~Overlaps =>
    \A id \in Ids : file[id] \in Entry =>
      IF call[w].plane \in {Absent, file[id].backup.plane}
      THEN id \in call[w].unmarked \/ file[id].sync = Status(call[w], file[id])
      ELSE id \in steady[w]

\* What a call on the catalogue answers is true of the files: a listing conceals
\* nothing, a reconciliation has marked what it says it has.
CatalogInv == TypeOK /\ ListTellsAll /\ MarksFit
================================================================================
