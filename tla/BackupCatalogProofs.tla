-------------------------- MODULE BackupCatalogProofs --------------------------
(* For any number of workers, entries and backups, any files at the start and    *)
(* any number of failures and crashes: what a listing and a reconciliation answer *)
(* is true of the files, and while no two calls change the same entry at once the *)
(* files implement the catalogue of module Catalog.                               *)
EXTENDS BackupCatalog, FiniteSetTheorems, WellFoundedInduction, TLAPS

PCs == {"idle", "exists", "read", "open", "write", "unlink", "glob", "reading",
        "next", "answered", "failed"}
Contents == Entry \union {Absent, Torn}
Reads == UNION {[S -> Entry] : S \in SUBSET Ids}
CallRecords ==
  [pc : PCs, op : Operations \union {Absent}, id : Ids \union {Absent},
   entry : Entry \union {Absent}, tags : SUBSET Tags, replace : BOOLEAN,
   plane : Planes \union {Absent}, listed : SUBSET Backups, todo : SUBSET Ids,
   read : Reads, unreadable : SUBSET Ids, old : Contents, linked : BOOLEAN,
   overlaid : BOOLEAN, unmarked : SUBSET Ids]

StateOK ==
  /\ file \in [Ids -> Contents] /\ call \in [Workers -> CallRecords]
  /\ steady \in [Workers -> SUBSET Ids]
  /\ faults \in 0..MaxFaults /\ crashes \in 0..MaxCrashes

\* Where a call of each operation can stand, and what it holds there.
CallOK(c) ==
  /\ c.pc # "idle" => c.op \in Operations
  /\ c.pc = "exists" => Named(c.op)
  /\ c.pc = "read" => c.op \in {"update", "get"}
  /\ c.pc = "unlink" => c.op = "delete"
  /\ c.pc \in {"glob", "reading"} => c.op \in {"list", "sync"}
  /\ c.pc = "glob" => DOMAIN c.read = {}
  /\ c.pc = "next" => c.op = "sync"
  /\ c.pc \in {"open", "write"} => c.op \in {"record", "update", "sync"} /\ c.entry \in Entry
  /\ c.pc \in {"open", "write", "exists", "read", "unlink"} => c.id \in Ids
  /\ c.op = "record" /\ c.pc = "exists" => c.entry \in Entry /\ c.entry.sync = "unchecked"
  /\ c.op = "sync" /\ c.pc \in {"next", "open", "write"} => c.todo \subseteq DOMAIN c.read
  /\ c.op \in {"list", "sync"} /\ c.pc = "answered" => c.todo = {}

\* What has been read of a file nobody changed is what it holds.
ListOK(c, files, kept) ==
  c.pc = "reading" \/ (c.op = "list" /\ c.pc = "answered") =>
    \A id \in kept \ c.todo :
      /\ files[id] = Torn => id \in c.unreadable
      /\ files[id] \in Entry => id \in DOMAIN c.read /\ c.read[id] = files[id]

\* What is about to be written fits the content it replaces.
Ready(c, base) ==
  /\ c.op = "record" => base = Absent /\ c.entry.sync = "unchecked"
  /\ c.op = "update" => base \in Entry /\ \E t \in SUBSET Tags : c.entry = [base EXCEPT !.tags = t]
  /\ c.op = "sync" =>
       /\ base \in Entry /\ c.entry = [base EXCEPT !.sync = Status(c, base)]
       /\ InScope(c, base) /\ c.id \notin c.todo

WriteOK(c, files) ==
  /\ c.pc = "open" => Ready(c, files[c.id])
  /\ c.pc = "write" => Ready(c, c.old) /\ c.linked /\ ~ c.overlaid /\ files[c.id] = Torn

\* A reconciliation: what it has still to mark is as it was read, the rest fits.
Waiting(c, id, files) ==
  /\ id \in DOMAIN c.read /\ files[id] = c.read[id] /\ InScope(c, c.read[id])
Settled(c, id, files, kept) ==
  files[id] \in Entry =>
    IF InScope(c, files[id])
    THEN id \in c.unmarked \/ files[id].sync = Status(c, files[id])
    ELSE id \in kept

SyncOK(c, files, kept) ==
  c.op = "sync" =>
    /\ c.pc \in {"glob", "reading"} => kept = Ids
    /\ c.pc = "reading" => \A id \in DOMAIN c.read : files[id] = c.read[id]
    /\ c.pc \in {"next", "open", "write", "answered"} =>
         \A id \in Ids :
           /\ id \in c.todo => Waiting(c, id, files)
           /\ id \notin c.todo /\ ~ (c.pc = "open" /\ id = c.id) => Settled(c, id, files, kept)

\* Calls that change the same entry do not overlap.
Apart(c, d) == c.pc # "idle" /\ d.pc # "idle" => Touched(c) \intersect Touched(d) = {}
Exclusive == \A w, u \in Workers : w # u => Apart(call[w], call[u])

AloneOK(c, files, kept) == WriteOK(c, files) /\ SyncOK(c, files, kept)

IInv ==
  /\ StateOK
  /\ \A w \in Workers : CallOK(call[w]) /\ ListOK(call[w], file, steady[w])
  /\ ~ Overlaps => Exclusive /\ \A w \in Workers : AloneOK(call[w], file, steady[w])
--------------------------------------------------------------------------------
\* The natural numbers are well ordered.
Below == {p \in Nat \X Nat : p[1] < p[2]}

LEMMA BelowIsWellFounded == IsWellFoundedOn(Below, Nat)
<1>1. Below = OpToRel(<, Nat)
  BY DEF Below, OpToRel
<1> QED BY <1>1, NatLessThanWellFounded

LEMMA BelowIs == ASSUME NEW i \in Nat, NEW j \in Nat, j < i PROVE <<j, i>> \in Below
  BY DEF Below

LEMMA FirstIsIn == ASSUME NEW S, S \subseteq Nat, S # {} PROVE First(S) \in S
<1>1. PICK i \in S : \A j \in S : ~ (<<j, i>> \in Below)
  BY BelowIsWellFounded, WFMin
<1>2. ASSUME NEW j \in S PROVE i <= j
  <2>1. i \in Nat /\ j \in Nat
    OBVIOUS
  <2>2. CASE j < i
    <3>1. <<j, i>> \in Below
      BY <2>1, <2>2, BelowIs
    <3> QED BY <1>1, <3>1
  <2> QED BY <2>1, <2>2
<1> QED BY <1>2 DEF First

LEMMA TwoAtMost ==
  ASSUME NEW a, NEW b PROVE IsFiniteSet({a, b}) /\ Cardinality({a, b}) <= 2
<1>1. IsFiniteSet({a}) /\ Cardinality({a}) = 1
  BY FS_Singleton
<1>2. /\ IsFiniteSet({a} \union {b})
      /\ Cardinality({a} \union {b}) = IF b \in {a} THEN Cardinality({a}) ELSE Cardinality({a}) + 1
  BY <1>1, FS_AddElement
<1>3. {a, b} = {a} \union {b}
  OBVIOUS
<1> QED BY <1>1, <1>2, <1>3

\* No file, a torn file, a lost entry and an entry are four things.
LEMMA Distinct ==
  /\ Absent # Torn /\ Absent # Lost /\ Torn # Lost
  /\ Absent \notin Entry /\ Torn \notin Entry /\ Lost \notin Entry
<1>1. Cardinality({Absent, Torn, Lost}) = 3 /\ {Absent, Torn, Lost} \intersect Entry = {}
  BY CatalogAssumption
<1>2. CASE Absent = Torn
  <2>1. {Absent, Torn, Lost} = {Absent, Lost}
    BY <1>2
  <2>2. Cardinality({Absent, Lost}) <= 2
    BY TwoAtMost
  <2>3. 3 <= 2
    BY <1>1, <2>1, <2>2
  <2> QED BY <2>3
<1>3. CASE Absent = Lost \/ Torn = Lost
  <2>1. {Absent, Torn, Lost} = {Absent, Torn}
    BY <1>3
  <2>2. Cardinality({Absent, Torn}) <= 2
    BY TwoAtMost
  <2>3. 3 <= 2
    BY <1>1, <2>1, <2>2
  <2> QED BY <2>3
<1> QED BY <1>1, <1>2, <1>3

LEMMA EntryFields ==
  ASSUME NEW e \in Entry
  PROVE  e.backup \in Backups /\ e.tags \in SUBSET Tags /\ e.sync \in Marks
  BY DEF Entry

LEMMA Changed ==
  ASSUME NEW e \in Entry, NEW t \in SUBSET Tags, NEW m \in Marks
  PROVE  /\ [e EXCEPT !.tags = t] \in Entry /\ [e EXCEPT !.tags = t].sync = e.sync
         /\ [e EXCEPT !.sync = m] \in Entry /\ [e EXCEPT !.sync = m].sync = m
         /\ [e EXCEPT !.sync = m].backup = e.backup
  BY DEF Entry

LEMMA FreshIs ==
  ASSUME NEW b \in Backups PROVE Fresh(b, {}) \in Entry /\ Fresh(b, {}).sync = "unchecked"
  BY DEF Fresh, Entry, Marks

LEMMA RetaggedIs ==
  ASSUME NEW e \in Entry, NEW c \in CallRecords
  PROVE  /\ Retagged(e, c) \in Entry
         /\ \E t \in SUBSET Tags : Retagged(e, c) = [e EXCEPT !.tags = t]
<1> DEFINE t == IF c.replace THEN c.tags ELSE e.tags \union c.tags
<1>1. t \in SUBSET Tags
  BY EntryFields DEF CallRecords
<1>2. Retagged(e, c) = [e EXCEPT !.tags = t]
  BY DEF Retagged
<1>3. [e EXCEPT !.tags = t] \in Entry
  BY <1>1, EntryFields DEF Entry
<1> HIDE DEF t
<1> QED BY <1>1, <1>2, <1>3

LEMMA MarkedIs ==
  ASSUME NEW e \in Entry, NEW c
  PROVE  /\ Status(c, e) \in Marks \ {"unchecked"}
         /\ [e EXCEPT !.sync = Status(c, e)] \in Entry
         /\ [e EXCEPT !.sync = Status(c, e)].sync = Status(c, e)
         /\ [e EXCEPT !.sync = Status(c, e)].backup = e.backup
<1>1. Status(c, e) \in Marks \ {"unchecked"}
  BY DEF Status, Marks
<1> QED BY <1>1, Changed, EntryFields

LEMMA NothingRead == <<>> \in Reads
<1>1. <<>> \in [{} -> Entry]
  OBVIOUS
<1> QED BY <1>1 DEF Reads

LEMMA ReadsIs ==
  ASSUME NEW r \in Reads
  PROVE  DOMAIN r \subseteq Ids /\ \A i \in DOMAIN r : r[i] \in Entry
  BY DEF Reads

LEMMA ReadMore ==
  ASSUME NEW r \in Reads, NEW id \in Ids, NEW e \in Entry
  PROVE  [i \in DOMAIN r \union {id} |-> IF i = id THEN e ELSE r[i]] \in Reads
<1>1. DOMAIN r \union {id} \in SUBSET Ids
  BY ReadsIs
<1>2. [i \in DOMAIN r \union {id} |-> IF i = id THEN e ELSE r[i]] \in [DOMAIN r \union {id} -> Entry]
  BY ReadsIs
<1> QED BY <1>1, <1>2 DEF Reads

LEMMA IdleIs == Idle \in CallRecords /\ Idle.pc = "idle"
  BY NothingRead DEF Idle, CallRecords, PCs, Contents

LEMMA TouchedIs ==
  ASSUME NEW c \in CallRecords, CallOK(c), c.pc # "idle"
  PROVE  /\ c.op \in {"record", "update", "delete"} => Touched(c) = {c.id}
         /\ c.op = "sync" => Touched(c) = Ids
         /\ c.op \in {"get", "list"} => Touched(c) = {}
  BY DEF Touched
--------------------------------------------------------------------------------
\* The fields by which a call is told, and those another call can change in it.
SameBut(c, d) ==
  /\ d.pc = c.pc /\ d.op = c.op /\ d.id = c.id /\ d.entry = c.entry /\ d.todo = c.todo
  /\ d.read = c.read /\ d.unreadable = c.unreadable

LEMMA SameButKeeps ==
  ASSUME NEW c, NEW d, SameBut(c, d), CallOK(c), NEW files, NEW kept, ListOK(c, files, kept)
  PROVE  CallOK(d) /\ ListOK(d, files, kept) /\ Touched(d) = Touched(c)
  BY DEF SameBut, CallOK, ListOK, Touched

\* A step of one worker that changes no file.
LEMMA Quiet ==
  ASSUME IInv, NEW w \in Workers, UNCHANGED <<file, steady>>,
         faults' \in 0..MaxFaults, crashes' \in 0..MaxCrashes,
         call' \in [Workers -> CallRecords],
         \A u \in Workers \ {w} : call'[u] = call[u],
         CallOK(call'[w]), ListOK(call'[w], file, steady[w]),
         call[w].pc # "idle", Touched(call'[w]) = Touched(call[w]),
         ~ Overlaps => AloneOK(call'[w], file, steady[w])
  PROVE  IInv'
<1>1. StateOK'
  BY DEF IInv, StateOK
<1>2. \A u \in Workers : CallOK(call'[u]) /\ ListOK(call'[u], file', steady'[u])
  BY DEF IInv
<1>3. ASSUME ~ Overlaps
      PROVE  /\ \A v, u \in Workers : v # u => Apart(call'[v], call'[u])
             /\ \A u \in Workers : AloneOK(call'[u], file', steady'[u])
  BY <1>3 DEF IInv, Exclusive, Apart
<1> QED BY <1>1, <1>2, <1>3 DEF IInv, Exclusive

\* Whoever else runs is not disturbed by a write.
LEMMA OthersKeep ==
  ASSUME NEW c, CallOK(c), NEW files, NEW kept, NEW id \in Ids, NEW content,
         files \in [Ids -> Contents], kept \in SUBSET Ids, ListOK(c, files, kept)
  PROVE  /\ ListOK(c, [files EXCEPT ![id] = content], kept \ {id})
         /\ c.pc # "idle" /\ id \notin Touched(c) /\ AloneOK(c, files, kept) =>
              AloneOK(c, [files EXCEPT ![id] = content], kept \ {id})
         /\ c.pc = "idle" => AloneOK(c, [files EXCEPT ![id] = content], kept \ {id})
<1> DEFINE now == [files EXCEPT ![id] = content]
<1>0. \A i \in Ids : i # id => now[i] = files[i]
  OBVIOUS
<1>1. ListOK(c, now, kept \ {id})
  BY <1>0 DEF ListOK
<1>2. CASE c.pc = "idle"
  BY <1>1, <1>2 DEF AloneOK, WriteOK, SyncOK
<1>3. CASE c.pc # "idle"
  <2> SUFFICES ASSUME id \notin Touched(c), AloneOK(c, files, kept)
               PROVE  AloneOK(c, now, kept \ {id})
    BY <1>1, <1>3
  <2>1. c.op # "sync"
    BY DEF Touched
  <2>2. c.pc \in {"open", "write"} => c.id \in Ids /\ c.id # id
    BY <2>1 DEF CallOK, Touched
  <2>3. WriteOK(c, now)
    BY <1>0, <2>2 DEF AloneOK, WriteOK
  <2>4. SyncOK(c, now, kept \ {id})
    BY <2>1 DEF SyncOK
  <2> QED BY <2>3, <2>4 DEF AloneOK
<1> QED BY <1>2, <1>3

\* A step of one worker that writes, or removes, a file of its own.
LEMMA Writes ==
  ASSUME IInv, NEW w \in Workers, NEW id \in Ids, NEW content \in Contents,
         Write(id, content), id \in Touched(call[w]), call[w].pc # "idle",
         faults' \in 0..MaxFaults, crashes' \in 0..MaxCrashes,
         call' \in [Workers -> CallRecords],
         \A u \in Workers \ {w} : SameBut(call[u], call'[u]),
         ~ Overlaps => \A u \in Workers \ {w} : call'[u] = call[u],
         CallOK(call'[w]), ListOK(call'[w], file', steady'[w]),
         Touched(call'[w]) = Touched(call[w]),
         ~ Overlaps => AloneOK(call'[w], file', steady'[w])
  PROVE  IInv'
<1>0. /\ file' = [file EXCEPT ![id] = content] /\ file \in [Ids -> Contents]
      /\ \A u \in Workers : steady'[u] = steady[u] \ {id} /\ steady[u] \in SUBSET Ids
  BY DEF Write, IInv, StateOK
<1>1. StateOK'
  BY DEF IInv, StateOK, Write
<1>2. ASSUME NEW u \in Workers PROVE CallOK(call'[u]) /\ ListOK(call'[u], file', steady'[u])
  <2>1. CASE u = w
    BY <2>1
  <2>2. CASE u # w
    <3>1. SameBut(call[u], call'[u]) /\ CallOK(call[u]) /\ ListOK(call[u], file, steady[u])
      BY <2>2 DEF IInv
    <3>2. CallOK(call'[u]) /\ ListOK(call'[u], file, steady[u])
      BY <3>1, SameButKeeps
    <3>3. ListOK(call'[u], [file EXCEPT ![id] = content], steady[u] \ {id})
      BY <1>0, <3>2, OthersKeep
    <3> QED BY <3>2, <3>3, <1>0
  <2> QED BY <2>1, <2>2
<1>3. ASSUME ~ Overlaps
      PROVE  /\ \A v, u \in Workers : v # u => Apart(call'[v], call'[u])
             /\ \A u \in Workers : AloneOK(call'[u], file', steady'[u])
  <2>1. \A v, u \in Workers : v # u => Apart(call[v], call[u])
    BY <1>3 DEF IInv, Exclusive
  <2>2. \A v, u \in Workers : v # u => Apart(call'[v], call'[u])
    BY <1>3, <2>1 DEF Apart
  <2>3. ASSUME NEW u \in Workers PROVE AloneOK(call'[u], file', steady'[u])
    <3>1. CASE u = w
      BY <1>3, <3>1
    <3>2. CASE u # w
      <4>1. call'[u] = call[u] /\ CallOK(call[u]) /\ ListOK(call[u], file, steady[u])
            /\ AloneOK(call[u], file, steady[u])
        BY <1>3, <3>2 DEF IInv
      <4>2. call[u].pc # "idle" => id \notin Touched(call[u])
        BY <2>1, <3>2 DEF Apart
      <4>3. AloneOK(call[u], [file EXCEPT ![id] = content], steady[u] \ {id})
        BY <1>0, <4>1, <4>2, OthersKeep
      <4> QED BY <1>0, <4>1, <4>3
    <3> QED BY <3>1, <3>2
  <2> QED BY <2>2, <2>3
<1> QED BY <1>1, <1>2, <1>3 DEF IInv, Exclusive

LEMMA Known ==
  ASSUME IInv, NEW w \in Workers
  PROVE  /\ call[w] \in CallRecords /\ CallOK(call[w]) /\ ListOK(call[w], file, steady[w])
         /\ steady[w] \in SUBSET Ids /\ \A id \in Ids : file[id] \in Contents
         /\ ~ Overlaps => AloneOK(call[w], file, steady[w])
         /\ faults \in 0..MaxFaults /\ crashes \in 0..MaxCrashes
  BY DEF IInv, StateOK

\* Only the place of the call changes.
LEMMA GotoIs ==
  ASSUME IInv, NEW w \in Workers, NEW pc \in PCs, Goto(w, pc)
  PROVE  /\ call' \in [Workers -> CallRecords] /\ call'[w] = [call[w] EXCEPT !.pc = pc]
         /\ \A u \in Workers \ {w} : call'[u] = call[u]
         /\ call'[w].op = call[w].op /\ call'[w].id = call[w].id /\ call'[w].pc = pc
         /\ Touched(call'[w]) = Touched(call[w])
<1>1. call \in [Workers -> CallRecords] /\ call' = [call EXCEPT ![w] = [call[w] EXCEPT !.pc = pc]]
  BY DEF Goto, IInv, StateOK
<1>2. call[w] \in CallRecords
  BY <1>1
<1>3. [call[w] EXCEPT !.pc = pc] \in CallRecords
  BY <1>2 DEF CallRecords
<1>4. call'[w] = [call[w] EXCEPT !.pc = pc]
  BY <1>1
<1>5. call'[w].op = call[w].op /\ call'[w].id = call[w].id /\ call'[w].pc = pc
  BY <1>2, <1>4 DEF CallRecords
<1>6. Touched(call'[w]) = Touched(call[w])
  BY <1>5 DEF Touched
<1> QED BY <1>1, <1>3, <1>4, <1>5, <1>6
--------------------------------------------------------------------------------
LEMMA LookUpKeeps == ASSUME IInv, NEW w \in Workers, LookUp(w) PROVE IInv'
<1> DEFINE c == call[w]
<1>1. /\ c \in CallRecords /\ CallOK(c) /\ c.pc = "exists" /\ UNCHANGED <<file, steady, faults, crashes>>
      /\ ~ Overlaps => AloneOK(c, file, steady[w])
  BY Known DEF LookUp, Unchanging
<1>2. PICK pc \in PCs :
        /\ Goto(w, pc)
        /\ c.op = "record" => pc = "failed" \/ (pc = "open" /\ file[c.id] = Absent)
        /\ c.op = "delete" => pc \in {"answered", "unlink"}
        /\ c.op \in {"update", "get"} => pc \in {"failed", "read"}
  <2>1. c.op \in {"record", "update", "delete", "get"}
    BY <1>1 DEF CallOK, Named
  <2> QED BY <2>1 DEF LookUp, PCs
<1>3. c.op \in {"record", "update", "delete", "get"} /\ c.id \in Ids
  BY <1>1 DEF CallOK, Named
<1>4. call'[w] = [c EXCEPT !.pc = pc] /\ call' \in [Workers -> CallRecords]
      /\ Touched(call'[w]) = Touched(c) /\ \A u \in Workers \ {w} : call'[u] = call[u]
  BY <1>2, GotoIs
<1> DEFINE d == [c EXCEPT !.pc = pc]
<1>5. /\ d.pc = pc /\ d.op = c.op /\ d.id = c.id /\ d.entry = c.entry
  BY <1>1 DEF CallRecords
<1>6. CallOK(d)
  BY <1>1, <1>2, <1>3, <1>5 DEF CallOK, Operations
<1>7. ListOK(d, file, steady[w])
  BY <1>2, <1>3, <1>5 DEF ListOK
<1>8. ASSUME ~ Overlaps PROVE AloneOK(d, file, steady[w])
  <2>1. WriteOK(d, file)
    BY <1>1, <1>2, <1>3, <1>5 DEF WriteOK, Ready, CallOK
  <2>2. SyncOK(d, file, steady[w])
    BY <1>3, <1>5 DEF SyncOK
  <2> QED BY <2>1, <2>2 DEF AloneOK
<1>9. faults' \in 0..MaxFaults /\ crashes' \in 0..MaxCrashes
  BY <1>1, Known
<1> QED BY <1>1, <1>4, <1>6, <1>7, <1>8, <1>9, Quiet

LEMMA ReadEntryKeeps == ASSUME IInv, NEW w \in Workers, ReadEntry(w) PROVE IInv'
<1> DEFINE c == call[w]
<1>1. /\ c \in CallRecords /\ CallOK(c) /\ c.pc = "read" /\ UNCHANGED <<file, steady, faults, crashes>>
      /\ c.op \in {"update", "get"} /\ c.id \in Ids
  BY Known DEF ReadEntry, Unchanging, CallOK
<1>2. CASE \E pc \in {"failed", "answered"} : Goto(w, pc)
  <2>1. PICK pc \in {"failed", "answered"} : Goto(w, pc)
    BY <1>2
  <2>2. pc \in PCs
    BY DEF PCs
  <2>3. call'[w] = [c EXCEPT !.pc = pc] /\ call' \in [Workers -> CallRecords]
        /\ Touched(call'[w]) = Touched(c) /\ \A u \in Workers \ {w} : call'[u] = call[u]
    BY <2>1, <2>2, GotoIs
  <2> DEFINE d == [c EXCEPT !.pc = pc]
  <2>4. d.pc = pc /\ d.op = c.op
    BY <1>1 DEF CallRecords
  <2>5. CallOK(d) /\ ListOK(d, file, steady[w]) /\ AloneOK(d, file, steady[w])
    BY <1>1, <2>4 DEF CallOK, ListOK, AloneOK, WriteOK, SyncOK, Operations
  <2> QED BY <1>1, <2>3, <2>5, Quiet, Known
<1>3. CASE ~ \E pc \in {"failed", "answered"} : Goto(w, pc)
  <2> DEFINE e == Retagged(file[c.id], c)
             d == [c EXCEPT !.pc = "open", !.entry = e]
  <2>1. /\ file[c.id] \in Entry /\ c.op = "update" /\ call \in [Workers -> CallRecords]
        /\ call' = [call EXCEPT ![w].pc = "open", ![w].entry = e]
    BY <1>1, <1>3 DEF ReadEntry, IInv, StateOK
  <2>2. e \in Entry /\ \E t \in SUBSET Tags : e = [file[c.id] EXCEPT !.tags = t]
    BY <1>1, <2>1, RetaggedIs
  <2> HIDE DEF e
  <2>3. d \in CallRecords
    BY <1>1, <2>2 DEF CallRecords, PCs
  <2>4. call'[w] = d /\ \A u \in Workers \ {w} : call'[u] = call[u]
    BY <2>1
  <2>5. call' \in [Workers -> CallRecords]
    BY <2>1, <2>3
  <2>6. d.pc = "open" /\ d.op = "update" /\ d.id = c.id /\ d.entry = e
    BY <1>1, <2>1 DEF CallRecords
  <2>7. Touched(d) = Touched(c)
    BY <2>1, <2>6 DEF Touched
  <2>8. CallOK(d) /\ ListOK(d, file, steady[w]) /\ AloneOK(d, file, steady[w])
    BY <1>1, <2>1, <2>2, <2>6 DEF CallOK, ListOK, AloneOK, WriteOK, SyncOK, Operations, Ready
  <2> HIDE DEF d
  <2> QED BY <1>1, <2>4, <2>5, <2>7, <2>8, Quiet, Known
<1> QED BY <1>2, <1>3

LEMMA GlobKeeps == ASSUME IInv, NEW w \in Workers, Glob(w) PROVE IInv'
<1> DEFINE c == call[w]
           names == {i \in Ids : file[i] # Absent}
           d == [c EXCEPT !.pc = "reading", !.todo = names]
<1>1. /\ c \in CallRecords /\ CallOK(c) /\ c.pc = "glob" /\ UNCHANGED <<file, steady, faults, crashes>>
      /\ c.op \in {"list", "sync"} /\ call \in [Workers -> CallRecords]
      /\ call' = [call EXCEPT ![w].pc = "reading", ![w].todo = names]
      /\ ~ Overlaps => AloneOK(c, file, steady[w])
  BY Known DEF Glob, Unchanging, CallOK, IInv, StateOK
<1>2. names \in SUBSET Ids /\ \A i \in Ids \ names : file[i] = Absent
  OBVIOUS
<1> HIDE DEF names
<1>3. d \in CallRecords /\ d.pc = "reading" /\ d.op = c.op /\ d.id = c.id /\ d.todo = names /\ d.read = c.read
  BY <1>1, <1>2 DEF CallRecords, PCs
<1>4. call'[w] = d /\ call' \in [Workers -> CallRecords] /\ \A u \in Workers \ {w} : call'[u] = call[u]
  BY <1>1, <1>3
<1>5. Touched(d) = Touched(c)
  BY <1>3 DEF Touched
<1>6. CallOK(d)
  BY <1>1, <1>3 DEF CallOK, Operations
<1>7. ListOK(d, file, steady[w])
  BY <1>2, <1>3, Distinct, Known DEF ListOK
<1>8. ~ Overlaps => AloneOK(d, file, steady[w])
  BY <1>1, <1>3 DEF AloneOK, WriteOK, SyncOK, CallOK
<1> HIDE DEF d
<1> QED BY <1>1, <1>4, <1>5, <1>6, <1>7, <1>8, Quiet, Known

LEMMA ReadNextKeeps == ASSUME IInv, NEW w \in Workers, ReadNext(w) PROVE IInv'
<1> DEFINE c == call[w]
           id == First(c.todo)
           content == file[id]
           more == [i \in DOMAIN c.read \union {id} |-> IF i = id THEN content ELSE c.read[i]]
           read == IF content \in Entry THEN more ELSE c.read
           unread == IF content \in Entry THEN c.unreadable ELSE c.unreadable \union {id}
           d == [c EXCEPT !.todo = @ \ {id}, !.unreadable = unread, !.read = read]
<1>1. /\ c \in CallRecords /\ CallOK(c) /\ c.pc = "reading" /\ UNCHANGED <<file, steady, faults, crashes>>
      /\ c.op \in {"list", "sync"} /\ call \in [Workers -> CallRecords]
      /\ ListOK(c, file, steady[w]) /\ steady[w] \in SUBSET Ids /\ c.todo # {}
      /\ ~ Overlaps => AloneOK(c, file, steady[w])
  BY Known DEF ReadNext, Unchanging, CallOK, IInv, StateOK
<1>2. id \in c.todo /\ id \in Ids /\ content \in Contents
  <2>1. c.todo \subseteq Nat /\ c.todo \subseteq Ids
    BY <1>1, CatalogAssumption DEF CallRecords
  <2>2. id \in c.todo
    BY <1>1, <2>1, FirstIsIn
  <2> QED BY <2>1, <2>2, Known
<1>3. call' = [call EXCEPT ![w].todo = @ \ {id}, ![w].unreadable = unread, ![w].read = read]
  BY <1>1 DEF ReadNext
<1>4. read \in Reads /\ unread \in SUBSET Ids
  <2>1. c.read \in Reads /\ c.unreadable \in SUBSET Ids
    BY <1>1 DEF CallRecords
  <2>2. content \in Entry => more \in Reads
    BY <1>2, <2>1, ReadMore
  <2> QED BY <1>2, <2>1, <2>2
<1>5. /\ content = Torn => id \in unread
      /\ content \in Entry => id \in DOMAIN read /\ read[id] = content
      /\ c.unreadable \subseteq unread
      /\ \A i \in DOMAIN c.read : i # id => i \in DOMAIN read /\ read[i] = c.read[i]
      /\ \A i \in DOMAIN read : (i \in DOMAIN c.read /\ read[i] = c.read[i]) \/ (i = id /\ read[i] = content)
  BY <1>2, Distinct
<1> HIDE DEF read, unread, more, id
<1>6. /\ d \in CallRecords /\ d.pc = "reading" /\ d.op = c.op /\ d.id = c.id
      /\ d.todo = c.todo \ {id} /\ d.read = read /\ d.unreadable = unread
  BY <1>1, <1>2, <1>4 DEF CallRecords
<1>7. call'[w] = d /\ call' \in [Workers -> CallRecords] /\ \A u \in Workers \ {w} : call'[u] = call[u]
  BY <1>1, <1>3, <1>6
<1>8. Touched(d) = Touched(c)
  BY <1>6 DEF Touched
<1>9. CallOK(d)
  BY <1>1, <1>6 DEF CallOK, Operations
<1>10. ListOK(d, file, steady[w])
  <2> SUFFICES ASSUME NEW i \in steady[w] \ d.todo
               PROVE  /\ file[i] = Torn => i \in d.unreadable
                      /\ file[i] \in Entry => i \in DOMAIN d.read /\ d.read[i] = file[i]
    BY DEF ListOK
  <2>1. CASE i = id
    BY <1>5, <1>6, <2>1
  <2>2. CASE i # id
    <3>1. i \in steady[w] \ c.todo
      BY <1>6, <2>2
    <3> QED BY <1>1, <1>5, <1>6, <2>2, <3>1 DEF ListOK
  <2> QED BY <2>1, <2>2
<1>11. ~ Overlaps => AloneOK(d, file, steady[w])
  BY <1>1, <1>5, <1>6 DEF AloneOK, WriteOK, SyncOK
<1> HIDE DEF d
<1> QED BY <1>1, <1>7, <1>8, <1>9, <1>10, <1>11, Quiet, Known

LEMMA ReadAllKeeps == ASSUME IInv, NEW w \in Workers, ReadAll(w) PROVE IInv'
<1> DEFINE c == call[w]
<1>1. /\ c \in CallRecords /\ CallOK(c) /\ c.pc = "reading" /\ UNCHANGED <<file, steady, faults, crashes>>
      /\ c.op \in {"list", "sync"} /\ call \in [Workers -> CallRecords] /\ c.todo = {}
      /\ ListOK(c, file, steady[w]) /\ steady[w] \in SUBSET Ids
      /\ ~ Overlaps => AloneOK(c, file, steady[w])
  BY Known DEF ReadAll, Unchanging, CallOK, IInv, StateOK
<1>2. CASE c.op = "list"
  <2>1. Goto(w, "answered") /\ "answered" \in PCs
    BY <1>2 DEF ReadAll, PCs
  <2> DEFINE d == [c EXCEPT !.pc = "answered"]
  <2>2. call'[w] = d /\ call' \in [Workers -> CallRecords]
        /\ Touched(call'[w]) = Touched(c) /\ \A u \in Workers \ {w} : call'[u] = call[u]
    BY <2>1, GotoIs
  <2>3. /\ d.pc = "answered" /\ d.op = c.op /\ d.todo = c.todo /\ d.read = c.read
        /\ d.unreadable = c.unreadable
    BY <1>1 DEF CallRecords
  <2>4. CallOK(d) /\ AloneOK(d, file, steady[w])
    BY <1>1, <1>2, <2>3 DEF CallOK, AloneOK, WriteOK, SyncOK, Operations
  <2>5. ListOK(d, file, steady[w])
    BY <1>1, <2>3 DEF ListOK
  <2> HIDE DEF d
  <2> QED BY <1>1, <2>2, <2>4, <2>5, Quiet, Known
<1>3. CASE c.op = "sync"
  <2> DEFINE todo == {i \in DOMAIN c.read : InScope(c, c.read[i])}
             d == [c EXCEPT !.pc = "next", !.todo = todo]
  <2>1. call' = [call EXCEPT ![w].pc = "next", ![w].todo = todo]
    BY <1>1, <1>3 DEF ReadAll
  <2>2. todo \in SUBSET Ids /\ todo \subseteq DOMAIN c.read
        /\ \A i \in DOMAIN c.read : i \in todo <=> InScope(c, c.read[i])
    BY <1>1, ReadsIs DEF CallRecords
  <2> HIDE DEF todo
  <2>3. /\ d \in CallRecords /\ d.pc = "next" /\ d.op = c.op /\ d.id = c.id /\ d.todo = todo
        /\ d.read = c.read /\ d.plane = c.plane /\ d.listed = c.listed
    BY <1>1, <2>2 DEF CallRecords, PCs
  <2>4. call'[w] = d /\ call' \in [Workers -> CallRecords] /\ \A u \in Workers \ {w} : call'[u] = call[u]
    BY <1>1, <2>1, <2>3
  <2>5. Touched(d) = Touched(c)
    BY <2>3 DEF Touched
  <2>6. CallOK(d) /\ ListOK(d, file, steady[w])
    BY <1>1, <1>3, <2>2, <2>3 DEF CallOK, ListOK, Operations
  <2>7. ASSUME ~ Overlaps PROVE AloneOK(d, file, steady[w])
    <3>1. WriteOK(d, file)
      BY <2>3 DEF WriteOK
    <3>2. steady[w] = Ids /\ \A id \in DOMAIN c.read : file[id] = c.read[id]
      BY <1>1, <1>3, <2>7 DEF AloneOK, SyncOK
    <3>3. \A e : InScope(d, e) <=> InScope(c, e)
      BY <2>3 DEF InScope
    <3>4. ASSUME NEW id \in Ids
          PROVE  /\ id \in d.todo => Waiting(d, id, file)
                 /\ id \notin d.todo => Settled(d, id, file, steady[w])
      <4>1. id \in d.todo => Waiting(d, id, file)
        BY <2>2, <2>3, <3>2, <3>3 DEF Waiting
      <4>2. ASSUME id \notin d.todo, file[id] \in Entry PROVE ~ InScope(d, file[id]) /\ id \in steady[w]
        <5>1. id \in steady[w] \ c.todo
          BY <1>1, <3>2
        <5>2. id \in DOMAIN c.read /\ c.read[id] = file[id]
          BY <1>1, <4>2, <5>1 DEF ListOK
        <5> QED BY <2>2, <2>3, <3>2, <3>3, <4>2, <5>2
      <4> QED BY <4>1, <4>2 DEF Settled
    <3>5. SyncOK(d, file, steady[w])
      BY <2>3, <3>4 DEF SyncOK
    <3> QED BY <3>1, <3>5 DEF AloneOK
  <2> HIDE DEF d
  <2> QED BY <1>1, <2>4, <2>5, <2>6, <2>7, Quiet, Known
<1> QED BY <1>1, <1>2, <1>3

LEMMA MarkNextKeeps == ASSUME IInv, NEW w \in Workers, MarkNext(w) PROVE IInv'
<1> DEFINE c == call[w]
<1>1. /\ c \in CallRecords /\ CallOK(c) /\ c.pc = "next" /\ UNCHANGED <<file, steady, faults, crashes>>
      /\ c.op = "sync" /\ call \in [Workers -> CallRecords] /\ c.todo \subseteq DOMAIN c.read
      /\ steady[w] \in SUBSET Ids
      /\ ~ Overlaps => AloneOK(c, file, steady[w])
  BY Known DEF MarkNext, Unchanging, CallOK, IInv, StateOK
<1>2. CASE c.todo = {}
  <2>1. Goto(w, "answered") /\ "answered" \in PCs
    BY <1>2 DEF MarkNext, PCs
  <2> DEFINE d == [c EXCEPT !.pc = "answered"]
  <2>2. call'[w] = d /\ call' \in [Workers -> CallRecords]
        /\ Touched(call'[w]) = Touched(c) /\ \A u \in Workers \ {w} : call'[u] = call[u]
    BY <2>1, GotoIs
  <2>3. /\ d.pc = "answered" /\ d.op = c.op /\ d.todo = c.todo /\ d.read = c.read
        /\ d.unmarked = c.unmarked /\ d.plane = c.plane /\ d.listed = c.listed
    BY <1>1 DEF CallRecords
  <2>4. CallOK(d) /\ ListOK(d, file, steady[w])
    BY <1>1, <1>2, <2>3 DEF CallOK, ListOK, Operations
  <2>5. ASSUME ~ Overlaps PROVE AloneOK(d, file, steady[w])
    <3>1. SyncOK(c, file, steady[w])
      BY <1>1, <2>5 DEF AloneOK
    <3>2. \A i \in Ids : Settled(c, i, file, steady[w])
      BY <1>1, <1>2, <3>1 DEF SyncOK
    <3>3. \A f : (InScope(d, f) <=> InScope(c, f)) /\ Status(d, f) = Status(c, f)
      BY <2>3 DEF InScope, Status
    <3>4. \A i \in Ids : Settled(d, i, file, steady[w])
      BY <2>3, <3>2, <3>3 DEF Settled
    <3>5. SyncOK(d, file, steady[w])
      BY <1>2, <2>3, <3>4 DEF SyncOK
    <3> QED BY <2>3, <3>5 DEF AloneOK, WriteOK
  <2> HIDE DEF d
  <2> QED BY <1>1, <2>2, <2>4, <2>5, Quiet, Known
<1>3. CASE c.todo # {}
  <2> DEFINE id == First(c.todo)
             e == c.read[id]
             marked == [e EXCEPT !.sync = Status(c, e)]
             d == [c EXCEPT !.pc = "open", !.id = id, !.todo = @ \ {id}, !.entry = marked]
  <2>1. call' = [call EXCEPT ![w].pc = "open", ![w].id = id, ![w].todo = @ \ {id}, ![w].entry = marked]
    BY <1>1, <1>3 DEF MarkNext
  <2>2. id \in c.todo /\ id \in Ids /\ e \in Entry
    <3>1. c.todo \subseteq Nat /\ c.todo \subseteq Ids /\ c.read \in Reads
      BY <1>1, CatalogAssumption DEF CallRecords
    <3>2. id \in c.todo
      BY <1>3, <3>1, FirstIsIn
    <3> QED BY <1>1, <3>1, <3>2, ReadsIs
  <2> HIDE DEF id
  <2>3. marked \in Entry
    BY <2>2, MarkedIs
  <2> HIDE DEF e, marked
  <2>4. /\ d \in CallRecords /\ d.pc = "open" /\ d.op = c.op /\ d.id = id /\ d.todo = c.todo \ {id}
        /\ d.read = c.read /\ d.plane = c.plane /\ d.listed = c.listed /\ d.entry = marked
        /\ d.unmarked = c.unmarked
    BY <1>1, <2>2, <2>3 DEF CallRecords, PCs
  <2>5. call'[w] = d /\ call' \in [Workers -> CallRecords] /\ \A u \in Workers \ {w} : call'[u] = call[u]
    BY <1>1, <2>1, <2>4
  <2>6. Touched(d) = Touched(c)
    BY <1>1, <2>4 DEF Touched
  <2>7. CallOK(d) /\ ListOK(d, file, steady[w])
    BY <1>1, <2>2, <2>3, <2>4 DEF CallOK, ListOK, Operations
  <2>8. ASSUME ~ Overlaps PROVE AloneOK(d, file, steady[w])
    <3>1. \A i \in Ids : /\ i \in c.todo => Waiting(c, i, file)
                         /\ i \notin c.todo => Settled(c, i, file, steady[w])
      <4>1. SyncOK(c, file, steady[w])
        BY <1>1, <2>8 DEF AloneOK
      <4> QED BY <1>1, <4>1 DEF SyncOK
    <3>2. \A f : (InScope(d, f) <=> InScope(c, f)) /\ Status(d, f) = Status(c, f)
      BY <2>4 DEF InScope, Status
    <3>3. file[id] = e /\ InScope(c, e)
      BY <2>2, <3>1 DEF Waiting, e
    <3>4. Ready(d, file[id])
      <4>1. marked = [file[id] EXCEPT !.sync = Status(d, file[id])]
        BY <3>2, <3>3 DEF marked
      <4> QED BY <1>1, <2>2, <2>4, <3>2, <3>3, <4>1 DEF Ready
    <3>5. SyncOK(d, file, steady[w])
      BY <1>1, <2>4, <3>1, <3>2 DEF SyncOK, Waiting, Settled
    <3> QED BY <2>4, <3>4, <3>5 DEF AloneOK, WriteOK
  <2> HIDE DEF d
  <2> QED BY <1>1, <2>5, <2>6, <2>7, <2>8, Quiet, Known
<1> QED BY <1>2, <1>3
--------------------------------------------------------------------------------
LEMMA OpenKeeps == ASSUME IInv, NEW w \in Workers, Open(w) PROVE IInv'
<1> DEFINE c == call[w]
           id == c.id
           d == [c EXCEPT !.pc = "write", !.old = file[id], !.linked = TRUE, !.overlaid = FALSE]
<1>1. /\ c \in CallRecords /\ CallOK(c) /\ c.pc = "open" /\ UNCHANGED <<faults, crashes>>
      /\ c.op \in {"record", "update", "sync"} /\ c.entry \in Entry /\ id \in Ids
      /\ call \in [Workers -> CallRecords] /\ file \in [Ids -> Contents]
      /\ steady \in [Workers -> SUBSET Ids]
      /\ ListOK(c, file, steady[w]) /\ Write(id, Torn)
      /\ ~ Overlaps => AloneOK(c, file, steady[w])
  BY Known DEF Open, CallOK, IInv, StateOK
<1>2. call' = [call EXCEPT ![w].pc = "write", ![w].old = file[id], ![w].linked = TRUE, ![w].overlaid = FALSE]
  BY DEF Open
<1>3. /\ d \in CallRecords /\ d.pc = "write" /\ d.op = c.op /\ d.id = id /\ d.todo = c.todo
      /\ d.read = c.read /\ d.plane = c.plane /\ d.listed = c.listed /\ d.entry = c.entry
      /\ d.unmarked = c.unmarked /\ d.old = file[id] /\ d.linked /\ ~ d.overlaid
  BY <1>1 DEF CallRecords, PCs
<1>4. call'[w] = d /\ call' \in [Workers -> CallRecords] /\ \A u \in Workers \ {w} : call'[u] = call[u]
  BY <1>1, <1>2, <1>3
<1>5. Touched(d) = Touched(c) /\ id \in Touched(c)
  BY <1>1, <1>3 DEF Touched
<1>6. CallOK(d) /\ ListOK(d, file', steady'[w])
  BY <1>1, <1>3 DEF CallOK, ListOK, Operations
<1>7. /\ file'[id] = Torn /\ \A i \in Ids : i # id => file'[i] = file[i]
      /\ steady'[w] = steady[w] \ {id}
  BY <1>1 DEF Write
<1> HIDE DEF d
<1>8. ASSUME ~ Overlaps PROVE AloneOK(d, file', steady'[w])
  <2>1. Ready(c, file[id]) /\ SyncOK(c, file, steady[w])
    BY <1>1, <1>8 DEF AloneOK, WriteOK
  <2>2. \A f : (InScope(d, f) <=> InScope(c, f)) /\ Status(d, f) = Status(c, f)
    BY <1>3 DEF InScope, Status
  <2>3. Ready(d, d.old)
    <3>1. (InScope(d, file[id]) <=> InScope(c, file[id])) /\ Status(d, file[id]) = Status(c, file[id])
      BY <2>2
    <3> HIDE DEF c
    <3>2. Ready(d, file[id])
      BY <1>3, <2>1, <3>1 DEF Ready
    <3> QED BY <1>3, <3>2
  <2>4. WriteOK(d, file')
    BY <1>3, <1>7, <2>3 DEF WriteOK
  <2>5. ASSUME c.op = "sync" PROVE SyncOK(d, file', steady'[w])
    <3>1. id \notin c.todo
      BY <2>1, <2>5 DEF Ready
    <3>2. ASSUME NEW i \in Ids, i \in c.todo PROVE Waiting(d, i, file')
      BY <1>1, <1>3, <1>7, <2>1, <2>2, <2>5, <3>1, <3>2 DEF SyncOK, Waiting
    <3>3. ASSUME NEW i \in Ids, i \notin c.todo PROVE Settled(d, i, file', steady'[w])
      <4>1. CASE i = id
        BY <1>7, <4>1, Distinct DEF Settled
      <4>2. CASE i # id
        <5>1. Settled(c, i, file, steady[w])
          BY <1>1, <2>1, <2>5, <3>3, <4>2 DEF SyncOK
        <5> QED BY <1>3, <1>7, <2>2, <4>2, <5>1 DEF Settled
      <4> QED BY <4>1, <4>2
    <3> QED BY <1>3, <3>2, <3>3 DEF SyncOK
  <2>6. SyncOK(d, file', steady'[w])
    BY <1>3, <2>5 DEF SyncOK
  <2> QED BY <2>4, <2>6 DEF AloneOK
<1>9. \A u \in Workers \ {w} : SameBut(call[u], call'[u])
  BY <1>4 DEF SameBut
<1> HIDE DEF c, id
<1>10. Torn \in Contents /\ call[w].pc # "idle" /\ c = call[w]
  BY <1>1 DEF Contents, c
<1> QED BY <1>1, <1>4, <1>5, <1>6, <1>8, <1>9, <1>10, Writes, Known

\* While no two calls change the same entry at once, nobody else is writing it.
LEMMA AloneWriting ==
  ASSUME IInv, ~ Overlaps, NEW w \in Workers, NEW u \in Workers, u # w,
         call[w].pc # "idle", call[w].id \in Touched(call[w])
  PROVE  ~ Writing(u, call[w].id)
<1> SUFFICES ASSUME Writing(u, call[w].id) PROVE FALSE
  OBVIOUS
<1>1. call[u].pc = "write" /\ call[u].id = call[w].id /\ CallOK(call[u]) /\ call[u] \in CallRecords
  BY Known DEF Writing
<1>2. call[w].id \in Touched(call[u])
  BY <1>1 DEF CallOK, Touched
<1>3. Touched(call[w]) \intersect Touched(call[u]) = {}
  BY <1>1 DEF IInv, Exclusive, Apart
<1> QED BY <1>2, <1>3

\* The call of a reconciliation or of a write that is over.
LEMMA FinishedIs ==
  ASSUME NEW c \in CallRecords, CallOK(c), c.pc = "write",
         NEW pc, pc = IF c.op = "sync" THEN "next" ELSE "answered",
         NEW files, NEW kept, ListOK(c, files, kept)
  PROVE  /\ [c EXCEPT !.pc = pc] \in CallRecords /\ CallOK([c EXCEPT !.pc = pc])
         /\ ListOK([c EXCEPT !.pc = pc], files, kept)
         /\ Touched([c EXCEPT !.pc = pc]) = Touched(c)
<1> DEFINE d == [c EXCEPT !.pc = pc]
<1>1. /\ d \in CallRecords /\ d.pc = pc /\ d.op = c.op /\ d.id = c.id /\ d.todo = c.todo
      /\ d.read = c.read /\ d.entry = c.entry
  BY DEF CallRecords, PCs
<1>2. c.op \in {"record", "update", "sync"}
  BY DEF CallOK
<1> HIDE DEF d
<1>3. CallOK(d) /\ ListOK(d, files, kept) /\ Touched(d) = Touched(c)
  BY <1>1, <1>2 DEF CallOK, ListOK, Touched, Operations
<1> QED BY <1>1, <1>3 DEF d

\* What was read is settled by the entry that is written, if it is written.
LEMMA FinishedAlone ==
  ASSUME NEW c \in CallRecords, CallOK(c), c.pc = "write",
         NEW pc, pc = IF c.op = "sync" THEN "next" ELSE "answered",
         NEW files \in [Ids -> Contents], NEW kept \in SUBSET Ids, AloneOK(c, files, kept)
  PROVE  AloneOK([c EXCEPT !.pc = pc], [files EXCEPT ![c.id] = c.entry], kept \ {c.id})
<1> DEFINE d == [c EXCEPT !.pc = pc]
           now == [files EXCEPT ![c.id] = c.entry]
           left == kept \ {c.id}
<1>1. /\ d \in CallRecords /\ d.pc = pc /\ d.op = c.op /\ d.id = c.id /\ d.todo = c.todo
      /\ d.read = c.read /\ d.entry = c.entry /\ d.plane = c.plane /\ d.listed = c.listed
      /\ d.unmarked = c.unmarked
  BY DEF CallRecords, PCs
<1>2. WriteOK(d, now)
  BY <1>1 DEF WriteOK
<1>3. c.id \in Ids /\ now[c.id] = c.entry /\ \A i \in Ids : i # c.id => now[i] = files[i]
  BY DEF CallOK
<1> HIDE DEF d, now
<1>4. ASSUME c.op = "sync" PROVE SyncOK(d, now, left)
  <2>1. Ready(c, c.old) /\ SyncOK(c, files, kept)
    BY DEF AloneOK, WriteOK
  <2>2. \A f : (InScope(d, f) <=> InScope(c, f)) /\ Status(d, f) = Status(c, f)
    BY <1>1 DEF InScope, Status
  <2>3. /\ c.old \in Entry /\ c.entry = [c.old EXCEPT !.sync = Status(c, c.old)]
        /\ InScope(c, c.old) /\ c.id \notin c.todo
    BY <1>4, <2>1 DEF Ready
  <2>4. ASSUME NEW i \in Ids, i \in c.todo PROVE Waiting(d, i, now)
    BY <1>1, <1>3, <1>4, <2>1, <2>2, <2>3, <2>4 DEF SyncOK, Waiting
  <2>5. ASSUME NEW i \in Ids, i \notin c.todo PROVE Settled(d, i, now, left)
    <3>1. CASE i = c.id
      <4>1. c.entry.sync = Status(c, c.old) /\ c.entry.backup = c.old.backup
        BY <2>3, MarkedIs
      <4>2. InScope(c, c.entry) /\ c.entry.sync = Status(c, c.entry)
        BY <2>3, <4>1 DEF InScope, Status
      <4> QED BY <1>3, <2>2, <3>1, <4>2 DEF Settled
    <3>2. CASE i # c.id
      <4>1. Settled(c, i, files, kept)
        BY <1>4, <2>1, <2>5 DEF SyncOK
      <4> QED BY <1>1, <1>3, <2>2, <3>2, <4>1 DEF Settled
    <3> QED BY <3>1, <3>2
  <2> QED BY <1>1, <1>4, <2>4, <2>5 DEF SyncOK
<1>5. SyncOK(d, now, left)
  BY <1>1, <1>4 DEF SyncOK
<1>6. AloneOK(d, now, left)
  BY <1>2, <1>5 DEF AloneOK
<1> QED BY <1>6 DEF d, now

LEMMA FinishKeeps == ASSUME IInv, NEW w \in Workers, Finish(w) PROVE IInv'
<1> DEFINE c == call[w]
           id == c.id
           pc == Afterwards(w)
           d == [c EXCEPT !.pc = pc]
<1>1. /\ c \in CallRecords /\ CallOK(c) /\ c.pc = "write" /\ UNCHANGED <<faults, crashes>>
      /\ c.op \in {"record", "update", "sync"} /\ c.entry \in Entry /\ id \in Ids
      /\ call \in [Workers -> CallRecords] /\ file \in [Ids -> Contents]
      /\ steady \in [Workers -> SUBSET Ids] /\ ListOK(c, file, steady[w])
      /\ ~ Overlaps => AloneOK(c, file, steady[w])
  BY Known DEF Finish, CallOK, IInv, StateOK
<1>2. pc = IF c.op = "sync" THEN "next" ELSE "answered"
  BY DEF Afterwards
<1> HIDE DEF pc
<1>3. /\ d \in CallRecords /\ CallOK(d) /\ Touched(d) = Touched(c)
      /\ \A files, kept : ListOK(c, files, kept) => ListOK(d, files, kept)
  BY <1>1, <1>2, FinishedIs
<1>4. /\ call'[w] = d
      /\ \A u \in Workers \ {w} :
           call'[u] = [call[u] EXCEPT !.overlaid = @ \/ (c.linked /\ Writing(u, id))]
      /\ DOMAIN call' = Workers /\ call' = [u \in Workers |-> call'[u]]
  BY DEF Finish, pc
<1>5. ASSUME NEW u \in Workers \ {w}
      PROVE  call'[u] \in CallRecords /\ SameBut(call[u], call'[u])
  <2>1. call[u] \in CallRecords
    BY <1>1
  <2>2. CASE c.linked /\ Writing(u, id)
    <3>1. call'[u] = [call[u] EXCEPT !.overlaid = TRUE]
      BY <1>4, <2>2
    <3> QED BY <2>1, <3>1 DEF CallRecords, SameBut
  <2>3. CASE ~ (c.linked /\ Writing(u, id))
    <3>1. call'[u] = [call[u] EXCEPT !.overlaid = @ \/ FALSE]
      BY <1>4, <2>3
    <3>2. call'[u] = call[u]
      BY <2>1, <3>1 DEF CallRecords
    <3> QED BY <2>1, <3>2 DEF SameBut
  <2> QED BY <2>2, <2>3
<1>6. call' \in [Workers -> CallRecords]
  BY <1>3, <1>4, <1>5
<1>7. id \in Touched(c)
  BY <1>1 DEF Touched
<1>8. ASSUME ~ Overlaps, NEW u \in Workers \ {w} PROVE call'[u] = call[u]
  <2>1. ~ Writing(u, id)
    BY <1>1, <1>7, <1>8, AloneWriting
  <2>2. call[u] \in CallRecords
    BY <1>1
  <2>3. call'[u] = [call[u] EXCEPT !.overlaid = @ \/ FALSE]
    BY <1>4, <2>1
  <2> QED BY <2>2, <2>3 DEF CallRecords
<1>9. CASE c.linked /\ \E content \in {c.entry, Torn} : Write(id, content)
                       /\ (content = c.entry \/ (content = Torn /\ c.overlaid))
  <2>1. PICK content \in {c.entry, Torn} :
          Write(id, content) /\ (content = c.entry \/ (content = Torn /\ c.overlaid))
    BY <1>9
  <2>2. file' = [file EXCEPT ![id] = content] /\ steady'[w] = steady[w] \ {id} /\ content \in Contents
    BY <1>1, <2>1 DEF Write, Contents
  <2>3. ListOK(d, file', steady'[w])
    BY <1>1, <1>3, <2>2, OthersKeep
  <2>4. ASSUME ~ Overlaps PROVE AloneOK(d, file', steady'[w])
    <3>1. ~ c.overlaid
      BY <1>1, <2>4 DEF AloneOK, WriteOK
    <3>2. content = c.entry
      BY <2>1, <3>1
    <3>3. AloneOK(d, [file EXCEPT ![id] = c.entry], steady[w] \ {id})
      BY <1>1, <1>2, <2>4, FinishedAlone
    <3> QED BY <2>2, <3>2, <3>3
  <2> HIDE DEF d, c, id
  <2>5. call[w].pc # "idle" /\ c = call[w]
    BY <1>1 DEF c
  <2> QED BY <1>1, <1>3, <1>4, <1>5, <1>6, <1>7, <1>8, <2>1, <2>2, <2>3, <2>4, <2>5, Writes, Known
<1>10. CASE ~ c.linked /\ UNCHANGED <<file, steady>>
  <2>1. Overlaps
    BY <1>1, <1>10 DEF AloneOK, WriteOK
  <2> DEFINE sane == \A u \in Workers : CallOK(call'[u]) /\ ListOK(call'[u], file, steady[u])
  <2>2. sane
    <3>1. ASSUME NEW u \in Workers PROVE CallOK(call'[u]) /\ ListOK(call'[u], file, steady[u])
      <4>1. CASE u = w
        BY <1>1, <1>3, <1>4, <4>1
      <4>2. CASE u # w
        BY <1>5, <4>2, Known, SameButKeeps
      <4> QED BY <4>1, <4>2
    <3> QED BY <3>1
  <2>3. StateOK'
    BY <1>1, <1>6, <1>10 DEF IInv, StateOK
  <2> QED BY <1>10, <2>1, <2>2, <2>3 DEF IInv
<1> QED BY <1>9, <1>10 DEF Finish

LEMMA UnlinkKeeps == ASSUME IInv, NEW w \in Workers, Unlink(w) PROVE IInv'
<1> DEFINE c == call[w]
           id == c.id
<1>1. /\ c \in CallRecords /\ CallOK(c) /\ c.pc = "unlink" /\ UNCHANGED <<faults, crashes>>
      /\ c.op = "delete" /\ id \in Ids
      /\ call \in [Workers -> CallRecords] /\ file \in [Ids -> Contents]
      /\ steady \in [Workers -> SUBSET Ids] /\ ListOK(c, file, steady[w])
      /\ ~ Overlaps => AloneOK(c, file, steady[w])
  BY Known DEF Unlink, CallOK, IInv, StateOK
<1>2. ASSUME NEW pc \in {"answered", "failed"}, NEW files, NEW kept
      PROVE  /\ [c EXCEPT !.pc = pc] \in CallRecords /\ CallOK([c EXCEPT !.pc = pc])
             /\ Touched([c EXCEPT !.pc = pc]) = Touched(c)
             /\ ListOK([c EXCEPT !.pc = pc], files, kept) /\ AloneOK([c EXCEPT !.pc = pc], files, kept)
  <2> DEFINE d == [c EXCEPT !.pc = pc]
  <2>1. d \in CallRecords /\ d.pc = pc /\ d.op = c.op /\ d.id = c.id
    BY <1>1 DEF CallRecords, PCs
  <2> HIDE DEF d
  <2>2. CallOK(d) /\ Touched(d) = Touched(c)
    BY <1>1, <2>1 DEF CallOK, Touched, Operations
  <2>3. ListOK(d, files, kept) /\ AloneOK(d, files, kept)
    BY <1>1, <2>1 DEF ListOK, AloneOK, WriteOK, SyncOK
  <2> QED BY <2>1, <2>2, <2>3 DEF d
<1>3. CASE Goto(w, "failed") /\ UNCHANGED <<file, steady>>
  <2>1. call'[w] = [c EXCEPT !.pc = "failed"] /\ call' \in [Workers -> CallRecords]
        /\ \A u \in Workers \ {w} : call'[u] = call[u]
    BY <1>3, GotoIs DEF PCs
  <2>2. /\ CallOK(call'[w]) /\ Touched(call'[w]) = Touched(c)
        /\ ListOK(call'[w], file, steady[w]) /\ AloneOK(call'[w], file, steady[w])
    BY <1>2, <2>1
  <2> QED BY <1>1, <1>3, <2>1, <2>2, Quiet, Known
<1>4. CASE /\ Write(id, Absent)
           /\ call' = [u \in Workers |->
                CASE u = w           -> [c EXCEPT !.pc = "answered"]
                  [] Writing(u, id) -> [call[u] EXCEPT !.linked = FALSE]
                  [] OTHER            -> call[u]]
  <2>0. ~ Writing(w, id)
    BY <1>1 DEF Writing
  <2>1. call'[w] = [c EXCEPT !.pc = "answered"]
    BY <1>4, <2>0
  <2>2. ASSUME NEW u \in Workers \ {w}
        PROVE  /\ call'[u] \in CallRecords /\ SameBut(call[u], call'[u])
               /\ ~ Writing(u, id) => call'[u] = call[u]
    <3>1. call[u] \in CallRecords
      BY <1>1
    <3>2. CASE Writing(u, id)
      <4>1. call'[u] = [call[u] EXCEPT !.linked = FALSE]
        BY <1>4, <3>2
      <4> QED BY <3>1, <3>2, <4>1 DEF CallRecords, SameBut
    <3>3. CASE ~ Writing(u, id)
      <4>1. call'[u] = call[u]
        BY <1>4, <3>3
      <4> QED BY <3>1, <4>1 DEF SameBut
    <3> QED BY <3>2, <3>3
  <2>3. call' \in [Workers -> CallRecords]
    BY <1>1, <1>2, <1>4, <2>1, <2>2
  <2>4. id \in Touched(c)
    BY <1>1 DEF Touched
  <2>5. ASSUME ~ Overlaps, NEW u \in Workers \ {w} PROVE call'[u] = call[u]
    BY <1>1, <2>2, <2>4, <2>5, AloneWriting
  <2>6. /\ CallOK(call'[w]) /\ Touched(call'[w]) = Touched(c)
        /\ ListOK(call'[w], file', steady'[w]) /\ AloneOK(call'[w], file', steady'[w])
    BY <1>2, <2>1
  <2>7. Absent \in Contents
    BY DEF Contents
  <2> QED BY <1>1, <1>4, <2>2, <2>3, <2>4, <2>5, <2>6, <2>7, Writes, Known
<1> QED BY <1>3, <1>4 DEF Unlink
--------------------------------------------------------------------------------
\* The calls a client can make, as they begin.
LEMMA MadeIs ==
  ASSUME NEW op \in Operations, NEW c \in Made(op)
  PROVE  /\ c \in CallRecords /\ c.op = op /\ DOMAIN c.read = {}
         /\ c.pc = IF Named(op) THEN "exists" ELSE "glob"
         /\ Named(op) => c.id \in Ids
         /\ op = "record" => c.entry \in Entry /\ c.entry.sync = "unchecked"
<1> DEFINE Where == IF Named(op) THEN Ids ELSE {Absent}
           Given == IF op = "record" THEN {Fresh(b, {}) : b \in Backups} ELSE {Absent}
           Tagged == IF op \in {"update", "list"} THEN SUBSET Tags ELSE {{}}
           Replaced == IF op = "update" THEN BOOLEAN ELSE {FALSE}
           Scoped == IF op \in {"list", "sync"} THEN Planes \union {Absent} ELSE {Absent}
           Present == IF op = "sync" THEN SUBSET Backups ELSE {{}}
<1>0. Made(op) = {CallWith(op, i, e, t, r, p, l) :
                    i \in Where, e \in Given, t \in Tagged, r \in Replaced, p \in Scoped, l \in Present}
  BY DEF Made
<1>1. PICK i \in Where, e \in Given, t \in Tagged, r \in Replaced, p \in Scoped, l \in Present :
        c = CallWith(op, i, e, t, r, p, l)
  <2> HIDE DEF Where, Given, Tagged, Replaced, Scoped, Present
  <2> QED BY <1>0
<1>2. e \in Entry \union {Absent} /\ (op = "record" => e \in Entry /\ e.sync = "unchecked")
  BY FreshIs
<1>3. t \in SUBSET Tags /\ r \in BOOLEAN /\ p \in Planes \union {Absent} /\ l \in SUBSET Backups
      /\ i \in Ids \union {Absent} /\ (Named(op) => i \in Ids)
  OBVIOUS
<1> DEFINE pc == IF Named(op) THEN "exists" ELSE "glob"
<1>5. c = [pc |-> pc, op |-> op, id |-> i, entry |-> e, tags |-> t, replace |-> r, plane |-> p,
           listed |-> l, todo |-> {}, read |-> <<>>, unreadable |-> {}, old |-> Absent,
           linked |-> FALSE, overlaid |-> FALSE, unmarked |-> {}]
  BY <1>1 DEF CallWith, Idle
<1>6. pc \in PCs
  BY DEF PCs
<1> HIDE DEF pc
<1>7. c \in CallRecords /\ c.op = op /\ c.read = <<>> /\ c.id = i /\ c.entry = e /\ c.pc = pc
  BY <1>2, <1>3, <1>5, <1>6, NothingRead DEF CallRecords, Contents
<1> QED BY <1>2, <1>3, <1>7 DEF pc

LEMMA BeginKeeps ==
  ASSUME IInv, NEW w \in Workers, NEW op \in Operations, Begin(w, op) PROVE IInv'
<1>1. PICK c \in Made(op) :
        /\ Overlaps \/ \A u \in Workers \ {w} : Touched(c) \intersect Touched(call[u]) = {}
        /\ call' = [call EXCEPT ![w] = c]
  BY DEF Begin
<1>2. /\ c \in CallRecords /\ c.op = op /\ DOMAIN c.read = {}
      /\ c.pc = IF Named(op) THEN "exists" ELSE "glob"
      /\ Named(op) => c.id \in Ids
      /\ op = "record" => c.entry \in Entry /\ c.entry.sync = "unchecked"
  BY MadeIs
<1>3. /\ UNCHANGED <<file, faults, crashes>> /\ steady' = [steady EXCEPT ![w] = Ids]
      /\ call \in [Workers -> CallRecords] /\ steady \in [Workers -> SUBSET Ids]
  BY DEF Begin, IInv, StateOK
<1>4. StateOK'
  BY <1>1, <1>2, <1>3 DEF IInv, StateOK
<1>5. CallOK(c) /\ ListOK(c, file, Ids) /\ AloneOK(c, file, Ids)
  BY <1>2 DEF CallOK, ListOK, AloneOK, WriteOK, SyncOK, Named, Operations
<1>6. /\ call'[w] = c /\ steady'[w] = Ids
      /\ \A u \in Workers \ {w} : call'[u] = call[u] /\ steady'[u] = steady[u]
  BY <1>1, <1>3
<1>7. \A u \in Workers : CallOK(call'[u]) /\ ListOK(call'[u], file', steady'[u])
  BY <1>3, <1>5, <1>6 DEF IInv
<1>8. ASSUME ~ Overlaps
      PROVE  /\ \A v, u \in Workers : v # u => Apart(call'[v], call'[u])
             /\ \A u \in Workers : AloneOK(call'[u], file', steady'[u])
  <2>1. \A v, u \in Workers : v # u => Apart(call[v], call[u])
    BY <1>8 DEF IInv, Exclusive
  <2>2. \A u \in Workers \ {w} : Apart(c, call[u]) /\ Apart(call[u], c)
    BY <1>1, <1>8 DEF Apart
  <2>3. \A v, u \in Workers : v # u => Apart(call'[v], call'[u])
    BY <1>6, <2>1, <2>2
  <2>4. \A u \in Workers : AloneOK(call'[u], file', steady'[u])
    BY <1>3, <1>5, <1>6, <1>8 DEF IInv
  <2> QED BY <2>3, <2>4
<1> QED BY <1>4, <1>7, <1>8 DEF IInv, Exclusive

LEMMA FailsKeeps == ASSUME IInv, NEW w \in Workers, Fails(w) PROVE IInv'
<1> DEFINE c == call[w]
           pc == IF c.op = "sync" THEN "next" ELSE "failed"
           unmarked == IF c.op = "sync" THEN c.unmarked \union {c.id} ELSE c.unmarked
           d == [c EXCEPT !.pc = pc, !.unmarked = unmarked]
<1>1. /\ c \in CallRecords /\ CallOK(c) /\ c.pc \in {"open", "write", "unlink"}
      /\ UNCHANGED <<file, steady, crashes>> /\ c.id \in Ids
      /\ call \in [Workers -> CallRecords] /\ ListOK(c, file, steady[w])
      /\ ~ Overlaps => AloneOK(c, file, steady[w])
  BY Known DEF Fails, CallOK, IInv, StateOK
<1>2. /\ call' = [call EXCEPT ![w].pc = pc, ![w].unmarked = unmarked]
      /\ faults' \in 0..MaxFaults /\ crashes' \in 0..MaxCrashes
  BY <1>1, Known, CatalogAssumption DEF Fails
<1>3. c.op = "sync" => c.pc # "unlink"
  BY <1>1 DEF CallOK
<1>4. /\ d \in CallRecords /\ d.pc = pc /\ d.op = c.op /\ d.id = c.id /\ d.todo = c.todo
      /\ d.read = c.read /\ d.entry = c.entry /\ d.plane = c.plane /\ d.listed = c.listed
      /\ d.unmarked = unmarked
  BY <1>1 DEF CallRecords, PCs
<1>5. call'[w] = d /\ call' \in [Workers -> CallRecords] /\ \A u \in Workers \ {w} : call'[u] = call[u]
  BY <1>1, <1>2, <1>4
<1> HIDE DEF d
<1>6. CallOK(d) /\ ListOK(d, file, steady[w]) /\ Touched(d) = Touched(c)
  BY <1>1, <1>3, <1>4 DEF CallOK, ListOK, Touched, Operations
<1>7. ASSUME ~ Overlaps PROVE AloneOK(d, file, steady[w])
  <2>1. SyncOK(c, file, steady[w]) /\ WriteOK(c, file)
    BY <1>1, <1>7 DEF AloneOK
  <2>2. \A f : (InScope(d, f) <=> InScope(c, f)) /\ Status(d, f) = Status(c, f)
    BY <1>4 DEF InScope, Status
  <2>3. ASSUME c.op = "sync" PROVE SyncOK(d, file, steady[w])
    <3>1. c.id \notin c.todo /\ (c.pc = "open" => InScope(c, file[c.id]))
      BY <1>1, <1>3, <2>1, <2>3 DEF WriteOK, Ready
    <3>2. c.pc \in {"open", "write"}
      BY <1>1, <1>3, <2>3
    <3>3. ASSUME NEW i \in Ids, i \in c.todo PROVE Waiting(d, i, file)
      BY <1>4, <2>1, <2>2, <2>3, <3>2, <3>3 DEF SyncOK, Waiting
    <3>4. ASSUME NEW i \in Ids, i \notin c.todo PROVE Settled(d, i, file, steady[w])
      <4>1. CASE c.pc = "open" /\ i = c.id
        BY <1>4, <2>2, <2>3, <3>1, <4>1 DEF Settled
      <4>2. CASE ~ (c.pc = "open" /\ i = c.id)
        <5>1. Settled(c, i, file, steady[w])
          BY <2>1, <2>3, <3>2, <3>4, <4>2 DEF SyncOK
        <5> QED BY <1>4, <2>2, <5>1 DEF Settled
      <4> QED BY <4>1, <4>2
    <3> QED BY <1>4, <2>3, <3>3, <3>4 DEF SyncOK
  <2>4. SyncOK(d, file, steady[w])
    BY <1>4, <2>3 DEF SyncOK
  <2> QED BY <1>4, <2>4 DEF AloneOK, WriteOK
<1> QED BY <1>1, <1>2, <1>5, <1>6, <1>7, Quiet

LEMMA AllIdle ==
  ASSUME NEW files, NEW kept
  PROVE  /\ CallOK(Idle) /\ ListOK(Idle, files, kept) /\ AloneOK(Idle, files, kept)
         /\ \A c : Apart(Idle, c)
  BY IdleIs DEF CallOK, ListOK, AloneOK, WriteOK, SyncOK, Apart, Idle

LEMMA CrashKeeps == ASSUME IInv, Crash PROVE IInv'
<1>1. /\ call' = [w \in Workers |-> Idle] /\ steady' = [w \in Workers |-> {}]
      /\ UNCHANGED <<file, faults>> /\ crashes' \in 0..MaxCrashes
  BY CatalogAssumption DEF Crash, IInv, StateOK
<1>2. StateOK'
  BY <1>1, IdleIs DEF IInv, StateOK
<1> QED BY <1>1, <1>2, AllIdle DEF IInv, Exclusive

LEMMA InitOK == Init => IInv
<1> SUFFICES ASSUME Init PROVE IInv
  OBVIOUS
<1>1. StateOK
  BY CatalogAssumption, IdleIs DEF Init, StateOK, Contents
<1>2. \A w \in Workers : call[w] = Idle
  BY DEF Init
<1> QED BY <1>1, <1>2, AllIdle DEF IInv, Exclusive

LEMMA StepOK == IInv /\ [Next]_vars => IInv'
<1> SUFFICES ASSUME IInv, [Next]_vars PROVE IInv'
  OBVIOUS
<1>1. ASSUME NEW w \in Workers, Step(w) PROVE IInv'
  BY <1>1, LookUpKeeps, ReadEntryKeeps, OpenKeeps, FinishKeeps, UnlinkKeeps, GlobKeeps,
     ReadNextKeeps, ReadAllKeeps, MarkNextKeeps DEF Step
<1>2. ASSUME NEW w \in Workers, NEW op \in Operations, Begin(w, op) PROVE IInv'
  BY <1>2, BeginKeeps
<1>3. ASSUME NEW w \in Workers, Fails(w) PROVE IInv'
  BY <1>3, FailsKeeps
<1>4. CASE Crash
  BY <1>4, CrashKeeps
<1>5. CASE UNCHANGED vars
  BY <1>5 DEF vars, IInv, StateOK, Exclusive
<1> QED BY <1>1, <1>2, <1>3, <1>4, <1>5 DEF Next
--------------------------------------------------------------------------------
LEMMA Types == IInv => TypeOK
<1> SUFFICES ASSUME IInv PROVE TypeOK
  OBVIOUS
<1>1. ASSUME NEW w \in Workers
      PROVE  /\ call[w].op \in Operations \union {Absent} /\ call[w].id \in Ids \union {Absent}
             /\ call[w].entry \in Entry \union {Absent}
             /\ call[w].todo \union call[w].unreadable \union call[w].unmarked \subseteq Ids
             /\ DOMAIN call[w].read \subseteq Ids /\ steady[w] \subseteq Ids
  <2>1. call[w] \in CallRecords /\ steady[w] \in SUBSET Ids
    BY Known
  <2>2. DOMAIN call[w].read \subseteq Ids
    BY <2>1, ReadsIs DEF CallRecords
  <2> QED BY <2>1, <2>2 DEF CallRecords
<1> QED BY <1>1 DEF IInv, StateOK, TypeOK, Contents

LEMMA Tells == IInv => ListTellsAll
<1> SUFFICES ASSUME IInv, NEW w \in Workers, call[w].op = "list", call[w].pc = "answered",
                    NEW id \in steady[w]
             PROVE  /\ file[id] = Torn => id \in call[w].unreadable
                    /\ file[id] \in Entry /\ Matches(call[w], file[id]) => id \in Matched(call[w])
  BY DEF ListTellsAll
<1>1. CallOK(call[w]) /\ ListOK(call[w], file, steady[w])
  BY Known
<1>2. call[w].todo = {}
  BY <1>1 DEF CallOK
<1> QED BY <1>1, <1>2 DEF ListOK, Matched

LEMMA Fits == IInv => MarksFit
<1> SUFFICES ASSUME IInv, NEW w \in Workers, call[w].op = "sync", call[w].pc = "answered", ~ Overlaps,
                    NEW id \in Ids, file[id] \in Entry
             PROVE  IF call[w].plane \in {Absent, file[id].backup.plane}
                    THEN id \in call[w].unmarked \/ file[id].sync = Status(call[w], file[id])
                    ELSE id \in steady[w]
  BY DEF MarksFit
<1>1. CallOK(call[w]) /\ SyncOK(call[w], file, steady[w])
  BY Known DEF AloneOK
<1>2. Settled(call[w], id, file, steady[w])
  BY <1>1 DEF CallOK, SyncOK
<1> QED BY <1>2 DEF Settled, InScope

LEMMA Invariance == Spec => []IInv
  BY InitOK, StepOK, PTL DEF Spec

\* What a listing and a reconciliation answer is true of the files, for any number of
\* workers and entries, whatever fails and wherever the process ends.
THEOREM AnswersFit == Spec => []CatalogInv
<1>1. IInv => CatalogInv
  BY Types, Tells, Fits DEF CatalogInv
<1> QED BY <1>1, Invariance, PTL
--------------------------------------------------------------------------------
\* What the files and the calls say the catalogue holds.
WritingIn(c, id) == c.pc = "write" /\ c.linked /\ c.id = id
HeldIn(files, calls) == [id \in Ids |->
  IF files[id] # Torn THEN files[id]
  ELSE IF \E w \in Workers : WritingIn(calls[w], id)
       THEN calls[CHOOSE w \in Workers : WritingIn(calls[w], id)].old ELSE Lost]

LEMMA HeldNow == Held = HeldIn(file, call) /\ Held' = HeldIn(file', call')
  BY DEF Held, HeldIn, Writing, WritingIn

\* Nobody writes what another is writing, and what is being written was whole.
Sound(files, calls) ==
  \A w \in Workers, id \in Ids : WritingIn(calls[w], id) =>
    /\ files[id] = Torn /\ calls[w].old \in Entry \union {Absent}
    /\ \A u \in Workers : WritingIn(calls[u], id) => u = w

LEMMA SoundIs ==
  ASSUME NEW files, NEW calls \in [Workers -> CallRecords], NEW keeps,
         \A w \in Workers : CallOK(calls[w]) /\ AloneOK(calls[w], files, keeps[w]),
         \A w, u \in Workers : w # u => Apart(calls[w], calls[u])
  PROVE  Sound(files, calls)
<1> SUFFICES ASSUME NEW w \in Workers, NEW id \in Ids, WritingIn(calls[w], id)
             PROVE  /\ files[id] = Torn /\ calls[w].old \in Entry \union {Absent}
                    /\ \A u \in Workers : WritingIn(calls[u], id) => u = w
  BY DEF Sound
<1>1. /\ calls[w].pc = "write" /\ calls[w].id = id /\ CallOK(calls[w])
      /\ Ready(calls[w], calls[w].old) /\ files[id] = Torn
  BY DEF WritingIn, AloneOK, WriteOK
<1>2. calls[w].old \in Entry \union {Absent}
  BY <1>1 DEF CallOK, Ready
<1>3. ASSUME NEW u \in Workers, u # w PROVE ~ WritingIn(calls[u], id)
  <2> SUFFICES ASSUME WritingIn(calls[u], id) PROVE FALSE
    OBVIOUS
  <2>1. calls[u].pc = "write" /\ calls[u].id = id /\ CallOK(calls[u])
    BY DEF WritingIn
  <2>2. id \in Touched(calls[u]) /\ id \in Touched(calls[w])
    BY <1>1, <2>1 DEF CallOK, Touched
  <2>3. Apart(calls[w], calls[u])
    BY <1>3
  <2> QED BY <1>1, <2>1, <2>2, <2>3 DEF Apart
<1> QED BY <1>1, <1>2, <1>3

LEMMA SoundNow ==
  ASSUME IInv, IInv', ~ Overlaps PROVE Sound(file, call) /\ Sound(file', call')
<1>1. Sound(file, call)
  <2>1. /\ call \in [Workers -> CallRecords]
        /\ \A w \in Workers : CallOK(call[w]) /\ AloneOK(call[w], file, steady[w])
        /\ \A w, u \in Workers : w # u => Apart(call[w], call[u])
    BY DEF IInv, StateOK, Exclusive
  <2> QED BY <2>1, SoundIs
<1>2. Sound(file', call')
  <2>1. /\ call' \in [Workers -> CallRecords]
        /\ \A w \in Workers : CallOK(call'[w]) /\ AloneOK(call'[w], file', steady'[w])
        /\ \A w, u \in Workers : w # u => Apart(call'[w], call'[u])
    BY DEF IInv, StateOK, Exclusive
  <2> QED BY <2>1, SoundIs
<1> QED BY <1>1, <1>2

LEMMA HeldWhole ==
  ASSUME NEW files, NEW calls, NEW id \in Ids, files[id] # Torn
  PROVE  HeldIn(files, calls)[id] = files[id]
  BY DEF HeldIn

LEMMA HeldWriting ==
  ASSUME NEW files, NEW calls, Sound(files, calls), NEW id \in Ids,
         NEW w \in Workers, WritingIn(calls[w], id)
  PROVE  HeldIn(files, calls)[id] = calls[w].old
<1> DEFINE v == CHOOSE u \in Workers : WritingIn(calls[u], id)
<1>1. v \in Workers /\ WritingIn(calls[v], id)
  OBVIOUS
<1>2. v = w /\ files[id] = Torn
  BY <1>1 DEF Sound
<1> QED BY <1>2 DEF HeldIn

LEMMA HeldLost ==
  ASSUME NEW files, NEW calls, NEW id \in Ids, files[id] = Torn,
         \A w \in Workers : ~ WritingIn(calls[w], id)
  PROVE  HeldIn(files, calls)[id] = Lost
  BY DEF HeldIn

\* What an entry is taken to hold changes only with its file, or with its writer.
LEMMA HeldSame ==
  ASSUME NEW files, NEW calls, NEW files2, NEW calls2,
         Sound(files, calls), Sound(files2, calls2), NEW id \in Ids, files2[id] = files[id],
         \A w \in Workers : WritingIn(calls2[w], id) <=> WritingIn(calls[w], id),
         \A w \in Workers : WritingIn(calls[w], id) => calls2[w].old = calls[w].old
  PROVE  HeldIn(files2, calls2)[id] = HeldIn(files, calls)[id]
<1>1. CASE files[id] # Torn
  BY <1>1, HeldWhole
<1>2. CASE \E w \in Workers : WritingIn(calls[w], id)
  <2>1. PICK w \in Workers : WritingIn(calls[w], id)
    BY <1>2
  <2>2. HeldIn(files, calls)[id] = calls[w].old
    BY <2>1, HeldWriting
  <2>3. HeldIn(files2, calls2)[id] = calls2[w].old
    BY <2>1, HeldWriting
  <2> QED BY <2>1, <2>2, <2>3
<1>3. CASE files[id] = Torn /\ \A w \in Workers : ~ WritingIn(calls[w], id)
  BY <1>3, HeldLost
<1> QED BY <1>1, <1>2, <1>3
\* Steps that neither end nor begin a write.
LEMMA Still ==
  ASSUME IInv, IInv', ~ Overlaps, file' = file,
         \A w \in Workers : call'[w] = call[w] \/ (call[w].pc # "write" /\ call'[w].pc # "write")
  PROVE  Held' = Held
<1>1. Sound(file, call) /\ Sound(file', call')
  BY SoundNow
<1>2. ASSUME NEW id \in Ids PROVE HeldIn(file', call')[id] = HeldIn(file, call)[id]
  <2>1. \A w \in Workers : WritingIn(call'[w], id) <=> WritingIn(call[w], id)
    BY DEF WritingIn
  <2>2. \A w \in Workers : WritingIn(call[w], id) => call'[w].old = call[w].old
    BY DEF WritingIn
  <2> QED BY <1>1, <2>1, <2>2, HeldSame
<1>3. HeldIn(file', call') = HeldIn(file, call)
  <2>1. HeldIn(file', call') = [id \in Ids |-> HeldIn(file', call')[id]]
    BY DEF HeldIn
  <2>2. HeldIn(file, call) = [id \in Ids |-> HeldIn(file, call)[id]]
    BY DEF HeldIn
  <2> QED BY <1>2, <2>1, <2>2
<1> QED BY <1>3, HeldNow

\* A step that changes what one entry is taken to hold.
LEMMA OneChanges ==
  ASSUME IInv, IInv', ~ Overlaps, NEW w \in Workers, NEW id \in Ids, NEW content,
         call[w].id = id \/ ~ WritingIn(call[w], call[w].id),
         call'[w].id = id \/ ~ WritingIn(call'[w], call'[w].id),
         \A i \in Ids \ {id} : file'[i] = file[i],
         \A u \in Workers \ {w} : call'[u] = call[u],
         HeldIn(file', call')[id] = content
  PROVE  Held' = [Held EXCEPT ![id] = content]
<1>1. Sound(file, call) /\ Sound(file', call')
  BY SoundNow
<1>2. ASSUME NEW i \in Ids \ {id} PROVE HeldIn(file', call')[i] = HeldIn(file, call)[i]
  <2>1. ASSUME NEW u \in Workers PROVE WritingIn(call'[u], i) <=> WritingIn(call[u], i)
    BY DEF WritingIn
  <2>2. ASSUME NEW u \in Workers, WritingIn(call[u], i) PROVE call'[u].old = call[u].old
    BY <2>2 DEF WritingIn
  <2> QED BY <1>1, <2>1, <2>2, HeldSame
<1>3. HeldIn(file', call') = [i \in Ids |-> HeldIn(file', call')[i]]
  BY DEF HeldIn
<1>4. HeldIn(file, call) = [i \in Ids |-> HeldIn(file, call)[i]]
  BY DEF HeldIn
<1>5. HeldIn(file', call') = [HeldIn(file, call) EXCEPT ![id] = content]
  BY <1>2, <1>3, <1>4
<1> QED BY <1>5, HeldNow

LEMMA OpenIsNothing ==
  ASSUME IInv, IInv', ~ Overlaps, NEW w \in Workers, Open(w) PROVE Held' = Held
<1> DEFINE c == call[w]
           id == c.id
           d == [c EXCEPT !.pc = "write", !.old = file[id], !.linked = TRUE, !.overlaid = FALSE]
<1>1. /\ c \in CallRecords /\ CallOK(c) /\ c.pc = "open" /\ id \in Ids
      /\ c.op \in {"record", "update", "sync"}
      /\ call \in [Workers -> CallRecords] /\ file \in [Ids -> Contents]
      /\ Write(id, Torn) /\ Ready(c, file[id])
  BY Known DEF Open, CallOK, IInv, StateOK, AloneOK, WriteOK
<1>2. call' = [call EXCEPT ![w].pc = "write", ![w].old = file[id], ![w].linked = TRUE, ![w].overlaid = FALSE]
  BY DEF Open
<1>3. d.pc = "write" /\ d.id = id /\ d.old = file[id] /\ d.linked
  BY <1>1 DEF CallRecords
<1>4. call'[w] = d /\ \A u \in Workers \ {w} : call'[u] = call[u]
  BY <1>1, <1>2
<1> HIDE DEF d
<1>5. file[id] # Torn
  BY <1>1, Distinct DEF Ready
<1>6. Sound(file, call) /\ Sound(file', call')
  BY SoundNow
<1>7. HeldIn(file', call')[id] = file[id]
  <2>1. WritingIn(call'[w], id)
    BY <1>3, <1>4 DEF WritingIn
  <2> QED BY <1>1, <1>3, <1>4, <1>6, <2>1, HeldWriting
<1>8. Held[id] = file[id]
  BY <1>1, <1>5, HeldWhole, HeldNow
<1>9. ~ WritingIn(c, id)
  BY <1>1 DEF WritingIn
<1>10. \A i \in Ids \ {id} : file'[i] = file[i]
  BY <1>1 DEF Write
<1>11. Held' = [Held EXCEPT ![id] = file[id]]
  BY <1>1, <1>3, <1>4, <1>7, <1>9, <1>10, OneChanges
<1> QED BY <1>8, <1>11 DEF Held

\* What an entry becomes is recorded, retagged or marked.
LEMMA PromisedEntry == Promise!Entry = Entry /\ Promise!Marks = Marks
  BY DEF Promise!Entry, Promise!Marks, Entry, Marks

LEMMA SameSize == \A some : Promise!Cardinality(some) = Cardinality(some)
  BY DEF Promise!Cardinality, Cardinality

LEMMA WriteIsPromised ==
  ASSUME IInv, ~ Overlaps, NEW c \in CallRecords, CallOK(c), c.pc = "write", Ready(c, c.old),
         NEW id \in Ids, Held[id] = c.old, Held' = [Held EXCEPT ![id] = c.entry]
  PROVE  Promise!CatalogNext
<1>1. c.op \in {"record", "update", "sync"} /\ c.entry \in Entry
  BY DEF CallOK
<1>2. CASE c.op = "record"
  <2>1. Held[id] = Absent /\ c.entry.sync = "unchecked"
    BY <1>2 DEF Ready
  <2>2. Promise!Record(id)
    BY <1>1, <2>1, PromisedEntry DEF Promise!Record, Promise!Put
  <2> QED BY <2>2 DEF Promise!CatalogNext
<1>3. CASE c.op = "update"
  <2>1. PICK t \in SUBSET Tags : Held[id] \in Entry /\ c.entry = [Held[id] EXCEPT !.tags = t]
    BY <1>3 DEF Ready
  <2>2. Promise!Retag(id)
    BY <2>1, PromisedEntry DEF Promise!Retag, Promise!Put
  <2> QED BY <2>2 DEF Promise!CatalogNext
<1>4. CASE c.op = "sync"
  <2>1. Held[id] \in Entry /\ c.entry = [Held[id] EXCEPT !.sync = Status(c, Held[id])]
    BY <1>4 DEF Ready
  <2>2. Status(c, Held[id]) \in Marks \ {"unchecked"}
    BY <2>1, MarkedIs
  <2>3. Promise!Mark(id)
    BY <2>1, <2>2, PromisedEntry DEF Promise!Mark, Promise!Put
  <2> QED BY <2>3 DEF Promise!CatalogNext
<1> QED BY <1>1, <1>2, <1>3, <1>4

LEMMA FinishIsPromised ==
  ASSUME IInv, IInv', ~ Overlaps, NEW w \in Workers, Finish(w) PROVE Promise!CatalogNext
<1> DEFINE c == call[w]
           id == c.id
           d == [c EXCEPT !.pc = Afterwards(w)]
<1>1. /\ c \in CallRecords /\ CallOK(c) /\ c.pc = "write" /\ id \in Ids /\ c.entry \in Entry
      /\ c.op \in {"record", "update", "sync"}
      /\ call \in [Workers -> CallRecords] /\ file \in [Ids -> Contents]
      /\ Ready(c, c.old) /\ c.linked /\ ~ c.overlaid
  BY Known DEF Finish, CallOK, IInv, StateOK, AloneOK, WriteOK
<1>2. Write(id, c.entry)
  BY <1>1 DEF Finish
<1>3. call'[w] = d
  BY DEF Finish
<1>4. ASSUME NEW u \in Workers \ {w} PROVE call'[u] = call[u]
  <2>1. id \in Touched(c)
    BY <1>1 DEF Touched
  <2>2. ~ Writing(u, id)
    BY <1>1, <2>1, AloneWriting
  <2>3. call'[u] = [call[u] EXCEPT !.overlaid = @ \/ FALSE]
    BY <2>2 DEF Finish
  <2> QED BY <1>1, <2>3 DEF CallRecords
<1>5. d.pc # "write" /\ d.id = id
  BY <1>1 DEF Afterwards, CallRecords
<1>6. Sound(file, call)
  BY SoundNow
<1>7. Held[id] = c.old
  <2>1. WritingIn(call[w], id)
    BY <1>1 DEF WritingIn
  <2> QED BY <1>1, <1>6, <2>1, HeldWriting, HeldNow
<1>8. file' = [file EXCEPT ![id] = c.entry]
  BY <1>2 DEF Write
<1>9. HeldIn(file', call')[id] = c.entry
  <2>1. file'[id] = c.entry /\ c.entry # Torn
    BY <1>1, <1>8, Distinct
  <2> QED BY <1>1, <2>1, HeldWhole
<1>10. Held' = [Held EXCEPT ![id] = c.entry]
  <2>1. \A i \in Ids \ {id} : file'[i] = file[i]
    BY <1>1, <1>8
  <2>2. \A u \in Workers \ {w} : call'[u] = call[u]
    BY <1>4
  <2>3. call[w].id = id /\ call'[w].id = id
    BY <1>3, <1>5
  <2> HIDE DEF d, id, c
  <2> QED BY <1>1, <1>9, <2>1, <2>2, <2>3, OneChanges
<1> HIDE DEF d
<1> QED BY <1>1, <1>7, <1>10, WriteIsPromised

LEMMA UnlinkIsPromised ==
  ASSUME IInv, IInv', ~ Overlaps, NEW w \in Workers, Unlink(w)
  PROVE  Promise!CatalogNext \/ Held' = Held
<1> DEFINE c == call[w]
           id == c.id
<1>1. /\ c \in CallRecords /\ CallOK(c) /\ c.pc = "unlink" /\ id \in Ids /\ c.op = "delete"
      /\ call \in [Workers -> CallRecords] /\ file \in [Ids -> Contents]
  BY Known DEF Unlink, CallOK, IInv, StateOK
<1>2. CASE Goto(w, "failed") /\ UNCHANGED <<file, steady>>
  <2>1. call'[w].pc = "failed" /\ \A u \in Workers \ {w} : call'[u] = call[u]
    BY <1>2, GotoIs DEF PCs
  <2> QED BY <1>1, <1>2, <2>1, Still
<1>3. CASE /\ file[id] # Absent /\ Write(id, Absent)
           /\ call' = [u \in Workers |->
                CASE u = w           -> [c EXCEPT !.pc = "answered"]
                  [] Writing(u, id) -> [call[u] EXCEPT !.linked = FALSE]
                  [] OTHER            -> call[u]]
  <2>1. id \in Touched(c)
    BY <1>1 DEF Touched
  <2>2. ASSUME NEW u \in Workers \ {w} PROVE ~ Writing(u, id)
    BY <1>1, <2>1, AloneWriting
  <2>3. ASSUME NEW u \in Workers \ {w} PROVE call'[u] = call[u]
    BY <1>3, <2>2
  <2>4. ~ Writing(w, id)
    BY <1>1 DEF Writing
  <2>5. call'[w] = [c EXCEPT !.pc = "answered"]
    BY <1>3, <2>4
  <2>6. call'[w].pc = "answered" /\ call'[w].id = id
    BY <1>1, <2>5 DEF CallRecords
  <2>7. file' = [file EXCEPT ![id] = Absent]
    BY <1>3 DEF Write
  <2>8. HeldIn(file', call')[id] = Absent
    <3>1. file'[id] = Absent /\ file'[id] # Torn
      BY <1>1, <2>7, Distinct
    <3> QED BY <1>1, <3>1, HeldWhole
  <2>9. Held' = [Held EXCEPT ![id] = Absent]
    BY <1>1, <2>3, <2>6, <2>7, <2>8, OneChanges
  <2>10. Held[id] # Absent
    <3>1. \A u \in Workers : ~ WritingIn(call[u], id)
      BY <2>2, <2>4 DEF Writing, WritingIn
    <3>2. CASE file[id] = Torn
      BY <1>1, <3>1, <3>2, HeldLost, HeldNow, Distinct
    <3>3. CASE file[id] # Torn
      BY <1>1, <1>3, <3>3, HeldWhole, HeldNow
    <3> QED BY <3>2, <3>3
  <2>11. Promise!Remove(id)
    BY <2>9, <2>10 DEF Promise!Remove, Promise!Put
  <2> QED BY <1>1, <2>11 DEF Promise!CatalogNext
<1> QED BY <1>2, <1>3 DEF Unlink

LEMMA FailsIsPromised ==
  ASSUME IInv, IInv', ~ Overlaps, NEW w \in Workers, Fails(w)
  PROVE  Promise!CatalogNext \/ Held' = Held
<1> DEFINE c == call[w]
           id == c.id
           pc == IF c.op = "sync" THEN "next" ELSE "failed"
           unmarked == IF c.op = "sync" THEN c.unmarked \union {c.id} ELSE c.unmarked
           d == [c EXCEPT !.pc = pc, !.unmarked = unmarked]
<1>1. /\ c \in CallRecords /\ CallOK(c) /\ c.pc \in {"open", "write", "unlink"} /\ id \in Ids
      /\ call \in [Workers -> CallRecords] /\ file \in [Ids -> Contents] /\ file' = file
      /\ call' = [call EXCEPT ![w].pc = pc, ![w].unmarked = unmarked]
      /\ WriteOK(c, file)
  BY Known DEF Fails, CallOK, IInv, StateOK, AloneOK
<1>2. d.pc = pc /\ d.id = id /\ pc # "write"
  BY <1>1 DEF CallRecords
<1>3. call'[w] = d /\ \A u \in Workers \ {w} : call'[u] = call[u]
  BY <1>1
<1> HIDE DEF d, pc
<1>4. CASE c.pc # "write"
  BY <1>1, <1>2, <1>3, <1>4, Still
<1>5. CASE c.pc = "write"
  <2>1. Sound(file, call)
    BY SoundNow
  <2>2. WritingIn(call[w], id) /\ file[id] = Torn
    BY <1>1, <1>5 DEF WriteOK, WritingIn
  <2>3. \A u \in Workers : ~ WritingIn(call'[u], id)
    BY <1>1, <1>2, <1>3, <2>1, <2>2 DEF WritingIn, Sound
  <2>4. HeldIn(file', call')[id] = Lost
    <3>1. file'[id] = Torn
      BY <1>1, <2>2
    <3>2. id \in Ids
      BY <1>1
    <3> HIDE DEF id
    <3> QED BY <2>3, <3>1, <3>2, HeldLost
  <2>5. Held' = [Held EXCEPT ![id] = Lost]
    <3>1. \A i \in Ids \ {id} : file'[i] = file[i]
      BY <1>1
    <3>2. call[w].id = id /\ call'[w].id = id
      BY <1>2, <1>3
    <3>3. \A u \in Workers \ {w} : call'[u] = call[u]
      BY <1>3
    <3>4. id \in Ids
      BY <1>1
    <3> HIDE DEF id, c
    <3> QED BY <2>4, <3>1, <3>2, <3>3, <3>4, OneChanges
  <2>6. Held' = [i \in Ids |-> IF i \in {id} THEN Lost ELSE Held[i]]
    BY <2>5 DEF Held
  <2>7. Cardinality({id}) <= Cardinality(Workers)
    <3>1. IsFiniteSet(Workers) /\ {w} \in SUBSET Workers
      BY CatalogAssumption
    <3>2. Cardinality({w}) <= Cardinality(Workers)
      BY <3>1, FS_Subset
    <3>3. Cardinality({w}) = 1 /\ Cardinality({id}) = 1
      BY FS_Singleton
    <3> QED BY <3>2, <3>3
  <2>8. Promise!Lose({id})
    BY <2>6, <2>7, SameSize DEF Promise!Lose
  <2>9. {id} \in SUBSET Ids
    BY <1>1
  <2> QED BY <2>8, <2>9 DEF Promise!CatalogNext
<1> QED BY <1>4, <1>5

LEMMA CrashIsPromised ==
  ASSUME IInv, IInv', ~ Overlaps, Crash PROVE Promise!CatalogNext
<1> DEFINE writers == {w \in Workers : WritingIn(call[w], call[w].id) /\ call[w].id \in Ids}
           some == {id \in Ids : \E w \in Workers : WritingIn(call[w], id)}
           whose == [w \in writers |-> call[w].id]
<1>1. call' = [w \in Workers |-> Idle] /\ file' = file
  BY DEF Crash
<1>2. \A w \in Workers, id \in Ids : ~ WritingIn(call'[w], id)
  BY <1>1, IdleIs DEF WritingIn
<1>3. Sound(file, call) /\ Sound(file', call')
  BY SoundNow
<1>4. IsFiniteSet(writers) /\ Cardinality(writers) <= Cardinality(Workers)
  <2>1. IsFiniteSet(Workers) /\ writers \in SUBSET Workers
    BY CatalogAssumption
  <2> QED BY <2>1, FS_Subset
<1>5. IsFiniteSet(some) /\ Cardinality(some) <= Cardinality(writers)
  <2>1. whose \in [writers -> some]
    OBVIOUS
  <2>2. ASSUME NEW id \in some PROVE \E w \in writers : whose[w] = id
    BY DEF WritingIn
  <2>3. whose \in Surjection(writers, some)
    BY <2>1, <2>2 DEF Surjection
  <2> HIDE DEF whose, writers, some
  <2> QED BY <1>4, <2>3, FS_Surjection
<1>6. Cardinality(some) <= Cardinality(Workers)
  <2>1. Cardinality(some) \in Nat /\ Cardinality(writers) \in Nat /\ Cardinality(Workers) \in Nat
    BY <1>4, <1>5, FS_CardinalityType, CatalogAssumption
  <2> HIDE DEF some, writers
  <2> QED BY <1>4, <1>5, <2>1
<1>7. ASSUME NEW id \in Ids
      PROVE  HeldIn(file', call')[id] = IF id \in some THEN Lost ELSE HeldIn(file, call)[id]
  <2>1. CASE id \in some
    <3>1. file[id] = Torn
      BY <1>3, <2>1 DEF Sound
    <3> QED BY <1>1, <1>2, <2>1, <3>1, HeldLost
  <2>2. CASE id \notin some
    BY <1>1, <1>2, <1>3, <2>2, HeldSame
  <2> QED BY <2>1, <2>2
<1>8. HeldIn(file', call') = [id \in Ids |-> HeldIn(file', call')[id]]
  BY DEF HeldIn
<1>9. HeldIn(file', call') = [id \in Ids |-> IF id \in some THEN Lost ELSE HeldIn(file, call)[id]]
  BY <1>7, <1>8
<1>10. Held' = [id \in Ids |-> IF id \in some THEN Lost ELSE Held[id]]
  BY <1>9, HeldNow
<1>11. some \in SUBSET Ids
  OBVIOUS
<1> HIDE DEF some
<1>12. Promise!Lose(some)
  BY <1>6, <1>10, SameSize DEF Promise!Lose
<1> QED BY <1>11, <1>12 DEF Promise!CatalogNext

\* Of one worker's call, a step that reads or looks up writes nothing.
LEMMA StepIsNothing ==
  ASSUME IInv, IInv', ~ Overlaps, NEW w \in Workers,
         LookUp(w) \/ ReadEntry(w) \/ Glob(w) \/ ReadNext(w) \/ ReadAll(w) \/ MarkNext(w)
  PROVE  Held' = Held
<1>1. call \in [Workers -> CallRecords] /\ call[w] \in CallRecords
  BY DEF IInv, StateOK
<1>2. /\ file' = file /\ call[w].pc # "write" /\ \A u \in Workers \ {w} : call'[u] = call[u]
      /\ call'[w].pc # "write"
  <2>1. CASE LookUp(w)
    BY <1>1, <2>1 DEF LookUp, Goto, Unchanging, CallRecords
  <2>2. CASE ReadEntry(w)
    BY <1>1, <2>2 DEF ReadEntry, Goto, Unchanging, CallRecords
  <2>3. CASE Glob(w)
    BY <1>1, <2>3 DEF Glob, Goto, Unchanging, CallRecords
  <2>4. CASE ReadNext(w)
    BY <1>1, <2>4 DEF ReadNext, Goto, Unchanging, CallRecords
  <2>5. CASE ReadAll(w)
    BY <1>1, <2>5 DEF ReadAll, Goto, Unchanging, CallRecords
  <2>6. CASE MarkNext(w)
    BY <1>1, <2>6 DEF MarkNext, Goto, Unchanging, CallRecords
  <2> QED BY <2>1, <2>2, <2>3, <2>4, <2>5, <2>6
<1> QED BY <1>2, Still

LEMMA BeginIsNothing ==
  ASSUME IInv, IInv', ~ Overlaps, NEW w \in Workers, NEW op \in Operations, Begin(w, op)
  PROVE  Held' = Held
<1>1. PICK c \in Made(op) : call' = [call EXCEPT ![w] = c]
  BY DEF Begin
<1>2. c.pc # "write" /\ file' = file /\ call[w].pc = "idle"
  BY MadeIs DEF Begin
<1>3. call'[w] = c /\ \A u \in Workers \ {w} : call'[u] = call[u]
  BY <1>1 DEF IInv, StateOK
<1> QED BY <1>2, <1>3, Still

LEMMA StepIsPromised ==
  IInv /\ IInv' /\ ~ Overlaps /\ [Next]_vars => [Promise!CatalogNext]_Held
<1> SUFFICES ASSUME IInv, IInv', ~ Overlaps, [Next]_vars
             PROVE  Promise!CatalogNext \/ Held' = Held
  OBVIOUS
<1>1. ASSUME NEW w \in Workers, Step(w) PROVE Promise!CatalogNext \/ Held' = Held
  BY <1>1, StepIsNothing, OpenIsNothing, FinishIsPromised, UnlinkIsPromised DEF Step
<1>2. ASSUME NEW w \in Workers, NEW op \in Operations, Begin(w, op) PROVE Held' = Held
  BY <1>2, BeginIsNothing
<1>3. ASSUME NEW w \in Workers, Fails(w) PROVE Promise!CatalogNext \/ Held' = Held
  BY <1>3, FailsIsPromised
<1>4. CASE Crash
  BY <1>4, CrashIsPromised
<1>5. CASE UNCHANGED vars
  BY <1>5 DEF vars, Held, Writing
<1> QED BY <1>1, <1>2, <1>3, <1>4, <1>5 DEF Next

LEMMA InitIsPromised == Init => Promise!CatalogInit
<1> SUFFICES ASSUME Init PROVE Held \in [Ids -> Promise!Entry \union {Absent, Lost}]
  BY DEF Promise!CatalogInit
<1>1. \A w \in Workers, id \in Ids : ~ WritingIn(call[w], id)
  BY IdleIs DEF Init, WritingIn
<1>2. ASSUME NEW id \in Ids PROVE HeldIn(file, call)[id] \in Entry \union {Absent, Lost}
  <2>1. file[id] \in Entry \union {Absent, Torn}
    BY CatalogAssumption DEF Init
  <2> QED BY <1>1, <2>1, HeldWhole, HeldLost
<1>3. HeldIn(file, call) = [id \in Ids |-> HeldIn(file, call)[id]]
  BY DEF HeldIn
<1>4. HeldIn(file, call) \in [Ids -> Entry \union {Absent, Lost}]
  BY <1>2, <1>3
<1> QED BY <1>4, HeldNow, PromisedEntry

\* While no two calls change the same entry at once, the files are the promised
\* catalogue, step by step: an entry is made only where there is none, keeps its pointer,
\* is marked but never removed by a reconciliation, and is lost only by a failure or a
\* crash in the middle of its own write.
THEOREM FilesAreACatalog == ASSUME ~ Overlaps PROVE Spec => Implements
<1>1. IInv /\ IInv' /\ [Next]_vars => [Promise!CatalogNext]_Held
  BY StepIsPromised
<1>2. Spec => []IInv
  BY Invariance
<1> QED BY <1>1, <1>2, InitIsPromised, PTL DEF Spec, Implements, Promise!CatalogSpec
================================================================================
