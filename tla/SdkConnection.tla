----------------------------- MODULE SdkConnection -----------------------------
(* The one SDK connection the handlers share (handlers/shared.py,               *)
(* get_sdk_cluster): read without the lock, built under it, published only once   *)
(* the cluster is ready.  Handlers run on worker threads, several at once.         *)
EXTENDS FiniteSets

CONSTANTS
  Workers,  \* the threads that handle calls
  Nobody    \* no worker

ASSUME ConnectionAssumption == Nobody \notin Workers

VARIABLES
  cached,   \* _cluster: the worker that built it, or Nobody while there is none
  holder,   \* who holds _cluster_lock
  opened,   \* the workers whose Cluster is open
  stage     \* worker -> where it is in get_sdk_cluster

connectionVars == <<cached, holder, opened, stage>>

Stages == {"out", "waiting", "building", "readying", "leaving", "ready", "failed"}
InLock == {"building", "readying", "leaving"}

ConnectionInit ==
  /\ cached = Nobody /\ holder = Nobody /\ opened = {}
  /\ stage = [w \in Workers |-> "out"]

To(w, s) == stage' = [stage EXCEPT ![w] = s]

\* The unlocked read.
Ask(w) ==
  /\ stage[w] = "out"
  /\ To(w, IF cached # Nobody THEN "ready" ELSE "waiting")
  /\ UNCHANGED <<cached, holder, opened>>

\* Defect: the second check is missing.
EnterUnchecked(w) ==
  /\ stage[w] = "waiting" /\ holder = Nobody
  /\ holder' = w /\ To(w, "building")
  /\ UNCHANGED <<cached, opened>>

\* The lock is taken and the cache read once more.
Enter(w) ==
  /\ stage[w] = "waiting" /\ holder = Nobody
  /\ holder' = w /\ To(w, IF cached # Nobody THEN "leaving" ELSE "building")
  /\ UNCHANGED <<cached, opened>>

\* Defect: published before it is ready.
OpenPublishing(w) ==
  /\ stage[w] = "building"
  /\ opened' = opened \union {w} /\ cached' = w /\ To(w, "readying")
  /\ UNCHANGED holder

\* Cluster(conn_str, opts), kept in a local.
Open(w) ==
  /\ stage[w] = "building"
  /\ opened' = opened \union {w} /\ To(w, "readying")
  /\ UNCHANGED <<cached, holder>>

\* Defect: a build that fails keeps the lock.
GiveUpHolding(w) ==
  /\ stage[w] \in {"building", "readying"}
  /\ opened' = opened \ {w} /\ To(w, "failed")
  /\ UNCHANGED <<cached, holder>>

\* wait_until_ready fails, or nothing could be opened: the cache stays empty.
GiveUp(w) ==
  /\ stage[w] \in {"building", "readying"}
  /\ opened' = opened \ {w} /\ holder' = Nobody /\ To(w, "failed")
  /\ UNCHANGED cached

Publish(w) ==
  /\ stage[w] = "readying"
  /\ cached' = w /\ holder' = Nobody /\ To(w, "ready")
  /\ UNCHANGED opened

Leave(w) ==
  /\ stage[w] = "leaving"
  /\ holder' = Nobody /\ To(w, "ready")
  /\ UNCHANGED <<cached, opened>>

\* The handler goes on with the connection, or without one.
GoOn(w) ==
  /\ stage[w] \in {"ready", "failed"} /\ To(w, "out")
  /\ UNCHANGED <<cached, holder, opened>>

ConnectionStep(w) ==
  Ask(w) \/ Enter(w) \/ Open(w) \/ GiveUp(w) \/ Publish(w) \/ Leave(w) \/ GoOn(w)

ConnectionSpec ==
  ConnectionInit /\ [][\E w \in Workers : ConnectionStep(w)]_connectionVars
--------------------------------------------------------------------------------
ConnectionTypeOK ==
  /\ cached \in Workers \union {Nobody} /\ holder \in Workers \union {Nobody}
  /\ opened \subseteq Workers /\ stage \in [Workers -> Stages]

\* However many calls arrive at once and however builds fail, there is never a second
\* open connection, and one that is open is the cached one or is being built.
OneConnection == \A v, w \in opened : v = w

\* What a handler finds in the cache is open and became ready, and stays so: a build
\* that failed leaves nothing behind for the next call to find.
CachedIsReady ==
  cached # Nobody => opened = {cached} /\ \A w \in Workers : stage[w] \notin {"building", "readying"}

\* The cached connection, however calls race and builds fail: one, and ready.
ConnectionInv == OneConnection /\ CachedIsReady
================================================================================
